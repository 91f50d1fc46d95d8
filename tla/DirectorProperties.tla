------------------------- MODULE DirectorProperties -------------------------
(***************************************************************************)
(* What has to hold of the calls between Java and the core, and the proof  *)
(* obligation that the directors implement virtual calls.                  *)
(***************************************************************************)
EXTENDS Director

Frames(t) == {stack[t][i] : i \in DOMAIN stack[t]}

(* An upcall ends up in the Java method of the same name, and its slot has *)
(* the same method in the three tables, with the arguments the director    *)
(* passes: the file numbers 33 methods by hand-over of positions.          *)
OwnMethod ==
  \A t \in Threads : Is(t, "java", {"body", "raise"}) =>
    LET m == Below(t)[Len(Below(t))].method
        u == Upcalls[m]
    IN /\ Top(t).method = m
       /\ OverrideMethods[u.slot + 1][1] = m
       /\ DirectorMethods[u.slot + 1] =
            <<m, [i \in DOMAIN u.args |-> JniType(u.args[i])], JniType(u.result)>>

(* "Cannot invoke methods with any pending exceptions": no Java method is  *)
(* running or about to be called, and the core does not go on, with a Java *)
(* exception pending.                                                      *)
NoPendingException ==
  \A t \in Threads :
    InJava(t) \/ InCore(t) \/ Is(t, "upcall", {"enter", "self"}) => ~pending[t]

(* While a session runs, connect() has no local reference of an upcall     *)
(* left: thousands of events, log lines and addresses of one session share *)
(* its table of local references.                                          *)
RefsBalanced ==
  \A t \in Threads : \A f \in Frames(t) : f.at = "running" => f.refs = 0

(* Java runs on threads the VM knows, and a call neither detaches a thread *)
(* of Java nor leaves one of the core attached.                            *)
AttachBalanced ==
  \A t \in Threads :
    /\ attached[t] <=> t \notin Workers \/ \E f \in Frames(t) : f.attaches
    /\ (\E f \in Frames(t) : f.code = "java") => attached[t]

(* A null argument does not reach the core, and the 0 returned instead is  *)
(* not taken for the address of an object: an exception is pending.        *)
NullIsRejected ==
  \A t \in Threads : \A f \in Frames(t) : f.code = "wrapper" =>
    /\ f.null => f.at \in {"check", "zero"}
    /\ f.at = "zero" => pending[t]

(* A body that calls the method of its superclass does not call itself,    *)
(* and its exception does not leave a JNI function as a C++ exception,     *)
(* which nothing there would catch.                                        *)
SuperIsSafe ==
  /\ ~escaped
  /\ \A t \in Threads : \A i, j \in DOMAIN stack[t] :
       stack[t][i].code = "java" /\ stack[t][j].code = "java"
         /\ stack[t][i].method = stack[t][j].method => i = j

-----------------------------------------------------------------------------
(* What the program does that the proofs rely on.                          *)

(* Of the methods the class overrides, Java calls on to the superclass     *)
(* only for protected ones: the bodies of ManagementHandler do not call    *)
(* those of their superclass.                                              *)
NoWayBack == JavaMethods \cap Overridden \subseteq DOMAIN Explicit

(* The core only calls methods that have a body, in Java or in C++.        *)
CallbacksHaveBodies == \A m \in CoreMethods : Upcalls[m].pure => m \in Overridden

(* No body returns null for a vector, and the program neither deletes its  *)
(* client nor hands it over.                                               *)
Callbacks ==
  /\ ReturnsNull = {} /\ CallbacksHaveBodies
  /\ ~Deletes /\ ~Transfers

-----------------------------------------------------------------------------
(* The virtual calls of a stack, in the terms of VirtualCall.  An exception *)
(* left pending is one for a caller that goes straight back to Java.       *)
Phase(at, fromJava) ==
  CASE at \in {"enter", "self"}                -> "called"
    [] at = "java"                             -> "java"
    [] at = "base" \/ (at = "pure" /\ fromJava) -> "native"
    [] at \in {"value", "networks", "freed"}   -> "value"
    [] at = "thrown" \/ (at = "default" /\ fromJava) -> "exception"
    [] OTHER                                   -> "failed"

(* The frames of a thread come in turns: a JNI function, a director and a  *)
(* body of Java.  A thread of the core starts with a director.             *)
Turn(worker) == IF worker THEN 2 ELSE 1

UpcallAt(s, i) ==
  [method |-> s[i].method,
   phase  |-> Phase(s[i].at, i > 1 /\ s[i - 1].at = "calling")]

UpcallsOf(s, worker) ==
  [k \in 1 .. ((Len(s) + Turn(worker)) \div 3) |-> UpcallAt(s, 3 * k - Turn(worker))]

VirtualCalls == [t \in Threads |-> UpcallsOf(stack[t], t \in Workers)]

VC == INSTANCE VirtualCall WITH
        active <- VirtualCalls, Methods <- DOMAIN Upcalls

(* The directors implement virtual calls: each upcall runs the most        *)
(* derived body once, with the proxy found, and its value or its exception *)
(* comes back to C++.                                                      *)
ImplementsVirtualCall == VC!Spec

=============================================================================
