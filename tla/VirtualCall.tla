---------------------------- MODULE VirtualCall ----------------------------
(***************************************************************************)
(* What the directors promise: a call of a virtual method of the C++       *)
(* client runs the most derived body once, the one of the Java class if it *)
(* overrides the method and the C++ one otherwise, and gives the caller    *)
(* what that body gave: its value, or its exception.                       *)
(***************************************************************************)
EXTENDS Naturals, Sequences

CONSTANTS
  Threads,      \* the threads that call
  Methods,      \* the virtual methods
  Overridden    \* those the Java class overrides

VARIABLE active   \* per thread: the calls in progress, the innermost last

Call == [method : Methods,
         phase : {"called", "java", "native", "value", "exception"}]

Init == active = [t \in Threads |-> <<>>]

Innermost(t) == active[t][Len(active[t])]

Pass(t, from, to) ==
  /\ active[t] # <<>> /\ Innermost(t).phase \in from
  /\ active' = [active EXCEPT ![t][Len(active[t])].phase = to]

(* C++ code calls a method: at the bottom, or below a Java body.           *)
Invoke(t) ==
  /\ active[t] # <<>> => Innermost(t).phase = "java"
  /\ \E m \in Methods :
       active' = [active EXCEPT ![t] = Append(@, [method |-> m, phase |-> "called"])]

Execute(t) ==
  /\ active[t] # <<>>
  /\ Pass(t, {"called"},
          IF Innermost(t).method \in Overridden THEN "java" ELSE "native")

Value(t) == Pass(t, {"java", "native"}, "value")

Exception(t) == Pass(t, {"java", "native"}, "exception")

Return(t) ==
  /\ active[t] # <<>> /\ Innermost(t).phase \in {"value", "exception"}
  /\ active' = [active EXCEPT ![t] = SubSeq(@, 1, Len(@) - 1)]

Next ==
  \E t \in Threads :
    Invoke(t) \/ Execute(t) \/ Value(t) \/ Exception(t) \/ Return(t)

Spec == Init /\ [][Next]_active

=============================================================================
