-------------------------- MODULE VirtualCallProofs --------------------------
(***************************************************************************)
(* Proofs about the calls of virtual methods across the border, for any    *)
(* threads, methods and depth: a method that calls its superclass does not *)
(* call itself, no Java exception is pending where code goes on, and the   *)
(* directors implement VirtualCall.  They rest on the shape of the stacks, *)
(* StackInv of DirectorProofs.                                             *)
(***************************************************************************)
EXTENDS DirectorProofs, FiniteSetTheorems

-----------------------------------------------------------------------------
(* connect() is in one place at a time, and the threads of the core live   *)
(* inside it.                                                              *)

InConnect(f) == f.method = "connect" /\ f.at \in {"running", "ending"}

ConnectOnce ==
  \A t, u \in Threads : \A i \in 1 .. Len(stack[t]), j \in 1 .. Len(stack[u]) :
    stack[t][i].method = "connect" /\ stack[u][j].method = "connect" => t = u /\ i = j

WorkersServed ==
  \A t \in Workers : stack[t] # <<>> =>
    \E u \in Threads \ Workers : \E i \in 1 .. Len(stack[u]) : InConnect(stack[u][i])

OneConnect == ConnectOnce /\ WorkersServed

LEMMA ConnectIsWrapper ==
  ASSUME NEW f, GoodFrame(f), f.method = "connect"
  PROVE  f.code = "wrapper" /\ f.at \in Places
  BY ConnectIsMethod, DirectorAssumption
     DEF GoodFrame, GoodWrapper, GoodUpcall, GoodBody

(* What a step leaves of connect(). *)
NoNewConnect(t) ==
  \A i \in 1 .. Len(stack'[t]) : stack'[t][i].method = "connect" =>
    i \in 1 .. Len(stack[t]) /\ stack[t][i].method = "connect"

StillConnected(t) ==
  \A i \in 1 .. Len(stack[t]) : InConnect(stack[t][i]) =>
    i \in 1 .. Len(stack'[t]) /\ InConnect(stack'[t][i])

LEMMA PushConnect ==
  ASSUME StackInv, NEW t \in Threads, NEW code, NEW m, NEW to, Pushes(t, code, m, to)
  PROVE  StillConnected(t) /\ (m # "connect" => NoNewConnect(t))
<1>1. PICK g : IsPush(stack[t], stack'[t], g) /\ g.method = m
  BY DEF Pushes
<1>2. Len(stack[t]) \in Nat
  BY StackLength DEF StackInv, Shape
<1>3. StillConnected(t)
  BY <1>1, <1>2 DEF IsPush, StillConnected
<1>4. ASSUME m # "connect" PROVE NoNewConnect(t)
  BY <1>1, <1>2, <1>4 DEF IsPush, NoNewConnect
<1> QED
  BY <1>3, <1>4

LEMMA CallConnect ==
  ASSUME StackInv, NEW t \in Threads, NEW code, NEW from, NEW to,
         Calls(t, code, from, to), from \cap {"running", "ending"} = {}
  PROVE  StillConnected(t) /\ NoNewConnect(t)
<1>1. PICK f, g : /\ IsCall(stack[t], stack'[t], f, g) /\ SameCall(Top(t), f)
                  /\ GoodFrame(g) /\ CallFrom(f, g) /\ g.at \in {"enter", "body"}
  BY DEF Calls
<1>2. Len(stack[t]) \in Nat /\ Top(t) = stack[t][Len(stack[t])] /\ Top(t).at \in from
  BY StackLength DEF StackInv, Shape, Top, Calls
<1>3. g.method # "connect"
  BY <1>1, ConnectIsWrapper DEF Places
<1>4. ~InConnect(Top(t)) /\ f.method = Top(t).method
  BY <1>1, <1>2 DEF InConnect, SameCall
<1>5. StillConnected(t)
  <2> SUFFICES ASSUME NEW i \in 1 .. Len(stack[t]), InConnect(stack[t][i])
               PROVE  i \in 1 .. Len(stack'[t]) /\ InConnect(stack'[t][i])
    BY DEF StillConnected
  <2>1. i \in 1 .. Len(stack[t]) - 1
    BY <1>2, <1>4
  <2> QED
    BY <1>1, <1>2, <2>1 DEF IsCall
<1>6. NoNewConnect(t)
  BY <1>1, <1>2, <1>3, <1>4 DEF NoNewConnect, IsCall
<1> QED
  BY <1>5, <1>6

LEMMA MoveConnect ==
  ASSUME StackInv, NEW t \in Threads, NEW code, NEW from, NEW to,
         Moves(t, code, from, to)
  PROVE  /\ NoNewConnect(t)
         /\ from \cap {"running", "ending"} = {} => StillConnected(t)
<1>1. PICK f : IsMove(stack[t], stack'[t], f) /\ SameCall(Top(t), f)
  BY DEF Moves
<1>2. Len(stack[t]) \in Nat /\ Top(t) = stack[t][Len(stack[t])] /\ Top(t).at \in from
  BY StackLength DEF StackInv, Shape, Top, Moves
<1>3. NoNewConnect(t)
  BY <1>1, <1>2 DEF NoNewConnect, IsMove, SameCall
<1>4. ASSUME from \cap {"running", "ending"} = {}
      PROVE  StillConnected(t)
  <2> SUFFICES ASSUME NEW i \in 1 .. Len(stack[t]), InConnect(stack[t][i])
               PROVE  i \in 1 .. Len(stack'[t]) /\ InConnect(stack'[t][i])
    BY DEF StillConnected
  <2>1. ~InConnect(Top(t))
    BY <1>2, <1>4 DEF InConnect
  <2>2. i \in 1 .. Len(stack[t]) - 1
    BY <1>2, <2>1
  <2> QED
    BY <1>1, <1>2, <2>2 DEF IsMove
<1> QED
  BY <1>3, <1>4

LEMMA EndConnect ==
  ASSUME StackInv, NEW t \in Threads, NEW code, NEW from, NEW to,
         Ends(t, code, from, to), from \cap {"running", "ending"} = {},
         InConnect(stack[t][Len(stack[t]) - 1]) => to \subseteq {"running", "ending"}
  PROVE  StillConnected(t) /\ NoNewConnect(t)
<1>1. PICK f : /\ IsEnd(stack[t], stack'[t], f) /\ f.at \in to
               /\ SameCall(stack[t][Len(stack[t]) - 1], f)
  BY DEF Ends
<1>2. Len(stack[t]) \in Nat /\ Top(t) = stack[t][Len(stack[t])] /\ Top(t).at \in from
  BY StackLength DEF StackInv, Shape, Top, Ends
<1>3. NoNewConnect(t)
  BY <1>1, <1>2 DEF NoNewConnect, IsEnd, SameCall
<1>4. StillConnected(t)
  <2> SUFFICES ASSUME NEW i \in 1 .. Len(stack[t]), InConnect(stack[t][i])
               PROVE  i \in 1 .. Len(stack'[t]) /\ InConnect(stack'[t][i])
    BY DEF StillConnected
  <2>1. ~InConnect(Top(t))
    BY <1>2 DEF InConnect
  <2>2. i \in 1 .. Len(stack[t]) - 1
    BY <1>2, <2>1
  <2>3. CASE i \in 1 .. Len(stack[t]) - 2
    BY <1>1, <1>2, <2>3 DEF IsEnd
  <2>4. CASE i = Len(stack[t]) - 1
    <3>1. stack'[t][i] = f /\ i \in 1 .. Len(stack'[t])
      BY <1>1, <1>2, <2>4 DEF IsEnd
    <3>2. f.method = "connect" /\ f.at \in {"running", "ending"}
      BY <1>1, <2>4 DEF SameCall, InConnect
    <3> QED
      BY <3>1, <3>2 DEF InConnect
  <2> QED
    BY <1>2, <2>2, <2>3, <2>4
<1> QED
  BY <1>3, <1>4

LEMMA PopConnect ==
  ASSUME StackInv, NEW t \in Threads, NEW code, NEW from,
         Pops(t, code, from), from \cap {"running", "ending"} = {}
  PROVE  StillConnected(t) /\ NoNewConnect(t)
<1>1. IsPop(stack[t], stack'[t])
  BY DEF Pops
<1>2. Len(stack[t]) \in Nat /\ Top(t) = stack[t][Len(stack[t])] /\ Top(t).at \in from
  BY StackLength DEF StackInv, Shape, Top, Pops
<1>3. NoNewConnect(t)
  BY <1>1, <1>2 DEF NoNewConnect, IsPop
<1>4. StillConnected(t)
  <2> SUFFICES ASSUME NEW i \in 1 .. Len(stack[t]), InConnect(stack[t][i])
               PROVE  i \in 1 .. Len(stack'[t]) /\ InConnect(stack'[t][i])
    BY DEF StillConnected
  <2>1. ~InConnect(Top(t))
    BY <1>2 DEF InConnect
  <2>2. i \in 1 .. Len(stack[t]) - 1
    BY <1>2, <2>1
  <2> QED
    BY <1>1, <1>2, <2>2 DEF IsPop
<1> QED
  BY <1>3, <1>4

LEMMA OnceKept ==
  ASSUME ConnectOnce, NEW t \in Threads, Others(t), NoNewConnect(t)
  PROVE  ConnectOnce'
  BY DEF ConnectOnce, Others, NoNewConnect

LEMMA ServedKept ==
  ASSUME WorkersServed, NEW t \in Threads, Others(t), StillConnected(t),
         t \in Workers /\ stack'[t] # <<>> => stack[t] # <<>>
  PROVE  WorkersServed'
<1> SUFFICES ASSUME NEW w \in Workers, stack'[w] # <<>>
             PROVE  \E u \in Threads \ Workers :
                      \E i \in 1 .. Len(stack'[u]) : InConnect(stack'[u][i])
  BY DEF WorkersServed
<1>1. stack[w] # <<>>
  BY DirectorAssumption DEF Others
<1>2. PICK u \in Threads \ Workers :
        \E i \in 1 .. Len(stack[u]) : InConnect(stack[u][i])
  BY <1>1 DEF WorkersServed
<1>3. PICK i \in 1 .. Len(stack[u]) : InConnect(stack[u][i])
  BY <1>2
<1>4. i \in 1 .. Len(stack'[u]) /\ InConnect(stack'[u][i])
  BY <1>3 DEF Others, StillConnected
<1> QED
  BY <1>4

(* What is known of the threads in connect(). *)
LEMMA ConnectedFrames ==
  ASSUME StackInv
  PROVE  /\ Connected(Places) <=>
              \E t \in Threads : \E i \in 1 .. Len(stack[t]) : stack[t][i].method = "connect"
         /\ Connected({"running"}) =>
              \E t \in Threads : \E i \in 1 .. Len(stack[t]) : InConnect(stack[t][i])
<1>1. ASSUME NEW t \in Threads
      PROVE  /\ DOMAIN stack[t] = 1 .. Len(stack[t])
             /\ \A i \in 1 .. Len(stack[t]) : GoodFrame(stack[t][i])
  BY DEF StackInv, Shape, IsStack
<1>2. \A t \in Threads : \A i \in 1 .. Len(stack[t]) :
        stack[t][i].method = "connect" => stack[t][i].at \in Places
  BY <1>1, ConnectIsWrapper
<1> QED
  BY <1>1, <1>2 DEF Connected, InConnect

(* The first call of a worker is not connect(). *)
LEMMA ConnectJavaStep ==
  ASSUME StackInv, OneConnect, NEW t \in Threads, JavaStep(t)
  PROVE  OneConnect'
<1> USE DEF OneConnect
<1>1. ASSUME NEW m \in JavaMethods, NEW null \in BOOLEAN, CallWrapper(t, m, null)
      PROVE  OneConnect'
  <2>1. /\ StackInv' /\ Pushes(t, "wrapper", Bridge(m), "check") /\ Others(t)
        /\ InJava(t) /\ (Bridge(m) = "connect" => ~Connected(Places))
    BY <1>1, CallWrapperStack DEF Pushes
  <2>2. /\ StillConnected(t)
        /\ Bridge(m) # "connect" => NoNewConnect(t)
    BY <2>1, PushConnect
  <2>3. WorkersServed'
    BY <2>1, <2>2, ServedKept DEF InJava
  <2>4. CASE Bridge(m) # "connect"
    BY <2>1, <2>2, <2>3, <2>4, OnceKept
  <2>5. CASE Bridge(m) = "connect"
    <3>1. \A u \in Threads : \A i \in 1 .. Len(stack[u]) : stack[u][i].method # "connect"
      BY <2>1, <2>5, ConnectedFrames
    <3>2. PICK g : IsPush(stack[t], stack'[t], g)
      BY <2>1 DEF Pushes
    <3>3. Len(stack[t]) \in Nat
      BY StackLength DEF StackInv, Shape
    <3>4. \A u \in Threads : \A i \in 1 .. Len(stack'[u]) :
            stack'[u][i].method = "connect" => u = t /\ i = Len(stack[t]) + 1
      BY <2>1, <3>1, <3>2, <3>3 DEF Others, IsPush
    <3>5. ConnectOnce'
      BY <3>4 DEF ConnectOnce
    <3> QED
      BY <2>3, <3>5
  <2> QED
    BY <2>4, <2>5
<1>2. CASE RejectNull(t)
  <2>1. Moves(t, "wrapper", {"check"}, {"zero"}) /\ Others(t) /\ stack[t] # <<>>
    BY <1>2, RejectNullStack DEF Moves
  <2>2. StillConnected(t) /\ NoNewConnect(t)
    BY <2>1, MoveConnect
  <2> QED
    BY <2>1, <2>2, OnceKept, ServedKept
<1>3. CASE CallFunction(t)
  <2>1. /\ \/ Moves(t, "wrapper", {"check"}, {"running", "done"})
           \/ Calls(t, "wrapper", {"check"}, "calling")
        /\ Others(t) /\ stack[t] # <<>>
    BY <1>3, CallFunctionStack DEF Moves, Calls
  <2>2. StillConnected(t) /\ NoNewConnect(t)
    BY <2>1, MoveConnect, CallConnect
  <2> QED
    BY <2>1, <2>2, OnceKept, ServedKept
<1>4. CASE ReturnToJava(t)
  <2>1. /\ \/ Pops(t, "wrapper", {"done", "zero"})
           \/ Ends(t, "wrapper", {"done", "zero"}, {"raise"})
        /\ Others(t) /\ stack[t] # <<>> /\ Top(t).code = "wrapper"
    BY <1>4, ReturnToJavaStack DEF Pops, Ends
  <2>2. ASSUME Ends(t, "wrapper", {"done", "zero"}, {"raise"})
        PROVE  ~InConnect(stack[t][Len(stack[t]) - 1])
    <3>1. Len(stack[t]) > 1
      BY <2>2 DEF Ends, IsEnd
    <3>2. GoodFrame(stack[t][Len(stack[t]) - 1])
          /\ stack[t][Len(stack[t]) - 1].code = "java"
      BY <2>1, <3>1, TopFrame, Caller
    <3> QED
      BY <3>2, ConnectIsWrapper DEF InConnect
  <2>3. StillConnected(t) /\ NoNewConnect(t)
    BY <2>1, <2>2, PopConnect, EndConnect
  <2> QED
    BY <2>1, <2>3, OnceKept, ServedKept
<1>5. CASE JavaReturns(t) \/ JavaThrows(t)
  <2>1. /\ \/ Ends(t, "java", {"body"}, {"value", "networks", "null"})
           \/ Ends(t, "java", {"body", "raise"}, {"thrown"})
        /\ Others(t) /\ stack[t] # <<>> /\ Top(t).code = "java"
    BY <1>5, JavaReturnsStack, JavaThrowsStack DEF Ends
  <2>2. ~InConnect(stack[t][Len(stack[t]) - 1])
    <3>1. /\ GoodFrame(stack[t][Len(stack[t]) - 1])
          /\ stack[t][Len(stack[t]) - 1].code = "upcall"
      BY <2>1, TopFrame, Caller
    <3> QED
      BY <3>1, ConnectIsWrapper DEF InConnect
  <2>3. StillConnected(t) /\ NoNewConnect(t)
    BY <2>1, <2>2, EndConnect
  <2> QED
    BY <2>1, <2>3, OnceKept, ServedKept
<1> QED
  BY <1>1, <1>2, <1>3, <1>4, <1>5 DEF JavaStep

LEMMA ConnectCoreStep ==
  ASSUME StackInv, OneConnect, NEW t \in Threads, CoreStep(t)
  PROVE  OneConnect'
<1> USE DEF OneConnect
<1>1. ASSUME NEW m \in CoreMethods, CoreCalls(t, m) PROVE OneConnect'
  <2>1. /\ StackInv' /\ Pushes(t, "upcall", m, "enter") /\ Others(t) /\ InCore(t)
    BY <1>1, CoreCallsStack DEF Pushes
  <2>2. m # "connect"
    BY ConnectIsMethod, DirectorAssumption
  <2>3. StillConnected(t) /\ NoNewConnect(t)
    BY <2>1, <2>2, PushConnect
  <2>4. ConnectOnce'
    BY <2>1, <2>3, OnceKept
  <2>5. CASE stack[t] # <<>>
    BY <2>1, <2>3, <2>4, <2>5, ServedKept
  <2>6. CASE stack[t] = <<>>
    <3>1. PICK u \in Threads : \E i \in 1 .. Len(stack[u]) : InConnect(stack[u][i])
      BY <2>1, <2>6, ConnectedFrames DEF InCore, Is
    <3>2. PICK i \in 1 .. Len(stack[u]) : InConnect(stack[u][i])
      BY <3>1
    <3>3. stack[u] # <<>>
      BY <3>2
    <3>4. u \notin Workers
      <4>1. SUFFICES ASSUME u \in Workers PROVE FALSE
        OBVIOUS
      <4>2. PICK v \in Threads \ Workers :
              \E j \in 1 .. Len(stack[v]) : InConnect(stack[v][j])
        BY <3>3, <4>1 DEF WorkersServed
      <4> QED
        BY <3>2, <4>1, <4>2 DEF ConnectOnce, InConnect
    <3>5. i \in 1 .. Len(stack'[u]) /\ InConnect(stack'[u][i])
      BY <2>1, <2>3, <3>2 DEF Others, StillConnected
    <3>6. WorkersServed'
      BY <3>4, <3>5 DEF WorkersServed
    <3> QED
      BY <2>4, <3>6
  <2> QED
    BY <2>5, <2>6
<1>2. CASE CoreEnds(t)
  <2>1. /\ Moves(t, "wrapper", {"running", "ending"}, {"done"}) /\ Others(t)
        /\ stack[t] # <<>> /\ \A u \in Workers : stack[u] = <<>>
    BY <1>2, CoreEndsStack DEF Moves, CoreEnds
  <2>2. NoNewConnect(t)
    BY <2>1, MoveConnect
  <2>3. \A u \in Workers : stack'[u] = <<>>
    BY <2>1, DirectorAssumption DEF Others
  <2> QED
    BY <2>1, <2>2, <2>3, OnceKept DEF WorkersServed
<1>3. CASE EnterUpcall(t) \/ CallBase(t) \/ RejectPure(t) \/ FinalizeNetworks(t)
  <2>1. /\ \/ Moves(t, "upcall", {"enter"}, {"self", "pure", "base"})
           \/ Moves(t, "upcall", {"base"}, {"value"})
           \/ Moves(t, "upcall", {"pure"}, {"default"})
           \/ Moves(t, "upcall", {"networks"}, {"freed"})
        /\ Others(t) /\ stack[t] # <<>>
    BY <1>3, EnterUpcallStack, CallBaseStack, RejectPureStack, FinalizeNetworksStack
       DEF Moves
  <2>2. StillConnected(t) /\ NoNewConnect(t)
    BY <2>1, MoveConnect
  <2> QED
    BY <2>1, <2>2, OnceKept, ServedKept
<1>4. CASE CallJava(t)
  <2>1. /\ \/ Calls(t, "upcall", {"self"}, "java")
           \/ Moves(t, "upcall", {"self"}, {"default"})
        /\ Others(t) /\ stack[t] # <<>>
    BY <1>4, CallJavaStack DEF Moves, Calls
  <2>2. StillConnected(t) /\ NoNewConnect(t)
    BY <2>1, MoveConnect, CallConnect
  <2> QED
    BY <2>1, <2>2, OnceKept, ServedKept
<1>5. CASE LeaveUpcall(t)
  <2> DEFINE n == Len(stack[t])
             next == Resumed(stack[t][n - 1].at, Top(t).at)
  <2>1. /\ \/ n = 1 /\ Pops(t, "upcall", LeavePlaces)
           \/ n > 1 /\ Ends(t, "upcall", LeavePlaces, {next})
        /\ Others(t) /\ stack[t] # <<>> /\ Top(t).code = "upcall"
    BY <1>5, LeaveUpcallStack DEF Pops, Ends
  <2>2. ASSUME n > 1, InConnect(stack[t][n - 1])
        PROVE  next \in {"running", "ending"}
    BY <2>1, <2>2, Caller DEF InConnect, Resumed
  <2>3. LeavePlaces \cap {"running", "ending"} = {}
    BY DEF LeavePlaces
  <2> HIDE DEF next
  <2>4. StillConnected(t) /\ NoNewConnect(t)
    BY <2>1, <2>2, <2>3, PopConnect, EndConnect
  <2> QED
    BY <2>1, <2>4, OnceKept, ServedKept
<1> QED
  BY <1>1, <1>2, <1>3, <1>4, <1>5 DEF CoreStep

LEMMA OneConnectHolds == Spec => []OneConnect
<1>1. Init => OneConnect
  <2>1. ASSUME Init PROVE \A t \in Threads : stack[t] = <<>> /\ Len(stack[t]) = 0
    BY <2>1 DEF Init, DirectorInit
  <2> QED
    BY <2>1, DirectorAssumption DEF OneConnect, ConnectOnce, WorkersServed
<1>2. StackInv /\ OneConnect /\ [Next]_vars => OneConnect'
  <2>1. ASSUME OneConnect, UNCHANGED vars \/ ProxyLife PROVE OneConnect'
    BY <2>1 DEF vars, directorVars, ProxyLife, OneConnect, ConnectOnce, WorkersServed
  <2> QED
    BY <2>1, ConnectJavaStep, ConnectCoreStep DEF Next
<1> QED
  BY StackInvHolds, <1>1, <1>2, PTL DEF Spec

(* With them, no native method that Java calls comes back to a body: the   *)
(* explicit functions are none of those the core calls.                    *)
LEMMA BridgeLeadsAway ==
  ASSUME NoWayBack, NEW m \in JavaMethods
  PROVE  Bridge(m) \notin Overridden
<1>1. \A k \in DOMAIN Explicit : Explicit[k] \notin DOMAIN Upcalls
  BY UpcallNames DEF OnlyUpcalls, UpcallName, Explicit
<1> QED
  BY <1>1, DirectorAssumption DEF NoWayBack, Bridge

(* So a Java body was called from connect(), or it is the only one of a    *)
(* thread of the core.                                                     *)
LEMMA BodyCaller ==
  ASSUME NoWayBack, StackInv, NEW t \in Threads, NEW i \in 1 .. Len(stack[t]),
         stack[t][i].code = "java"
  PROVE  \/ i > 2 /\ i - 2 \in 1 .. Len(stack[t]) /\ InConnect(stack[t][i - 2])
         \/ i = 2 /\ t \in Workers
<1> DEFINE s == stack[t]
<1>1. Shape(s, t \in Workers)
  BY DEF StackInv
<1>2. Len(s) \in Nat
  BY <1>1, StackLength DEF Shape
<1> HIDE DEF s
<1>3. s[i].code = "java" /\ i \in 1 .. Len(s)
  BY DEF s
<1>4. i # 1
  BY <1>1, <1>2, <1>3 DEF Shape, FirstCall
<1>5. i - 1 \in 1 .. Len(s) - 1 /\ (i - 1) + 1 = i
  BY <1>2, <1>3, <1>4
<1>6. CallFrom(s[i - 1], s[i])
  BY <1>1, <1>5 DEF Shape
<1>7. s[i - 1].code = "upcall" /\ s[i - 1].at = "java" /\ GoodFrame(s[i - 1])
  BY <1>1, <1>2, <1>3, <1>5, <1>6 DEF CallFrom, Shape
<1>8. s[i - 1].method \in Overridden
  BY <1>7 DEF GoodFrame, GoodUpcall
<1>9. CASE i = 2
  <2>1. FirstCall(s[1], t \in Workers)
    BY <1>1, <1>2, <1>3, <1>9 DEF Shape
  <2> QED
    BY <1>7, <1>9, <2>1 DEF FirstCall
<1>10. CASE i # 2
  <2>1. i > 2 /\ i - 2 \in 1 .. Len(s) - 1 /\ (i - 2) + 1 = i - 1 /\ i - 2 \in 1 .. Len(s)
    BY <1>2, <1>3, <1>4, <1>10
  <2>2. CallFrom(s[i - 2], s[i - 1]) /\ GoodFrame(s[i - 2])
    BY <1>1, <2>1 DEF Shape
  <2>3. s[i - 2].code = "wrapper" /\ GoodWrapper(s[i - 2])
        /\ (s[i - 2].at = "running" \/ s[i - 2].method = s[i - 1].method)
    BY <1>7, <2>2 DEF CallFrom, GoodFrame
  <2>4. s[i - 2].method \notin Overridden
    BY <2>3, BridgeLeadsAway DEF GoodWrapper
  <2>5. InConnect(s[i - 2])
    BY <1>8, <2>3, <2>4 DEF GoodWrapper, InConnect
  <2> QED
    BY <2>1, <2>5 DEF s
<1> QED
  BY <1>9, <1>10

LEMMA EscapesNot ==
  ASSUME NoWayBack, StackInv, NEW t \in Threads, LeaveUpcall(t), ~escaped
  PROVE  ~escaped'
<1> SUFFICES ASSUME Escapes(t) PROVE FALSE
  BY DEF LeaveUpcall
<1> DEFINE f == stack[t][Len(stack[t]) - 1]
<1>1. stack[t] # <<>> /\ Top(t).code = "upcall" /\ Top(t).at = "thrown"
  BY DEF LeaveUpcall, Is, Escapes
<1>2. Len(stack[t]) > 1 /\ f.at = "calling"
  BY <1>1, TopFrame, CallerFrame DEF Escapes
<1>3. Top(t).method \in Overridden
  BY <1>1, TopFrame DEF GoodFrame, GoodUpcall
<1>4. f.code = "wrapper" /\ f.method = Top(t).method /\ GoodWrapper(f)
  BY <1>1, <1>2, TopFrame DEF CallFrom, GoodFrame
<1> QED
  BY <1>3, <1>4, BridgeLeadsAway DEF GoodWrapper

LEMMA NothingEscapes ==
  ASSUME NoWayBack
  PROVE  Spec => []~escaped
<1>1. Init => ~escaped
  BY DEF Init, DirectorInit
<1>2. StackInv /\ ~escaped /\ [Next]_vars => ~escaped'
  <2>1. ASSUME NEW t \in Threads, JavaStep(t) PROVE UNCHANGED escaped
    BY <2>1 DEF JavaStep, CallWrapper, RejectNull, CallFunction, ReturnToJava,
                JavaReturns, JavaThrows
  <2>2. ASSUME StackInv, ~escaped, NEW t \in Threads, CoreStep(t) PROVE ~escaped'
    BY <2>2, EscapesNot
       DEF CoreStep, CoreCalls, CoreEnds, EnterUpcall, CallBase, RejectPure, CallJava,
           FinalizeNetworks
  <2>3. ASSUME UNCHANGED vars \/ ProxyLife PROVE UNCHANGED escaped
    BY <2>3 DEF vars, directorVars, ProxyLife
  <2> QED
    BY <2>1, <2>2, <2>3 DEF Next
<1> QED
  BY StackInvHolds, <1>1, <1>2, PTL DEF Spec

(* SuperIsSafe: as long as Java calls no native method that leads back to  *)
(* a body of its own, no body runs inside itself and no C++ exception      *)
(* leaves a JNI function, however the core nests and spreads its calls.    *)
THEOREM SuperCallsAreSafe ==
  ASSUME NoWayBack
  PROVE  Spec => []SuperIsSafe
<1>1. StackInv /\ OneConnect /\ ~escaped => SuperIsSafe
  <2> SUFFICES ASSUME StackInv, OneConnect, NEW t \in Threads,
                      NEW i \in DOMAIN stack[t], NEW j \in DOMAIN stack[t],
                      stack[t][i].code = "java", stack[t][j].code = "java"
               PROVE  i = j
    BY DEF SuperIsSafe
  <2>1. DOMAIN stack[t] = 1 .. Len(stack[t]) /\ i \in Nat /\ j \in Nat
    BY DEF StackInv, Shape, IsStack
  <2>2. /\ \/ i > 2 /\ i - 2 \in 1 .. Len(stack[t]) /\ InConnect(stack[t][i - 2])
           \/ i = 2 /\ t \in Workers
        /\ \/ j > 2 /\ j - 2 \in 1 .. Len(stack[t]) /\ InConnect(stack[t][j - 2])
           \/ j = 2 /\ t \in Workers
    BY <2>1, BodyCaller
  <2>3. ASSUME NEW k \in 1 .. Len(stack[t]), InConnect(stack[t][k])
        PROVE  t \notin Workers
    <3> SUFFICES ASSUME t \in Workers PROVE FALSE
      OBVIOUS
    <3>1. stack[t] # <<>>
      BY <2>3
    <3>2. PICK v \in Threads \ Workers :
            \E l \in 1 .. Len(stack[v]) : InConnect(stack[v][l])
      BY <3>1 DEF OneConnect, WorkersServed
    <3> QED
      BY <2>3, <3>2 DEF OneConnect, ConnectOnce, InConnect
  <2>4. CASE i > 2 /\ j > 2
    <3>1. i - 2 \in 1 .. Len(stack[t]) /\ j - 2 \in 1 .. Len(stack[t])
          /\ stack[t][i - 2].method = "connect" /\ stack[t][j - 2].method = "connect"
      BY <2>2, <2>4 DEF InConnect
    <3>2. i - 2 = j - 2
      BY <3>1 DEF OneConnect, ConnectOnce
    <3> QED
      BY <2>1, <3>2
  <2> QED
    BY <2>1, <2>2, <2>3, <2>4
<1> QED
  BY StackInvHolds, OneConnectHolds, NothingEscapes, <1>1, PTL

-----------------------------------------------------------------------------
(* The JNI functions of a stack that have the client as an argument are    *)
(* among the calls of the client, which is alive as long as there are any. *)
IsNative(f) == f.code = "wrapper" /\ ~Wrappers[f.method].static

NativeCalls(s) == {i \in 1 .. Len(s) : IsNative(s[i])}

CallsInv ==
  \A t \in Threads :
    /\ Cardinality(NativeCalls(stack[t])) <= calls[t]
    /\ NativeCalls(stack[t]) # {} => Constructed

LEMMA NativeCallsFinite ==
  ASSUME StackInv, NEW t \in Threads
  PROVE  IsFiniteSet(NativeCalls(stack[t])) /\ Cardinality(NativeCalls(stack[t])) \in Nat
<1>1. Len(stack[t]) \in Nat
  BY StackLength DEF StackInv, Shape
<1>2. IsFiniteSet(1 .. Len(stack[t]))
  BY <1>1, FS_Interval
<1> QED
  BY <1>2, FS_Subset, FS_CardinalityType DEF NativeCalls

LEMMA MoveNative ==
  ASSUME StackInv, NEW t \in Threads, NEW code, NEW from, NEW to, Moves(t, code, from, to)
  PROVE  NativeCalls(stack'[t]) = NativeCalls(stack[t])
<1>1. PICK f : IsMove(stack[t], stack'[t], f) /\ SameCall(Top(t), f)
  BY DEF Moves
<1>2. Len(stack[t]) \in Nat /\ Top(t) = stack[t][Len(stack[t])]
  BY StackLength DEF StackInv, Shape, Top
<1>3. IsNative(f) <=> IsNative(stack[t][Len(stack[t])])
  BY <1>1, <1>2 DEF SameCall, IsNative
<1> QED
  BY <1>1, <1>2, <1>3 DEF NativeCalls, IsMove

LEMMA CallNative ==
  ASSUME StackInv, NEW t \in Threads, NEW code, NEW from, NEW to,
         Calls(t, code, from, to), code # "java"
  PROVE  NativeCalls(stack'[t]) = NativeCalls(stack[t])
<1>1. PICK f, g : /\ IsCall(stack[t], stack'[t], f, g) /\ SameCall(Top(t), f)
                  /\ CallFrom(f, g)
  BY DEF Calls
<1>2. Len(stack[t]) \in Nat /\ Top(t) = stack[t][Len(stack[t])] /\ Top(t).code # "java"
  BY StackLength DEF StackInv, Shape, Top, Calls
<1>3. IsNative(f) <=> IsNative(stack[t][Len(stack[t])])
  BY <1>1, <1>2 DEF SameCall, IsNative
<1>4. ~IsNative(g)
  BY <1>1, <1>2 DEF SameCall, CallFrom, IsNative
<1> QED
  BY <1>1, <1>2, <1>3, <1>4 DEF NativeCalls, IsCall

LEMMA PushNative ==
  ASSUME StackInv, NEW t \in Threads, NEW code, NEW m, NEW to, Pushes(t, code, m, to)
  PROVE  LET new == code = "wrapper" /\ ~Wrappers[m].static
             n == Len(stack[t]) + 1
         IN /\ n \notin NativeCalls(stack[t])
            /\ new => NativeCalls(stack'[t]) = NativeCalls(stack[t]) \cup {n}
            /\ ~new => NativeCalls(stack'[t]) = NativeCalls(stack[t])
<1>1. PICK g : IsPush(stack[t], stack'[t], g) /\ g.code = code /\ g.method = m
  BY DEF Pushes
<1>2. Len(stack[t]) \in Nat
  BY StackLength DEF StackInv, Shape
<1>3. IsNative(g) <=> code = "wrapper" /\ ~Wrappers[m].static
  BY <1>1 DEF IsNative
<1>4. Len(stack[t]) + 1 \notin NativeCalls(stack[t])
  BY <1>2 DEF NativeCalls
<1>5. IsNative(g) => NativeCalls(stack'[t]) = NativeCalls(stack[t]) \cup {Len(stack[t]) + 1}
  BY <1>1, <1>2 DEF NativeCalls, IsPush
<1>6. ~IsNative(g) => NativeCalls(stack'[t]) = NativeCalls(stack[t])
  BY <1>1, <1>2 DEF NativeCalls, IsPush
<1> QED
  BY <1>3, <1>4, <1>5, <1>6

LEMMA EndNative ==
  ASSUME StackInv, NEW t \in Threads, NEW code, NEW from, NEW to,
         Pops(t, code, from) \/ Ends(t, code, from, to)
  PROVE  LET n == Len(stack[t]) IN
         /\ n \in NativeCalls(stack[t]) <=> IsNative(Top(t))
         /\ NativeCalls(stack'[t]) = NativeCalls(stack[t]) \ {n}
<1>1. Len(stack[t]) \in Nat /\ Top(t) = stack[t][Len(stack[t])]
  BY StackLength DEF StackInv, Shape, Top
<1>2. Len(stack[t]) > 0
  BY <1>1 DEF Pops, Ends, IsPop, IsEnd
<1>3. Len(stack[t]) \in NativeCalls(stack[t]) <=> IsNative(Top(t))
  BY <1>1, <1>2 DEF NativeCalls
<1>4. CASE Pops(t, code, from)
  <2>1. IsPop(stack[t], stack'[t])
    BY <1>4 DEF Pops
  <2>2. NativeCalls(stack'[t]) = NativeCalls(stack[t]) \ {Len(stack[t])}
    BY <1>1, <1>2, <2>1 DEF NativeCalls, IsPop
  <2> QED
    BY <1>3, <2>2
<1>5. CASE Ends(t, code, from, to)
  <2> DEFINE k == Len(stack[t]) - 1
  <2>1. PICK f : IsEnd(stack[t], stack'[t], f) /\ SameCall(stack[t][k], f)
    BY <1>5 DEF Ends
  <2>2. IsNative(f) <=> IsNative(stack[t][k])
    BY <2>1 DEF SameCall, IsNative
  <2>3. k \in Nat \ {0} /\ Len(stack'[t]) = k /\ Len(stack[t]) = k + 1
    BY <1>1, <2>1 DEF IsEnd
  <2>4. \A i \in 1 .. k : IsNative(stack'[t][i]) <=> IsNative(stack[t][i])
    <3> SUFFICES ASSUME NEW i \in 1 .. k
                 PROVE  IsNative(stack'[t][i]) <=> IsNative(stack[t][i])
      OBVIOUS
    <3>1. CASE i = k
      BY <2>1, <2>2, <2>3, <3>1 DEF IsEnd
    <3>2. CASE i # k
      <4>1. i \in 1 .. Len(stack[t]) - 2
        BY <2>3, <3>2
      <4>2. stack'[t][i] = stack[t][i]
        BY <2>1, <4>1 DEF IsEnd
      <4> QED
        BY <4>2
    <3> QED
      BY <3>1, <3>2
  <2> HIDE DEF k
  <2>5. NativeCalls(stack'[t]) = NativeCalls(stack[t]) \ {Len(stack[t])}
    BY <2>3, <2>4 DEF NativeCalls
  <2> QED
    BY <1>3, <2>5
<1> QED
  BY <1>4, <1>5

LEMMA ConstructedStays ==
  ASSUME ProxyInv, Constructed, [Next]_vars
  PROVE  Constructed'
<1>1. /\ frees \in Nat /\ life # "none" /\ (jthis # "null" \/ frees > 0)
  BY DEF ProxyInv, ProxyTypeOK, Constructed
<1>2. ASSUME UNCHANGED <<life, jthis, frees>> PROVE Constructed'
  BY <1>1, <1>2 DEF Constructed
<1>3. CASE UNCHANGED vars
  BY <1>2, <1>3 DEF vars, proxyVars
<1>4. ASSUME NEW t \in Threads, JavaStep(t) \/ CoreStep(t) PROVE Constructed'
  <2>1. Enter(t) \/ Leave(t) \/ UNCHANGED proxyVars
    BY <1>4 DEF JavaStep, CallWrapper, RejectNull, CallFunction, ReturnToJava,
                JavaReturns, JavaThrows, CoreStep, CoreCalls, CoreEnds, EnterUpcall,
                CallBase, RejectPure, CallJava, FinalizeNetworks, LeaveUpcall
  <2> QED
    BY <1>2, <2>1 DEF Enter, Leave, proxyVars
<1>5. CASE ProxyLife
  <2>1. ASSUME NEW t \in Threads, Construct(t) \/ Connect(t) PROVE Constructed'
    BY <1>1, <2>1 DEF Construct, Connect, Reference, Constructed
  <2>2. CASE Drop \/ Finalize
    BY <1>1, <2>2 DEF Drop, Finalize, Constructed
  <2>3. CASE ProxyStep(Finalizer)
    <3>1. CASE EnterMonitor(Finalizer) \/ TestOwnership(Finalizer)
               \/ CallDestructor(Finalizer) \/ Disconnect(Finalizer)
      BY <1>2, <3>1 DEF EnterMonitor, TestOwnership, CallDestructor, Disconnect
    <3>2. CASE Release(Finalizer)
      BY <1>1, <3>2 DEF Release, Constructed
    <3>3. CASE Zero(Finalizer)
      BY <1>1, <3>3 DEF Zero, Constructed
    <3> QED
      BY <2>3, <3>1, <3>2, <3>3 DEF ProxyStep
  <2> QED
    BY <1>5, <2>1, <2>2, <2>3 DEF ProxyLife
<1> QED
  BY <1>3, <1>4, <1>5 DEF Next

(* A step that leaves the native calls of all threads as they are.         *)
LEMMA SameCalls ==
  ASSUME CallsInv, NEW t \in Threads, Others(t), Constructed => Constructed',
         NativeCalls(stack'[t]) = NativeCalls(stack[t]), UNCHANGED calls
  PROVE  CallsInv'
<1> SUFFICES ASSUME NEW u \in Threads
             PROVE  /\ Cardinality(NativeCalls(stack'[u])) <= calls'[u]
                    /\ NativeCalls(stack'[u]) # {} => Constructed'
  BY DEF CallsInv, NativeCalls, IsNative
<1>1. NativeCalls(stack'[u]) = NativeCalls(stack[u])
  BY DEF Others
<1> QED
  BY <1>1 DEF CallsInv

LEMMA OneCall ==
  ASSUME CallsInv, NEW t \in Threads, Others(t), Constructed', NEW n,
         calls' = [calls EXCEPT ![t] = n], calls \in [Threads -> Nat],
         Cardinality(NativeCalls(stack'[t])) <= n
  PROVE  CallsInv'
<1> SUFFICES ASSUME NEW u \in Threads
             PROVE  Cardinality(NativeCalls(stack'[u])) <= calls'[u]
  BY DEF CallsInv, NativeCalls, IsNative
<1>1. CASE u = t
  BY <1>1
<1>2. CASE u # t
  <2>1. stack'[u] = stack[u] /\ calls'[u] = calls[u]
    BY <1>2 DEF Others
  <2> QED
    BY <2>1 DEF CallsInv
<1> QED
  BY <1>1, <1>2

LEMMA CallsJavaStep ==
  ASSUME StackInv, ProxyInv, CallsInv, Constructed => Constructed',
         NEW t \in Threads, JavaStep(t)
  PROVE  CallsInv'
<1>0. calls \in [Threads -> Nat] /\ calls[t] \in Nat
      /\ Cardinality(NativeCalls(stack[t])) <= calls[t]
      /\ IsFiniteSet(NativeCalls(stack[t])) /\ Cardinality(NativeCalls(stack[t])) \in Nat
  BY NativeCallsFinite DEF ProxyInv, ProxyTypeOK, CallsInv
<1>1. ASSUME NEW m \in JavaMethods, NEW null \in BOOLEAN, CallWrapper(t, m, null)
      PROVE  CallsInv'
  <2> DEFINE w == Bridge(m)
             n == Len(stack[t]) + 1
  <2>1. Pushes(t, "wrapper", w, "check") /\ Others(t)
    BY <1>1, CallWrapperStack DEF Pushes
  <2>2. /\ Wrappers[w].static => UNCHANGED proxyVars
        /\ ~Wrappers[w].static => Enter(t)
    BY <1>1 DEF CallWrapper
  <2> HIDE DEF w
  <2>3. /\ n \notin NativeCalls(stack[t])
        /\ ~Wrappers[w].static => NativeCalls(stack'[t]) = NativeCalls(stack[t]) \cup {n}
        /\ Wrappers[w].static => NativeCalls(stack'[t]) = NativeCalls(stack[t])
    BY <2>1, PushNative
  <2>4. CASE Wrappers[w].static
    BY <2>1, <2>2, <2>3, <2>4, SameCalls DEF proxyVars
  <2>5. CASE ~Wrappers[w].static
    <3>1. Constructed /\ calls' = [calls EXCEPT ![t] = calls[t] + 1]
      BY <2>2, <2>5 DEF Enter
    <3>2. Cardinality(NativeCalls(stack'[t])) = Cardinality(NativeCalls(stack[t])) + 1
      BY <1>0, <2>3, <2>5, FS_AddElement
    <3>3. Cardinality(NativeCalls(stack'[t])) <= calls[t] + 1
      BY <1>0, <3>2
    <3> QED
      BY <1>0, <2>1, <3>1, <3>3, OneCall
  <2> QED
    BY <2>4, <2>5
<1>2. CASE RejectNull(t)
  <2>1. Moves(t, "wrapper", {"check"}, {"zero"}) /\ Others(t)
    BY <1>2, RejectNullStack DEF Moves
  <2>2. NativeCalls(stack'[t]) = NativeCalls(stack[t]) /\ UNCHANGED calls
    BY <1>2, <2>1, MoveNative DEF RejectNull, proxyVars
  <2> QED
    BY <2>1, <2>2, SameCalls
<1>3. CASE CallFunction(t)
  <2>1. /\ \/ Moves(t, "wrapper", {"check"}, {"running", "done"})
           \/ Calls(t, "wrapper", {"check"}, "calling")
        /\ Others(t)
    BY <1>3, CallFunctionStack DEF Moves, Calls
  <2>2. NativeCalls(stack'[t]) = NativeCalls(stack[t]) /\ UNCHANGED calls
    BY <1>3, <2>1, MoveNative, CallNative DEF CallFunction, proxyVars
  <2> QED
    BY <2>1, <2>2, SameCalls
<1>4. CASE ReturnToJava(t)
  <2> DEFINE n == Len(stack[t])
  <2>1. /\ \/ Pops(t, "wrapper", {"done", "zero"})
           \/ Ends(t, "wrapper", {"done", "zero"}, {"raise"})
        /\ Others(t) /\ Top(t).code = "wrapper"
    BY <1>4, ReturnToJavaStack DEF Pops, Ends
  <2>2. /\ n \in NativeCalls(stack[t]) <=> IsNative(Top(t))
        /\ NativeCalls(stack'[t]) = NativeCalls(stack[t]) \ {n}
    BY <2>1, EndNative
  <2>3. CASE Wrappers[Top(t).method].static
    <3>1. NativeCalls(stack'[t]) = NativeCalls(stack[t])
      BY <2>2, <2>3 DEF IsNative
    <3>2. UNCHANGED calls
      BY <1>4, <2>3 DEF ReturnToJava, proxyVars
    <3> QED
      BY <2>1, <3>1, <3>2, SameCalls
  <2>4. CASE ~Wrappers[Top(t).method].static
    <3>1. Constructed /\ calls[t] > 0 /\ calls' = [calls EXCEPT ![t] = calls[t] - 1]
      BY <1>4, <2>4 DEF ReturnToJava, Leave
    <3>2. n \in NativeCalls(stack[t])
      BY <2>1, <2>2, <2>4 DEF IsNative
    <3>3. Cardinality(NativeCalls(stack'[t])) = Cardinality(NativeCalls(stack[t])) - 1
      BY <1>0, <2>2, <3>2, FS_RemoveElement
    <3>4. Cardinality(NativeCalls(stack'[t])) <= calls[t] - 1
      BY <1>0, <3>3
    <3> QED
      BY <1>0, <2>1, <3>1, <3>4, OneCall
  <2> QED
    BY <2>3, <2>4
<1>5. CASE JavaReturns(t) \/ JavaThrows(t)
  <2>1. /\ \/ Ends(t, "java", {"body"}, {"value", "networks", "null"})
           \/ Ends(t, "java", {"body", "raise"}, {"thrown"})
        /\ Others(t) /\ Top(t).code = "java"
    BY <1>5, JavaReturnsStack, JavaThrowsStack DEF Ends
  <2>2. /\ Len(stack[t]) \in NativeCalls(stack[t]) <=> IsNative(Top(t))
        /\ NativeCalls(stack'[t]) = NativeCalls(stack[t]) \ {Len(stack[t])}
    BY <2>1, EndNative
  <2>3. NativeCalls(stack'[t]) = NativeCalls(stack[t])
    BY <2>1, <2>2 DEF IsNative
  <2>4. UNCHANGED calls
    BY <1>5 DEF JavaReturns, JavaThrows, proxyVars
  <2> QED
    BY <2>1, <2>3, <2>4, SameCalls
<1> QED
  BY <1>1, <1>2, <1>3, <1>4, <1>5 DEF JavaStep

LEMMA CallsCoreStep ==
  ASSUME StackInv, CallsInv, Constructed => Constructed', NEW t \in Threads, CoreStep(t)
  PROVE  CallsInv'
<1>1. UNCHANGED calls
  BY DEF CoreStep, CoreCalls, CoreEnds, EnterUpcall, CallBase, RejectPure,
         CallJava, FinalizeNetworks, LeaveUpcall, proxyVars
<1>2. ASSUME NEW m \in CoreMethods, CoreCalls(t, m) PROVE CallsInv'
  <2>1. Pushes(t, "upcall", m, "enter") /\ Others(t)
    BY <1>2, CoreCallsStack DEF Pushes
  <2>2. NativeCalls(stack'[t]) = NativeCalls(stack[t])
    BY <2>1, PushNative
  <2> QED
    BY <1>1, <2>1, <2>2, SameCalls
<1>3. CASE CoreEnds(t)
  <2>1. Moves(t, "wrapper", {"running", "ending"}, {"done"}) /\ Others(t)
    BY <1>3, CoreEndsStack DEF Moves
  <2>2. NativeCalls(stack'[t]) = NativeCalls(stack[t])
    BY <2>1, MoveNative
  <2> QED
    BY <1>1, <2>1, <2>2, SameCalls
<1>4. CASE EnterUpcall(t) \/ CallBase(t) \/ RejectPure(t) \/ FinalizeNetworks(t)
  <2>1. /\ \/ Moves(t, "upcall", {"enter"}, {"self", "pure", "base"})
           \/ Moves(t, "upcall", {"base"}, {"value"})
           \/ Moves(t, "upcall", {"pure"}, {"default"})
           \/ Moves(t, "upcall", {"networks"}, {"freed"})
        /\ Others(t)
    BY <1>4, EnterUpcallStack, CallBaseStack, RejectPureStack, FinalizeNetworksStack
       DEF Moves
  <2>2. NativeCalls(stack'[t]) = NativeCalls(stack[t])
    BY <2>1, MoveNative
  <2> QED
    BY <1>1, <2>1, <2>2, SameCalls
<1>5. CASE CallJava(t)
  <2>1. /\ \/ Calls(t, "upcall", {"self"}, "java")
           \/ Moves(t, "upcall", {"self"}, {"default"})
        /\ Others(t)
    BY <1>5, CallJavaStack DEF Moves, Calls
  <2>2. NativeCalls(stack'[t]) = NativeCalls(stack[t])
    BY <2>1, MoveNative, CallNative
  <2> QED
    BY <1>1, <2>1, <2>2, SameCalls
<1>6. CASE LeaveUpcall(t)
  <2> DEFINE next == Resumed(stack[t][Len(stack[t]) - 1].at, Top(t).at)
  <2>1. /\ \/ Pops(t, "upcall", LeavePlaces)
           \/ Ends(t, "upcall", LeavePlaces, {next})
        /\ Others(t) /\ Top(t).code = "upcall"
    BY <1>6, LeaveUpcallStack DEF Pops, Ends
  <2> HIDE DEF next
  <2>2. /\ Len(stack[t]) \in NativeCalls(stack[t]) <=> IsNative(Top(t))
        /\ NativeCalls(stack'[t]) = NativeCalls(stack[t]) \ {Len(stack[t])}
    BY <2>1, EndNative
  <2>3. NativeCalls(stack'[t]) = NativeCalls(stack[t])
    BY <2>1, <2>2 DEF IsNative
  <2> QED
    BY <1>1, <2>1, <2>3, SameCalls
<1> QED
  BY <1>2, <1>3, <1>4, <1>5, <1>6 DEF CoreStep

LEMMA CallsProxyLife ==
  ASSUME StackInv, ProxyInv, CallsInv, Constructed => Constructed', ProxyLife
  PROVE  CallsInv'
<1>1. calls \in [Threads -> Nat] /\ UNCHANGED stack
  BY DEF ProxyInv, ProxyTypeOK, ProxyLife, directorVars
<1>2. ASSUME Drop \/ Finalize \/ ProxyStep(Finalizer)
      PROVE  UNCHANGED calls
  BY <1>2 DEF Drop, Finalize, ProxyStep, EnterMonitor, TestOwnership, CallDestructor,
              Disconnect, Release, Zero
<1>3. ASSUME NEW t \in Threads
      PROVE  calls'[t] \in Nat /\ (calls'[t] >= calls[t] \/ stack[t] = <<>>)
  <2>1. CASE Drop \/ Finalize \/ ProxyStep(Finalizer)
    BY <1>1, <1>2, <2>1
  <2>2. ASSUME NEW u \in Threads, stack[u] = <<>>, Construct(u) \/ Connect(u)
        PROVE  calls'[t] \in Nat /\ (calls'[t] >= calls[t] \/ stack[t] = <<>>)
    <3>1. \/ calls' = [calls EXCEPT ![u] = calls[u] + 1]
          \/ calls[u] = 1 /\ calls' = [calls EXCEPT ![u] = calls[u] - 1]
      BY <2>2 DEF Construct, Connect
    <3>2. calls[t] \in Nat /\ calls[u] \in Nat
      BY <1>1
    <3>3. CASE t # u
      <4>1. calls'[t] = calls[t]
        BY <1>1, <3>1, <3>3
      <4> QED
        BY <3>2, <4>1
    <3>4. CASE t = u
      <4>1. \/ calls'[u] = calls[u] + 1
            \/ calls[u] = 1 /\ calls'[u] = calls[u] - 1
        BY <1>1, <3>1
      <4>2. calls'[u] \in Nat
        BY <3>2, <4>1
      <4> QED
        BY <2>2, <3>4, <4>2
    <3> QED
      BY <3>3, <3>4
  <2> QED
    BY <2>1, <2>2 DEF ProxyLife
<1> SUFFICES ASSUME NEW t \in Threads
             PROVE  /\ Cardinality(NativeCalls(stack[t])) <= calls'[t]
                    /\ NativeCalls(stack[t]) # {} => Constructed'
  BY <1>1 DEF CallsInv, NativeCalls, IsNative
<1>4. ASSUME stack[t] = <<>> PROVE Cardinality(NativeCalls(stack[t])) = 0
  <2>1. NativeCalls(stack[t]) = {}
    BY <1>4 DEF NativeCalls
  <2> QED
    BY <2>1, FS_EmptySet
<1>5. /\ calls[t] \in Nat /\ Cardinality(NativeCalls(stack[t])) \in Nat
      /\ Cardinality(NativeCalls(stack[t])) <= calls[t]
  BY <1>1, NativeCallsFinite DEF CallsInv
<1>6. Cardinality(NativeCalls(stack[t])) <= calls'[t]
  BY <1>3, <1>4, <1>5
<1> QED
  BY <1>6 DEF CallsInv

LEMMA CallsInvHolds == Spec => []CallsInv
<1>1. Init => CallsInv
  <2> SUFFICES ASSUME Init, NEW t \in Threads
               PROVE  NativeCalls(stack[t]) = {} /\ Cardinality(NativeCalls(stack[t])) <= calls[t]
    BY DEF CallsInv
  <2>1. stack[t] = <<>> /\ calls[t] = 0
    BY DEF Init, DirectorInit, ProxyInit
  <2>2. NativeCalls(stack[t]) = {}
    BY <2>1 DEF NativeCalls
  <2> QED
    BY <2>1, <2>2, FS_EmptySet
<1>2. StackInv /\ ProxyInv /\ CallsInv /\ [Next]_vars => CallsInv'
  <2>1. ASSUME ProxyInv, [Next]_vars PROVE Constructed => Constructed'
    BY <2>1, ConstructedStays
  <2>2. ASSUME CallsInv, UNCHANGED vars PROVE CallsInv'
    BY <2>2 DEF vars, directorVars, proxyVars, CallsInv, Constructed, NativeCalls, IsNative
  <2> QED
    BY <2>1, <2>2, CallsJavaStep, CallsCoreStep, CallsProxyLife DEF Next
<1> QED
  BY StackInvHolds, ProxyInvLifted, <1>1, <1>2, PTL DEF Spec

(* A callback finds the proxy: a thread is in a native method meanwhile,   *)
(* and its argument keeps the proxy from the collector.                    *)
LEMMA SomeNativeCall ==
  ASSUME StackInv, OneConnect, NEW t \in Threads, stack[t] # <<>>, Top(t).code = "upcall"
  PROVE  \E u \in Threads : NativeCalls(stack[u]) # {}
<1> DEFINE n == Len(stack[t])
<1>1. n \in Nat \ {0}
  BY TopFrame
<1>2. CASE n = 1
  <2>1. t \in Workers
    BY <1>2, TopFrame DEF FirstCall
  <2>2. PICK u \in Threads \ Workers : \E i \in 1 .. Len(stack[u]) : InConnect(stack[u][i])
    BY <2>1 DEF OneConnect, WorkersServed
  <2>3. PICK i \in 1 .. Len(stack[u]) : InConnect(stack[u][i])
    BY <2>2
  <2>4. GoodFrame(stack[u][i]) /\ stack[u][i].method = "connect"
    BY <2>3 DEF StackInv, Shape, InConnect
  <2>5. IsNative(stack[u][i])
    BY <2>4, ConnectIsWrapper, ConnectIsMethod DEF IsNative
  <2> QED
    BY <2>5 DEF NativeCalls
<1>3. CASE n > 1
  <2> DEFINE f == stack[t][n - 1]
  <2>1. CallFrom(f, Top(t)) /\ GoodFrame(f)
    BY <1>3, TopFrame
  <2>2. f.code = "wrapper" /\ GoodWrapper(f) /\ f.at \in {"running", "calling"}
    BY <2>1 DEF CallFrom, GoodFrame
  <2>3. f.method \in DOMAIN Wrappers
    BY <2>2, BridgeIsMethod, DirectorAssumption DEF GoodWrapper
  <2>4. f.method = "connect" \/ f.method \in DOMAIN Upcalls
    BY <2>2 DEF GoodWrapper
  <2>5. IsNative(f)
    BY <2>2, <2>3, <2>4, NoUpcallIsStatic, ConnectIsMethod DEF NoStatic, IsNative
  <2>6. n - 1 \in 1 .. Len(stack[t])
    BY <1>1, <1>3
  <2> QED
    BY <2>5, <2>6 DEF NativeCalls
<1> HIDE DEF n
<1>4. n = 1 \/ n > 1
  BY <1>1
<1> QED
  BY <1>2, <1>3, <1>4

LEMMA FoundProxy ==
  ASSUME StackInv, OneConnect, CallsInv, ProxyInv, ~Deletes, ~Transfers,
         NEW t \in Threads, stack[t] # <<>>, Top(t).code = "upcall"
  PROVE  FindsProxy
<1>1. PICK u \in Threads : NativeCalls(stack[u]) # {}
  BY SomeNativeCall
<1>2. Cardinality(NativeCalls(stack[u])) # 0
  BY <1>1, NativeCallsFinite, FS_EmptySet
<1>3. calls[u] > 0 /\ Constructed
  <2>1. calls[u] \in Nat /\ Cardinality(NativeCalls(stack[u])) \in Nat
        /\ Cardinality(NativeCalls(stack[u])) <= calls[u] /\ Constructed
    BY <1>1, NativeCallsFinite DEF ProxyInv, ProxyTypeOK, CallsInv
  <2> QED
    BY <1>2, <2>1
<1>4. native = "live"
  BY <1>3, LiveCalls DEF CallsOnLive
<1>5. life = "live"
  BY <1>3 DEF ProxyInv, ProxyTypeOK, Collection, Constructed
<1>6. frees = 0
  BY <1>4 DEF ProxyInv, Deletion
<1> QED
  BY <1>3, <1>5, <1>6 DEF Constructed, FindsProxy

-----------------------------------------------------------------------------
(* The Java exceptions that are pending, and where.                        *)

NoBody(m) == Upcalls[m].pure /\ m \notin Overridden

ExceptionPlaces == {"zero", "done", "default", "thrown"}

(* 0 is given to C++ for want of a body only, and an exception is pending  *)
(* only in code that is about to return.                                   *)
Quiet(s, exception) ==
  /\ s # <<>> /\ s[Len(s)].code = "upcall" /\ s[Len(s)].at = "default" =>
       NoBody(s[Len(s)].method)
  /\ exception => s # <<>> /\ s[Len(s)].at \in ExceptionPlaces

QuietInv ==
  /\ pending = [t \in Threads |-> pending[t]]
  /\ \A t \in Threads : Quiet(stack[t], pending[t])

LEMMA OneQuiet ==
  ASSUME QuietInv, NEW t \in Threads, Others(t),
         \/ UNCHANGED pending
         \/ \E exception : pending' = [pending EXCEPT ![t] = exception],
         Quiet(stack'[t], pending'[t])
  PROVE  QuietInv'
  BY DEF QuietInv, Others, Quiet, NoBody

LEMMA QuietJavaStep ==
  ASSUME StackInv, QuietInv, NEW t \in Threads, JavaStep(t)
  PROVE  QuietInv'
<1>1. ASSUME NEW m \in JavaMethods, NEW null \in BOOLEAN, CallWrapper(t, m, null)
      PROVE  QuietInv'
  <2>1. StackInv' /\ Pushes(t, "wrapper", Bridge(m), "check") /\ UNCHANGED pending /\ InJava(t)
    BY <1>1, CallWrapperStack DEF CallWrapper
  <2>2. Top(t)'.at = "check" /\ Others(t) /\ stack'[t] # <<>>
    BY <2>1, NextTops
  <2>3. ~pending'[t]
    BY <2>1 DEF QuietInv, Quiet, ExceptionPlaces, InJava, Is, Top
  <2> QED
    BY <2>1, <2>2, <2>3, OneQuiet DEF Quiet, Top
<1>2. CASE RejectNull(t)
  <2>1. StackInv' /\ Moves(t, "wrapper", {"check"}, {"zero"})
        /\ pending' = [pending EXCEPT ![t] = TRUE]
    BY <1>2, RejectNullStack DEF RejectNull
  <2>2. Top(t)'.at = "zero" /\ Others(t) /\ stack'[t] # <<>>
    BY <2>1, NextTops
  <2> QED
    BY <2>1, <2>2, OneQuiet DEF Quiet, Top, ExceptionPlaces
<1>3. CASE CallFunction(t)
  <2>1. StackInv' /\ UNCHANGED pending
        /\ \/ Moves(t, "wrapper", {"check"}, {"running", "done"})
           \/ Calls(t, "wrapper", {"check"}, "calling")
    BY <1>3, CallFunctionStack DEF CallFunction
  <2>2. Top(t)'.at \in {"running", "done", "enter", "body"} /\ Others(t) /\ stack'[t] # <<>>
    BY <2>1, NextTops
  <2>3. ~pending'[t]
    BY <1>3, <2>1 DEF QuietInv, Quiet, ExceptionPlaces, CallFunction, Is, Top
  <2> QED
    BY <2>1, <2>2, <2>3, OneQuiet DEF Quiet, Top
<1>4. CASE ReturnToJava(t)
  <2>1. StackInv' /\ pending' = [pending EXCEPT ![t] = FALSE]
        /\ \/ Pops(t, "wrapper", {"done", "zero"})
           \/ Ends(t, "wrapper", {"done", "zero"}, {"raise"})
    BY <1>4, ReturnToJavaStack DEF ReturnToJava
  <2>2. ~pending'[t]
    BY <2>1 DEF QuietInv
  <2>3. CASE Ends(t, "wrapper", {"done", "zero"}, {"raise"})
    <3>1. Top(t)'.at = "raise" /\ Others(t)
      BY <2>1, <2>3, NextTops
    <3> QED
      BY <2>1, <2>2, <3>1, OneQuiet DEF Quiet, Top
  <2>4. CASE Pops(t, "wrapper", {"done", "zero"})
    <3>1. stack'[t] # <<>> => Top(t)'.code = "java"
      BY <2>1, <2>4, NextTops, Caller
    <3>2. Others(t)
      BY <2>1, <2>4, NextTops
    <3> QED
      BY <2>1, <2>2, <3>1, <3>2, OneQuiet DEF Quiet, Top
  <2> QED
    BY <2>1, <2>3, <2>4
<1>5. CASE JavaReturns(t)
  <2>1. StackInv' /\ Ends(t, "java", {"body"}, {"value", "networks", "null"})
        /\ UNCHANGED pending
    BY <1>5, JavaReturnsStack DEF JavaReturns
  <2>2. Top(t)'.at \in {"value", "networks", "null"} /\ Others(t)
    BY <2>1, NextTops
  <2>3. ~pending'[t]
    BY <1>5, <2>1 DEF QuietInv, Quiet, ExceptionPlaces, JavaReturns, Is, Top
  <2> QED
    BY <2>1, <2>2, <2>3, OneQuiet DEF Quiet, Top
<1>6. CASE JavaThrows(t)
  <2>1. StackInv' /\ Ends(t, "java", {"body", "raise"}, {"thrown"})
        /\ pending' = [pending EXCEPT ![t] = TRUE]
    BY <1>6, JavaThrowsStack DEF JavaThrows
  <2>2. Top(t)'.at = "thrown" /\ Others(t) /\ stack'[t] # <<>>
    BY <2>1, NextTops
  <2> QED
    BY <2>1, <2>2, OneQuiet DEF Quiet, Top, ExceptionPlaces
<1> QED
  BY <1>1, <1>2, <1>3, <1>4, <1>5, <1>6 DEF JavaStep

LEMMA QuietCoreStep ==
  ASSUME Callbacks, StackInv, OneConnect, CallsInv, ProxyInv, QuietInv,
         NEW t \in Threads, CoreStep(t)
  PROVE  QuietInv'
<1>1. ASSUME NEW m \in CoreMethods, CoreCalls(t, m) PROVE QuietInv'
  <2>1. StackInv' /\ Pushes(t, "upcall", m, "enter") /\ UNCHANGED pending /\ InCore(t)
    BY <1>1, CoreCallsStack DEF CoreCalls
  <2>2. Top(t)'.at = "enter" /\ Others(t)
    BY <2>1, NextTops
  <2>3. ~pending'[t]
    BY <2>1 DEF QuietInv, Quiet, ExceptionPlaces, InCore, Is, Top
  <2> QED
    BY <2>1, <2>2, <2>3, OneQuiet DEF Quiet, Top
<1>2. CASE CoreEnds(t)
  <2>1. StackInv' /\ Moves(t, "wrapper", {"running", "ending"}, {"done"}) /\ UNCHANGED pending
    BY <1>2, CoreEndsStack DEF CoreEnds
  <2>2. Top(t)'.at = "done" /\ Others(t) /\ stack'[t] # <<>>
    BY <2>1, NextTops
  <2> QED
    BY <2>1, <2>2, OneQuiet DEF Quiet, Top, ExceptionPlaces
<1>3. CASE EnterUpcall(t) \/ CallBase(t) \/ FinalizeNetworks(t)
  <2>1. /\ StackInv' /\ UNCHANGED pending
        /\ \/ Moves(t, "upcall", {"enter"}, {"self", "pure", "base"})
           \/ Moves(t, "upcall", {"base"}, {"value"})
           \/ Moves(t, "upcall", {"networks"}, {"freed"})
    BY <1>3, EnterUpcallStack, CallBaseStack, FinalizeNetworksStack
       DEF EnterUpcall, CallBase, FinalizeNetworks
  <2>2. Top(t)'.at \in {"self", "pure", "base", "value", "freed"} /\ Others(t)
    BY <2>1, NextTops
  <2>3. ~pending'[t]
    BY <1>3, <2>1
       DEF QuietInv, Quiet, ExceptionPlaces, EnterUpcall, CallBase, FinalizeNetworks, Is, Top
  <2> QED
    BY <2>1, <2>2, <2>3, OneQuiet DEF Quiet, Top
<1>4. CASE RejectPure(t)
  <2>1. StackInv' /\ Moves(t, "upcall", {"pure"}, {"default"})
        /\ pending' = [pending EXCEPT ![t] = TRUE]
    BY <1>4, RejectPureStack DEF RejectPure
  <2>2. Top(t)'.at = "default" /\ Others(t) /\ stack'[t] # <<>>
    BY <2>1, NextTops
  <2>3. stack[t] # <<>> /\ Top(t).code = "upcall" /\ Top(t).at = "pure"
    BY <1>4 DEF RejectPure, Is
  <2>4. NoBody(Top(t).method)
    BY <2>3, TopFrame DEF GoodFrame, GoodUpcall, NoBody
  <2>5. PICK f : IsMove(stack[t], stack'[t], f) /\ SameCall(Top(t), f)
    BY <2>1 DEF Moves
  <2>6. Top(t)' = f /\ f.method = Top(t).method
    BY <2>5 DEF IsMove, SameCall, Top
  <2>7. NoBody(stack'[t][Len(stack'[t])].method)
    BY <2>4, <2>6 DEF Top
  <2> QED
    BY <2>1, <2>2, <2>7, OneQuiet DEF Quiet, Top, ExceptionPlaces
<1>5. CASE CallJava(t)
  <2>1. stack[t] # <<>> /\ Top(t).code = "upcall" /\ Top(t).at = "self"
    BY <1>5 DEF CallJava, Is
  <2>2. FindsProxy
    BY <2>1, FoundProxy DEF Callbacks
  <2>3. StackInv' /\ Calls(t, "upcall", {"self"}, "java") /\ UNCHANGED pending
    BY <1>5, <2>2, CallJavaStack
  <2>4. Top(t)'.at \in {"enter", "body"} /\ Others(t)
    BY <2>3, NextTops
  <2>5. ~pending'[t]
    BY <2>1, <2>3 DEF QuietInv, Quiet, ExceptionPlaces, Top
  <2> QED
    BY <2>3, <2>4, <2>5, OneQuiet DEF Quiet, Top
<1>6. CASE LeaveUpcall(t)
  <2> DEFINE n == Len(stack[t])
             next == Resumed(stack[t][n - 1].at, Top(t).at)
             value == Pending(Top(t).at, pending[t]) /\ ~Top(t).attaches
  <2>1. /\ StackInv'
        /\ \/ n = 1 /\ Pops(t, "upcall", LeavePlaces)
           \/ n > 1 /\ Ends(t, "upcall", LeavePlaces, {next})
    BY <1>6, LeaveUpcallStack
  <2>2. pending' = [pending EXCEPT ![t] = value]
    BY <1>6 DEF LeaveUpcall
  <2>3. pending'[t] = value
    BY <2>2 DEF QuietInv
  <2>4. stack[t] # <<>> /\ Top(t).code = "upcall" /\ Top(t).at \in LeavePlaces
    BY <1>6 DEF LeaveUpcall, Is, LeavePlaces
  <2>5. ASSUME Top(t).method \in CoreMethods PROVE ~pending'[t]
    <3>1. Top(t).at \notin {"default", "null"}
      BY <2>4, <2>5, TopFrame
         DEF QuietInv, Quiet, Top, NoBody, Callbacks, CallbacksHaveBodies, GoodFrame, GoodUpcall
    <3>2. CASE Top(t).at = "thrown"
      BY <2>3, <3>2 DEF Pending
    <3>3. CASE Top(t).at # "thrown"
      <4>1. ~pending[t]
        BY <2>4, <3>1, <3>3 DEF QuietInv, Quiet, ExceptionPlaces, LeavePlaces, Top
      <4>2. Pending(Top(t).at, pending[t]) = pending[t]
        BY <2>4, <3>1, <3>3 DEF Pending, LeavePlaces
      <4> QED
        BY <2>3, <4>1, <4>2
    <3> QED
      BY <3>2, <3>3
  <2> HIDE DEF value
  <2>6. CASE n = 1 /\ Pops(t, "upcall", LeavePlaces)
    <3>1. stack'[t] = <<>> /\ Others(t)
      BY <2>1, <2>6, NextTops
    <3>2. Top(t).method \in CoreMethods
      BY <2>4, <2>6, TopFrame DEF FirstCall
    <3> QED
      BY <2>2, <2>5, <3>1, <3>2, OneQuiet DEF Quiet
  <2>7. CASE n > 1 /\ Ends(t, "upcall", LeavePlaces, {next})
    <3>1. /\ Top(t)'.at = next /\ Others(t) /\ stack'[t] # <<>>
          /\ Top(t)'.code = stack[t][n - 1].code
      BY <2>1, <2>7, NextTops
    <3>2. stack[t][n - 1].code = "wrapper"
          /\ \/ stack[t][n - 1].at = "running" /\ Top(t).method \in CoreMethods
             \/ stack[t][n - 1].at = "calling"
      BY <2>4, <2>7, TopFrame DEF CallFrom
    <3>3. stack[t][n - 1].at = "calling" => next = "done"
      BY DEF Resumed
    <3>4. pending'[t] => next = "done"
      BY <2>5, <3>2, <3>3
    <3> HIDE DEF next
    <3> QED
      BY <2>2, <3>1, <3>2, <3>4, OneQuiet DEF Quiet, Top, ExceptionPlaces
  <2> QED
    BY <2>1, <2>6, <2>7
<1> QED
  BY <1>1, <1>2, <1>3, <1>4, <1>5, <1>6 DEF CoreStep

LEMMA QuietInvHolds ==
  ASSUME Callbacks
  PROVE  Spec => []QuietInv
<1>1. Init => QuietInv
  BY DEF Init, DirectorInit, QuietInv, Quiet
<1>2. StackInv /\ OneConnect /\ CallsInv /\ ProxyInv /\ QuietInv /\ [Next]_vars => QuietInv'
  <2>1. ASSUME QuietInv, UNCHANGED vars \/ ProxyLife PROVE QuietInv'
    BY <2>1 DEF vars, directorVars, ProxyLife, QuietInv, Quiet, NoBody
  <2> QED
    BY <2>1, QuietJavaStep, QuietCoreStep DEF Next
<1> QED
  BY StackInvHolds, OneConnectHolds, CallsInvHolds, ProxyInvLifted, <1>1, <1>2, PTL DEF Spec

(* NoPendingException: no Java code runs and the core does not go on while *)
(* a Java exception is pending, on any threads.  The hypotheses are what   *)
(* ManagementHandler does: no body returns null for a vector, every pure   *)
(* method the core calls has a body, and the program neither deletes its   *)
(* client nor hands it over.                                               *)
THEOREM ExceptionsAreCleared ==
  ASSUME Callbacks
  PROVE  Spec => []NoPendingException
<1>1. QuietInv => NoPendingException
  BY DEF QuietInv, Quiet, ExceptionPlaces, NoPendingException, InJava, InCore, Is, Top
<1> QED
  BY QuietInvHolds, <1>1, PTL

-----------------------------------------------------------------------------
(* The virtual calls of a stack.                                           *)

Depth(s, worker) == (Len(s) + Turn(worker)) \div 3

LEMMA SameStack ==
  ASSUME NEW a, NEW b, IsStack(a), IsStack(b), Len(a) = Len(b),
         \A i \in 1 .. Len(a) : a[i] = b[i]
  PROVE  a = b
<1>1. PICK S : a \in Seq(S)
  BY DEF IsStack
<1>2. PICK T : b \in Seq(T)
  BY DEF IsStack
<1> QED
  BY <1>1, <1>2

LEMMA UpcallsAreStack ==
  ASSUME NEW s, NEW worker, IsStack(s)
  PROVE  LET a == UpcallsOf(s, worker) IN
         /\ Depth(s, worker) \in Nat
         /\ IsStack(a) /\ Len(a) = Depth(s, worker)
         /\ \A k \in 1 .. Depth(s, worker) :
              a[k] = UpcallAt(s, 3 * k - Turn(worker))
<1> DEFINE n == Depth(s, worker)
           a == UpcallsOf(s, worker)
           S == {UpcallAt(s, 3 * k - Turn(worker)) : k \in 1 .. n}
<1>1. Turn(worker) \in {1, 2} /\ Len(s) \in Nat
  BY StackLength DEF Turn
<1>2. n \in Nat
  BY <1>1 DEF Depth
<1>3. a = [k \in 1 .. n |-> UpcallAt(s, 3 * k - Turn(worker))]
  BY DEF UpcallsOf, Depth
<1> HIDE DEF n, a
<1>4. a \in [1 .. n -> S]
  BY <1>3
<1> HIDE DEF S
<1>5. a \in Seq(S) /\ Len(a) = n
  BY <1>2, <1>4
<1>6. IsStack(a)
  BY <1>5 DEF IsStack
<1> QED
  BY <1>2, <1>3, <1>5, <1>6 DEF n, a

(* What the frames up to a depth say of the upcalls up to it. *)
LEMMA SameUpcallAt ==
  ASSUME NEW s, NEW s2, NEW worker, NEW k \in Nat, NEW d \in Nat, k \in 1 .. d,
         \A i \in 1 .. 3 * d - Turn(worker) : s2[i] = s[i]
  PROVE  UpcallAt(s2, 3 * k - Turn(worker)) = UpcallAt(s, 3 * k - Turn(worker))
<1> DEFINE i == 3 * k - Turn(worker)
<1>1. Turn(worker) \in {1, 2}
  BY DEF Turn
<1>2. i \in 1 .. 3 * d - Turn(worker)
  BY <1>1
<1>3. i > 1 => i - 1 \in 1 .. 3 * d - Turn(worker)
  BY <1>1
<1> HIDE DEF i
<1>4. s2[i] = s[i] /\ (i > 1 => s2[i - 1] = s[i - 1])
  BY <1>2, <1>3
<1>5. UpcallAt(s2, i) = UpcallAt(s, i)
  BY <1>4 DEF UpcallAt
<1> QED
  BY <1>5 DEF i

LEMMA SameUpcalls ==
  ASSUME NEW s, NEW s2, NEW worker, IsStack(s), IsStack(s2),
         Depth(s2, worker) = Depth(s, worker),
         \A i \in 1 .. 3 * Depth(s, worker) - Turn(worker) : s2[i] = s[i]
  PROVE  UpcallsOf(s2, worker) = UpcallsOf(s, worker)
<1>1. Depth(s, worker) \in Nat
  BY UpcallsAreStack
<1>2. \A k \in 1 .. Depth(s, worker) :
        UpcallAt(s2, 3 * k - Turn(worker)) = UpcallAt(s, 3 * k - Turn(worker))
  BY <1>1, SameUpcallAt
<1> QED
  BY <1>2 DEF UpcallsOf, Depth

LEMMA OneUpcallMore ==
  ASSUME NEW s, NEW s2, NEW worker, IsStack(s), IsStack(s2),
         Depth(s2, worker) = Depth(s, worker) + 1,
         \A i \in 1 .. 3 * Depth(s, worker) - Turn(worker) : s2[i] = s[i]
  PROVE  UpcallsOf(s2, worker) =
           Append(UpcallsOf(s, worker),
                  UpcallAt(s2, 3 * Depth(s2, worker) - Turn(worker)))
<1> DEFINE d == Depth(s, worker)
           a == UpcallsOf(s, worker)
           b == UpcallsOf(s2, worker)
           e == UpcallAt(s2, 3 * (d + 1) - Turn(worker))
           c == Append(a, e)
<1>1. /\ d \in Nat /\ IsStack(a) /\ Len(a) = d
      /\ IsStack(b) /\ Len(b) = d + 1
      /\ \A k \in 1 .. d : a[k] = UpcallAt(s, 3 * k - Turn(worker))
      /\ \A k \in 1 .. d + 1 : b[k] = UpcallAt(s2, 3 * k - Turn(worker))
  BY UpcallsAreStack
<1>2. \A k \in 1 .. d :
        UpcallAt(s2, 3 * k - Turn(worker)) = UpcallAt(s, 3 * k - Turn(worker))
  BY <1>1, SameUpcallAt
<1> HIDE DEF a, b, d, e
<1>3. /\ IsStack(c) /\ Len(c) = d + 1 /\ c[d + 1] = e
      /\ \A i \in 1 .. d : c[i] = a[i]
  BY <1>1, Pushed
<1> HIDE DEF c
<1>4. ASSUME NEW i \in 1 .. d + 1 PROVE b[i] = c[i]
  <2>1. CASE i \in 1 .. d
    <3>1. b[i] = UpcallAt(s2, 3 * i - Turn(worker)) /\ c[i] = a[i]
      BY <1>1, <1>3, <2>1
    <3> QED
      BY <1>1, <1>2, <2>1, <3>1
  <2>2. CASE i = d + 1
    BY <1>1, <1>3, <2>2 DEF e
  <2> QED
    BY <1>1, <2>1, <2>2
<1>5. b = c
  BY <1>1, <1>3, <1>4, SameStack
<1> QED
  BY <1>5 DEF a, b, c, d, e

LEMMA InnermostUpcall ==
  ASSUME NEW s, NEW s2, NEW worker, IsStack(s), IsStack(s2),
         Depth(s2, worker) = Depth(s, worker), Depth(s, worker) > 0,
         NEW i, i = 3 * Depth(s, worker) - Turn(worker),
         \A j \in 1 .. i - 1 : s2[j] = s[j],
         s2[i].method = s[i].method,
         NEW a, a = UpcallsOf(s, worker)
  PROVE  /\ a # <<>> /\ Len(a) = Depth(s, worker)
         /\ a[Len(a)] = UpcallAt(s, i)
         /\ UpcallsOf(s2, worker) = [a EXCEPT ![Len(a)].phase = UpcallAt(s2, i).phase]
<1> DEFINE d == Depth(s, worker)
           b == UpcallsOf(s2, worker)
           e == [a[Len(a)] EXCEPT !.phase = UpcallAt(s2, i).phase]
           c == [a EXCEPT ![Len(a)] = e]
<1>1. /\ d \in Nat /\ IsStack(a) /\ Len(a) = d
      /\ IsStack(b) /\ Len(b) = d
      /\ \A k \in 1 .. d : a[k] = UpcallAt(s, 3 * k - Turn(worker))
      /\ \A k \in 1 .. d : b[k] = UpcallAt(s2, 3 * k - Turn(worker))
  BY UpcallsAreStack
<1>2. /\ d > 0 /\ i = 3 * d - Turn(worker) /\ s2[i].method = s[i].method
      /\ \A j \in 1 .. i - 1 : s2[j] = s[j]
  OBVIOUS
<1>3. Turn(worker) \in {1, 2}
  BY DEF Turn
<1> HIDE DEF d
<1>4. d - 1 \in Nat /\ 3 * (d - 1) - Turn(worker) <= i - 1 /\ i \in Nat
  BY <1>1, <1>2, <1>3
<1>5. \A j \in 1 .. 3 * (d - 1) - Turn(worker) : s2[j] = s[j]
  BY <1>2, <1>3, <1>4
<1>6. ASSUME NEW k \in 1 .. d - 1
      PROVE  UpcallAt(s2, 3 * k - Turn(worker)) = UpcallAt(s, 3 * k - Turn(worker))
  BY <1>4, <1>5, SameUpcallAt
<1> HIDE DEF b
<1>7. a # <<>> /\ a[Len(a)] = UpcallAt(s, i)
  <2>1. d \in 1 .. d
    BY <1>1, <1>2
  <2>2. a[d] = UpcallAt(s, 3 * d - Turn(worker))
    BY <1>1, <2>1
  <2>3. a # <<>>
    BY <1>1, <1>2, StackLength
  <2> QED
    BY <1>1, <1>2, <2>2, <2>3
<1>8. e = UpcallAt(s2, i)
  BY <1>2, <1>7 DEF UpcallAt
<1> HIDE DEF e
<1>9. IsStack(c) /\ Len(c) = d /\ c[d] = e /\ \A j \in 1 .. d - 1 : c[j] = a[j]
  <2>1. IsMove(a, c, e)
    BY <1>1, <1>7, MoveForm
  <2> HIDE DEF c
  <2> QED
    BY <1>1, <2>1 DEF IsMove
<1>10. c = [a EXCEPT ![Len(a)].phase = UpcallAt(s2, i).phase]
  BY DEF e
<1> HIDE DEF c
<1>11. ASSUME NEW k \in 1 .. d PROVE b[k] = c[k]
  <2>1. CASE k = d
    BY <1>1, <1>2, <1>8, <1>9, <2>1
  <2>2. CASE k # d
    <3>1. k \in 1 .. d - 1
      BY <1>1, <2>2
    <3> QED
      BY <1>1, <1>6, <1>9, <3>1
  <2> QED
    BY <2>1, <2>2
<1>12. b = c
  BY <1>1, <1>9, <1>11, SameStack
<1> QED
  BY <1>1, <1>7, <1>10, <1>12 DEF b, d

LEMMA OneUpcallLess ==
  ASSUME NEW s, NEW s2, NEW worker, IsStack(s), IsStack(s2),
         Depth(s2, worker) = Depth(s, worker) - 1,
         \A i \in 1 .. 3 * Depth(s2, worker) - Turn(worker) : s2[i] = s[i]
  PROVE  LET a == UpcallsOf(s, worker)
         IN /\ a # <<>> /\ Len(a) = Depth(s, worker)
            /\ a[Len(a)] = UpcallAt(s, 3 * Depth(s, worker) - Turn(worker))
            /\ UpcallsOf(s2, worker) = SubSeq(a, 1, Len(a) - 1)
<1> DEFINE d == Depth(s, worker)
           a == UpcallsOf(s, worker)
           b == UpcallsOf(s2, worker)
           c == Under(a)
<1>1. /\ d \in Nat /\ IsStack(a) /\ Len(a) = d
      /\ IsStack(b) /\ Len(b) = d - 1 /\ d - 1 \in Nat
      /\ \A k \in 1 .. d : a[k] = UpcallAt(s, 3 * k - Turn(worker))
      /\ \A k \in 1 .. d - 1 : b[k] = UpcallAt(s2, 3 * k - Turn(worker))
  BY UpcallsAreStack
<1>2. \A k \in 1 .. d - 1 :
        UpcallAt(s2, 3 * k - Turn(worker)) = UpcallAt(s, 3 * k - Turn(worker))
  BY <1>1, SameUpcallAt
<1> HIDE DEF a, b, d
<1>3. d > 0 /\ d \in 1 .. d
  BY <1>1
<1>4. a # <<>> /\ a[Len(a)] = UpcallAt(s, 3 * d - Turn(worker))
  BY <1>1, <1>3, StackLength
<1>5. IsStack(c) /\ Len(c) = d - 1 /\ \A i \in 1 .. d - 1 : c[i] = a[i]
  BY <1>1, <1>4, Popped
<1>6. c = SubSeq(a, 1, Len(a) - 1)
  BY DEF Under
<1> HIDE DEF c
<1>7. ASSUME NEW k \in 1 .. d - 1 PROVE b[k] = c[k]
  <2>1. k \in 1 .. d
    BY <1>1
  <2> QED
    BY <1>1, <1>2, <1>5, <2>1
<1>8. b = c
  BY <1>1, <1>5, <1>7, SameStack
<1> QED
  BY <1>1, <1>4, <1>6, <1>8 DEF a, b, d

(* How deep the frame on top is. *)
LEMMA TopTurn ==
  ASSUME NEW s, NEW worker, Shape(s, worker)
  PROVE  /\ IsStack(s) /\ Len(s) \in Nat /\ Depth(s, worker) \in Nat
         /\ Turn(worker) \in {1, 2}
         /\ s # <<>> <=> Len(s) > 0
         /\ s = <<>> => Depth(s, worker) = 0
         /\ s # <<>> /\ s[Len(s)].code = "upcall" =>
              3 * Depth(s, worker) - Turn(worker) = Len(s) /\ Depth(s, worker) > 0
         /\ s # <<>> /\ s[Len(s)].code = "java" =>
              3 * Depth(s, worker) - Turn(worker) = Len(s) - 1 /\ Depth(s, worker) > 0
         /\ s # <<>> /\ s[Len(s)].code = "wrapper" =>
              3 * Depth(s, worker) - Turn(worker) = Len(s) - 2
<1> DEFINE n == Len(s)
           d == Depth(s, worker)
           o == Turn(worker)
<1>2. IsStack(s) /\ n \in Nat /\ (s # <<>> <=> n > 0)
  BY StackLength DEF Shape
<1>3. o \in {1, 2}
  BY DEF Turn
<1>4. d = (n + o) \div 3
  BY DEF Depth
<1>5. s # <<>> => InTurn(s[n], n, worker)
  BY <1>2 DEF Shape
<1>6. InTurn(s[n], n, worker) =>
        /\ s[n].code = "upcall" => (n + o) % 3 = 0
        /\ s[n].code = "java" => (n + o) % 3 = 1
        /\ s[n].code = "wrapper" => (n + o) % 3 = 2
  BY DEF InTurn
<1> HIDE DEF n, o, d
<1>7. d \in Nat
  BY <1>2, <1>3, <1>4
<1>8. n > 0 =>
        /\ (n + o) % 3 = 0 => 3 * d - o = n /\ d > 0
        /\ (n + o) % 3 = 1 => 3 * d - o = n - 1 /\ d > 0
        /\ (n + o) % 3 = 2 => 3 * d - o = n - 2
  BY <1>2, <1>3, <1>4
<1>9. n = 0 => d = 0
  BY <1>3, <1>4
<1> QED
  BY <1>2, <1>3, <1>5, <1>6, <1>7, <1>8, <1>9 DEF n, o, d

-----------------------------------------------------------------------------
(* The steps of VirtualCall.                                               *)

Virtual1(t) == UpcallsOf(stack[t], t \in Workers)

VirtualStep == VC!Next \/ VirtualCalls' = VirtualCalls

LEMMA OneVirtual ==
  ASSUME StackInv, StackInv', NEW t \in Threads, Others(t)
  PROVE  /\ VirtualCalls[t] = Virtual1(t)
         /\ VirtualCalls' = [VirtualCalls EXCEPT ![t] = Virtual1(t)']
<1>1. VirtualCalls[t] = Virtual1(t)
  BY DEF VirtualCalls, Virtual1
<1>2. DOMAIN VirtualCalls = Threads
  BY DEF VirtualCalls
<1>3. VirtualCalls' = [u \in Threads |-> UpcallsOf(stack'[u], u \in Workers)]
  BY DEF VirtualCalls
<1>4. \A u \in Threads \ {t} : UpcallsOf(stack'[u], u \in Workers) = VirtualCalls[u]
  BY DEF VirtualCalls, Others
<1>5. UpcallsOf(stack'[t], t \in Workers) = Virtual1(t)'
  BY DEF Virtual1
<1> HIDE DEF VirtualCalls
<1>6. \A u \in Threads :
        UpcallsOf(stack'[u], u \in Workers) = [VirtualCalls EXCEPT ![t] = Virtual1(t)'][u]
  BY <1>2, <1>4, <1>5
<1>7. [VirtualCalls EXCEPT ![t] = Virtual1(t)'] =
        [u \in Threads |-> [VirtualCalls EXCEPT ![t] = Virtual1(t)'][u]]
  BY <1>2
<1> QED
  BY <1>1, <1>3, <1>6, <1>7

LEMMA VirtualStays ==
  ASSUME StackInv, StackInv', NEW t \in Threads, Others(t), Virtual1(t)' = Virtual1(t)
  PROVE  VirtualStep
<1>1. DOMAIN VirtualCalls = Threads
  BY DEF VirtualCalls
<1>2. VirtualCalls' = [VirtualCalls EXCEPT ![t] = VirtualCalls[t]]
  BY OneVirtual
<1>3. VirtualCalls = [u \in Threads |-> VirtualCalls[u]]
  BY DEF VirtualCalls
<1>4. VirtualCalls' = VirtualCalls
  BY <1>1, <1>2, <1>3
<1> QED
  BY <1>4 DEF VirtualStep

LEMMA VirtualInvoke ==
  ASSUME StackInv, StackInv', NEW t \in Threads, Others(t), NEW m \in DOMAIN Upcalls,
         Virtual1(t) # <<>> => Virtual1(t)[Len(Virtual1(t))].phase = "java",
         Virtual1(t)' = Append(Virtual1(t), [method |-> m, phase |-> "called"])
  PROVE  VirtualStep
<1>1. VirtualCalls[t] = Virtual1(t)
      /\ VirtualCalls' = [VirtualCalls EXCEPT ![t] = Virtual1(t)']
  BY OneVirtual
<1>2. VC!Invoke(t)
  BY <1>1 DEF VC!Invoke, VC!Innermost
<1> QED
  BY <1>2 DEF VirtualStep, VC!Next

LEMMA VirtualReturn ==
  ASSUME StackInv, StackInv', NEW t \in Threads, Others(t),
         Virtual1(t) # <<>>,
         Virtual1(t)[Len(Virtual1(t))].phase \in {"value", "exception"},
         Virtual1(t)' = SubSeq(Virtual1(t), 1, Len(Virtual1(t)) - 1)
  PROVE  VirtualStep
<1>1. VirtualCalls[t] = Virtual1(t)
      /\ VirtualCalls' = [VirtualCalls EXCEPT ![t] = Virtual1(t)']
  BY OneVirtual
<1>2. VC!Return(t)
  BY <1>1 DEF VC!Return, VC!Innermost
<1> QED
  BY <1>2 DEF VirtualStep, VC!Next

(* A call goes on from one phase to the next. *)
Follows(m, p, q) ==
  \/ p = q
  \/ p = "called" /\ q = IF m \in Overridden THEN "java" ELSE "native"
  \/ p \in {"java", "native"} /\ q \in {"value", "exception"}

LEMMA VirtualPass ==
  ASSUME StackInv, StackInv', NEW t \in Threads, Others(t), NEW m, NEW p, NEW q,
         Follows(m, p, q), IsStack(Virtual1(t)), Virtual1(t) # <<>>,
         Virtual1(t)[Len(Virtual1(t))] = [method |-> m, phase |-> p],
         Virtual1(t)' = [Virtual1(t) EXCEPT ![Len(Virtual1(t))].phase = q]
  PROVE  VirtualStep
<1> DEFINE v == Virtual1(t)
<1>1. VirtualCalls[t] = v /\ VirtualCalls' = [VirtualCalls EXCEPT ![t] = Virtual1(t)']
  BY OneVirtual
<1>2. VirtualCalls' = [VirtualCalls EXCEPT ![t][Len(VirtualCalls[t])].phase = q]
  BY <1>1
<1>3. VC!Innermost(t) = [method |-> m, phase |-> p] /\ VirtualCalls[t] # <<>>
  BY <1>1 DEF VC!Innermost
<1>4. CASE p = q
  <2>1. [v[Len(v)] EXCEPT !.phase = q] = v[Len(v)]
    BY <1>4
  <2>2. PICK S : v \in Seq(S)
    BY DEF IsStack
  <2>3. [v EXCEPT ![Len(v)] = v[Len(v)]] = v
    BY <2>2
  <2>4. Virtual1(t)' = v
    BY <2>1, <2>3
  <2> QED
    BY <2>4, VirtualStays
<1>5. CASE p = "called" /\ q = IF m \in Overridden THEN "java" ELSE "native"
  <2>1. VC!Execute(t)
    BY <1>2, <1>3, <1>5 DEF VC!Execute, VC!Pass
  <2> QED
    BY <2>1 DEF VirtualStep, VC!Next
<1>6. CASE p \in {"java", "native"} /\ q = "value"
  <2>1. VC!Value(t)
    BY <1>2, <1>3, <1>6 DEF VC!Value, VC!Pass
  <2> QED
    BY <2>1 DEF VirtualStep, VC!Next
<1>7. CASE p \in {"java", "native"} /\ q = "exception"
  <2>1. VC!Exception(t)
    BY <1>2, <1>3, <1>7 DEF VC!Exception, VC!Pass
  <2> QED
    BY <2>1 DEF VirtualStep, VC!Next
<1> QED
  BY <1>4, <1>5, <1>6, <1>7 DEF Follows

FromJava(t) == Len(stack[t]) > 1 /\ stack[t][Len(stack[t]) - 1].at = "calling"

LEMMA BothTurns ==
  ASSUME StackInv, StackInv', NEW t \in Threads
  PROVE  /\ Shape(stack[t], t \in Workers) /\ Shape(stack'[t], t \in Workers)
         /\ IsStack(stack[t]) /\ IsStack(stack'[t])
         /\ Len(stack[t]) \in Nat /\ Len(stack'[t]) \in Nat
         /\ IsStack(Virtual1(t)) /\ Len(Virtual1(t)) \in Nat
         /\ Len(Virtual1(t)) = Depth(stack[t], t \in Workers)
         /\ Virtual1(t) # <<>> <=> Depth(stack[t], t \in Workers) > 0
<1>1. Shape(stack[t], t \in Workers) /\ Shape(stack'[t], t \in Workers)
  BY DEF StackInv
<1>2. IsStack(stack[t]) /\ IsStack(stack'[t])
  BY <1>1 DEF Shape
<1>3. Len(stack[t]) \in Nat /\ Len(stack'[t]) \in Nat
  BY <1>2, StackLength
<1>4. IsStack(Virtual1(t)) /\ Len(Virtual1(t)) = Depth(stack[t], t \in Workers)
      /\ Depth(stack[t], t \in Workers) \in Nat
  BY <1>2, UpcallsAreStack DEF Virtual1
<1>5. Virtual1(t) # <<>> <=> Depth(stack[t], t \in Workers) > 0
  BY <1>4, StackLength
<1> QED
  BY <1>1, <1>2, <1>3, <1>4, <1>5

(* An upcall on top that goes on. *)
UpcallPasses(t, m, p, q) ==
  /\ IsStack(Virtual1(t)) /\ Virtual1(t) # <<>>
  /\ Virtual1(t)[Len(Virtual1(t))] = [method |-> m, phase |-> p]
  /\ Virtual1(t)' = [Virtual1(t) EXCEPT ![Len(Virtual1(t))].phase = q]

LEMMA TopPhase ==
  ASSUME StackInv, NEW t \in Threads, stack[t] # <<>>, Top(t).code = "upcall"
  PROVE  UpcallAt(stack[t], Len(stack[t])) =
           [method |-> Top(t).method, phase |-> Phase(Top(t).at, FromJava(t))]
  BY DEF UpcallAt, Top, FromJava

LEMMA UpcallGoesOn ==
  ASSUME StackInv, StackInv', NEW t \in Threads, stack[t] # <<>>, Top(t).code = "upcall",
         NEW f, f.method = Top(t).method,
         \/ IsMove(stack[t], stack'[t], f) /\ f.code = "upcall"
         \/ \E g : IsCall(stack[t], stack'[t], f, g) /\ g.code = "java"
  PROVE  UpcallPasses(t, Top(t).method, Phase(Top(t).at, FromJava(t)),
                      Phase(f.at, FromJava(t)))
<1> DEFINE n == Len(stack[t])
           w == t \in Workers
           d == Depth(stack[t], w)
           i == 3 * d - Turn(w)
<1>1. /\ Shape(stack[t], w) /\ Shape(stack'[t], w)
      /\ IsStack(stack[t]) /\ IsStack(stack'[t])
      /\ n \in Nat /\ Len(stack'[t]) \in Nat /\ IsStack(Virtual1(t))
  BY BothTurns
<1>2. n > 0 /\ Top(t) = stack[t][n]
  BY <1>1, StackLength DEF Top
<1>3. /\ \A j \in 1 .. n - 1 : stack'[t][j] = stack[t][j]
      /\ stack'[t][n] = f /\ stack'[t] # <<>>
      /\ \/ Len(stack'[t]) = n /\ stack'[t][Len(stack'[t])].code = "upcall"
         \/ Len(stack'[t]) = n + 1 /\ stack'[t][Len(stack'[t])].code = "java"
  BY <1>1, <1>2, StackLength DEF IsMove, IsCall
<1>4. i = n /\ d > 0 /\ d \in Nat /\ Turn(w) \in {1, 2}
  BY <1>1, <1>2, TopTurn
<1>5. Depth(stack'[t], w) \in Nat /\ 3 * Depth(stack'[t], w) - Turn(w) = n
  <2>1. Depth(stack'[t], w) \in Nat
    BY <1>1, TopTurn
  <2>2. CASE Len(stack'[t]) = n /\ stack'[t][Len(stack'[t])].code = "upcall"
    BY <1>1, <1>3, <2>2, <2>1, TopTurn
  <2>3. CASE Len(stack'[t]) = n + 1 /\ stack'[t][Len(stack'[t])].code = "java"
    <3>1. 3 * Depth(stack'[t], w) - Turn(w) = (n + 1) - 1
      BY <1>1, <1>3, <2>3, TopTurn
    <3> QED
      BY <1>1, <2>1, <3>1
  <2> QED
    BY <1>3, <2>2, <2>3
<1> DEFINE d2 == Depth(stack'[t], w)
<1>6. d2 = d
  <2> HIDE DEF d, d2
  <2> QED
    BY <1>4, <1>5 DEF d2
<1>7. /\ \A j \in 1 .. i - 1 : stack'[t][j] = stack[t][j]
      /\ stack'[t][i].method = stack[t][i].method
  BY <1>2, <1>3, <1>4
<1> DEFINE a == UpcallsOf(stack[t], w)
<1>8. /\ a # <<>> /\ a[Len(a)] = UpcallAt(stack[t], i)
      /\ UpcallsOf(stack'[t], w) = [a EXCEPT ![Len(a)].phase = UpcallAt(stack'[t], i).phase]
  <2>1. /\ IsStack(stack[t]) /\ IsStack(stack'[t])
        /\ Depth(stack'[t], w) = Depth(stack[t], w) /\ Depth(stack[t], w) > 0
        /\ i = 3 * Depth(stack[t], w) - Turn(w) /\ a = UpcallsOf(stack[t], w)
        /\ \A j \in 1 .. i - 1 : stack'[t][j] = stack[t][j]
        /\ stack'[t][i].method = stack[t][i].method
    BY <1>1, <1>4, <1>6, <1>7
  <2> HIDE DEF w, i, a
  <2> QED
    BY <2>1, InnermostUpcall, SMTT(60)
<1>9. UpcallAt(stack'[t], n).phase = Phase(f.at, FromJava(t))
  <2>1. n > 1 => stack'[t][n - 1] = stack[t][n - 1]
    BY <1>1, <1>3
  <2> QED
    BY <1>3, <2>1 DEF UpcallAt, FromJava
<1>10. a = Virtual1(t) /\ UpcallsOf(stack'[t], w) = Virtual1(t)'
  BY DEF Virtual1
<1> HIDE DEF a, i, d, n
<1>11. a[Len(a)] = [method |-> Top(t).method, phase |-> Phase(Top(t).at, FromJava(t))]
  BY <1>4, <1>8, TopPhase DEF n
<1>12. UpcallAt(stack'[t], i).phase = Phase(f.at, FromJava(t))
  BY <1>4, <1>9
<1> QED
  BY <1>1, <1>8, <1>10, <1>11, <1>12 DEF UpcallPasses

(* The end of a body. *)
LEMMA BodyPasses ==
  ASSUME StackInv, StackInv', NEW t \in Threads, NEW from, NEW to,
         Ends(t, "java", from, to)
  PROVE  \E f : /\ GoodFrame(f) /\ f.code = "upcall" /\ f.at \in to
                /\ \E fromJava : UpcallPasses(t, f.method, "java", Phase(f.at, fromJava))
<1> DEFINE n == Len(stack[t])
           w == t \in Workers
           d == Depth(stack[t], w)
           d2 == Depth(stack'[t], w)
           i == 3 * d - Turn(w)
           c == stack[t][n - 1]
<1>1. PICK f : /\ IsEnd(stack[t], stack'[t], f) /\ f.at \in to /\ SameCall(c, f)
  BY DEF Ends
<1>2. stack[t] # <<>> /\ Top(t).code = "java" /\ Top(t) = stack[t][n]
  BY DEF Ends, Top
<1>3. /\ Shape(stack[t], w) /\ Shape(stack'[t], w)
      /\ IsStack(stack[t]) /\ IsStack(stack'[t])
      /\ n \in Nat /\ Len(stack'[t]) \in Nat /\ IsStack(Virtual1(t))
  BY BothTurns
<1>4. c.code = "upcall" /\ c.at = "java" /\ n > 1
  BY <1>2, Caller
<1>5. GoodFrame(f) /\ f.code = "upcall" /\ f.method = c.method
  BY <1>1, <1>4 DEF SameCall
<1>6. /\ Len(stack'[t]) = n - 1 /\ stack'[t][n - 1] = f
      /\ \A j \in 1 .. n - 2 : stack'[t][j] = stack[t][j]
  BY <1>1 DEF IsEnd
<1>7. stack'[t] # <<>>
  BY <1>3, <1>4, <1>6, StackLength
<1>8. i = n - 1 /\ d > 0 /\ d \in Nat /\ Turn(w) \in {1, 2}
  BY <1>2, <1>3, TopTurn
<1>9. d2 \in Nat /\ 3 * d2 - Turn(w) = n - 1
  <2>1. stack'[t][Len(stack'[t])].code = "upcall"
    BY <1>5, <1>6
  <2>2. 3 * d2 - Turn(w) = Len(stack'[t]) /\ d2 \in Nat
    BY <1>3, <1>7, <2>1, TopTurn
  <2> QED
    BY <1>6, <2>2
<1>10. d2 = d
  <2> HIDE DEF d, d2
  <2> QED
    BY <1>8, <1>9
<1>11. /\ \A j \in 1 .. i - 1 : stack'[t][j] = stack[t][j]
       /\ stack'[t][i].method = stack[t][i].method
  BY <1>3, <1>5, <1>6, <1>8
<1> DEFINE a == UpcallsOf(stack[t], w)
<1>12. /\ a # <<>> /\ a[Len(a)] = UpcallAt(stack[t], i)
       /\ UpcallsOf(stack'[t], w) = [a EXCEPT ![Len(a)].phase = UpcallAt(stack'[t], i).phase]
  <2>1. /\ IsStack(stack[t]) /\ IsStack(stack'[t])
        /\ Depth(stack'[t], w) = Depth(stack[t], w) /\ Depth(stack[t], w) > 0
        /\ i = 3 * Depth(stack[t], w) - Turn(w) /\ a = UpcallsOf(stack[t], w)
        /\ \A j \in 1 .. i - 1 : stack'[t][j] = stack[t][j]
        /\ stack'[t][i].method = stack[t][i].method
    BY <1>3, <1>8, <1>10, <1>11
  <2> HIDE DEF w, i, a
  <2> QED
    BY <2>1, InnermostUpcall, SMTT(60)
<1> DEFINE back == n - 1 > 1 /\ stack'[t][n - 2].at = "calling"
<1>13. UpcallAt(stack[t], n - 1) = [method |-> f.method, phase |-> "java"]
  BY <1>4, <1>5 DEF UpcallAt, Phase
<1>14. UpcallAt(stack'[t], n - 1).phase = Phase(f.at, back)
  <2>1. (n - 1) - 1 = n - 2
    BY <1>3
  <2> QED
    BY <1>6, <2>1 DEF UpcallAt
<1>15. UpcallPasses(t, f.method, "java", Phase(f.at, back))
  BY <1>3, <1>8, <1>12, <1>13, <1>14 DEF UpcallPasses, Virtual1
<1> QED
  BY <1>1, <1>5, <1>15

(* The end of an upcall. *)
LEMMA UpcallReturns ==
  ASSUME StackInv, StackInv', NEW t \in Threads, NEW from, NEW to,
         Pops(t, "upcall", from) \/ Ends(t, "upcall", from, to)
  PROVE  /\ Virtual1(t) # <<>>
         /\ Virtual1(t)[Len(Virtual1(t))].phase = Phase(Top(t).at, FromJava(t))
         /\ Virtual1(t)' = SubSeq(Virtual1(t), 1, Len(Virtual1(t)) - 1)
<1> DEFINE n == Len(stack[t])
           w == t \in Workers
           d == Depth(stack[t], w)
           d2 == Depth(stack'[t], w)
<1>1. stack[t] # <<>> /\ Top(t).code = "upcall" /\ Top(t) = stack[t][n]
  BY DEF Pops, Ends, Top
<1>2. /\ Shape(stack[t], w) /\ Shape(stack'[t], w)
      /\ IsStack(stack[t]) /\ IsStack(stack'[t])
      /\ n \in Nat /\ Len(stack'[t]) \in Nat
  BY BothTurns
<1>3. Len(stack'[t]) = n - 1 /\ \A j \in 1 .. n - 2 : stack'[t][j] = stack[t][j]
  BY <1>2 DEF Pops, Ends, IsPop, IsEnd
<1>4. 3 * d - Turn(w) = n /\ d > 0 /\ d \in Nat /\ Turn(w) \in {1, 2}
  BY <1>1, <1>2, TopTurn
<1>5. d2 = d - 1
  <2>1. d2 = ((n - 1) + Turn(w)) \div 3
    BY <1>3 DEF Depth
  <2> HIDE DEF d, d2, n
  <2>2. n + Turn(w) = 3 * d /\ n \in Nat
    BY <1>2, <1>4
  <2> QED
    BY <1>4, <2>1, <2>2
<1>6. \A j \in 1 .. 3 * d2 - Turn(w) : stack'[t][j] = stack[t][j]
  <2> HIDE DEF d, d2, n
  <2>1. 3 * d2 - Turn(w) = n - 3 /\ n \in Nat
    BY <1>2, <1>4, <1>5
  <2> QED
    BY <1>3, <2>1
<1> DEFINE a == UpcallsOf(stack[t], w)
<1>7. /\ a # <<>> /\ a[Len(a)] = UpcallAt(stack[t], 3 * d - Turn(w))
      /\ UpcallsOf(stack'[t], w) = SubSeq(a, 1, Len(a) - 1)
  BY <1>2, <1>5, <1>6, OneUpcallLess
<1>8. a = Virtual1(t) /\ UpcallsOf(stack'[t], w) = Virtual1(t)'
  BY DEF Virtual1
<1> HIDE DEF a, d
<1>9. a[Len(a)] = [method |-> Top(t).method, phase |-> Phase(Top(t).at, FromJava(t))]
  BY <1>1, <1>4, <1>7, TopPhase
<1> HIDE DEF n
<1> QED
  BY <1>7, <1>8, <1>9

(* A step of a JNI function is none of a virtual call. *)
LEMMA WrapperStutters ==
  ASSUME StackInv, StackInv', NEW t \in Threads, NEW m, NEW from, NEW to,
         \/ Moves(t, "wrapper", from, to)
         \/ Pushes(t, "wrapper", m, to) /\ (stack[t] # <<>> => Top(t).code = "java")
         \/ Pops(t, "wrapper", from) \/ Ends(t, "wrapper", from, to)
  PROVE  VirtualStep
<1> DEFINE n == Len(stack[t])
           n2 == Len(stack'[t])
           w == t \in Workers
           d == Depth(stack[t], w)
           d2 == Depth(stack'[t], w)
<1>1. /\ Shape(stack[t], w) /\ Shape(stack'[t], w)
      /\ IsStack(stack[t]) /\ IsStack(stack'[t]) /\ n \in Nat /\ n2 \in Nat
  BY BothTurns
<1>2. d \in Nat /\ d2 \in Nat /\ Turn(w) \in {1, 2}
  BY <1>1, TopTurn
<1>3. Top(t) = stack[t][n] /\ Top(t)' = stack'[t][n2]
  BY DEF Top
<1>4. /\ stack[t] = <<>> => n = 0 /\ d = 0
      /\ stack'[t] = <<>> => n2 = 0 /\ d2 = 0
      /\ stack[t] # <<>> => n > 0
      /\ stack'[t] # <<>> => n2 > 0
      /\ stack[t] # <<>> /\ Top(t).code = "java" => 3 * d - Turn(w) = n - 1
      /\ stack[t] # <<>> /\ Top(t).code = "wrapper" => 3 * d - Turn(w) = n - 2
      /\ stack'[t] # <<>> /\ Top(t)'.code = "java" => 3 * d2 - Turn(w) = n2 - 1
      /\ stack'[t] # <<>> /\ Top(t)'.code = "wrapper" => 3 * d2 - Turn(w) = n2 - 2
  BY <1>1, <1>3, TopTurn
<1>5. Others(t)
  BY DEF Moves, Pushes, Pops, Ends
<1>6. /\ d2 = d
      /\ \A i \in 1 .. 3 * d - Turn(w) : stack'[t][i] = stack[t][i]
  <2>1. CASE Moves(t, "wrapper", from, to)
    <3>1. /\ stack[t] # <<>> /\ Top(t).code = "wrapper"
          /\ stack'[t] # <<>> /\ Top(t)'.code = "wrapper"
      BY <2>1, NextTops DEF Moves
    <3>2. n2 = n /\ \A i \in 1 .. n - 1 : stack'[t][i] = stack[t][i]
      BY <2>1 DEF Moves, IsMove
    <3>3. 3 * d - Turn(w) = n - 2 /\ 3 * d2 - Turn(w) = n - 2
      BY <1>4, <3>1, <3>2
    <3> HIDE DEF n, n2, d, d2
    <3> QED
      BY <1>1, <1>2, <3>2, <3>3
  <2>2. CASE Pushes(t, "wrapper", m, to) /\ (stack[t] # <<>> => Top(t).code = "java")
    <3>1. stack'[t] # <<>> /\ Top(t)'.code = "wrapper"
      BY <2>2, NextTops
    <3>2. n2 = n + 1 /\ \A i \in 1 .. n : stack'[t][i] = stack[t][i]
      BY <2>2 DEF Pushes, IsPush
    <3>3. (n = 0 /\ d = 0) \/ 3 * d - Turn(w) = n - 1
      BY <1>4, <2>2
    <3>4. 3 * d2 - Turn(w) = n - 1
      <4>1. 3 * d2 - Turn(w) = n2 - 2
        BY <1>4, <3>1
      <4> HIDE DEF n, n2, d2
      <4> QED
        BY <1>1, <1>2, <3>2, <4>1
    <3> HIDE DEF n, n2, d, d2
    <3> QED
      BY <1>1, <1>2, <3>2, <3>3, <3>4
  <2>3. CASE Pops(t, "wrapper", from) \/ Ends(t, "wrapper", from, to)
    <3>1. stack[t] # <<>> /\ Top(t).code = "wrapper"
      BY <2>3 DEF Pops, Ends
    <3>2. stack'[t] # <<>> => Top(t)'.code = "java"
      BY <2>3, NextTops, Caller, <3>1
    <3>3. n2 = n - 1 /\ \A i \in 1 .. n - 2 : stack'[t][i] = stack[t][i]
      BY <1>1, <2>3 DEF Pops, Ends, IsPop, IsEnd
    <3>4. 3 * d - Turn(w) = n - 2
      BY <1>4, <3>1
    <3>5. (n2 = 0 /\ d2 = 0) \/ 3 * d2 - Turn(w) = n2 - 1
      BY <1>4, <3>2
    <3> HIDE DEF n, n2, d, d2
    <3> QED
      BY <1>1, <1>2, <3>3, <3>4, <3>5, SMTT(60)
  <2> QED
    BY <2>1, <2>2, <2>3
<1>7. Virtual1(t)' = Virtual1(t)
  <2>1. /\ Depth(stack'[t], w) = Depth(stack[t], w)
        /\ \A i \in 1 .. 3 * Depth(stack[t], w) - Turn(w) : stack'[t][i] = stack[t][i]
    BY <1>6
  <2>2. UpcallsOf(stack'[t], w) = UpcallsOf(stack[t], w)
    <3> HIDE DEF w
    <3> QED
      BY <1>1, <2>1, SameUpcalls
  <2> QED
    BY <2>2 DEF Virtual1
<1> QED
  BY <1>5, <1>7, VirtualStays

(* A call of a director is one of a virtual method.                        *)
LEMMA UpcallStarts ==
  ASSUME StackInv, StackInv', NEW t \in Threads, NEW g, Others(t),
         GoodFrame(g), g.code = "upcall", g.at = "enter",
         stack[t] # <<>> => Top(t).code = "wrapper",
         Len(stack'[t]) = Len(stack[t]) + 1, stack'[t][Len(stack[t]) + 1] = g,
         \A i \in 1 .. Len(stack[t]) - 1 : stack'[t][i] = stack[t][i]
  PROVE  VirtualStep
<1> DEFINE n == Len(stack[t])
           n2 == Len(stack'[t])
           w == t \in Workers
           d == Depth(stack[t], w)
           d2 == Depth(stack'[t], w)
           a == UpcallsOf(stack[t], w)
           e == [method |-> g.method, phase |-> "called"]
<1>1. /\ Shape(stack[t], w) /\ Shape(stack'[t], w)
      /\ IsStack(stack[t]) /\ IsStack(stack'[t]) /\ n \in Nat /\ n2 \in Nat
  BY BothTurns
<1>2. d \in Nat /\ d2 \in Nat /\ Turn(w) \in {1, 2}
  BY <1>1, TopTurn
<1>3. stack'[t] # <<>> /\ stack'[t][n2] = g
  BY <1>1, StackLength
<1>4. (n = 0 /\ d = 0) \/ (n > 0 /\ 3 * d - Turn(w) = n - 2)
  BY <1>1, StackLength, TopTurn DEF Top
<1>5. 3 * d2 - Turn(w) = n + 1 /\ n2 = n + 1
  BY <1>1, <1>3, TopTurn
<1>6. d2 = d + 1 /\ \A i \in 1 .. 3 * d - Turn(w) : stack'[t][i] = stack[t][i]
  <2>1. \A i \in 1 .. n - 1 : stack'[t][i] = stack[t][i]
    OBVIOUS
  <2> HIDE DEF n, n2, d, d2
  <2> QED
    BY <1>1, <1>2, <1>4, <1>5, <2>1
<1>7. UpcallAt(stack'[t], 3 * d2 - Turn(w)) = e
  <2>1. UpcallAt(stack'[t], n + 1) = e
    BY DEF UpcallAt, Phase
  <2> HIDE DEF n, n2, d, d2, e
  <2> QED
    BY <1>5, <2>1
<1>8. UpcallsOf(stack'[t], w) = Append(a, e)
  <2>1. /\ Depth(stack'[t], w) = Depth(stack[t], w) + 1
        /\ \A i \in 1 .. 3 * Depth(stack[t], w) - Turn(w) : stack'[t][i] = stack[t][i]
        /\ UpcallAt(stack'[t], 3 * Depth(stack'[t], w) - Turn(w)) = e
        /\ a = UpcallsOf(stack[t], w)
    BY <1>6, <1>7
  <2> HIDE DEF w, a, e
  <2>2. UpcallsOf(stack'[t], w) =
          Append(UpcallsOf(stack[t], w),
                 UpcallAt(stack'[t], 3 * Depth(stack'[t], w) - Turn(w)))
    BY <1>1, <2>1, OneUpcallMore
  <2> QED
    BY <2>1, <2>2
<1>9. ASSUME a # <<>> PROVE a[Len(a)].phase = "java"
  <2>1. IsStack(a) /\ Len(a) = d /\ \A k \in 1 .. d : a[k] = UpcallAt(stack[t], 3 * k - Turn(w))
    BY <1>1, UpcallsAreStack
  <2>2. d > 0
    <3> HIDE DEF d, a
    <3> QED
      BY <1>2, <1>9, <2>1, StackLength
  <2>3. 3 * d - Turn(w) = n - 2 /\ n > 2 /\ d \in 1 .. d
    <3> HIDE DEF d, n
    <3> QED
      BY <1>1, <1>2, <1>4, <2>2
  <2>4. a[Len(a)] = UpcallAt(stack[t], n - 2)
    <3> HIDE DEF d, n, a
    <3> QED
      BY <2>1, <2>3
  <2>5. CallFrom(stack[t][n - 1], stack[t][n]) /\ CallFrom(stack[t][n - 2], stack[t][n - 1])
    <3>1. \A i \in 1 .. n - 1 : CallFrom(stack[t][i], stack[t][i + 1])
      BY <1>1 DEF Shape
    <3>2. n - 1 \in 1 .. n - 1 /\ n - 2 \in 1 .. n - 1 /\ (n - 1) + 1 = n /\ (n - 2) + 1 = n - 1
      <4> HIDE DEF n
      <4> QED
        BY <1>1, <2>3
    <3> HIDE DEF n
    <3>3. CallFrom(stack[t][n - 1], stack[t][(n - 1) + 1])
      BY <3>1, <3>2
    <3>4. CallFrom(stack[t][n - 2], stack[t][(n - 2) + 1])
      BY <3>1, <3>2
    <3> QED
      BY <3>2, <3>3, <3>4
  <2>6. stack[t][n].code = "wrapper"
    BY <1>1, <2>3, StackLength DEF Top
  <2> HIDE DEF n
  <2>7. stack[t][n - 1].code = "java"
    BY <2>5, <2>6 DEF CallFrom
  <2>8. stack[t][n - 2].at = "java"
    BY <2>5, <2>7 DEF CallFrom
  <2> QED
    BY <2>4, <2>8 DEF UpcallAt, Phase
<1>10. g.method \in DOMAIN Upcalls
  BY DEF GoodFrame, GoodUpcall
<1>11. Virtual1(t) = a /\ Virtual1(t)' = Append(a, [method |-> g.method, phase |-> "called"])
  BY <1>8 DEF Virtual1
<1> HIDE DEF a
<1> QED
  BY <1>9, <1>10, <1>11, VirtualInvoke

(* An upcall that no JNI function of its own made comes from the core.     *)
LEMMA FromCore ==
  ASSUME StackInv, NEW t \in Threads, stack[t] # <<>>, Top(t).code = "upcall"
  PROVE  FromJava(t) \/ Top(t).method \in CoreMethods
<1>1. Len(stack[t]) \in Nat \ {0}
  BY TopFrame
<1>2. CASE Len(stack[t]) = 1
  BY <1>2, TopFrame DEF FirstCall
<1>3. CASE Len(stack[t]) > 1
  BY <1>3, TopFrame DEF CallFrom, FromJava
<1>4. \A n \in Nat \ {0} : n = 1 \/ n > 1
  OBVIOUS
<1> QED
  BY <1>1, <1>2, <1>3, <1>4

LEMMA VirtualPasses ==
  ASSUME StackInv, StackInv', NEW t \in Threads, Others(t), NEW m, NEW p, NEW q,
         Follows(m, p, q), UpcallPasses(t, m, p, q)
  PROVE  VirtualStep
  BY VirtualPass DEF UpcallPasses

LEMMA MoveVirtual ==
  ASSUME StackInv, StackInv', NEW t \in Threads, NEW from, NEW to,
         Moves(t, "upcall", from, to),
         \A f : GoodFrame(f) /\ f.code = "upcall" /\ f.method = Top(t).method /\ f.at \in to =>
           Follows(Top(t).method, Phase(Top(t).at, FromJava(t)), Phase(f.at, FromJava(t)))
  PROVE  VirtualStep
<1>1. PICK f : IsMove(stack[t], stack'[t], f) /\ SameCall(Top(t), f) /\ f.at \in to
  BY DEF Moves
<1>2. Others(t) /\ stack[t] # <<>> /\ Top(t).code = "upcall"
  BY DEF Moves
<1>3. GoodFrame(f) /\ f.code = "upcall" /\ f.method = Top(t).method
  BY <1>1, <1>2 DEF SameCall
<1>4. UpcallPasses(t, Top(t).method, Phase(Top(t).at, FromJava(t)), Phase(f.at, FromJava(t)))
  BY <1>1, <1>2, <1>3, UpcallGoesOn
<1> QED
  BY <1>1, <1>2, <1>3, <1>4, VirtualPasses

LEMMA EndVirtual ==
  ASSUME StackInv, StackInv', NEW t \in Threads, NEW from, NEW to,
         Ends(t, "java", from, to),
         \A f : GoodFrame(f) /\ f.code = "upcall" /\ f.at \in to =>
           \A fromJava : Follows(f.method, "java", Phase(f.at, fromJava))
  PROVE  VirtualStep
<1>1. PICK f : /\ GoodFrame(f) /\ f.code = "upcall" /\ f.at \in to
               /\ \E fromJava : UpcallPasses(t, f.method, "java", Phase(f.at, fromJava))
  BY BodyPasses
<1>2. PICK fromJava : UpcallPasses(t, f.method, "java", Phase(f.at, fromJava))
  BY <1>1
<1>3. Others(t)
  BY DEF Ends
<1> QED
  BY <1>1, <1>2, <1>3, VirtualPasses

LEMMA JavaStepVirtual ==
  ASSUME Callbacks, StackInv, StackInv', NEW t \in Threads, JavaStep(t)
  PROVE  VirtualStep
<1>1. ASSUME NEW m \in JavaMethods, NEW null \in BOOLEAN, CallWrapper(t, m, null)
      PROVE  VirtualStep
  <2>1. Pushes(t, "wrapper", Bridge(m), "check") /\ InJava(t)
    BY <1>1, CallWrapperStack
  <2> QED
    BY <2>1, WrapperStutters DEF InJava, Is
<1>2. CASE RejectNull(t)
  BY <1>2, RejectNullStack, WrapperStutters
<1>3. CASE CallFunction(t)
  <2>1. CASE Moves(t, "wrapper", {"check"}, {"running", "done"})
    BY <2>1, WrapperStutters
  <2>2. CASE Calls(t, "wrapper", {"check"}, "calling")
    <3>1. PICK f, g : /\ IsCall(stack[t], stack'[t], f, g)
                      /\ SameCall(Top(t), f) /\ f.at = "calling"
                      /\ GoodFrame(g) /\ g.at \in {"enter", "body"} /\ CallFrom(f, g)
      BY <2>2 DEF Calls
    <3>2. Others(t) /\ Top(t).code = "wrapper"
      BY <2>2 DEF Calls
    <3>3. g.code = "upcall" /\ g.at = "enter"
      BY <3>1, <3>2 DEF SameCall, CallFrom, GoodFrame, GoodUpcall, UpcallPlaces
    <3>4. /\ Len(stack'[t]) = Len(stack[t]) + 1 /\ stack'[t][Len(stack[t]) + 1] = g
          /\ \A i \in 1 .. Len(stack[t]) - 1 : stack'[t][i] = stack[t][i]
      BY <3>1 DEF IsCall
    <3> QED
      BY <3>1, <3>2, <3>3, <3>4, UpcallStarts
  <2> QED
    BY <1>3, <2>1, <2>2, CallFunctionStack
<1>4. CASE ReturnToJava(t)
  BY <1>4, ReturnToJavaStack, WrapperStutters
<1>5. CASE JavaReturns(t)
  <2>1. Ends(t, "java", {"body"}, {"value", "networks", "null"})
    BY <1>5, JavaReturnsStack
  <2>2. ASSUME NEW f, GoodFrame(f), f.code = "upcall", f.at \in {"value", "networks", "null"},
               NEW fromJava
        PROVE  Follows(f.method, "java", Phase(f.at, fromJava))
    BY <2>2 DEF Callbacks, GoodFrame, GoodUpcall, Follows, Phase
  <2> QED
    BY <2>1, <2>2, EndVirtual
<1>6. CASE JavaThrows(t)
  <2>1. Ends(t, "java", {"body", "raise"}, {"thrown"})
    BY <1>6, JavaThrowsStack
  <2>2. ASSUME NEW f, f.at \in {"thrown"}, NEW fromJava
        PROVE  Follows(f.method, "java", Phase(f.at, fromJava))
    BY <2>2 DEF Follows, Phase
  <2> QED
    BY <2>1, <2>2, EndVirtual
<1> QED
  BY <1>1, <1>2, <1>3, <1>4, <1>5, <1>6 DEF JavaStep

LEMMA CoreStepVirtual ==
  ASSUME Callbacks, StackInv, StackInv', OneConnect, CallsInv, ProxyInv, QuietInv,
         NEW t \in Threads, CoreStep(t)
  PROVE  VirtualStep
<1>0. ASSUME stack[t] # <<>>, Top(t).code = "upcall", NoBody(Top(t).method)
      PROVE  FromJava(t)
  BY <1>0, FromCore DEF Callbacks, CallbacksHaveBodies, NoBody
<1>1. ASSUME NEW m \in CoreMethods, CoreCalls(t, m) PROVE VirtualStep
  <2>1. Pushes(t, "upcall", m, "enter") /\ InCore(t)
    BY <1>1, CoreCallsStack
  <2>2. PICK g : IsPush(stack[t], stack'[t], g)
                 /\ GoodFrame(g) /\ g.code = "upcall" /\ g.method = m /\ g.at = "enter"
    BY <2>1 DEF Pushes
  <2>3. Others(t) /\ (stack[t] # <<>> => Top(t).code = "wrapper")
    BY <2>1 DEF Pushes, InCore, Is
  <2>4. Len(stack[t]) \in Nat
    BY BothTurns
  <2>5. /\ Len(stack'[t]) = Len(stack[t]) + 1 /\ stack'[t][Len(stack[t]) + 1] = g
        /\ \A i \in 1 .. Len(stack[t]) - 1 : stack'[t][i] = stack[t][i]
    BY <2>2, <2>4 DEF IsPush
  <2> QED
    BY <2>2, <2>3, <2>5, UpcallStarts
<1>2. CASE CoreEnds(t)
  BY <1>2, CoreEndsStack, WrapperStutters
<1>3. CASE EnterUpcall(t)
  <2>1. Moves(t, "upcall", {"enter"}, {"self", "pure", "base"})
    BY <1>3, EnterUpcallStack
  <2>2. stack[t] # <<>> /\ Top(t).code = "upcall" /\ Top(t).at = "enter"
    BY <2>1 DEF Moves
  <2>3. ASSUME NEW f, GoodFrame(f), f.code = "upcall", f.method = Top(t).method,
               f.at \in {"self", "pure", "base"}
        PROVE  Follows(Top(t).method, Phase(Top(t).at, FromJava(t)), Phase(f.at, FromJava(t)))
    <3>1. /\ f.at = "pure" => NoBody(Top(t).method)
          /\ f.at \in {"pure", "base"} => Top(t).method \notin Overridden
      BY <2>3 DEF GoodFrame, GoodUpcall, NoBody
    <3>2. f.at = "pure" => FromJava(t)
      BY <1>0, <2>2, <3>1
    <3> QED
      BY <2>2, <2>3, <3>1, <3>2 DEF Follows, Phase
  <2> QED
    BY <2>1, <2>3, MoveVirtual
<1>4. CASE CallBase(t)
  <2>1. Moves(t, "upcall", {"base"}, {"value"})
    BY <1>4, CallBaseStack
  <2>2. Top(t).at = "base"
    BY <2>1 DEF Moves
  <2>3. ASSUME NEW f, f.at \in {"value"}
        PROVE  Follows(Top(t).method, Phase(Top(t).at, FromJava(t)), Phase(f.at, FromJava(t)))
    BY <2>2, <2>3 DEF Follows, Phase
  <2> QED
    BY <2>1, <2>3, MoveVirtual
<1>5. CASE RejectPure(t)
  <2>1. Moves(t, "upcall", {"pure"}, {"default"})
    BY <1>5, RejectPureStack
  <2>2. stack[t] # <<>> /\ Top(t).code = "upcall" /\ Top(t).at = "pure"
    BY <2>1 DEF Moves
  <2>3. NoBody(Top(t).method)
    BY <2>2, TopFrame DEF GoodFrame, GoodUpcall, NoBody
  <2>4. FromJava(t)
    BY <1>0, <2>2, <2>3
  <2>5. ASSUME NEW f, f.at \in {"default"}
        PROVE  Follows(Top(t).method, Phase(Top(t).at, FromJava(t)), Phase(f.at, FromJava(t)))
    BY <2>2, <2>4, <2>5 DEF Follows, Phase
  <2> QED
    BY <2>1, <2>5, MoveVirtual
<1>6. CASE CallJava(t)
  <2>1. stack[t] # <<>> /\ Top(t).code = "upcall" /\ Top(t).at = "self"
    BY <1>6 DEF CallJava, Is
  <2>2. FindsProxy
    BY <2>1, FoundProxy DEF Callbacks
  <2>3. Calls(t, "upcall", {"self"}, "java")
    BY <1>6, <2>2, CallJavaStack
  <2>4. PICK f, g : /\ IsCall(stack[t], stack'[t], f, g)
                    /\ SameCall(Top(t), f) /\ f.at = "java"
                    /\ GoodFrame(g) /\ g.at \in {"enter", "body"} /\ CallFrom(f, g)
    BY <2>3 DEF Calls
  <2>5. Others(t)
    BY <2>3 DEF Calls
  <2>6. f.method = Top(t).method /\ g.code = "java"
    BY <2>1, <2>4 DEF SameCall, CallFrom
  <2>7. Top(t).method \in Overridden
    BY <2>1, TopFrame DEF GoodFrame, GoodUpcall
  <2>8. UpcallPasses(t, Top(t).method, Phase(Top(t).at, FromJava(t)), Phase(f.at, FromJava(t)))
    BY <2>1, <2>4, <2>6, UpcallGoesOn
  <2>9. Follows(Top(t).method, Phase(Top(t).at, FromJava(t)), Phase(f.at, FromJava(t)))
    BY <2>1, <2>4, <2>7 DEF Follows, Phase
  <2> QED
    BY <2>5, <2>8, <2>9, VirtualPasses
<1>7. CASE FinalizeNetworks(t)
  <2>1. Moves(t, "upcall", {"networks"}, {"freed"})
    BY <1>7, FinalizeNetworksStack
  <2>2. Top(t).at = "networks"
    BY <2>1 DEF Moves
  <2>3. ASSUME NEW f, f.at \in {"freed"}
        PROVE  Follows(Top(t).method, Phase(Top(t).at, FromJava(t)), Phase(f.at, FromJava(t)))
    BY <2>2, <2>3 DEF Follows, Phase
  <2> QED
    BY <2>1, <2>3, MoveVirtual
<1>8. CASE LeaveUpcall(t)
  <2>1. PICK to : Pops(t, "upcall", LeavePlaces) \/ Ends(t, "upcall", LeavePlaces, to)
    BY <1>8, LeaveUpcallStack
  <2>2. /\ Virtual1(t) # <<>>
        /\ Virtual1(t)[Len(Virtual1(t))].phase = Phase(Top(t).at, FromJava(t))
        /\ Virtual1(t)' = SubSeq(Virtual1(t), 1, Len(Virtual1(t)) - 1)
    BY <2>1, UpcallReturns
  <2>3. Others(t) /\ stack[t] # <<>> /\ Top(t).code = "upcall" /\ Top(t).at \in LeavePlaces
    BY <2>1 DEF Pops, Ends
  <2>4. Top(t).at # "null"
    BY <2>3, TopFrame DEF Callbacks, GoodFrame, GoodUpcall
  <2>5. Top(t).at = "default" => FromJava(t)
    BY <1>0, <2>3 DEF QuietInv, Quiet, Top
  <2>6. Phase(Top(t).at, FromJava(t)) \in {"value", "exception"}
    BY <2>3, <2>4, <2>5 DEF LeavePlaces, Phase
  <2> QED
    BY <2>2, <2>3, <2>6, VirtualReturn
<1> QED
  BY <1>1, <1>2, <1>3, <1>4, <1>5, <1>6, <1>7, <1>8 DEF CoreStep

(* ImplementsVirtualCall: a call of a virtual method of the client runs    *)
(* the most derived body once, with the proxy found, and its value or its  *)
(* exception comes back to C++.                                            *)
THEOREM DirectorsImplementVirtualCalls ==
  ASSUME Callbacks
  PROVE  Spec => ImplementsVirtualCall
<1>1. Init => VC!Init
  <2> SUFFICES ASSUME Init PROVE VC!Init
    OBVIOUS
  <2>1. stack = [t \in Threads |-> <<>>]
    BY DEF Init, DirectorInit
  <2>2. StackInv
    BY InitStackInv
  <2>3. ASSUME NEW t \in Threads PROVE UpcallsOf(stack[t], t \in Workers) = <<>>
    <3> DEFINE w == t \in Workers
               a == UpcallsOf(stack[t], w)
    <3>1. Shape(stack[t], w) /\ stack[t] = <<>>
      BY <2>1, <2>2 DEF StackInv
    <3> HIDE DEF w
    <3>2. Depth(stack[t], w) = 0 /\ IsStack(stack[t])
      BY <3>1, TopTurn
    <3>3. IsStack(a) /\ Len(a) = 0
      BY <3>2, UpcallsAreStack
    <3> HIDE DEF a
    <3>4. a = <<>>
      BY <3>3, StackLength
    <3> QED
      BY <3>4 DEF a, w
  <2> QED
    BY <2>3 DEF VC!Init, VirtualCalls
<1>2. ASSUME StackInv, StackInv', OneConnect, CallsInv, ProxyInv, QuietInv, [Next]_vars
      PROVE  [VC!Next]_VirtualCalls
  <2>1. CASE UNCHANGED vars \/ ProxyLife
    <3>1. UNCHANGED stack
      BY <2>1 DEF vars, directorVars, ProxyLife
    <3> QED
      BY <3>1 DEF VirtualCalls
  <2>2. ASSUME NEW t \in Threads, JavaStep(t) \/ CoreStep(t) PROVE VirtualStep
    BY <1>2, <2>2, JavaStepVirtual, CoreStepVirtual
  <2> QED
    BY <1>2, <2>1, <2>2 DEF Next, VirtualStep
<1> QED
  BY StackInvHolds, OneConnectHolds, CallsInvHolds, ProxyInvLifted, QuietInvHolds, <1>1, <1>2,
     PTL DEF Spec, ImplementsVirtualCall, VC!Spec

==============================================================================
