------------------------- MODULE SessionDataProofs -------------------------
(***************************************************************************)
(* Proofs about the native structs of a session, for any set of addresses, *)
(* any contents of the profile and the token, and any amount of traffic.   *)
(***************************************************************************)
EXTENDS SessionData, TLAPS

-----------------------------------------------------------------------------
(* The programs.                                                           *)

LEMMA ResultsAreNotLent ==
  ASSUME NEW a \in Activities, MayCall(a)
  PROVE  Call(a).result \notin {"event", "logInfo"}
<1>1. CASE a = "runner"
  BY <1>1 DEF MayCall, Call, Program, ConnectNew, New, Set, Get, Core
<1>2. CASE a = "poller"
  BY <1>2 DEF MayCall, Call, Program, Poll, Get, Core
<1>3. CASE a = "event"
  BY <1>3 DEF MayCall, Call, Program, HandleEvent, Get
<1>4. CASE a = "log"
  BY <1>4 DEF MayCall, Call, Program, HandleLog, Get
<1> QED
  BY <1>1, <1>2, <1>3, <1>4 DEF Activities

LEMMA ResultsAreStructs ==
  ASSUME NEW a \in Activities, MayCall(a), Call(a).op \notin {"set", "get"}
  PROVE  VarType[Call(a).result] # "free"
<1>1. Call(a).result \in {"config", "ec", "creds", "provided", "status", "t"}
  <2>1. CASE a = "runner"
    BY <2>1 DEF MayCall, Call, Program, ConnectNew, New, Set, Get, Core
  <2>2. CASE a = "poller"
    BY <2>2 DEF MayCall, Call, Program, Poll, Get, Core
  <2>3. CASE a = "event"
    BY <2>3 DEF MayCall, Call, Program, HandleEvent, Get
  <2>4. CASE a = "log"
    BY <2>4 DEF MayCall, Call, Program, HandleLog, Get
  <2> QED
    BY <2>1, <2>2, <2>3, <2>4 DEF Activities
<1> DEFINE v == Call(a).result
<1>2. v \in {"config", "ec", "creds", "provided", "status", "t"}
  BY <1>1
<1> HIDE DEF v
<1>3. VarType[v] # "free"
  BY <1>2 DEF VarType
<1> QED
  BY <1>3 DEF v

LEMMA CallingIsNotIdle ==
  ASSUME NEW a \in Activities, MayCall(a)
  PROVE  pc[a] # Idle
<1>1. CASE a = "runner"
  BY <1>1 DEF MayCall, Program, ConnectNew, Idle
<1>2. CASE a = "poller"
  BY <1>2 DEF MayCall, Program, Poll, Idle
<1>3. CASE a = "event"
  BY <1>3 DEF MayCall, Program, HandleEvent, Idle
<1>4. CASE a = "log"
  BY <1>4 DEF MayCall, Program, HandleLog, Idle
<1> QED
  BY <1>1, <1>2, <1>3, <1>4 DEF Activities

-----------------------------------------------------------------------------
(* OneOwner is not inductive by itself: EndUpcall frees the address in the *)
(* variable of the callback, which must be that of the struct lent to it.  *)

IsCell(c) == DOMAIN c = {"type", "lent", "val"}

LentStruct(u) ==
  /\ var[Lent[u]] \in Addresses
  /\ ~IsFree(var[Lent[u]])
  /\ heap[var[Lent[u]]].lent

OwnInv ==
  /\ heap = [x \in Addresses |-> heap[x]]
  /\ var = [v \in DOMAIN VarType |-> var[v]]
  /\ pc = [a \in Activities |-> pc[a]]
  /\ \A x \in Addresses : IsCell(heap[x])
  /\ OneOwner
  /\ \A u \in Upcalls : pc[u] # Idle => LentStruct(u)
  /\ pc["event"] = Idle \/ pc["log"] = Idle

LEMMA Types ==
  /\ Upcalls \subseteq Activities
  /\ DOMAIN VarType = {"config", "ec", "creds", "provided", "status", "t",
                       "event", "logInfo"}
  /\ Lent["event"] = "event" /\ Lent["log"] = "logInfo"
  BY DEF Upcalls, Activities, VarType, Lent

LEMMA Cells ==
  /\ IsCell(FreeCell) /\ FreeCell.type = "free"
  /\ \A type, val : /\ IsCell(Struct(type, val))
                    /\ Struct(type, val).type = type
                    /\ Struct(type, val).lent = FALSE
  BY DEF IsCell, FreeCell, Struct

LEMMA InitOwnInv ==
  ASSUME Init
  PROVE  OwnInv
<1>1. /\ heap = [x \in Addresses |-> FreeCell]
      /\ var = [v \in DOMAIN VarType |-> NoAddress]
      /\ pc = [a \in Activities |-> IF a = "runner" THEN 1 ELSE Idle]
      /\ owned = {}
  BY DEF Init
<1>2. \A x \in Addresses : IsFree(x) /\ IsCell(heap[x])
  BY <1>1, Cells DEF IsFree
<1>3. pc["event"] = Idle /\ pc["log"] = Idle
  BY <1>1 DEF Activities
<1>4. OneOwner
  BY <1>1, <1>2 DEF OneOwner
<1> QED
  BY <1>1, <1>2, <1>3, <1>4 DEF OwnInv, Upcalls

(* A step that leaves the structs alone, and starts no callback. *)
LEMMA SameStructs ==
  ASSUME OwnInv, UNCHANGED <<heap, owned, var>>,
         pc' = [a \in Activities |-> pc'[a]],
         \A u \in Upcalls : pc[u] = Idle => pc'[u] = Idle
  PROVE  OwnInv'
<1>1. OneOwner'
  BY DEF OwnInv, OneOwner, IsFree
<1>2. \A u \in Upcalls : pc'[u] # Idle => LentStruct(u)'
  BY DEF OwnInv, LentStruct, IsFree
<1>3. pc'["event"] = Idle \/ pc'["log"] = Idle
  BY DEF OwnInv, Upcalls
<1> QED
  BY <1>1, <1>2, <1>3 DEF OwnInv

(* A step of an activity inside a native function starts no callback. *)
LEMMA OneActivity ==
  ASSUME OwnInv, NEW a \in Activities, pc[a] # Idle, NEW n,
         pc' = [pc EXCEPT ![a] = n]
  PROVE  /\ pc' = [b \in Activities |-> pc'[b]]
         /\ \A u \in Upcalls : pc[u] = Idle => pc'[u] = Idle
  BY Types DEF OwnInv

-----------------------------------------------------------------------------
(* The structs.                                                            *)

LEMMA FinalizeOwnInv ==
  ASSUME OwnInv, NEW x \in Addresses, Finalize(x)
  PROVE  OwnInv'
<1>1. /\ x \in owned
      /\ heap' = [heap EXCEPT ![x] = FreeCell]
      /\ owned' = owned \ {x}
      /\ UNCHANGED <<var, pc>>
  BY DEF Finalize
<1>2. ~heap[x].lent
  BY <1>1 DEF OwnInv, OneOwner
<1>3. \A y \in Addresses : heap'[y] = IF y = x THEN FreeCell ELSE heap[y]
  BY <1>1 DEF OwnInv
<1>4. /\ heap' = [y \in Addresses |-> heap'[y]]
      /\ \A y \in Addresses : IsCell(heap'[y])
  BY <1>1, <1>3, Cells DEF OwnInv
<1>5. OneOwner'
  BY <1>1, <1>3, Cells DEF OwnInv, OneOwner, IsFree
<1>6. \A u \in Upcalls : pc'[u] # Idle => LentStruct(u)'
  BY <1>1, <1>2, <1>3 DEF OwnInv, LentStruct, IsFree
<1> QED
  BY <1>1, <1>4, <1>5, <1>6 DEF OwnInv

(* A function of the core that has made a struct returns. *)
LEMMA AllocateOwnInv ==
  ASSUME OwnInv, NEW a \in Activities, MayCall(a), GoOn(a),
         NEW val, Allocate(Call(a).result, val),
         VarType[Call(a).result] # "free"
  PROVE  OwnInv'
<1> DEFINE v == Call(a).result
<1>1. PICK x \in Addresses :
        /\ IsFree(x)
        /\ heap' = [heap EXCEPT ![x] = Struct(VarType[v], val)]
        /\ owned' = owned \cup {x}
        /\ var' = [var EXCEPT ![v] = x]
  BY DEF Allocate
<1>2. v \notin {"event", "logInfo"}
  BY ResultsAreNotLent
<1>3. VarType[v] # "free"
  OBVIOUS
<1>4. /\ pc' = [b \in Activities |-> pc'[b]]
      /\ \A u \in Upcalls : pc[u] = Idle => pc'[u] = Idle
  BY CallingIsNotIdle, OneActivity DEF GoOn
<1> HIDE DEF v
<1>5. \A y \in Addresses :
        heap'[y] = IF y = x THEN Struct(VarType[v], val) ELSE heap[y]
  BY <1>1 DEF OwnInv
<1>6. /\ heap' = [y \in Addresses |-> heap'[y]]
      /\ \A y \in Addresses : IsCell(heap'[y])
  BY <1>1, <1>5, Cells DEF OwnInv
<1>7. ~IsFree(x)' /\ heap'[x].lent = FALSE
  BY <1>3, <1>5, Cells DEF IsFree
<1>8. \A y \in Addresses \ {x} : heap'[y] = heap[y]
  BY <1>5
<1>9. OneOwner'
  BY <1>1, <1>7, <1>8 DEF OwnInv, OneOwner, IsFree
<1>10. \A u \in Upcalls : var'[Lent[u]] = var[Lent[u]]
  BY <1>1, <1>2, Types DEF OwnInv, Upcalls
<1>11. \A u \in Upcalls : pc'[u] # Idle => LentStruct(u)'
  BY <1>1, <1>4, <1>8, <1>10 DEF OwnInv, LentStruct, IsFree
<1>12. var' = [w \in DOMAIN VarType |-> var'[w]]
  BY <1>1 DEF OwnInv
<1>13. pc'["event"] = Idle \/ pc'["log"] = Idle
  BY <1>4 DEF OwnInv, Upcalls
<1> QED
  BY <1>4, <1>6, <1>9, <1>11, <1>12, <1>13 DEF OwnInv

(* A setter writes one field, in the struct it was given. *)
LEMMA WrittenCells ==
  ASSUME OwnInv, NEW x, NEW f, NEW w, heap' = [heap EXCEPT ![x].val[f] = w]
  PROVE  /\ heap' = [y \in Addresses |-> heap'[y]]
         /\ \A y \in Addresses : /\ IsCell(heap'[y])
                                  /\ heap'[y].type = heap[y].type
                                  /\ heap'[y].lent = heap[y].lent
<1>1. heap' = [y \in Addresses |-> heap'[y]]
  BY DEF OwnInv
<1>2. ASSUME NEW y \in Addresses
      PROVE  /\ IsCell(heap'[y])
             /\ heap'[y].type = heap[y].type
             /\ heap'[y].lent = heap[y].lent
  <2>1. \/ heap'[y] = heap[y]
        \/ \E value : heap'[y] = [heap[y] EXCEPT !.val = value]
    BY DEF OwnInv
  <2>2. IsCell(heap[y])
    BY DEF OwnInv
  <2> QED
    BY <2>1, <2>2 DEF IsCell
<1> QED
  BY <1>1, <1>2

LEMMA SetOwnInv ==
  ASSUME OwnInv, NEW a \in Activities, SetReturns(a)
  PROVE  OwnInv'
<1> DEFINE x == arg[a].address
           f == Call(a).field
<1>1. MayCall(a) /\ UNCHANGED <<owned, var>>
  BY DEF SetReturns, Returns
<1>2. PICK n : pc' = [pc EXCEPT ![a] = n]
  <2>1. pc' = [pc EXCEPT ![a] = Done(a)] \/ pc' = [pc EXCEPT ![a] = pc[a] + 1]
    BY DEF SetReturns, GoOn
  <2> QED
    BY <2>1
<1>3. /\ pc' = [b \in Activities |-> pc'[b]]
      /\ \A u \in Upcalls : pc[u] = Idle => pc'[u] = Idle
  BY <1>1, <1>2, CallingIsNotIdle, OneActivity
<1>4. \/ heap' = heap
      \/ heap' = [heap EXCEPT ![x].val[f] = Call(a).value]
  BY DEF SetReturns
<1>5. CASE heap' = heap
  BY <1>1, <1>3, <1>5, SameStructs
<1>6. CASE heap' = [heap EXCEPT ![x].val[f] = Call(a).value]
  <2> HIDE DEF x, f
  <2>1. heap' = [y \in Addresses |-> heap'[y]]
    BY <1>6, WrittenCells
  <2>2. \A y \in Addresses : /\ IsCell(heap'[y])
                             /\ heap'[y].type = heap[y].type
                             /\ heap'[y].lent = heap[y].lent
    BY <1>6, WrittenCells
  <2>3. OneOwner'
    BY <1>1, <2>2 DEF OwnInv, OneOwner, IsFree
  <2>4. \A u \in Upcalls : pc'[u] # Idle => LentStruct(u)'
    BY <1>1, <1>3, <2>2 DEF OwnInv, LentStruct, IsFree
  <2>5. pc'["event"] = Idle \/ pc'["log"] = Idle
    BY <1>3 DEF OwnInv, Upcalls
  <2> QED
    BY <1>1, <1>3, <2>1, <2>2, <2>3, <2>4, <2>5 DEF OwnInv
<1> QED
  BY <1>4, <1>5, <1>6

(* new, eval_config, provide_creds, connect and transport_stats. *)
LEMMA ResultOwnInv ==
  ASSUME OwnInv, NEW a \in Activities,
         \/ NewReturns(a) \/ EvalConfigReturns(a) \/ ProvideCredsReturns(a)
         \/ ConnectReturns(a) \/ TransportStatsReturns(a)
  PROVE  OwnInv'
<1>1. MayCall(a) /\ Call(a).op \notin {"set", "get"} /\ GoOn(a)
  BY DEF NewReturns, EvalConfigReturns, ProvideCredsReturns, ConnectReturns,
         TransportStatsReturns, Returns
<1>2. \E val : Allocate(Call(a).result, val)
  <2>1. CASE NewReturns(a)
    BY <2>1 DEF NewReturns
  <2>2. CASE EvalConfigReturns(a)
    BY <2>2 DEF EvalConfigReturns
  <2>3. CASE ProvideCredsReturns(a)
    BY <2>3 DEF ProvideCredsReturns
  <2>4. CASE ConnectReturns(a)
    BY <2>4 DEF ConnectReturns
  <2>5. CASE TransportStatsReturns(a)
    BY <2>5 DEF TransportStatsReturns
  <2> QED
    BY <2>1, <2>2, <2>3, <2>4, <2>5
<1> QED
  BY <1>1, <1>2, ResultsAreStructs, AllocateOwnInv

(* The core lends a struct. *)
LEMMA StartUpcallOwnInv ==
  ASSUME OwnInv, NEW a \in Upcalls, StartUpcall(a)
  PROVE  OwnInv'
<1> DEFINE type == VarType[Lent[a]]
<1>1. /\ \A u \in Upcalls : pc[u] = Idle
      /\ pc' = [pc EXCEPT ![a] = 1]
  BY DEF StartUpcall
<1>2. PICK x \in Addresses :
        /\ IsFree(x)
        /\ heap' = [heap EXCEPT ![x] = [Struct(type, Fresh(type)) EXCEPT !.lent = TRUE]]
        /\ var' = [var EXCEPT ![Lent[a]] = x]
        /\ owned' = owned
  BY DEF StartUpcall, OwnedByCore
<1>3. type # "free" /\ Lent[a] \in DOMAIN VarType
  BY DEF Upcalls, Lent, VarType
<1> HIDE DEF type
<1> DEFINE cell == [Struct(type, Fresh(type)) EXCEPT !.lent = TRUE]
<1>4. IsCell(cell) /\ cell.type # "free" /\ cell.lent
  BY <1>3 DEF IsCell, Struct
<1>5. heap' = [heap EXCEPT ![x] = cell]
  BY <1>2
<1> HIDE DEF cell
<1>6. \A y \in Addresses : heap'[y] = IF y = x THEN cell ELSE heap[y]
  BY <1>5 DEF OwnInv
<1>7. /\ heap' = [y \in Addresses |-> heap'[y]]
      /\ \A y \in Addresses : IsCell(heap'[y])
  BY <1>4, <1>5, <1>6 DEF OwnInv
<1>8. OneOwner'
  BY <1>2, <1>4, <1>6 DEF OwnInv, OneOwner, IsFree
<1>9. /\ var' = [v \in DOMAIN VarType |-> var'[v]]
      /\ var'[Lent[a]] = x
  BY <1>2, <1>3 DEF OwnInv
<1>10. \A u \in Upcalls : u # a => pc'[u] = Idle
  BY <1>1, Types DEF OwnInv
<1>11. LentStruct(a)'
  BY <1>4, <1>6, <1>9 DEF LentStruct, IsFree
<1>12. pc' = [b \in Activities |-> pc'[b]]
  BY <1>1 DEF OwnInv
<1> QED
  BY <1>7, <1>8, <1>9, <1>10, <1>11, <1>12 DEF OwnInv, Upcalls

(* ... and takes it back: that struct has no owner among the proxies. *)
LEMMA EndUpcallOwnInv ==
  ASSUME OwnInv, NEW a \in Upcalls, EndUpcall(a)
  PROVE  OwnInv'
<1> DEFINE x == var[Lent[a]]
<1>1. /\ heap' = [heap EXCEPT ![x] = FreeCell]
      /\ var' = [var EXCEPT ![Lent[a]] = NoAddress]
      /\ pc' = [pc EXCEPT ![a] = Idle]
      /\ owned' = owned
  BY DEF EndUpcall
<1>2. pc[a] # Idle
  BY DEF EndUpcall, Done, Idle, Upcalls, Program, HandleEvent, HandleLog
<1>3. x \in Addresses /\ ~IsFree(x) /\ heap[x].lent
  BY <1>2 DEF OwnInv, LentStruct
<1> HIDE DEF x
<1>4. \A y \in Addresses : heap'[y] = IF y = x THEN FreeCell ELSE heap[y]
  BY <1>1 DEF OwnInv
<1>5. /\ heap' = [y \in Addresses |-> heap'[y]]
      /\ \A y \in Addresses : IsCell(heap'[y])
  BY <1>1, <1>4, Cells DEF OwnInv
<1>6. OneOwner'
  BY <1>1, <1>3, <1>4, Cells DEF OwnInv, OneOwner, IsFree
<1>7. \A u \in Upcalls : pc'[u] = Idle
  BY <1>1, <1>2, Types DEF OwnInv, Upcalls
<1>8. /\ pc' = [b \in Activities |-> pc'[b]]
      /\ var' = [v \in DOMAIN VarType |-> var'[v]]
  BY <1>1 DEF OwnInv
<1> QED
  BY <1>5, <1>6, <1>7, <1>8 DEF OwnInv, Upcalls

-----------------------------------------------------------------------------
(* Every step.                                                             *)

LEMMA NextOwnInv ==
  ASSUME OwnInv, [Next]_vars
  PROVE  OwnInv'
<1>1. CASE UNCHANGED vars
  BY <1>1, SameStructs DEF vars, OwnInv
<1>2. ASSUME NEW a \in Activities, Step(a)
      PROVE  OwnInv'
  <2>1. CASE Enter(a)
    BY <2>1, SameStructs DEF Enter, OwnInv
  <2>2. CASE GetReturns(a)
    <3>1. MayCall(a) /\ UNCHANGED <<heap, owned, var>>
      BY <2>2 DEF GetReturns, Returns
    <3>2. \E n : pc' = [pc EXCEPT ![a] = n]
      BY <2>2 DEF GetReturns
    <3> QED
      BY <3>1, <3>2, CallingIsNotIdle, OneActivity, SameStructs
  <2>3. CASE SetReturns(a)
    BY <2>3, SetOwnInv
  <2> QED
    BY <1>2, <2>1, <2>2, <2>3, ResultOwnInv DEF Step
<1>3. ASSUME NEW a \in Upcalls, StartUpcall(a) \/ EndUpcall(a)
      PROVE  OwnInv'
  BY <1>3, StartUpcallOwnInv, EndUpcallOwnInv
<1>4. ASSUME NEW x \in Addresses, Finalize(x)
      PROVE  OwnInv'
  BY <1>4, FinalizeOwnInv
<1>5. CASE Traffic
  BY <1>5, SameStructs DEF Traffic, OwnInv
<1>6. CASE TestStopped \/ Report
  <2>1. UNCHANGED <<heap, owned, var>>
    BY <1>6 DEF TestStopped, Report
  <2>2. \E n : pc' = [pc EXCEPT !["poller"] = n]
    BY <1>6 DEF TestStopped, Report
  <2>3. /\ pc' = [b \in Activities |-> pc'[b]]
        /\ \A u \in Upcalls : pc'[u] = pc[u]
    BY <2>2, Types DEF OwnInv, Upcalls
  <2> QED
    BY <2>1, <2>3, SameStructs
<1> QED
  BY <1>1, <1>2, <1>3, <1>4, <1>5, <1>6 DEF Next

(* OneOwner, whatever the collector does and wherever the structs are: a   *)
(* struct that Java made or was given as a result has exactly one proxy    *)
(* that will delete it, and a struct the core lent to event() or log() has *)
(* none.                                                                   *)
THEOREM StructsHaveOneOwner == Spec => []OneOwner
<1>1. OwnInv => OneOwner
  BY DEF OwnInv
<1> QED
  BY <1>1, InitOwnInv, NextOwnInv, PTL DEF Spec

-----------------------------------------------------------------------------
(* What the programs pass and return.                                      *)

LentVars == {"event", "logInfo"}

LEMMA ProgramShape ==
  ASSUME NEW a \in Activities, NEW i \in DOMAIN Program(a)
  PROVE  /\ i \in Nat \ {0} /\ i <= Len(Program(a))
         /\ Program(a)[i].args = {}
              \/ \E v \in DOMAIN VarType : Program(a)[i].args = {v}
         /\ a \in Upcalls <=> Program(a)[i].args \cap LentVars # {}
         /\ a \in Upcalls => Program(a)[i].args = {Lent[a]}
         /\ Program(a)[i].op \in {"set", "get"} => Program(a)[i].result = "none"
<1>1. CASE a = "runner"
  <2> DEFINE c == Program(a)[i]
  <2>1. i \in Nat \ {0} /\ i <= Len(Program(a))
    BY <1>1 DEF Program, ConnectNew
  <2>2. \/ c.args = {} \/ c.args = {"config"} \/ c.args = {"ec"}
        \/ c.args = {"creds"} \/ c.args = {"status"}
    <3>1. i \in 1 .. 15
      BY <1>1 DEF Program, ConnectNew
    <3>2. CASE i \in {1, 7, 12}
      BY <1>1, <3>2 DEF Program, ConnectNew, New, Core
    <3>3. CASE i \in {2, 3}
      BY <1>1, <3>3 DEF Program, ConnectNew, Set, Core
    <3>4. CASE i \in {4, 5, 6}
      BY <1>1, <3>4 DEF Program, ConnectNew, Get
    <3>5. CASE i \in {8, 9, 10, 11}
      BY <1>1, <3>5 DEF Program, ConnectNew, Set, Core
    <3>6. CASE i \in {13, 14, 15}
      BY <1>1, <3>6 DEF Program, ConnectNew, Get
    <3> QED
      BY <3>1, <3>2, <3>3, <3>4, <3>5, <3>6
  <2>3. c.op \in {"set", "get"} => c.result = "none"
    BY <1>1 DEF Program, ConnectNew, New, Set, Get, Core
  <2> HIDE DEF c
  <2>4. /\ c.args = {} \/ \E v \in DOMAIN VarType : c.args = {v}
        /\ c.args \cap LentVars = {}
    BY <2>2 DEF VarType, LentVars
  <2>5. a \notin Upcalls
    BY <1>1 DEF Upcalls
  <2> QED
    BY <2>1, <2>3, <2>4, <2>5 DEF c
<1>2. CASE a = "poller"
  BY <1>2 DEF Program, Poll, Get, Core, VarType, LentVars, Upcalls
<1>3. CASE a = "event"
  BY <1>3 DEF Program, HandleEvent, Get, VarType, LentVars, Upcalls, Lent
<1>4. CASE a = "log"
  BY <1>4 DEF Program, HandleLog, Get, VarType, LentVars, Upcalls, Lent
<1> QED
  BY <1>1, <1>2, <1>3, <1>4 DEF Activities

LEMMA Lengths ==
  ASSUME NEW a \in Activities
  PROVE  /\ Len(Program(a)) \in Nat
         /\ DOMAIN Program(a) = 1 .. Len(Program(a))
<1>1. CASE a = "runner"
  BY <1>1 DEF Program, ConnectNew
<1>2. CASE a = "poller"
  BY <1>2 DEF Program, Poll
<1>3. CASE a = "event"
  BY <1>3 DEF Program, HandleEvent
<1>4. CASE a = "log"
  BY <1>4 DEF Program, HandleLog
<1> QED
  BY <1>1, <1>2, <1>3, <1>4 DEF Activities

LEMMA SameProgram ==
  ASSUME UNCHANGED vpnConfig, NEW a
  PROVE  Program(a)' = Program(a)
  BY DEF Program, ConnectNew, Poll, HandleEvent, HandleLog, New, Set, Get, Core

(* An activity uses nothing before it has been given it: what it passes on *)
(* was returned by a call before, or lent to it.                           *)
LEMMA RunnerStartsFresh ==
  ASSUME NEW i \in DOMAIN Program("runner"), NEW v \in Program("runner")[i].args
  PROVE  \E j \in 1 .. i - 1 : Program("runner")[j].result = v
<1> DEFINE p == Program("runner")
<1>1. /\ p[1].result = "config" /\ p[3].result = "ec" /\ p[7].result = "creds"
      /\ p[12].result = "status"
  BY DEF Program, ConnectNew, New, Core
<1>2. i \in 1 .. 15
  BY DEF Program, ConnectNew
<1>3. \/ i \in {2, 3} /\ v = "config"
      \/ i \in {4, 5, 6} /\ v = "ec"
      \/ i \in {8, 9, 10, 11} /\ v = "creds"
      \/ i \in {13, 14, 15} /\ v = "status"
  BY <1>2 DEF Program, ConnectNew, New, Set, Get, Core
<1> HIDE DEF p
<1>4. \E j \in 1 .. i - 1 : p[j].result = v
  BY <1>1, <1>3
<1> QED
  BY <1>4 DEF p

LEMMA PollerStartsFresh ==
  ASSUME NEW i \in DOMAIN Program("poller"), NEW v \in Program("poller")[i].args
  PROVE  i > 1 /\ Program("poller")[1].result = v
  BY DEF Program, Poll, Get, Core

-----------------------------------------------------------------------------
(* AccessOnLive holds while a function runs because of what held when it   *)
(* was called: every variable that is still used has the struct it is      *)
(* declared with, lent if it is the parameter of a callback.               *)

Points(h, x, v) ==
  /\ x \in Addresses
  /\ h[x].type = VarType[v]
  /\ h[x].lent <=> v \in LentVars

ActivitySafe(a) ==
  /\ arg[a].in =>
       MayCall(a) /\ \A v \in Call(a).args : Points(heap, arg[a].address, v)
  /\ pc[a] # Idle =>
       \A v \in DOMAIN VarType : Uses(a, v) => Points(heap, var[v], v)

AccessInv ==
  /\ OwnInv
  /\ arg = [a \in Activities |-> arg[a]]
  /\ \A a \in Activities : pc[a] \in Nat /\ ActivitySafe(a)

(* Activity a passes, or may still pass, address x as the proxy v. *)
InUse(a, v, x) ==
  /\ v \in LentVars <=> a \in Upcalls
  /\ \/ arg[a].in /\ MayCall(a) /\ v \in Call(a).args /\ arg[a].address = x
     \/ pc[a] # Idle /\ Uses(a, v) /\ var[v] = x

(* The part of AccessInv about one activity, when a step leaves the        *)
(* activity and every struct it may touch as they were.                    *)
LEMMA OtherActivity ==
  ASSUME AccessInv, UNCHANGED vpnConfig, NEW a \in Activities,
         pc'[a] = pc[a], arg'[a] = arg[a],
         \A v \in DOMAIN VarType : \A x :
           Points(heap, x, v) /\ InUse(a, v, x) => Points(heap', x, v),
         \A v \in DOMAIN VarType : var'[v] = var[v] \/ Points(heap', var'[v], v)
                                   \/ (v \in LentVars /\ a \notin Upcalls)
  PROVE  ActivitySafe(a)'
<1>1. Program(a)' = Program(a)
  BY SameProgram
<1>2. /\ MayCall(a)' <=> MayCall(a)
      /\ Call(a)' = Call(a)
      /\ \A v \in DOMAIN VarType : Uses(a, v)' <=> Uses(a, v)
  BY <1>1 DEF MayCall, Call, Uses
<1>3. ASSUME NEW v \in DOMAIN VarType, Uses(a, v), pc[a] \in Nat
      PROVE  v \in LentVars <=> a \in Upcalls
  <2>1. PICK i \in pc[a] .. Len(Program(a)) : i > 0 /\ v \in Program(a)[i].args
    BY <1>3 DEF Uses
  <2>2. i \in DOMAIN Program(a)
    BY <1>3, <2>1, Lengths
  <2>3. /\ a \in Upcalls <=> Program(a)[i].args \cap LentVars # {}
        /\ \E w : Program(a)[i].args = {w}
    BY <2>1, <2>2, ProgramShape
  <2> QED
    BY <2>1, <2>3
<1>4. ASSUME NEW v \in Call(a).args, MayCall(a)
      PROVE  v \in DOMAIN VarType /\ (v \in LentVars <=> a \in Upcalls)
  <2>1. pc[a] \in DOMAIN Program(a)
    BY <1>4 DEF MayCall
  <2>2. /\ a \in Upcalls <=> Call(a).args \cap LentVars # {}
        /\ \E w \in DOMAIN VarType : Call(a).args = {w}
    BY <1>4, <2>1, ProgramShape DEF Call
  <2> QED
    BY <1>4, <2>2
<1>5. arg[a].in => MayCall(a) /\ \A v \in Call(a).args : Points(heap, arg[a].address, v)
  BY DEF AccessInv, ActivitySafe
<1>6. arg'[a].in =>
        MayCall(a)' /\ \A v \in Call(a)'.args : Points(heap', arg'[a].address, v)
  <2> SUFFICES ASSUME arg'[a].in
               PROVE  MayCall(a)' /\ \A v \in Call(a)'.args :
                                        Points(heap', arg'[a].address, v)
    OBVIOUS
  <2>1. arg[a].in /\ MayCall(a)
    BY <1>5
  <2>2. ASSUME NEW v \in Call(a).args
        PROVE  Points(heap', arg[a].address, v)
    <3>1. v \in DOMAIN VarType /\ (v \in LentVars <=> a \in Upcalls)
      BY <1>4, <2>1, <2>2
    <3>2. Points(heap, arg[a].address, v)
      BY <1>5, <2>1, <2>2
    <3>3. InUse(a, v, arg[a].address)
      BY <2>1, <3>1 DEF InUse
    <3> QED
      BY <3>1, <3>2, <3>3
  <2> QED
    BY <1>2, <2>1, <2>2
<1>7. ASSUME NEW v \in DOMAIN VarType, Uses(a, v), pc[a] # Idle
      PROVE  Points(heap', var'[v], v)
  <2>1. Points(heap, var[v], v) /\ (v \in LentVars <=> a \in Upcalls)
    BY <1>3, <1>7 DEF AccessInv, ActivitySafe
  <2>2. Points(heap', var[v], v)
    BY <1>7, <2>1 DEF InUse
  <2> QED
    BY <2>1, <2>2
<1> QED
  BY <1>2, <1>6, <1>7 DEF ActivitySafe

LEMMA TypesAreNotFree ==
  ASSUME NEW v \in DOMAIN VarType
  PROVE  VarType[v] # "free"
  BY DEF VarType

LEMMA KeptStructs ==
  ASSUME \A x \in Addresses : ~IsFree(x) =>
           heap'[x].type = heap[x].type /\ heap'[x].lent = heap[x].lent
  PROVE  \A v \in DOMAIN VarType : \A x : Points(heap, x, v) => Points(heap', x, v)
  BY TypesAreNotFree DEF Points, IsFree

(* What is used after a step onward was used before, or was assigned by    *)
(* the calls that are passed.                                              *)
LEMMA UsesOnward ==
  ASSUME NEW a \in Activities, UNCHANGED vpnConfig,
         pc[a] \in Nat \ {0}, NEW n \in Nat, n > pc[a], pc'[a] = n,
         NEW v, Uses(a, v)'
  PROVE  \/ Uses(a, v)
         \/ \E j \in pc[a] .. n - 1 : j \in DOMAIN Program(a) /\ Program(a)[j].result = v
<1>1. PICK i \in n .. Len(Program(a)) :
        /\ i > 0 /\ v \in Program(a)[i].args
        /\ \A j \in n .. i - 1 : j > 0 => Program(a)[j].result # v
  BY SameProgram DEF Uses
<1>2. Len(Program(a)) \in Nat /\ DOMAIN Program(a) = 1 .. Len(Program(a))
  BY Lengths
<1>3. CASE \A j \in pc[a] .. n - 1 : Program(a)[j].result # v
  <2>1. \A j \in pc[a] .. i - 1 : j > 0 => Program(a)[j].result # v
    <3> TAKE j \in pc[a] .. i - 1
    <3>1. j \in pc[a] .. n - 1 \/ j \in n .. i - 1
      BY <1>2
    <3> QED
      BY <1>1, <1>3, <3>1
  <2>2. i \in pc[a] .. Len(Program(a)) /\ i > pc[a]
    BY <1>2
  <2> QED
    BY <1>1, <2>1, <2>2 DEF Uses
<1>4. CASE \E j \in pc[a] .. n - 1 : Program(a)[j].result = v
  <2>1. PICK j \in pc[a] .. n - 1 : Program(a)[j].result = v
    BY <1>4
  <2>2. j \in DOMAIN Program(a)
    BY <1>2
  <2> QED
    BY <2>1, <2>2
<1> QED
  BY <1>3, <1>4

(* The part of AccessInv about the activity whose native function returns. *)
LEMMA ReturningActivity ==
  ASSUME AccessInv, UNCHANGED vpnConfig, NEW a \in Activities, MayCall(a),
         NEW n \in Nat, n > pc[a], pc'[a] = n, arg'[a] = NotCalling,
         \A v \in DOMAIN VarType : \A x : Points(heap, x, v) => Points(heap', x, v),
         \A v \in DOMAIN VarType : var'[v] = var[v] \/ Points(heap', var'[v], v),
         \/ n = Done(a)
         \/ \A j \in pc[a] .. n - 1 : \A v \in DOMAIN VarType :
              j \in DOMAIN Program(a) /\ Program(a)[j].result = v
                => Points(heap', var'[v], v)
  PROVE  ActivitySafe(a)'
<1>1. ~arg'[a].in
  BY DEF NotCalling
<1>2. pc[a] \in Nat \ {0}
  BY CallingIsNotIdle DEF AccessInv, Idle
<1>3. ASSUME NEW v \in DOMAIN VarType, Uses(a, v)'
      PROVE  Points(heap', var'[v], v)
  <2>1. CASE n = Done(a)
    <3>1. Program(a)' = Program(a) /\ Len(Program(a)) \in Nat
      BY SameProgram, Lengths
    <3>2. \E i \in n .. Len(Program(a)) : TRUE
      BY <1>3, <3>1 DEF Uses
    <3> QED
      BY <2>1, <3>1, <3>2 DEF Done
  <2>2. CASE Uses(a, v)
    <3>1. Points(heap, var[v], v)
      BY <1>2, <2>2 DEF AccessInv, ActivitySafe, Idle
    <3> QED
      BY <3>1
  <2>3. CASE \E j \in pc[a] .. n - 1 : j \in DOMAIN Program(a) /\ Program(a)[j].result = v
    BY <2>1, <2>3
  <2> QED
    BY <1>2, <1>3, <2>2, <2>3, UsesOnward
<1> QED
  BY <1>1, <1>3 DEF ActivitySafe

-----------------------------------------------------------------------------
(* The steps, one at a time.                                               *)

LEMMA InitAccessInv ==
  ASSUME Init
  PROVE  AccessInv
<1>1. /\ pc = [a \in Activities |-> IF a = "runner" THEN 1 ELSE Idle]
      /\ arg = [a \in Activities |-> NotCalling]
  BY DEF Init
<1>2. \A a \in Activities : pc[a] \in Nat /\ ~arg[a].in
  BY <1>1 DEF NotCalling, Idle
<1>3. ASSUME NEW v \in DOMAIN VarType
      PROVE  ~Uses("runner", v)
  <2> SUFFICES ASSUME Uses("runner", v)
               PROVE  FALSE
    OBVIOUS
  <2>1. pc["runner"] = 1
    BY <1>1 DEF Activities
  <2>2. PICK i \in 1 .. Len(Program("runner")) :
          /\ v \in Program("runner")[i].args
          /\ \A j \in 1 .. i - 1 : Program("runner")[j].result # v
    BY <2>1 DEF Uses
  <2>3. i \in DOMAIN Program("runner")
    BY <2>2, Lengths DEF Activities
  <2> QED
    BY <2>2, <2>3, RunnerStartsFresh
<1>4. ASSUME NEW a \in Activities
      PROVE  ActivitySafe(a)
  <2>1. CASE a = "runner"
    BY <1>2, <1>3, <2>1 DEF ActivitySafe
  <2>2. CASE a # "runner"
    BY <1>1, <1>2, <2>2 DEF ActivitySafe
  <2> QED
    BY <2>1, <2>2
<1> QED
  BY <1>1, <1>2, <1>4, InitOwnInv DEF AccessInv

LEMMA FinalizeAccessInv ==
  ASSUME AccessInv, NEW x \in Addresses, Finalize(x)
  PROVE  AccessInv'
<1>1. /\ ~Held(x)
      /\ heap' = [heap EXCEPT ![x] = FreeCell]
      /\ UNCHANGED <<vpnConfig, var, pc, arg>>
  BY DEF Finalize
<1>2. OwnInv'
  BY FinalizeOwnInv DEF AccessInv
<1>3. ASSUME NEW a \in Activities
      PROVE  ActivitySafe(a)'
  <2>1. ASSUME NEW v \in DOMAIN VarType, NEW y, Points(heap, y, v), InUse(a, v, y)
        PROVE  Points(heap', y, v)
    <3>1. y # x
      BY <1>1, <2>1 DEF InUse, Held
    <3>2. y \in Addresses /\ heap'[y] = heap[y]
      BY <1>1, <2>1, <3>1 DEF Points, AccessInv, OwnInv
    <3> QED
      BY <2>1, <3>2 DEF Points
  <2> QED
    BY <1>1, <2>1, OtherActivity
<1> QED
  BY <1>1, <1>2, <1>3 DEF AccessInv

LEMMA EnterAccessInv ==
  ASSUME AccessInv, NEW a \in Activities, Enter(a)
  PROVE  AccessInv'
<1> DEFINE address == IF Call(a).args = {} THEN NoAddress
                      ELSE var[CHOOSE v \in Call(a).args : TRUE]
<1>1. /\ MayCall(a) /\ ~arg[a].in
      /\ arg' = [arg EXCEPT ![a] = [in |-> TRUE, address |-> address]]
      /\ UNCHANGED <<vpnConfig, heap, owned, var, pc>>
  BY DEF Enter
<1>2. pc[a] \in DOMAIN Program(a) /\ pc[a] \in Nat \ {0}
  BY <1>1, ProgramShape DEF MayCall
<1>3. ASSUME NEW v \in Call(a).args
      PROVE  Points(heap, address, v)
  <2>1. /\ v \in DOMAIN VarType
        /\ Call(a).args = {v}
    BY <1>2, <1>3, ProgramShape DEF Call
  <2>2. address = var[v]
    BY <2>1
  <2>3. Uses(a, v)
    BY <1>1, <1>2, <2>1, Lengths DEF Uses, Call
  <2> QED
    BY <1>2, <2>1, <2>2, <2>3 DEF AccessInv, ActivitySafe, Idle
<1> HIDE DEF address
<1>4. /\ arg' = [b \in Activities |-> arg'[b]]
      /\ arg'[a] = [in |-> TRUE, address |-> address]
      /\ \A b \in Activities : b # a => arg'[b] = arg[b]
  BY <1>1 DEF AccessInv
<1>5. ActivitySafe(a)'
  <2>1. Program(a)' = Program(a)
    BY <1>1, SameProgram
  <2>2. MayCall(a)' /\ Call(a)' = Call(a)
    BY <1>1, <2>1 DEF MayCall, Call
  <2>3. ASSUME NEW v \in DOMAIN VarType, Uses(a, v)'
        PROVE  Points(heap, var[v], v)
    <3>1. Uses(a, v)
      BY <1>1, <2>1, <2>3 DEF Uses
    <3> QED
      BY <1>2, <3>1 DEF AccessInv, ActivitySafe, Idle
  <2> QED
    BY <1>1, <1>3, <1>4, <2>2, <2>3 DEF ActivitySafe
<1>6. ASSUME NEW b \in Activities, b # a
      PROVE  ActivitySafe(b)'
  BY <1>1, <1>4, <1>6, OtherActivity
<1>7. OwnInv'
  BY <1>1, SameStructs DEF AccessInv, OwnInv
<1> QED
  BY <1>1, <1>4, <1>5, <1>6, <1>7 DEF AccessInv

(* A native function returns, the others are left alone, and every struct  *)
(* in use stays what it is.                                                *)
LEMMA ReturnAccessInv ==
  ASSUME AccessInv, OwnInv', UNCHANGED vpnConfig, NEW a \in Activities, MayCall(a),
         NEW n \in Nat, n > pc[a], pc' = [pc EXCEPT ![a] = n],
         arg' = [arg EXCEPT ![a] = NotCalling],
         \A x \in Addresses : ~IsFree(x) =>
           heap'[x].type = heap[x].type /\ heap'[x].lent = heap[x].lent,
         \A v \in DOMAIN VarType : var'[v] = var[v] \/ Points(heap', var'[v], v),
         \/ n = Done(a)
         \/ \A j \in pc[a] .. n - 1 : \A v \in DOMAIN VarType :
              j \in DOMAIN Program(a) /\ Program(a)[j].result = v
                => Points(heap', var'[v], v)
  PROVE  AccessInv'
<1>1. \A v \in DOMAIN VarType : \A x : Points(heap, x, v) => Points(heap', x, v)
  BY KeptStructs
<1>2. /\ arg' = [b \in Activities |-> arg'[b]]
      /\ \A b \in Activities : pc'[b] = IF b = a THEN n ELSE pc[b]
      /\ \A b \in Activities : arg'[b] = IF b = a THEN NotCalling ELSE arg[b]
  BY DEF AccessInv, OwnInv
<1>3. ActivitySafe(a)'
  BY <1>1, <1>2, ReturningActivity
<1>4. ASSUME NEW b \in Activities, b # a
      PROVE  ActivitySafe(b)'
  BY <1>1, <1>2, <1>4, OtherActivity
<1>5. \A b \in Activities : pc'[b] \in Nat
  BY <1>2 DEF AccessInv
<1> QED
  BY <1>2, <1>3, <1>4, <1>5 DEF AccessInv

LEMMA ResultAccessInv ==
  ASSUME AccessInv, NEW a \in Activities,
         \/ NewReturns(a) \/ EvalConfigReturns(a) \/ ProvideCredsReturns(a)
         \/ ConnectReturns(a) \/ TransportStatsReturns(a)
  PROVE  AccessInv'
<1>1. /\ MayCall(a) /\ Call(a).op \notin {"set", "get"} /\ GoOn(a)
      /\ UNCHANGED vpnConfig
  BY DEF NewReturns, EvalConfigReturns, ProvideCredsReturns, ConnectReturns,
         TransportStatsReturns, Returns
<1> DEFINE w == Call(a).result
<1>2. PICK val : Allocate(w, val)
  BY DEF NewReturns, EvalConfigReturns, ProvideCredsReturns, ConnectReturns,
         TransportStatsReturns
<1>3. PICK x \in Addresses :
        /\ IsFree(x)
        /\ heap' = [heap EXCEPT ![x] = Struct(VarType[w], val)]
        /\ var' = [var EXCEPT ![w] = x]
  BY <1>2 DEF Allocate
<1>4. w \notin LentVars
  BY <1>1, ResultsAreNotLent DEF LentVars
<1>5. OwnInv'
  BY ResultOwnInv DEF AccessInv
<1>6. pc[a] \in DOMAIN Program(a) /\ pc[a] \in Nat /\ Program(a)[pc[a]].result = w
  BY <1>1 DEF MayCall, AccessInv, Call
<1> HIDE DEF w
<1>7. /\ heap'[x] = Struct(VarType[w], val)
      /\ \A y \in Addresses : y # x => heap'[y] = heap[y]
      /\ \A v \in DOMAIN VarType : var'[v] = IF v = w THEN x ELSE var[v]
  BY <1>3 DEF AccessInv, OwnInv
<1>8. Points(heap', x, w)
  BY <1>4, <1>7, Cells DEF Points
<1>9. \A v \in DOMAIN VarType : v = w => Points(heap', var'[v], v)
  BY <1>7, <1>8
<1>10. \A y \in Addresses : ~IsFree(y) =>
         heap'[y].type = heap[y].type /\ heap'[y].lent = heap[y].lent
  BY <1>3, <1>7
<1>11. \A j \in pc[a] .. (pc[a] + 1) - 1 : j = pc[a]
  BY <1>6
<1> QED
  <2>1. \A v \in DOMAIN VarType : var'[v] = var[v] \/ Points(heap', var'[v], v)
    BY <1>7, <1>9
  <2>2. \A j \in pc[a] .. (pc[a] + 1) - 1 : \A v \in DOMAIN VarType :
          j \in DOMAIN Program(a) /\ Program(a)[j].result = v
            => Points(heap', var'[v], v)
    BY <1>6, <1>9, <1>11
  <2> DEFINE n == pc[a] + 1
  <2>3. n \in Nat /\ n > pc[a]
    BY <1>6
  <2>4. pc' = [pc EXCEPT ![a] = n] /\ arg' = [arg EXCEPT ![a] = NotCalling]
    BY <1>1 DEF GoOn
  <2>5. \A j \in pc[a] .. n - 1 : \A v \in DOMAIN VarType :
          j \in DOMAIN Program(a) /\ Program(a)[j].result = v
            => Points(heap', var'[v], v)
    BY <2>2
  <2> HIDE DEF n
  <2> QED
    BY <1>1, <1>5, <1>10, <2>1, <2>3, <2>4, <2>5, ReturnAccessInv

(* Where an activity is inside a function. *)
LEMMA Place ==
  ASSUME AccessInv, NEW a \in Activities, MayCall(a)
  PROVE  /\ pc[a] \in Nat \ {0} /\ pc[a] \in DOMAIN Program(a)
         /\ Done(a) \in Nat /\ Done(a) > pc[a]
         /\ Call(a).op \in {"set", "get"} =>
              \A j \in pc[a] .. (pc[a] + 1) - 1 : \A v \in DOMAIN VarType :
                Program(a)[j].result # v
<1>1. pc[a] \in DOMAIN Program(a)
  BY DEF MayCall
<1>2. pc[a] \in Nat \ {0} /\ pc[a] <= Len(Program(a)) /\ Len(Program(a)) \in Nat
  BY <1>1, ProgramShape, Lengths
<1>3. ASSUME Call(a).op \in {"set", "get"},
             NEW j \in pc[a] .. (pc[a] + 1) - 1, NEW v \in DOMAIN VarType
      PROVE  Program(a)[j].result # v
  <2>1. j = pc[a]
    BY <1>2, <1>3
  <2>2. Program(a)[pc[a]].result = "none"
    BY <1>1, <1>3, ProgramShape DEF Call
  <2> QED
    BY <2>1, <2>2, Types
<1> QED
  BY <1>1, <1>2, <1>3 DEF Done

LEMMA SetAccessInv ==
  ASSUME AccessInv, NEW a \in Activities, SetReturns(a)
  PROVE  AccessInv'
<1> DEFINE x == arg[a].address
           f == Call(a).field
<1>1. /\ MayCall(a) /\ Call(a).op = "set"
      /\ UNCHANGED <<vpnConfig, owned, var>>
      /\ arg' = [arg EXCEPT ![a] = NotCalling]
  BY DEF SetReturns, Returns, GoOn
<1>2. \/ heap' = heap
      \/ heap' = [heap EXCEPT ![x].val[f] = Call(a).value]
  BY DEF SetReturns
<1>3. OwnInv'
  BY SetOwnInv DEF AccessInv
<1> HIDE DEF x, f
<1>4. \A y \in Addresses :
        heap'[y].type = heap[y].type /\ heap'[y].lent = heap[y].lent
  BY <1>2, WrittenCells DEF AccessInv
<1>5. CASE pc' = [pc EXCEPT ![a] = Done(a)]
  BY <1>1, <1>3, <1>4, <1>5, Place, ReturnAccessInv
<1>6. CASE pc' = [pc EXCEPT ![a] = pc[a] + 1]
  <2> DEFINE n == pc[a] + 1
  <2>1. /\ n \in Nat /\ n > pc[a] /\ pc' = [pc EXCEPT ![a] = n]
        /\ \A j \in pc[a] .. n - 1 : \A v \in DOMAIN VarType :
              Program(a)[j].result # v
    BY <1>1, <1>6, Place
  <2> HIDE DEF n
  <2> QED
    BY <1>1, <1>3, <1>4, <2>1, ReturnAccessInv
<1>7. pc' = [pc EXCEPT ![a] = Done(a)] \/ pc' = [pc EXCEPT ![a] = pc[a] + 1]
  BY DEF SetReturns, GoOn
<1> QED
  BY <1>5, <1>6, <1>7

(* An error is read from the fifth call of connect_new; the sixth reads    *)
(* its message.                                                            *)
LEMMA ErrorIsFifth ==
  ASSUME pc["runner"] \in DOMAIN Program("runner"),
         Call("runner").args = {"ec"}, Call("runner").field = "error"
  PROVE  pc["runner"] = 5 /\ Program("runner")[6].result = "none"
<1>1. pc["runner"] \in 1 .. 15
  BY DEF Program, ConnectNew
<1>2. "ec" \in Call("runner").args
  OBVIOUS
<1>3. pc["runner"] \in {4, 5, 6}
  BY <1>1, <1>2 DEF Call, Program, ConnectNew, New, Set, Get, Core
<1>4. pc["runner"] = 5
  BY <1>3 DEF Call, Program, ConnectNew, Get
<1>5. Program("runner")[6].result = "none"
  BY DEF Program, ConnectNew, Get
<1> QED
  BY <1>4, <1>5

LEMMA GetAccessInv ==
  ASSUME AccessInv, NEW a \in Activities, GetReturns(a)
  PROVE  AccessInv'
<1> DEFINE value == heap[arg[a].address].val[Call(a).field]
<1>1. /\ MayCall(a) /\ Call(a).op = "get"
      /\ UNCHANGED <<vpnConfig, heap, owned, var>>
      /\ arg' = [arg EXCEPT ![a] = NotCalling]
      /\ pc' = [pc EXCEPT ![a] = AfterGet(a, value)]
  BY DEF GetReturns, Returns
<1> HIDE DEF value
<1>2. OwnInv'
  BY <1>1, CallingIsNotIdle, OneActivity, SameStructs DEF AccessInv
<1>3. \/ AfterGet(a, value) = Done(a)
      \/ AfterGet(a, value) = pc[a] + 1
      \/ /\ AfterGet(a, value) = pc[a] + 2
         /\ a = "runner" /\ Call(a).args = {"ec"} /\ Call(a).field = "error"
  BY DEF AfterGet
<1>4. CASE AfterGet(a, value) = Done(a)
  BY <1>1, <1>2, <1>4, Place, ReturnAccessInv
<1>5. CASE AfterGet(a, value) = pc[a] + 1
  <2> DEFINE n == pc[a] + 1
  <2>1. /\ n \in Nat /\ n > pc[a] /\ pc' = [pc EXCEPT ![a] = n]
        /\ \A j \in pc[a] .. n - 1 : \A v \in DOMAIN VarType :
              Program(a)[j].result # v
    BY <1>1, <1>5, Place
  <2> HIDE DEF n
  <2> QED
    BY <1>1, <1>2, <2>1, ReturnAccessInv
<1>6. CASE /\ AfterGet(a, value) = pc[a] + 2
           /\ a = "runner" /\ Call(a).args = {"ec"} /\ Call(a).field = "error"
  <2> DEFINE n == pc[a] + 2
  <2>1. pc[a] = 5 /\ Program(a)[6].result = "none"
    BY <1>1, <1>6, Place, ErrorIsFifth
  <2>2. \A v \in DOMAIN VarType : Program(a)[5].result # v
    BY <1>1, <2>1, Place
  <2>3. \A j \in pc[a] .. n - 1 : j = 5 \/ j = 6
    BY <2>1
  <2>4. \A j \in pc[a] .. n - 1 : \A v \in DOMAIN VarType :
          Program(a)[j].result # v
    BY <2>1, <2>2, <2>3, Types
  <2>5. n \in Nat /\ n > pc[a] /\ pc' = [pc EXCEPT ![a] = n]
    BY <1>1, <1>6, <2>1
  <2> HIDE DEF n
  <2> QED
    BY <1>1, <1>2, <2>4, <2>5, ReturnAccessInv
<1> QED
  BY <1>3, <1>4, <1>5, <1>6

(* An activity that is not inside a function has given it nothing. *)
LEMMA NotInside ==
  ASSUME AccessInv, NEW a \in Activities, ~MayCall(a)
  PROVE  ~arg[a].in
  BY DEF AccessInv, ActivitySafe

LEMMA IdleOrDone ==
  ASSUME AccessInv, NEW a \in Activities, pc[a] = Idle \/ pc[a] = Done(a)
  PROVE  ~MayCall(a)
<1>1. DOMAIN Program(a) = 1 .. Len(Program(a)) /\ Len(Program(a)) \in Nat
  BY Lengths
<1> QED
  BY <1>1 DEF MayCall, Done, Idle

LEMMA StartUpcallAccessInv ==
  ASSUME AccessInv, NEW a \in Upcalls, StartUpcall(a)
  PROVE  AccessInv'
<1> DEFINE w == Lent[a]
           type == VarType[w]
           cell == [Struct(type, Fresh(type)) EXCEPT !.lent = TRUE]
<1>1. PICK x \in Addresses :
        /\ IsFree(x)
        /\ heap' = [heap EXCEPT ![x] = cell]
        /\ var' = [var EXCEPT ![w] = x]
  BY DEF StartUpcall
<1>2. /\ pc[a] = Idle
      /\ pc' = [pc EXCEPT ![a] = 1]
      /\ UNCHANGED <<vpnConfig, arg>>
  BY DEF StartUpcall
<1>3. cell.type = VarType[w] /\ cell.lent
  BY DEF Struct
<1>4. w \in LentVars
  BY Types DEF Upcalls, LentVars
<1>5. OwnInv'
  BY StartUpcallOwnInv DEF AccessInv
<1> HIDE DEF cell, type
<1>6. /\ heap'[x] = cell
      /\ \A y \in Addresses : y # x => heap'[y] = heap[y]
      /\ \A v \in DOMAIN VarType : var'[v] = IF v = w THEN x ELSE var[v]
      /\ \A b \in Activities : pc'[b] = IF b = a THEN 1 ELSE pc[b]
  BY <1>1, <1>2 DEF AccessInv, OwnInv
<1>7. Points(heap', x, w)
  BY <1>3, <1>4, <1>6 DEF Points
<1>8. \A v \in DOMAIN VarType : \A y : Points(heap, y, v) => Points(heap', y, v)
  BY <1>1, <1>6, KeptStructs
<1>9. ActivitySafe(a)'
  <2>1. a \in Activities /\ ~arg'[a].in
    BY <1>2, Types, IdleOrDone, NotInside
  <2>2. ASSUME NEW v \in DOMAIN VarType, Uses(a, v)'
        PROVE  Points(heap', var'[v], v)
    <3>1. Program(a)' = Program(a)
      BY <1>2, SameProgram
    <3>2. PICK i \in 1 .. Len(Program(a)) : v \in Program(a)[i].args
      BY <1>6, <2>1, <2>2, <3>1 DEF Uses
    <3>3. v = w
      BY <2>1, <3>2, Lengths, ProgramShape
    <3> QED
      BY <1>6, <1>7, <3>3
  <2> QED
    BY <2>1, <2>2 DEF ActivitySafe
<1>10. ASSUME NEW b \in Activities, b # a
       PROVE  ActivitySafe(b)'
  <2>1. \A v \in DOMAIN VarType : var'[v] = var[v] \/ Points(heap', var'[v], v)
    BY <1>6, <1>7
  <2>2. pc'[b] = pc[b] /\ arg'[b] = arg[b]
    BY <1>2, <1>6, <1>10
  <2> HIDE DEF w
  <2> QED
    BY <1>2, <1>8, <2>1, <2>2, OtherActivity
<1>11. \A b \in Activities : pc'[b] \in Nat
  BY <1>6 DEF AccessInv
<1>12. arg' = [b \in Activities |-> arg'[b]]
  BY <1>2 DEF AccessInv
<1> QED
  BY <1>5, <1>9, <1>10, <1>11, <1>12 DEF AccessInv

LEMMA EndUpcallAccessInv ==
  ASSUME AccessInv, NEW a \in Upcalls, EndUpcall(a)
  PROVE  AccessInv'
<1> DEFINE x == var[Lent[a]]
<1>1. /\ heap' = [heap EXCEPT ![x] = FreeCell]
      /\ var' = [var EXCEPT ![Lent[a]] = NoAddress]
      /\ pc' = [pc EXCEPT ![a] = Idle]
      /\ pc[a] = Done(a)
      /\ UNCHANGED <<vpnConfig, arg>>
  BY DEF EndUpcall
<1>2. pc[a] # Idle
  BY <1>1 DEF Done, Idle, Upcalls, Program, HandleEvent, HandleLog
<1>3. heap[x].lent
  BY <1>2 DEF AccessInv, OwnInv, LentStruct
<1>4. OwnInv'
  BY EndUpcallOwnInv DEF AccessInv
<1> HIDE DEF x
<1>5. /\ \A y \in Addresses : y # x => heap'[y] = heap[y]
      /\ \A b \in Activities : pc'[b] = IF b = a THEN Idle ELSE pc[b]
  BY <1>1 DEF AccessInv, OwnInv
<1>6. ASSUME NEW b \in Upcalls
      PROVE  ActivitySafe(b)'
  <2>1. b \in Activities /\ (pc[b] = Idle \/ b = a)
    BY <1>2, Types DEF AccessInv, OwnInv, Upcalls
  <2>2. pc'[b] = Idle
    BY <1>5, <2>1
  <2>3. ~arg'[b].in
    BY <1>1, <2>1, IdleOrDone, NotInside
  <2> QED
    BY <2>2, <2>3 DEF ActivitySafe
<1>7. ASSUME NEW b \in Activities, b \notin Upcalls
      PROVE  ActivitySafe(b)'
  <2>1. ASSUME NEW v \in DOMAIN VarType, NEW y, Points(heap, y, v), InUse(b, v, y)
        PROVE  Points(heap', y, v)
    <3>1. y # x
      BY <1>3, <1>7, <2>1 DEF InUse, Points
    <3> QED
      BY <1>5, <2>1, <3>1 DEF Points
  <2>2. \A v \in DOMAIN VarType : v \notin LentVars => var'[v] = var[v]
    BY <1>1, Types DEF AccessInv, OwnInv, Upcalls, LentVars
  <2>3. pc'[b] = pc[b] /\ arg'[b] = arg[b]
    BY <1>1, <1>5, <1>7
  <2> QED
    BY <1>1, <1>7, <2>1, <2>2, <2>3, OtherActivity
<1>8. \A b \in Activities : pc'[b] \in Nat
  BY <1>5 DEF AccessInv, Idle
<1>9. arg' = [b \in Activities |-> arg'[b]]
  BY <1>1 DEF AccessInv
<1> QED
  BY <1>4, <1>6, <1>7, <1>8, <1>9 DEF AccessInv

(* A step that touches neither the structs nor where any activity is. *)
LEMMA StutterAccessInv ==
  ASSUME AccessInv, UNCHANGED <<vpnConfig, heap, owned, var, pc, arg>>
  PROVE  AccessInv'
<1>1. OwnInv'
  BY SameStructs DEF AccessInv, OwnInv
<1>2. ASSUME NEW a \in Activities
      PROVE  ActivitySafe(a)'
  BY OtherActivity
<1> QED
  BY <1>1, <1>2 DEF AccessInv

(* The poller starts a round, or finds that it has been stopped. *)
LEMMA PollerAccessInv ==
  ASSUME AccessInv, TestStopped \/ Report
  PROVE  AccessInv'
<1>1. /\ UNCHANGED <<vpnConfig, heap, owned, var, arg>>
      /\ pc["poller"] = Idle \/ pc["poller"] = Done("poller")
  BY DEF TestStopped, Report
<1>2. PICK n \in {Idle, 1, Done("poller") + 1} : pc' = [pc EXCEPT !["poller"] = n]
  BY DEF TestStopped, Report
<1>3. Len(Program("poller")) \in Nat
  BY Lengths DEF Activities
<1>4. \A b \in Activities : pc'[b] = IF b = "poller" THEN n ELSE pc[b]
  BY <1>2 DEF AccessInv, OwnInv
<1>5. OwnInv'
  <2>1. pc' = [b \in Activities |-> pc'[b]]
    BY <1>2 DEF AccessInv, OwnInv
  <2>2. \A u \in Upcalls : pc'[u] = pc[u]
    BY <1>4, Types DEF Upcalls
  <2> QED
    BY <1>1, <2>1, <2>2, SameStructs DEF AccessInv
<1>6. ActivitySafe("poller")'
  <2>1. ~arg'["poller"].in
    BY <1>1, IdleOrDone, NotInside DEF Activities
  <2>2. pc'["poller"] = n
    BY <1>4 DEF Activities
  <2>3. ASSUME NEW v \in DOMAIN VarType, Uses("poller", v)', n # Idle
        PROVE  FALSE
    <3>1. Program("poller")' = Program("poller")
      BY <1>1, SameProgram
    <3>2. PICK i \in n .. Len(Program("poller")) :
            /\ i > 0 /\ v \in Program("poller")[i].args
            /\ \A j \in n .. i - 1 : j > 0 => Program("poller")[j].result # v
      BY <2>2, <2>3, <3>1 DEF Uses
    <3>3. n = 1
      BY <1>3, <2>3, <3>2 DEF Done
    <3>4. i \in DOMAIN Program("poller")
      BY <3>2, <3>3, Lengths DEF Activities
    <3> QED
      BY <1>3, <3>2, <3>3, <3>4, PollerStartsFresh
  <2> QED
    BY <2>1, <2>2, <2>3 DEF ActivitySafe
<1>7. ASSUME NEW b \in Activities, b # "poller"
      PROVE  ActivitySafe(b)'
  <2>1. pc'[b] = pc[b] /\ arg'[b] = arg[b]
    BY <1>1, <1>4, <1>7
  <2> QED
    BY <1>1, <2>1, OtherActivity
<1>8. \A b \in Activities : pc'[b] \in Nat
  BY <1>3, <1>4 DEF AccessInv, Idle, Done
<1> QED
  BY <1>1, <1>5, <1>6, <1>7, <1>8 DEF AccessInv

LEMMA NextAccessInv ==
  ASSUME AccessInv, [Next]_vars
  PROVE  AccessInv'
<1>1. CASE UNCHANGED vars
  BY <1>1, StutterAccessInv DEF vars
<1>2. ASSUME NEW a \in Activities, Step(a)
      PROVE  AccessInv'
  BY <1>2, EnterAccessInv, SetAccessInv, GetAccessInv, ResultAccessInv DEF Step
<1>3. ASSUME NEW a \in Upcalls, StartUpcall(a) \/ EndUpcall(a)
      PROVE  AccessInv'
  BY <1>3, StartUpcallAccessInv, EndUpcallAccessInv
<1>4. ASSUME NEW x \in Addresses, Finalize(x)
      PROVE  AccessInv'
  BY <1>4, FinalizeAccessInv
<1>5. CASE Traffic
  BY <1>5, StutterAccessInv DEF Traffic
<1>6. CASE TestStopped \/ Report
  BY <1>6, PollerAccessInv
<1> QED
  BY <1>1, <1>2, <1>3, <1>4, <1>5, <1>6 DEF Next

(* AccessOnLive: a native function that is given an address finds the      *)
(* struct there that the Java variable is declared with, until it returns, *)
(* whatever the collector does and however addresses are used again.       *)
THEOREM NoUseAfterFree == Spec => []AccessOnLive
<1>1. AccessInv => AccessOnLive
  <2> SUFFICES ASSUME AccessInv, NEW a \in Activities, arg[a].in, NEW v \in Call(a).args
               PROVE  /\ arg[a].address # NoAddress
                      /\ heap[arg[a].address].type = VarType[v]
    BY DEF AccessOnLive
  <2>1. Points(heap, arg[a].address, v)
    BY DEF AccessInv, ActivitySafe
  <2> QED
    BY <2>1, SessionDataAssumption DEF Points
<1> QED
  BY <1>1, InitAccessInv, NextAccessInv, PTL DEF Spec

-----------------------------------------------------------------------------
(* What connect_new has done by the time it is at a call: the structs it   *)
(* fills hold exactly what it has set so far, and the core has a copy of   *)
(* what it was given.                                                      *)

WantedConfig == [Fresh("Config") EXCEPT !.content = vpnConfig.content]

CredsWith(token) ==
  [Fresh("ProvideCreds") EXCEPT !.cachePassword = TRUE, !.username = token,
                                !.password = token]

(* The struct in the proxy that variable v holds. *)
In(v) == heap[var[v]].val

(* The struct that the next call is given. *)
FilledInv ==
  /\ pc["runner"] = 2 => In("config") = Fresh("Config")
  /\ pc["runner"] = 3 => In("config") = WantedConfig
  /\ pc["runner"] \in {4, 5} => (In("ec").error <=> ~core.valid)
  /\ pc["runner"] = 8 => In("creds") = Fresh("ProvideCreds")
  /\ pc["runner"] = 9 =>
       In("creds") = [Fresh("ProvideCreds") EXCEPT !.cachePassword = TRUE]
  /\ pc["runner"] = 10 =>
       In("creds") = [Fresh("ProvideCreds") EXCEPT !.cachePassword = TRUE,
                                                   !.password = vpnConfig.token]
  /\ pc["runner"] = 11 => In("creds") = CredsWith(vpnConfig.token)

(* What the core was told. *)
ToldInv ==
  /\ pc["runner"] \in 3 .. 15 => vpnConfig.content # Null
  /\ pc["runner"] \in 4 .. 15 => core.config = WantedConfig
  /\ pc["runner"] \in 7 .. 15 => core.valid
  /\ pc["runner"] \in 10 .. 15 => vpnConfig.token # Null
  /\ pc["runner"] \in 12 .. 15 => core.creds = CredsWith(vpnConfig.token)

RunnerInv ==
  /\ pc["runner"] \in 1 .. 16
  /\ DOMAIN core = {"config", "valid", "creds"} /\ core.valid \in BOOLEAN
  /\ arg["runner"].in =>
       \A v \in Call("runner").args : arg["runner"].address = var[v]
  /\ FilledInv
  /\ ToldInv

LEMMA RunnerProgram ==
  /\ DOMAIN Program("runner") = 1 .. 15 /\ Done("runner") = 16
  /\ Program("runner")[1] = New("Config", "config")
  /\ Program("runner")[2] = Set("config", "content", vpnConfig.content)
  /\ Program("runner")[3] = Core("eval_config", {"config"}, "ec")
  /\ Program("runner")[4] = Get("ec", "externalPki")
  /\ Program("runner")[5] = Get("ec", "error")
  /\ Program("runner")[6] = Get("ec", "message")
  /\ Program("runner")[7] = New("ProvideCreds", "creds")
  /\ Program("runner")[8] = Set("creds", "cachePassword", TRUE)
  /\ Program("runner")[9] = Set("creds", "password", vpnConfig.token)
  /\ Program("runner")[10] = Set("creds", "username", vpnConfig.token)
  /\ Program("runner")[11] = Core("provide_creds", {"creds"}, "provided")
  /\ Program("runner")[12] = Core("connect", {}, "status")
  /\ Program("runner")[13] = Get("status", "status")
  /\ Program("runner")[14] = Get("status", "message")
  /\ Program("runner")[15] = Get("status", "error")
  BY DEF Program, ConnectNew, Done

(* Which calls are which. *)
LEMMA RunnerCalls ==
  ASSUME pc["runner"] \in 1 .. 15
  PROVE  /\ Call("runner").op = "new" <=> pc["runner"] \in {1, 7}
         /\ Call("runner").op = "set" <=> pc["runner"] \in {2, 8, 9, 10}
         /\ Call("runner").op = "get" <=> pc["runner"] \in {4, 5, 6, 13, 14, 15}
         /\ Call("runner").op = "eval_config" <=> pc["runner"] = 3
         /\ Call("runner").op = "provide_creds" <=> pc["runner"] = 11
         /\ Call("runner").op = "connect" <=> pc["runner"] = 12
         /\ Call("runner").op # "transport_stats"
<1>1. CASE pc["runner"] \in {1, 7}
  BY <1>1, RunnerProgram DEF Call, New
<1>2. CASE pc["runner"] \in {2, 8}
  BY <1>2, RunnerProgram DEF Call, Set
<1>3. CASE pc["runner"] \in {9, 10}
  BY <1>3, RunnerProgram DEF Call, Set
<1>4. CASE pc["runner"] \in {3, 11, 12}
  BY <1>4, RunnerProgram DEF Call, Core
<1>5. CASE pc["runner"] \in {4, 5, 6}
  BY <1>5, RunnerProgram DEF Call, Get
<1>6. CASE pc["runner"] \in {13, 14, 15}
  BY <1>6, RunnerProgram DEF Call, Get
<1> QED
  BY <1>1, <1>2, <1>3, <1>4, <1>5, <1>6

(* The other programs set nothing and tell the core nothing. *)
LEMMA OthersOnlyRead ==
  ASSUME NEW a \in Activities \ {"runner"}, MayCall(a)
  PROVE  /\ Call(a).op \in {"get", "transport_stats"}
         /\ Call(a).op = "transport_stats" => Call(a).result = "t" /\ a = "poller"
<1>1. CASE a = "poller"
  BY <1>1 DEF MayCall, Call, Program, Poll, Get, Core
<1>2. CASE a = "event"
  BY <1>2 DEF MayCall, Call, Program, HandleEvent, Get
<1>3. CASE a = "log"
  BY <1>3 DEF MayCall, Call, Program, HandleLog, Get
<1> QED
  BY <1>1, <1>2, <1>3 DEF Activities

(* A struct in use by the runner, that it is not writing to, is as it was. *)
LEMMA CellKept ==
  ASSUME AccessInv, [Next]_vars, ~SetReturns("runner"),
         NEW v \in DOMAIN VarType \ LentVars, NEW x, Points(heap, x, v),
         InUse("runner", v, x)
  PROVE  heap'[x] = heap[x]
<1>1. x \in Addresses /\ ~IsFree(x) /\ ~heap[x].lent
  BY TypesAreNotFree DEF Points, IsFree
<1>2. heap = [y \in Addresses |-> heap[y]]
  BY DEF AccessInv, OwnInv
<1>3. CASE heap' = heap
  BY <1>3
<1>4. ASSUME NEW y, y # x, NEW cell, heap' = [heap EXCEPT ![y] = cell]
      PROVE  heap'[x] = heap[x]
  BY <1>1, <1>2, <1>4
<1>5. ASSUME NEW a \in Activities, Step(a)
      PROVE  heap'[x] = heap[x]
  <2>1. CASE Enter(a) \/ GetReturns(a)
    BY <1>3, <2>1 DEF Enter, GetReturns
  <2>2. CASE SetReturns(a)
    <3>1. MayCall(a) /\ Call(a).op = "set"
      BY <2>2 DEF SetReturns, Returns
    <3>2. a # "runner"
      BY <2>2
    <3> QED
      BY <3>1, <3>2, OthersOnlyRead
  <2>3. CASE \/ NewReturns(a) \/ EvalConfigReturns(a) \/ ProvideCredsReturns(a)
             \/ ConnectReturns(a) \/ TransportStatsReturns(a)
    <3>1. PICK val : Allocate(Call(a).result, val)
      BY <2>3 DEF NewReturns, EvalConfigReturns, ProvideCredsReturns, ConnectReturns,
                  TransportStatsReturns
    <3>2. PICK y \in Addresses :
            IsFree(y) /\ heap' = [heap EXCEPT ![y] = Struct(VarType[Call(a).result], val)]
      BY <3>1 DEF Allocate
    <3> QED
      BY <1>1, <1>4, <3>2
  <2> QED
    BY <1>5, <2>1, <2>2, <2>3 DEF Step
<1>6. ASSUME NEW u \in Upcalls, StartUpcall(u)
      PROVE  heap'[x] = heap[x]
  <2>1. \E y \in Addresses : \E cell : IsFree(y) /\ heap' = [heap EXCEPT ![y] = cell]
    BY <1>6 DEF StartUpcall
  <2> QED
    BY <1>1, <1>4, <2>1
<1>7. ASSUME NEW u \in Upcalls, EndUpcall(u)
      PROVE  heap'[x] = heap[x]
  <2>1. pc[u] # Idle
    BY <1>7 DEF EndUpcall, Done, Idle, Upcalls, Program, HandleEvent, HandleLog
  <2>2. heap[var[Lent[u]]].lent
    BY <2>1 DEF AccessInv, OwnInv, LentStruct
  <2> QED
    BY <1>1, <1>4, <1>7, <2>2 DEF EndUpcall
<1>8. ASSUME NEW y \in Addresses, Finalize(y)
      PROVE  heap'[x] = heap[x]
  <2>1. y # x
    BY <1>8 DEF InUse, Finalize, Held, Activities
  <2> QED
    BY <1>4, <1>8, <2>1 DEF Finalize
<1>9. CASE Traffic \/ TestStopped \/ Report \/ UNCHANGED vars
  BY <1>3, <1>9 DEF Traffic, TestStopped, Report, vars
<1> QED
  BY <1>5, <1>6, <1>7, <1>8, <1>9 DEF Next

RunnerReturns ==
  \/ NewReturns("runner") \/ SetReturns("runner") \/ GetReturns("runner")
  \/ EvalConfigReturns("runner") \/ ProvideCredsReturns("runner")
  \/ ConnectReturns("runner")

(* The struct a call is given is the one in the variable. *)
LEMMA GivenStruct ==
  ASSUME AccessInv, RunnerInv, pc["runner"] \in 1 .. 15,
         NEW v \in Call("runner").args
  PROVE  /\ v \in DOMAIN VarType \ LentVars
         /\ Call("runner").args = {v}
         /\ Points(heap, var[v], v)
         /\ InUse("runner", v, var[v])
<1>1. pc["runner"] \in DOMAIN Program("runner") /\ MayCall("runner")
  BY RunnerProgram DEF MayCall
<1>2. "runner" \in Activities /\ "runner" \notin Upcalls
  BY DEF Activities, Upcalls
<1>3. v \in DOMAIN VarType \ LentVars /\ Call("runner").args = {v}
  BY <1>1, <1>2, ProgramShape DEF Call
<1>4. CASE arg["runner"].in
  <2>1. arg["runner"].address = var[v]
    BY <1>4 DEF RunnerInv
  <2>2. Points(heap, arg["runner"].address, v)
    BY <1>2, <1>4 DEF AccessInv, ActivitySafe
  <2> QED
    BY <1>1, <1>2, <1>3, <1>4, <2>1, <2>2 DEF InUse
<1>5. CASE ~arg["runner"].in
  <2>1. Uses("runner", v)
    <3>1. Len(Program("runner")) = 15
      BY RunnerProgram DEF Done
    <3> QED
      BY <1>5, <3>1 DEF Uses, Call
  <2>2. pc["runner"] # Idle
    BY DEF Idle
  <2>3. Points(heap, var[v], v)
    BY <1>2, <1>3, <2>1, <2>2 DEF AccessInv, ActivitySafe
  <2> QED
    BY <1>2, <1>3, <2>1, <2>2, <2>3 DEF InUse
<1> QED
  BY <1>3, <1>4, <1>5

(* What the other threads do to what the runner has: nothing. *)
LEMMA RunnerLeftAlone ==
  ASSUME AccessInv, [Next]_vars, ~RunnerReturns, pc["runner"] \in 1 .. 16
  PROVE  /\ UNCHANGED <<vpnConfig, core>>
         /\ pc'["runner"] = pc["runner"]
         /\ \A v \in {"config", "ec", "creds", "provided", "status"} : var'[v] = var[v]
         /\ arg'["runner"] = arg["runner"] \/ Enter("runner")
<1> DEFINE Alone ==
      /\ UNCHANGED <<vpnConfig, core>>
      /\ pc'["runner"] = pc["runner"]
      /\ \A v \in {"config", "ec", "creds", "provided", "status"} : var'[v] = var[v]
      /\ arg'["runner"] = arg["runner"] \/ Enter("runner")
<1>1. /\ pc = [a \in Activities |-> pc[a]] /\ arg = [a \in Activities |-> arg[a]]
      /\ var = [v \in DOMAIN VarType |-> var[v]] /\ "runner" \in Activities
  BY DEF AccessInv, OwnInv, Activities
<1>2. CASE Enter("runner")
  BY <1>2 DEF Enter
<1>3. ~TransportStatsReturns("runner")
  <2>1. ASSUME MayCall("runner") PROVE Call("runner").op # "transport_stats"
    BY <2>1, RunnerProgram, RunnerCalls DEF MayCall
  <2> QED
    BY <2>1 DEF TransportStatsReturns, Returns
<1>4. ASSUME NEW a \in Activities, Step(a), a # "runner"
      PROVE  Alone
  <2>1. CASE Enter(a)
    BY <1>1, <1>4, <2>1 DEF Enter
  <2>2. ASSUME ~Enter(a)
        PROVE  /\ MayCall(a)
               /\ GetReturns(a) \/ (TransportStatsReturns(a) /\ Call(a).result = "t")
    <3>1. MayCall(a)
      BY <1>4, <2>2 DEF Step, NewReturns, SetReturns, GetReturns, EvalConfigReturns,
                 ProvideCredsReturns, ConnectReturns, TransportStatsReturns, Returns
    <3>2. Call(a).op \in {"get", "transport_stats"}
          /\ (Call(a).op = "transport_stats" => Call(a).result = "t")
      BY <1>4, <3>1, OthersOnlyRead
    <3> QED
      BY <1>4, <2>2, <3>1, <3>2 DEF Step, NewReturns, SetReturns, GetReturns,
         EvalConfigReturns, ProvideCredsReturns, ConnectReturns, TransportStatsReturns,
         Returns
  <2>3. CASE GetReturns(a)
    BY <1>1, <1>4, <2>3 DEF GetReturns
  <2>4. CASE TransportStatsReturns(a) /\ Call(a).result = "t"
    <3>1. \E x : var' = [var EXCEPT !["t"] = x]
      BY <2>4 DEF TransportStatsReturns, Allocate
    <3> QED
      BY <1>1, <1>4, <2>4, <3>1, Types DEF TransportStatsReturns, GoOn
  <2> QED
    BY <2>1, <2>2, <2>3, <2>4
<1>5. ASSUME NEW u \in Upcalls, StartUpcall(u) \/ EndUpcall(u)
      PROVE  Alone
  <2>1. u # "runner" /\ Lent[u] \in LentVars
    BY Types DEF Upcalls, LentVars
  <2>2. \E n : pc' = [pc EXCEPT ![u] = n]
    BY <1>5 DEF StartUpcall, EndUpcall
  <2>3. \E x : var' = [var EXCEPT ![Lent[u]] = x]
    BY <1>5 DEF StartUpcall, EndUpcall
  <2>4. UNCHANGED <<vpnConfig, core, arg>>
    BY <1>5 DEF StartUpcall, EndUpcall
  <2> QED
    BY <1>1, <2>1, <2>2, <2>3, <2>4, Types DEF LentVars
<1>6. ASSUME NEW x \in Addresses, Finalize(x)
      PROVE  Alone
  BY <1>6 DEF Finalize
<1>7. CASE TestStopped \/ Report
  <2>1. UNCHANGED <<vpnConfig, core, var, arg>> /\ \E n : pc' = [pc EXCEPT !["poller"] = n]
    BY <1>7 DEF TestStopped, Report
  <2> QED
    BY <1>1, <2>1
<1>8. CASE Traffic \/ UNCHANGED vars
  BY <1>8 DEF Traffic, vars
<1> HIDE DEF Alone
<1>9. Enter("runner") => Alone
  BY <1>2 DEF Alone, Enter
<1>10. ASSUME NEW a \in Activities, Step(a)
       PROVE  Alone
  BY <1>3, <1>4, <1>9, <1>10 DEF Step, RunnerReturns
<1> QED
  BY <1>5, <1>6, <1>7, <1>8, <1>10 DEF Next, Alone

LEMMA OthersRunnerInv ==
  ASSUME AccessInv, RunnerInv, [Next]_vars, ~RunnerReturns
  PROVE  RunnerInv'
<1>1. /\ UNCHANGED <<vpnConfig, core>>
      /\ pc'["runner"] = pc["runner"]
      /\ \A v \in {"config", "ec", "creds", "provided", "status"} : var'[v] = var[v]
      /\ arg'["runner"] = arg["runner"] \/ Enter("runner")
  BY RunnerLeftAlone DEF RunnerInv
<1>2. Program("runner")' = Program("runner")
  BY <1>1, SameProgram
<1>3. Call("runner")' = Call("runner")
  BY <1>1, <1>2 DEF Call
<1>4. ASSUME NEW v \in Call("runner").args, pc["runner"] \in 1 .. 15
      PROVE  /\ v \in {"config", "ec", "creds", "provided", "status"}
             /\ v # "provided" /\ heap'[var[v]] = heap[var[v]]
  <2>1. /\ v \in DOMAIN VarType \ LentVars /\ Points(heap, var[v], v)
        /\ InUse("runner", v, var[v])
    BY <1>4, GivenStruct
  <2>2. v \in {"config", "ec", "creds", "status"}
    <3>1. pc["runner"] \in DOMAIN Program("runner")
      BY <1>4, RunnerProgram
    <3>2. CASE pc["runner"] \in {1, 2, 3, 7}
      BY <1>4, <3>2, RunnerProgram DEF Call, New, Set, Core
    <3>3. CASE pc["runner"] \in {8, 9, 10, 11, 12}
      BY <1>4, <3>3, RunnerProgram DEF Call, Set, Core
    <3>4. CASE pc["runner"] \in {4, 5, 6, 13, 14, 15}
      BY <1>4, <3>4, RunnerProgram DEF Call, Get
    <3> QED
      BY <1>4, <3>2, <3>3, <3>4
  <2>3. heap'[var[v]] = heap[var[v]]
    BY <2>1, CellKept DEF RunnerReturns
  <2> QED
    BY <2>2, <2>3
<1>5. FilledInv'
  <2>1. ASSUME NEW v \in {"config", "ec", "creds"}, heap'[var[v]] = heap[var[v]]
        PROVE  In(v)' = In(v)
    BY <1>1, <2>1 DEF In
  <2>2. pc["runner"] \in {2, 3} => In("config")' = In("config")
    <3>1. pc["runner"] \in {2, 3} => "config" \in Call("runner").args
      BY RunnerProgram DEF Call, Set, Core
    <3> QED
      BY <1>4, <2>1, <3>1
  <2>3. pc["runner"] \in {4, 5} => In("ec")' = In("ec")
    <3>1. pc["runner"] \in {4, 5} => "ec" \in Call("runner").args
      BY RunnerProgram DEF Call, Get
    <3> QED
      BY <1>4, <2>1, <3>1
  <2>4. pc["runner"] \in {8, 9, 10, 11} => In("creds")' = In("creds")
    <3>1. pc["runner"] \in {8, 9, 10, 11} => "creds" \in Call("runner").args
      BY RunnerProgram DEF Call, Set, Core
    <3> QED
      BY <1>4, <2>1, <3>1
  <2> QED
    BY <1>1, <2>2, <2>3, <2>4 DEF RunnerInv, FilledInv, WantedConfig, CredsWith
<1>6. ToldInv'
  BY <1>1 DEF RunnerInv, ToldInv, WantedConfig, CredsWith
<1>7. ASSUME arg'["runner"].in, NEW v \in Call("runner").args
      PROVE  arg'["runner"].address = var'[v]
  <2>1. pc["runner"] \in 1 .. 15
    <3>1. CASE Enter("runner")
      BY <3>1, RunnerProgram DEF Enter, MayCall
    <3>2. CASE arg'["runner"] = arg["runner"]
      BY <1>7, <3>2, RunnerProgram DEF AccessInv, ActivitySafe, MayCall, Activities
    <3> QED
      BY <1>1, <3>1, <3>2
  <2>2. var'[v] = var[v] /\ Call("runner").args = {v}
    BY <1>1, <1>4, <1>7, <2>1, GivenStruct
  <2>3. CASE Enter("runner")
    <3>1. arg' = [arg EXCEPT !["runner"] =
                    [in |-> TRUE,
                     address |-> IF Call("runner").args = {} THEN NoAddress
                                 ELSE var[CHOOSE w \in Call("runner").args : TRUE]]]
      BY <2>3 DEF Enter
    <3>2. arg'["runner"].address = var[CHOOSE w \in Call("runner").args : TRUE]
      BY <2>2, <3>1 DEF AccessInv, Activities
    <3> QED
      BY <2>2, <3>2
  <2>4. CASE arg'["runner"] = arg["runner"]
    BY <1>7, <2>2, <2>4 DEF RunnerInv
  <2> QED
    BY <1>1, <2>3, <2>4
<1> QED
  BY <1>1, <1>3, <1>5, <1>6, <1>7 DEF RunnerInv

(* The strings that connect_new sets are refused when they are null. *)
LEMMA JoinedField ==
  ASSUME NEW f, NEW g, NEW field \in DOMAIN f
  PROVE  field \in DOMAIN (f ++ g) /\ (f ++ g)[field] = f[field]
  BY DEF ++

LEMMA RefusedStrings ==
  ASSUME NEW value
  PROVE  /\ Refused("Config", "content", value) <=> value = Null
         /\ Refused("ProvideCreds", "password", value) <=> value = Null
<1>1. Config["content"] = "string"
  <2>1. "content" \in DOMAIN ContentFields /\ ContentFields["content"] = "string"
    BY DEF ContentFields
  <2> QED
    BY <2>1, JoinedField DEF Config
<1>2. ProvideCreds["password"] = "string"
  BY JoinedField DEF ProvideCreds, LoginCreds
<1>3. Structs["Config"] = Config /\ Structs["ProvideCreds"] = ProvideCreds
  BY DEF Structs
<1> QED
  BY <1>1, <1>2, <1>3 DEF Refused

(* The order in which the fields of the credentials are set is nothing.    *)
LEMMA CredsInAnyOrder ==
  ASSUME NEW token
  PROVE  [[Fresh("ProvideCreds") EXCEPT !.cachePassword = TRUE, !.password = token]
            EXCEPT !.username = token] = CredsWith(token)
  BY DEF CredsWith, Fresh

(* A setter of connect_new, when it is not refused. *)
LEMMA SetterWrites ==
  ASSUME AccessInv, RunnerInv, SetReturns("runner"), NEW v \in Call("runner").args
  PROVE  /\ pc["runner"] \in {2, 8, 9, 10}
         /\ UNCHANGED <<vpnConfig, core, var>>
         /\ ~arg'["runner"].in
         /\ \/ pc'["runner"] = 16
            \/ /\ pc'["runner"] = pc["runner"] + 1
               /\ ~Refused(VarType[v], Call("runner").field, Call("runner").value)
               /\ In(v)' = [In(v) EXCEPT ![Call("runner").field] = Call("runner").value]
<1>1. /\ MayCall("runner") /\ arg["runner"].in /\ Call("runner").op = "set"
      /\ UNCHANGED <<vpnConfig, core, var>>
  BY DEF SetReturns, Returns
<1>2. pc["runner"] \in {2, 8, 9, 10}
  BY <1>1, RunnerProgram, RunnerCalls DEF MayCall
<1>3. Points(heap, var[v], v) /\ arg["runner"].address = var[v]
  BY <1>1, <1>2, GivenStruct DEF RunnerInv
<1>4. ~arg'["runner"].in
  <2>1. arg' = [arg EXCEPT !["runner"] = NotCalling]
    BY DEF SetReturns, GoOn
  <2> QED
    BY <2>1 DEF AccessInv, Activities, NotCalling
<1>5. CASE pc' = [pc EXCEPT !["runner"] = Done("runner")]
  BY <1>1, <1>2, <1>4, <1>5, RunnerProgram DEF AccessInv, OwnInv, Activities
<1>6. CASE /\ ~Refused(heap[var[v]].type, Call("runner").field, Call("runner").value)
           /\ heap' = [heap EXCEPT ![var[v]].val[Call("runner").field] = Call("runner").value]
           /\ GoOn("runner")
  <2>1. pc'["runner"] = pc["runner"] + 1
    BY <1>6 DEF GoOn, AccessInv, OwnInv, Activities
  <2>2. heap[var[v]].type = VarType[v] /\ var[v] \in Addresses
    BY <1>3 DEF Points
  <2> DEFINE x == var[v]
             f == Call("runner").field
             w == Call("runner").value
  <2>3. heap' = [heap EXCEPT ![x].val[f] = w] /\ x \in Addresses
    BY <1>6, <2>2
  <2>4. IsCell(heap[x]) /\ heap = [y \in Addresses |-> heap[y]]
    BY <2>2 DEF AccessInv, OwnInv
  <2>5. var'[v] = x
    BY <1>1
  <2> HIDE DEF x, f, w
  <2>6. heap'[x].val = [heap[x].val EXCEPT ![f] = w]
    BY <2>3, <2>4 DEF IsCell
  <2>7. In(v)' = heap'[x].val /\ In(v) = heap[x].val
    BY <2>5 DEF In, x
  <2> QED
    BY <1>1, <1>2, <1>4, <1>6, <2>1, <2>2, <2>6, <2>7 DEF f, w
<1> QED
  BY <1>3, <1>5, <1>6 DEF SetReturns

LEMMA SetRunnerInv ==
  ASSUME AccessInv, RunnerInv, SetReturns("runner")
  PROVE  RunnerInv'
<1>1. pc["runner"] \in {2, 8, 9, 10}
  <2>1. MayCall("runner") /\ Call("runner").op = "set"
    BY DEF SetReturns, Returns
  <2> QED
    BY <2>1, RunnerProgram, RunnerCalls DEF MayCall
<1>2. UNCHANGED <<vpnConfig, core>> /\ ~arg'["runner"].in
  <2>1. \E v : v \in Call("runner").args
    BY <1>1, RunnerProgram DEF Call, Set
  <2> QED
    BY <2>1, SetterWrites
<1>3. UNCHANGED <<WantedConfig, CredsWith(vpnConfig.token), vpnConfig.token, vpnConfig.content>>
  BY <1>2 DEF WantedConfig, CredsWith
<1>4. CASE pc'["runner"] = 16
  BY <1>2, <1>4 DEF RunnerInv, FilledInv, ToldInv
<1>5. ASSUME NEW v, NEW f, NEW w, Call("runner") = Set(v, f, w), pc'["runner"] # 16
      PROVE  /\ pc'["runner"] = pc["runner"] + 1
             /\ ~Refused(VarType[v], f, w)
             /\ In(v)' = [In(v) EXCEPT ![f] = w]
  <2>1. Call("runner").args = {v} /\ Call("runner").field = f /\ Call("runner").value = w
    BY <1>5 DEF Set
  <2> QED
    BY <1>5, <2>1, SetterWrites
<1>6. CASE pc["runner"] = 2 /\ pc'["runner"] # 16
  <2>1. Call("runner") = Set("config", "content", vpnConfig.content)
    BY <1>6, RunnerProgram DEF Call
  <2>2. /\ pc'["runner"] = 3
        /\ ~Refused("Config", "content", vpnConfig.content)
        /\ In("config")' = [In("config") EXCEPT !["content"] = vpnConfig.content]
    BY <1>5, <1>6, <2>1 DEF VarType
  <2>3. In("config")' = WantedConfig /\ vpnConfig.content # Null
    BY <1>6, <2>2, RefusedStrings DEF RunnerInv, FilledInv, WantedConfig
  <2> QED
    BY <1>2, <1>3, <1>6, <2>2, <2>3 DEF RunnerInv, FilledInv, ToldInv
<1>7. CASE pc["runner"] = 8 /\ pc'["runner"] # 16
  <2> DEFINE yes == TRUE
  <2>1. Call("runner") = Set("creds", "cachePassword", yes)
    BY <1>7, RunnerProgram DEF Call
  <2> HIDE DEF yes
  <2>2. /\ pc'["runner"] = 9
        /\ In("creds")' = [In("creds") EXCEPT !["cachePassword"] = yes]
    BY <1>5, <1>7, <2>1
  <2>3. In("creds")' = [Fresh("ProvideCreds") EXCEPT !.cachePassword = TRUE]
    BY <1>7, <2>2 DEF RunnerInv, FilledInv, yes
  <2> QED
    BY <1>2, <1>3, <1>7, <2>2, <2>3 DEF RunnerInv, FilledInv, ToldInv
<1>8. CASE pc["runner"] = 9 /\ pc'["runner"] # 16
  <2>1. Call("runner") = Set("creds", "password", vpnConfig.token)
    BY <1>8, RunnerProgram DEF Call
  <2>2. /\ pc'["runner"] = 10
        /\ ~Refused("ProvideCreds", "password", vpnConfig.token)
        /\ In("creds")' = [In("creds") EXCEPT !["password"] = vpnConfig.token]
    BY <1>5, <1>8, <2>1 DEF VarType
  <2>3. In("creds")' = [Fresh("ProvideCreds") EXCEPT !.cachePassword = TRUE,
                                                     !.password = vpnConfig.token]
        /\ vpnConfig.token # Null
    BY <1>8, <2>2, RefusedStrings DEF RunnerInv, FilledInv
  <2> QED
    BY <1>2, <1>3, <1>8, <2>2, <2>3 DEF RunnerInv, FilledInv, ToldInv
<1>9. CASE pc["runner"] = 10 /\ pc'["runner"] # 16
  <2>1. Call("runner") = Set("creds", "username", vpnConfig.token)
    BY <1>9, RunnerProgram DEF Call
  <2>2. /\ pc'["runner"] = 11
        /\ In("creds")' = [In("creds") EXCEPT !["username"] = vpnConfig.token]
    BY <1>5, <1>9, <2>1
  <2>3. In("creds")' = CredsWith(vpnConfig.token)
    BY <1>9, <2>2, CredsInAnyOrder DEF RunnerInv, FilledInv
  <2> QED
    BY <1>2, <1>3, <1>9, <2>2, <2>3 DEF RunnerInv, FilledInv, ToldInv
<1> QED
  BY <1>1, <1>4, <1>6, <1>7, <1>8, <1>9

(* A struct that was just made, in the proxy that the variable now holds. *)
LEMMA MadeStruct ==
  ASSUME AccessInv, NEW v \in DOMAIN VarType, NEW val, Allocate(v, val)
  PROVE  In(v)' = val
<1>1. PICK x \in Addresses :
        /\ heap' = [heap EXCEPT ![x] = Struct(VarType[v], val)]
        /\ var' = [var EXCEPT ![v] = x]
  BY DEF Allocate
<1>2. heap'[x] = Struct(VarType[v], val) /\ var'[v] = x
  BY <1>1 DEF AccessInv, OwnInv
<1> QED
  BY <1>2 DEF In, Struct

(* The functions of connect_new that return a struct, and its getters. *)
LEMMA ResultRunnerInv ==
  ASSUME AccessInv, RunnerInv,
         \/ NewReturns("runner") \/ EvalConfigReturns("runner")
         \/ ProvideCredsReturns("runner") \/ ConnectReturns("runner")
  PROVE  RunnerInv'
<1>1. /\ MayCall("runner") /\ arg["runner"].in /\ GoOn("runner")
      /\ UNCHANGED vpnConfig
  BY DEF NewReturns, EvalConfigReturns, ProvideCredsReturns, ConnectReturns, Returns
<1>2. /\ pc'["runner"] = pc["runner"] + 1 /\ ~arg'["runner"].in
      /\ pc["runner"] \in 1 .. 15
  BY <1>1, RunnerProgram DEF GoOn, AccessInv, OwnInv, Activities, NotCalling, MayCall
<1>3. UNCHANGED <<WantedConfig, CredsWith(vpnConfig.token), vpnConfig.token, vpnConfig.content>>
  BY <1>1 DEF WantedConfig, CredsWith
<1>4. CASE NewReturns("runner")
  <2>1. Allocate(Call("runner").result, Fresh(Call("runner").field)) /\ UNCHANGED core
    BY <1>4 DEF NewReturns
  <2>2. pc["runner"] \in {1, 7}
    BY <1>2, <1>4, RunnerCalls DEF NewReturns, Returns
  <2>3. CASE pc["runner"] = 1
    <3>1. Allocate("config", Fresh("Config"))
      BY <2>1, <2>3, RunnerProgram DEF Call, New
    <3>2. In("config")' = Fresh("Config")
      BY <3>1, MadeStruct, Types
    <3> QED
      BY <1>2, <2>1, <2>3, <3>2 DEF RunnerInv, FilledInv, ToldInv
  <2>4. CASE pc["runner"] = 7
    <3>1. Allocate("creds", Fresh("ProvideCreds"))
      BY <2>1, <2>4, RunnerProgram DEF Call, New
    <3>2. In("creds")' = Fresh("ProvideCreds")
      BY <3>1, MadeStruct, Types
    <3> QED
      BY <1>2, <1>3, <2>1, <2>4, <3>2 DEF RunnerInv, FilledInv, ToldInv
  <2> QED
    BY <2>2, <2>3, <2>4
<1>5. CASE EvalConfigReturns("runner")
  <2>1. pc["runner"] = 3 /\ Call("runner") = Core("eval_config", {"config"}, "ec")
    BY <1>2, <1>5, RunnerCalls, RunnerProgram DEF EvalConfigReturns, Returns, Call
  <2>2. arg["runner"].address = var["config"]
    BY <1>1, <2>1 DEF RunnerInv, Core
  <2>3. PICK error \in BOOLEAN :
          /\ core' = [core EXCEPT !.config = In("config"), !.valid = ~error]
          /\ Allocate("ec", [Fresh("EvalConfig") EXCEPT !.error = error])
    <3>1. Call("runner").result = "ec"
      BY <2>1 DEF Core
    <3> QED
      BY <1>5, <2>2, <3>1 DEF EvalConfigReturns, In
  <2>4. core'.config = WantedConfig /\ (core'.valid <=> ~error) /\ core'.valid \in BOOLEAN
        /\ DOMAIN core' = {"config", "valid", "creds"}
    BY <2>1, <2>3 DEF RunnerInv, FilledInv
  <2>5. In("ec")' = [Fresh("EvalConfig") EXCEPT !.error = error]
    BY <2>3, MadeStruct, Types
  <2>6. In("ec")'.error <=> error
    <3>1. "error" \in DOMAIN Structs["EvalConfig"]
      BY JoinedField DEF Structs, EvalConfig, ProfileFields
    <3> QED
      BY <2>5, <3>1 DEF Fresh
  <2> QED
    BY <1>2, <1>3, <2>1, <2>4, <2>6 DEF RunnerInv, FilledInv, ToldInv
<1>6. CASE ProvideCredsReturns("runner")
  <2>1. pc["runner"] = 11 /\ Call("runner") = Core("provide_creds", {"creds"}, "provided")
    BY <1>2, <1>6, RunnerCalls, RunnerProgram DEF ProvideCredsReturns, Returns, Call
  <2>2. arg["runner"].address = var["creds"]
    BY <1>1, <2>1 DEF RunnerInv, Core
  <2>3. core' = [core EXCEPT !.creds = In("creds")]
    BY <1>6, <2>1, <2>2 DEF ProvideCredsReturns, Core, In
  <2>4. /\ core'.creds = CredsWith(vpnConfig.token)
        /\ core'.config = core.config /\ core'.valid = core.valid
        /\ DOMAIN core' = {"config", "valid", "creds"}
    BY <2>1, <2>3 DEF RunnerInv, FilledInv
  <2> QED
    BY <1>2, <1>3, <2>1, <2>4 DEF RunnerInv, FilledInv, ToldInv
<1>7. CASE ConnectReturns("runner")
  <2>1. pc["runner"] = 12 /\ UNCHANGED core
    BY <1>2, <1>7, RunnerCalls DEF ConnectReturns, Returns
  <2> QED
    BY <1>2, <1>3, <2>1 DEF RunnerInv, FilledInv, ToldInv
<1> QED
  BY <1>4, <1>5, <1>6, <1>7

(* connect_new goes past the error of the evaluation when there is none. *)
LEMMA GetRunnerInv ==
  ASSUME AccessInv, RunnerInv, GetReturns("runner")
  PROVE  RunnerInv'
<1> DEFINE value == heap[arg["runner"].address].val[Call("runner").field]
<1>1. /\ MayCall("runner") /\ arg["runner"].in /\ Call("runner").op = "get"
      /\ UNCHANGED <<vpnConfig, core, heap, var>>
      /\ pc' = [pc EXCEPT !["runner"] = AfterGet("runner", value)]
      /\ arg' = [arg EXCEPT !["runner"] = NotCalling]
  BY DEF GetReturns, Returns
<1>2. pc["runner"] \in {4, 5, 6, 13, 14, 15}
  BY <1>1, RunnerProgram, RunnerCalls DEF MayCall
<1> HIDE DEF value
<1>3. pc'["runner"] = AfterGet("runner", value) /\ ~arg'["runner"].in
  BY <1>1 DEF AccessInv, OwnInv, Activities, NotCalling
<1>4. UNCHANGED <<WantedConfig, CredsWith(vpnConfig.token), vpnConfig.token,
                  vpnConfig.content, In("ec")>>
  BY <1>1 DEF WantedConfig, CredsWith, In
<1>5. CASE pc["runner"] = 4
  <2>1. pc'["runner"] = 5
    BY <1>3, <1>5, RunnerProgram DEF AfterGet, Call, Get
  <2> QED
    BY <1>1, <1>3, <1>4, <1>5, <2>1 DEF RunnerInv, FilledInv, ToldInv
<1>6. CASE pc["runner"] = 5
  <2>1. Call("runner") = Get("ec", "error")
    BY <1>6, RunnerProgram DEF Call
  <2>2. value = In("ec").error
    BY <1>1, <2>1 DEF RunnerInv, Get, In, value
  <2>3. value <=> ~core.valid
    BY <1>6, <2>2 DEF RunnerInv, FilledInv
  <2>4. pc'["runner"] = IF value THEN 6 ELSE 7
    BY <1>3, <1>6, <2>1 DEF AfterGet, Get
  <2>5. CASE pc'["runner"] = 6
    BY <1>1, <1>3, <1>4, <1>6, <2>5 DEF RunnerInv, FilledInv, ToldInv
  <2>6. CASE pc'["runner"] = 7 /\ ~value
    BY <1>1, <1>3, <1>4, <1>6, <2>3, <2>6 DEF RunnerInv, FilledInv, ToldInv
  <2>7. CASE value
    BY <2>4, <2>5, <2>7, Zenon
  <2>8. CASE ~value
    BY <2>4, <2>6, <2>8, Zenon
  <2> QED
    BY <2>7, <2>8
<1>7. CASE pc["runner"] = 6
  <2>1. pc'["runner"] = 16
    BY <1>3, <1>7, RunnerProgram DEF AfterGet, Call, Get
  <2> QED
    BY <1>1, <1>3, <2>1 DEF RunnerInv, FilledInv, ToldInv
<1>8. CASE pc["runner"] \in {13, 14, 15}
  <2>1. pc'["runner"] = pc["runner"] + 1
    BY <1>3, <1>8, RunnerProgram DEF AfterGet, Call, Get
  <2> QED
    BY <1>1, <1>3, <1>4, <1>8, <2>1 DEF RunnerInv, FilledInv, ToldInv
<1> QED
  BY <1>2, <1>5, <1>6, <1>7, <1>8

LEMMA InitRunnerInv == Init => RunnerInv
<1> SUFFICES ASSUME Init PROVE RunnerInv
  OBVIOUS
<1>1. pc["runner"] = 1 /\ ~arg["runner"].in
  BY DEF Init, Activities, NotCalling
<1> QED
  BY <1>1 DEF Init, RunnerInv, FilledInv, ToldInv

LEMMA NextRunnerInv == AccessInv /\ RunnerInv /\ [Next]_vars => RunnerInv'
  BY OthersRunnerInv, SetRunnerInv, GetRunnerInv, ResultRunnerInv DEF RunnerReturns

(* Configured: whatever the collector, the poller and the callbacks do     *)
(* between the calls of connect_new, the core only runs a session with     *)
(* this profile, without an error, and with this token.                    *)
THEOREM SessionIsConfigured == Spec => []Configured
<1>1. AccessInv /\ RunnerInv => Configured
  <2> SUFFICES ASSUME AccessInv, RunnerInv, Connecting PROVE Configured
    BY DEF Configured
  <2>1. pc["runner"] \in 1 .. 15
    BY RunnerProgram DEF AccessInv, ActivitySafe, Activities, MayCall, Connecting
  <2>2. pc["runner"] = 12
    BY <2>1, RunnerCalls DEF Connecting
  <2> QED
    BY <2>2 DEF RunnerInv, ToldInv, Configured, WantedConfig, CredsWith
<1> QED
  BY <1>1, InitAccessInv, NextAccessInv, InitRunnerInv, NextRunnerInv, PTL DEF Spec

-----------------------------------------------------------------------------
(* Types.  That a counter the poller reads is a number needs the struct it *)
(* is read from, and so what all the structs hold.                         *)

GoodCell(cell) ==
  \/ cell.type = "free"
  \/ /\ cell.type \in DOMAIN Structs
     /\ DOMAIN cell.val = DOMAIN Structs[cell.type]
     /\ cell.type = "TransportStats" =>
          cell.val.bytesIn \in 0 .. MaxBytes /\ cell.val.bytesOut \in 0 .. MaxBytes

HeapInv == \A x \in Addresses : GoodCell(heap[x])

BytesInv == bytes \in [in : 0 .. MaxBytes, out : 0 .. MaxBytes]

GotInv == got \in [{"bytesIn", "bytesOut"} -> 0 .. MaxBytes]

PlacesInv ==
  /\ vpnConfig \in [content : Contents, token : Tokens]
  /\ var \in [DOMAIN VarType -> Addresses \cup {NoAddress}]
  /\ \A a \in Activities : pc[a] \in 0 .. Done(a) + 1
  /\ arg \in [Activities -> [in : BOOLEAN, address : Addresses \cup {NoAddress}]]

(* The fields of the poller: what it has told adds up.                     *)
PollInv ==
  /\ DOMAIN poll =
       {"started", "mStopped", "mLastBytesIn", "mLastBytesOut", "data", "speeds"}
  /\ poll.mLastBytesIn \in Int /\ poll.mLastBytesOut \in Int
  /\ poll.data = poll.mLastBytesIn + poll.mLastBytesOut
  /\ poll.speeds = poll.data

LEMMA StructNames ==
  DOMAIN Structs = {"Config", "EvalConfig", "ProvideCreds", "Event", "Status", "LogInfo",
                    "TransportStats"}
  BY DEF Structs

(* A struct as it is made: all its fields are there. *)
LEMMA FreshIsGood ==
  ASSUME NEW type \in DOMAIN Structs \ {"TransportStats"}, NEW field, NEW value
  PROVE  /\ GoodCell(Struct(type, Fresh(type)))
         /\ GoodCell(Struct(type, [Fresh(type) EXCEPT ![field] = value]))
         /\ GoodCell([Struct(type, Fresh(type)) EXCEPT !.lent = TRUE])
<1>1. DOMAIN Fresh(type) = DOMAIN Structs[type]
      /\ DOMAIN [Fresh(type) EXCEPT ![field] = value] = DOMAIN Structs[type]
  BY DEF Fresh
<1> QED
  BY <1>1 DEF GoodCell, Struct

LEMMA StatsAreGood ==
  ASSUME NEW in \in 0 .. MaxBytes, NEW out \in 0 .. MaxBytes
  PROVE  GoodCell(Struct("TransportStats",
                         [Fresh("TransportStats") EXCEPT !.bytesIn = in, !.bytesOut = out]))
<1> DEFINE val == [Fresh("TransportStats") EXCEPT !.bytesIn = in, !.bytesOut = out]
<1>1. Structs["TransportStats"] = TransportStats
  BY DEF Structs
<1>2. "bytesIn" \in DOMAIN TransportStats /\ "bytesOut" \in DOMAIN TransportStats
  BY DEF TransportStats
<1>3. DOMAIN val = DOMAIN Structs["TransportStats"] /\ val.bytesIn = in /\ val.bytesOut = out
  BY <1>1, <1>2 DEF Fresh
<1> HIDE DEF val
<1>4. GoodCell(Struct("TransportStats", val))
  BY <1>3, StructNames DEF GoodCell, Struct
<1> QED
  BY <1>4 DEF val

(* What a function returns is a struct of the type its variable has. *)
LEMMA ResultIsGood ==
  ASSUME AccessInv, BytesInv, NEW a \in Activities,
         \/ NewReturns(a) \/ EvalConfigReturns(a) \/ ProvideCredsReturns(a)
         \/ ConnectReturns(a) \/ TransportStatsReturns(a)
  PROVE  \E val : /\ Allocate(Call(a).result, val)
                  /\ GoodCell(Struct(VarType[Call(a).result], val))
<1>1. MayCall(a) /\ Call(a).op \notin {"get", "set"}
  BY DEF NewReturns, EvalConfigReturns, ProvideCredsReturns, ConnectReturns,
         TransportStatsReturns, Returns
<1>2. CASE TransportStatsReturns(a)
  <2>1. Call(a).result = "t" /\ VarType["t"] = "TransportStats"
    <3>1. a # "runner"
      BY <1>1, <1>2, RunnerProgram, RunnerCalls DEF MayCall, TransportStatsReturns, Returns
    <3> QED
      BY <1>1, <3>1, OthersOnlyRead DEF VarType
  <2>2. PICK now \in Counters :
          Allocate(Call(a).result,
                   [Fresh("TransportStats") EXCEPT !.bytesIn = now.in, !.bytesOut = now.out])
    BY <1>2 DEF TransportStatsReturns
  <2>3. now.in \in 0 .. MaxBytes /\ now.out \in 0 .. MaxBytes
    BY SessionDataAssumption DEF Counters, BytesInv
  <2> QED
    BY <2>1, <2>2, <2>3, StatsAreGood
<1>3. CASE ~TransportStatsReturns(a)
  <2>1. a = "runner"
    BY <1>1, <1>3, OthersOnlyRead DEF NewReturns, EvalConfigReturns, ProvideCredsReturns,
                                     ConnectReturns, Returns
  <2>2. pc["runner"] \in 1 .. 15
    BY <1>1, <2>1, RunnerProgram DEF MayCall
  <2>3. CASE NewReturns(a)
    <3>1. pc["runner"] \in {1, 7}
      BY <2>1, <2>2, <2>3, RunnerCalls DEF NewReturns, Returns
    <3>2. /\ VarType[Call(a).result] = Call(a).field
          /\ Call(a).field \in DOMAIN Structs \ {"TransportStats"}
      BY <2>1, <3>1, RunnerProgram, StructNames DEF Call, New, VarType
    <3>3. Allocate(Call(a).result, Fresh(Call(a).field))
      BY <2>3 DEF NewReturns
    <3> QED
      BY <3>2, <3>3, FreshIsGood
  <2>4. CASE EvalConfigReturns(a)
    <3>1. pc["runner"] = 3
      BY <2>1, <2>2, <2>4, RunnerCalls DEF EvalConfigReturns, Returns
    <3>2. VarType[Call(a).result] = "EvalConfig"
      BY <2>1, <3>1, RunnerProgram DEF Call, Core, VarType
    <3>3. \E error : Allocate(Call(a).result, [Fresh("EvalConfig") EXCEPT !.error = error])
      BY <2>4 DEF EvalConfigReturns
    <3> QED
      BY <3>2, <3>3, FreshIsGood, StructNames
  <2>5. CASE ProvideCredsReturns(a) \/ ConnectReturns(a)
    <3>1. pc["runner"] \in {11, 12}
      BY <2>1, <2>2, <2>5, RunnerCalls DEF ProvideCredsReturns, ConnectReturns, Returns
    <3>2. VarType[Call(a).result] = "Status"
      BY <2>1, <3>1, RunnerProgram DEF Call, Core, VarType
    <3>3. Allocate(Call(a).result, Fresh("Status"))
      BY <2>5 DEF ProvideCredsReturns, ConnectReturns
    <3> QED
      BY <3>2, <3>3, FreshIsGood, StructNames
  <2> QED
    BY <1>3, <2>3, <2>4, <2>5
<1> QED
  BY <1>2, <1>3

LEMMA NextHeapInv == AccessInv /\ RunnerInv /\ BytesInv /\ HeapInv /\ [Next]_vars => HeapInv'
<1> SUFFICES ASSUME AccessInv, RunnerInv, BytesInv, HeapInv, [Next]_vars PROVE HeapInv'
  OBVIOUS
<1>1. heap = [x \in Addresses |-> heap[x]]
  BY DEF AccessInv, OwnInv
<1>2. ASSUME NEW y, NEW cell, GoodCell(cell), heap' = [heap EXCEPT ![y] = cell]
      PROVE  HeapInv'
  <2>1. \A x \in Addresses : heap'[x] = heap[x] \/ heap'[x] = cell
    BY <1>1, <1>2
  <2> QED
    BY <1>2, <2>1 DEF HeapInv
<1>3. GoodCell(FreeCell)
  BY DEF GoodCell, FreeCell
<1>4. CASE heap' = heap
  BY <1>4 DEF HeapInv
<1>5. ASSUME NEW a \in Activities,
             \/ NewReturns(a) \/ EvalConfigReturns(a) \/ ProvideCredsReturns(a)
             \/ ConnectReturns(a) \/ TransportStatsReturns(a)
      PROVE  HeapInv'
  <2>1. PICK val : /\ Allocate(Call(a).result, val)
                   /\ GoodCell(Struct(VarType[Call(a).result], val))
    BY <1>5, ResultIsGood
  <2> QED
    BY <1>2, <2>1 DEF Allocate
<1>6. ASSUME NEW a \in Activities, SetReturns(a)
      PROVE  HeapInv'
  <2>1. MayCall(a) /\ Call(a).op = "set" /\ arg[a].in
    BY <1>6 DEF SetReturns, Returns
  <2>2. a = "runner"
    BY <2>1, OthersOnlyRead
  <2>3. pc["runner"] \in {2, 8, 9, 10}
    BY <2>1, <2>2, RunnerProgram, RunnerCalls DEF MayCall
  <2>4. PICK v \in {"config", "creds"} : v \in Call("runner").args
    BY <2>3, RunnerProgram DEF Call, Set
  <2> DEFINE x == var[v]
  <2>5. Points(heap, x, v) /\ arg[a].address = x
    BY <2>1, <2>2, <2>3, <2>4, GivenStruct DEF RunnerInv
  <2>6. heap[x].type \in {"Config", "ProvideCreds"} /\ x \in Addresses
    BY <2>4, <2>5 DEF Points, VarType
  <2>7. IsCell(heap[x]) /\ GoodCell(heap[x])
    BY <2>6 DEF AccessInv, OwnInv, HeapInv
  <2>8. heap' = heap \/ \E f, w : heap' = [heap EXCEPT ![x].val[f] = w]
    BY <1>6, <2>5 DEF SetReturns
  <2> HIDE DEF x
  <2>9. ASSUME NEW f, NEW w, heap' = [heap EXCEPT ![x].val[f] = w]
        PROVE  HeapInv'
    <3> DEFINE cell == [heap[x] EXCEPT !.val[f] = w]
    <3>1. cell.type = heap[x].type /\ DOMAIN cell.val = DOMAIN heap[x].val
      BY <2>7 DEF IsCell
    <3>2. heap' = [heap EXCEPT ![x] = cell]
      BY <2>9
    <3> HIDE DEF cell
    <3>3. GoodCell(cell)
      BY <2>6, <2>7, <3>1, StructNames DEF GoodCell
    <3> QED
      BY <1>2, <3>2, <3>3
  <2> QED
    BY <1>4, <2>8, <2>9
<1>7. ASSUME NEW u \in Upcalls, StartUpcall(u)
      PROVE  HeapInv'
  <2> DEFINE type == VarType[Lent[u]]
             cell == [Struct(type, Fresh(type)) EXCEPT !.lent = TRUE]
  <2>1. type \in DOMAIN Structs \ {"TransportStats"}
    BY StructNames DEF Upcalls, Lent, VarType
  <2>2. \E y : heap' = [heap EXCEPT ![y] = cell]
    BY <1>7 DEF StartUpcall
  <2> HIDE DEF type
  <2>3. GoodCell(cell)
    BY <2>1, FreshIsGood
  <2> HIDE DEF cell
  <2> QED
    BY <1>2, <2>2, <2>3
<1>8. ASSUME NEW u \in Upcalls, EndUpcall(u)
      PROVE  HeapInv'
  BY <1>2, <1>3, <1>8 DEF EndUpcall
<1>9. ASSUME NEW x \in Addresses, Finalize(x)
      PROVE  HeapInv'
  BY <1>2, <1>3, <1>9 DEF Finalize
<1>10. ASSUME \/ \E a \in Activities : Enter(a) \/ GetReturns(a)
              \/ Traffic \/ TestStopped \/ Report \/ UNCHANGED vars
       PROVE  HeapInv'
  BY <1>4, <1>10 DEF Enter, GetReturns, Traffic, TestStopped, Report, vars
<1> QED
  BY <1>5, <1>6, <1>7, <1>8, <1>9, <1>10 DEF Next, Step

LEMMA NextBytesInv == BytesInv /\ [Next]_vars => BytesInv'
<1> SUFFICES ASSUME BytesInv, [Next]_vars PROVE BytesInv'
  OBVIOUS
<1> USE SessionDataAssumption DEF BytesInv
<1>1. CASE Traffic
  BY <1>1 DEF Traffic
<1>2. CASE UNCHANGED bytes
  BY <1>2
<1> QED
  BY <1>1, <1>2 DEF Next, Step, Enter, NewReturns, SetReturns, GetReturns,
     EvalConfigReturns, ProvideCredsReturns, ConnectReturns, TransportStatsReturns,
     StartUpcall, EndUpcall, Finalize, TestStopped, Report, vars

(* The counters are read from the struct of the poller, which is alive.    *)
LEMMA NextGotInv == AccessInv /\ HeapInv /\ GotInv /\ [Next]_vars => GotInv'
<1> SUFFICES ASSUME AccessInv, HeapInv, GotInv, [Next]_vars PROVE GotInv'
  OBVIOUS
<1>1. ASSUME NEW a \in Activities, GetReturns(a)
      PROVE  GotInv'
  <2> DEFINE field == Call(a).field
             value == heap[arg[a].address].val[field]
  <2>1. /\ MayCall(a) /\ arg[a].in /\ Call(a).op = "get"
        /\ got' = IF field \in {"bytesIn", "bytesOut"}
                  THEN [got EXCEPT ![field] = value] ELSE got
    BY <1>1 DEF GetReturns, Returns
  <2>2. CASE field \notin {"bytesIn", "bytesOut"}
    BY <2>1, <2>2 DEF GotInv
  <2>3. CASE field \in {"bytesIn", "bytesOut"}
    <3>1. "t" \in Call(a).args
      <4>1. CASE a = "runner"
        <5>1. pc["runner"] \in {4, 5, 6, 13, 14, 15}
          BY <2>1, <4>1, RunnerProgram, RunnerCalls DEF MayCall
        <5> QED
          BY <2>3, <4>1, <5>1, RunnerProgram DEF Call, Get
      <4>2. CASE a = "poller"
        BY <2>1, <4>2 DEF MayCall, Call, Program, Poll, Get, Core
      <4>3. CASE a = "event"
        BY <2>1, <2>3, <4>3 DEF MayCall, Call, Program, HandleEvent, Get
      <4>4. CASE a = "log"
        BY <2>1, <2>3, <4>4 DEF MayCall, Call, Program, HandleLog, Get
      <4> QED
        BY <4>1, <4>2, <4>3, <4>4 DEF Activities
    <3>2. Points(heap, arg[a].address, "t")
      BY <2>1, <3>1 DEF AccessInv, ActivitySafe
    <3>3. heap[arg[a].address].type = "TransportStats" /\ arg[a].address \in Addresses
      BY <3>2 DEF Points, VarType
    <3>4. value \in 0 .. MaxBytes
      BY <2>3, <3>3 DEF HeapInv, GoodCell
    <3> HIDE DEF value, field
    <3> QED
      BY <2>1, <2>3, <3>4 DEF GotInv
  <2> QED
    BY <2>2, <2>3
<1>2. CASE UNCHANGED got
  BY <1>2 DEF GotInv
<1> QED
  BY <1>1, <1>2 DEF Next, Step, Enter, NewReturns, SetReturns, EvalConfigReturns,
     ProvideCredsReturns, ConnectReturns, TransportStatsReturns, StartUpcall, EndUpcall,
     Finalize, Traffic, TestStopped, Report, vars

(* A report adds to the speeds what it adds to the data, whichever way the *)
(* counters have gone.                                                     *)
LEMMA NextPollInv == GotInv /\ PollInv /\ [Next]_vars => PollInv'
<1> SUFFICES ASSUME GotInv, PollInv, [Next]_vars PROVE PollInv'
  OBVIOUS
<1>1. CASE Report
  <2> DEFINE speed == (got.bytesIn - poll.mLastBytesIn) + (got.bytesOut - poll.mLastBytesOut)
  <2>1. poll' = [poll EXCEPT !.mLastBytesIn = got.bytesIn, !.mLastBytesOut = got.bytesOut,
                             !.data = got.bytesIn + got.bytesOut, !.speeds = @ + speed]
    BY <1>1 DEF Report, Remembered, PollInv
  <2>2. /\ poll'.mLastBytesIn = got.bytesIn /\ poll'.mLastBytesOut = got.bytesOut
        /\ poll'.data = got.bytesIn + got.bytesOut
        /\ poll'.speeds = poll.speeds + speed
        /\ DOMAIN poll' = DOMAIN poll
    BY <2>1 DEF PollInv
  <2>3. got.bytesIn \in Int /\ got.bytesOut \in Int
    BY SessionDataAssumption DEF GotInv
  <2> QED
    BY <2>2, <2>3 DEF PollInv
<1>2. ASSUME \/ poll' = [poll EXCEPT !.started = TRUE]
             \/ poll' = [poll EXCEPT !.mStopped = TRUE]
             \/ poll' = poll
      PROVE  PollInv'
  BY <1>2 DEF PollInv
<1>3. ASSUME NEW a \in Activities, Enter(a) \/ GetReturns(a)
      PROVE  PollInv'
  <2>1. \/ poll' = [poll EXCEPT !.started = TRUE]
        \/ poll' = [poll EXCEPT !.mStopped = TRUE]
        \/ poll' = poll
    BY <1>3 DEF Enter, GetReturns
  <2> QED
    BY <1>2, <2>1
<1> QED
  BY <1>1, <1>2, <1>3 DEF Next, Step, NewReturns, SetReturns, EvalConfigReturns,
     ProvideCredsReturns, ConnectReturns, TransportStatsReturns, StartUpcall, EndUpcall,
     Finalize, Traffic, TestStopped, vars

LEMMA NextPlacesInv == AccessInv /\ PlacesInv /\ [Next]_vars => PlacesInv'
<1> SUFFICES ASSUME AccessInv, PlacesInv, [Next]_vars PROVE PlacesInv'
  OBVIOUS
<1>1. vpnConfig' = vpnConfig
  BY DEF Next, Step, Enter, NewReturns, SetReturns, GetReturns, EvalConfigReturns,
     ProvideCredsReturns, ConnectReturns, TransportStatsReturns, StartUpcall, EndUpcall,
     Finalize, Traffic, TestStopped, Report, vars
<1>2. \A a \in Activities : Done(a)' = Done(a) /\ Done(a) \in Nat \ {0}
  BY <1>1, SameProgram, Lengths DEF Done
<1>3. pc = [a \in Activities |-> pc[a]]
  BY DEF AccessInv, OwnInv
<1>4. ASSUME UNCHANGED <<var, arg>>, NEW a \in Activities, NEW n \in 0 .. Done(a) + 1,
             pc' = [pc EXCEPT ![a] = n] \/ pc' = pc
      PROVE  PlacesInv'
  <2>1. \A b \in Activities : pc'[b] \in 0 .. Done(b) + 1
    BY <1>3, <1>4 DEF PlacesInv
  <2> QED
    BY <1>1, <1>2, <1>4, <2>1 DEF PlacesInv
<1>5. ASSUME NEW a \in Activities, NEW n \in 0 .. Done(a) + 1,
             pc' = [pc EXCEPT ![a] = n], arg' = [arg EXCEPT ![a] = NotCalling],
             var' = var \/ \E v \in DOMAIN VarType, x \in Addresses : var' = [var EXCEPT ![v] = x]
      PROVE  PlacesInv'
  <2>1. \A b \in Activities : pc'[b] \in 0 .. Done(b) + 1
    BY <1>3, <1>5 DEF PlacesInv
  <2>2. arg' \in [Activities -> [in : BOOLEAN, address : Addresses \cup {NoAddress}]]
    BY <1>5 DEF PlacesInv, NotCalling
  <2>3. var' \in [DOMAIN VarType -> Addresses \cup {NoAddress}]
    BY <1>5 DEF PlacesInv
  <2> QED
    BY <1>1, <1>2, <2>1, <2>2, <2>3 DEF PlacesInv
<1>6. ASSUME NEW a \in Activities, MayCall(a)
      PROVE  pc[a] + 1 \in 0 .. Done(a) + 1 /\ Done(a) \in 0 .. Done(a) + 1
  BY <1>2, <1>6, Place
<1>7. ASSUME NEW a \in Activities, Enter(a)
      PROVE  PlacesInv'
  <2>1. MayCall(a) /\ UNCHANGED <<var, pc>>
    BY <1>7 DEF Enter
  <2> DEFINE address == IF Call(a).args = {} THEN NoAddress
                        ELSE var[CHOOSE v \in Call(a).args : TRUE]
  <2>2. address \in Addresses \cup {NoAddress}
    <3>1. CASE Call(a).args # {}
      <4>1. PICK v \in DOMAIN VarType : Call(a).args = {v}
        BY <2>1, <3>1, ProgramShape DEF MayCall, Call
      <4>2. address = var[v]
        BY <4>1
      <4> QED
        BY <4>1, <4>2 DEF PlacesInv
    <3> QED
      BY <3>1
  <2>3. arg' = [arg EXCEPT ![a] = [in |-> TRUE, address |-> address]]
    BY <1>7 DEF Enter
  <2> HIDE DEF address
  <2>4. arg' \in [Activities -> [in : BOOLEAN, address : Addresses \cup {NoAddress}]]
    BY <2>2, <2>3 DEF PlacesInv
  <2> QED
    BY <1>1, <1>2, <2>1, <2>4 DEF PlacesInv
<1>8. ASSUME NEW a \in Activities,
             \/ NewReturns(a) \/ EvalConfigReturns(a) \/ ProvideCredsReturns(a)
             \/ ConnectReturns(a) \/ TransportStatsReturns(a)
      PROVE  PlacesInv'
  <2>1. MayCall(a) /\ Call(a).op \notin {"set", "get"} /\ GoOn(a)
    BY <1>8 DEF NewReturns, EvalConfigReturns, ProvideCredsReturns, ConnectReturns,
                TransportStatsReturns, Returns
  <2>2. PICK x \in Addresses : var' = [var EXCEPT ![Call(a).result] = x]
    BY <1>8 DEF NewReturns, EvalConfigReturns, ProvideCredsReturns, ConnectReturns,
                TransportStatsReturns, Allocate
  <2>3. Call(a).result \in DOMAIN VarType \/ var' = var
    BY <2>2 DEF PlacesInv
  <2> QED
    BY <1>5, <1>6, <2>1, <2>2, <2>3 DEF GoOn
<1>9. ASSUME NEW a \in Activities, SetReturns(a)
      PROVE  PlacesInv'
  <2>1. MayCall(a) /\ UNCHANGED var /\ arg' = [arg EXCEPT ![a] = NotCalling]
    BY <1>9 DEF SetReturns, Returns, GoOn
  <2>2. pc' = [pc EXCEPT ![a] = Done(a)] \/ pc' = [pc EXCEPT ![a] = pc[a] + 1]
    BY <1>9 DEF SetReturns, GoOn
  <2> QED
    BY <1>5, <1>6, <2>1, <2>2
<1>10. ASSUME NEW a \in Activities, GetReturns(a)
       PROVE  PlacesInv'
  <2> DEFINE value == heap[arg[a].address].val[Call(a).field]
  <2>1. /\ MayCall(a) /\ UNCHANGED var /\ arg' = [arg EXCEPT ![a] = NotCalling]
        /\ pc' = [pc EXCEPT ![a] = AfterGet(a, value)]
    BY <1>10 DEF GetReturns, Returns
  <2> HIDE DEF value
  <2>2. \/ AfterGet(a, value) = Done(a)
        \/ AfterGet(a, value) = pc[a] + 1
        \/ AfterGet(a, value) = pc[a] + 2 /\ a = "runner"
             /\ Call(a).args = {"ec"} /\ Call(a).field = "error"
    BY DEF AfterGet
  <2>3. CASE AfterGet(a, value) = pc[a] + 2 /\ a = "runner"
             /\ Call(a).args = {"ec"} /\ Call(a).field = "error"
    <3>1. pc["runner"] = 5
      BY <2>1, <2>3, ErrorIsFifth DEF MayCall
    <3>2. AfterGet(a, value) \in 0 .. Done(a) + 1
      BY <2>3, <3>1, RunnerProgram
    <3> QED
      BY <1>5, <2>1, <3>2
  <2> QED
    BY <1>5, <1>6, <2>1, <2>2, <2>3
<1>11. ASSUME NEW u \in Upcalls, StartUpcall(u) \/ EndUpcall(u)
       PROVE  PlacesInv'
  <2>1. u \in Activities /\ Lent[u] \in DOMAIN VarType
    BY Types DEF Upcalls
  <2>2. UNCHANGED arg /\ (pc' = [pc EXCEPT ![u] = 1] \/ pc' = [pc EXCEPT ![u] = Idle])
    BY <1>11 DEF StartUpcall, EndUpcall
  <2>3. \E x \in Addresses \cup {NoAddress} : var' = [var EXCEPT ![Lent[u]] = x]
    BY <1>11 DEF StartUpcall, EndUpcall
  <2>4. var' \in [DOMAIN VarType -> Addresses \cup {NoAddress}]
    BY <2>1, <2>3 DEF PlacesInv
  <2>5. \A b \in Activities : pc'[b] \in 0 .. Done(b) + 1
    BY <1>2, <1>3, <2>1, <2>2 DEF PlacesInv, Idle
  <2> QED
    BY <1>1, <1>2, <2>2, <2>4, <2>5 DEF PlacesInv
<1>12. CASE TestStopped \/ Report
  <2>1. "poller" \in Activities
    BY DEF Activities
  <2>2. /\ UNCHANGED <<var, arg>>
        /\ \E n \in {Idle, 1, Done("poller") + 1} : pc' = [pc EXCEPT !["poller"] = n]
    BY <1>12 DEF TestStopped, Report
  <2>3. {Idle, 1, Done("poller") + 1} \subseteq 0 .. Done("poller") + 1
    BY <1>2, <2>1 DEF Idle
  <2> QED
    BY <1>4, <2>1, <2>2, <2>3
<1>13. ASSUME Traffic \/ UNCHANGED vars \/ \E x \in Addresses : Finalize(x)
       PROVE  PlacesInv'
  <2>1. UNCHANGED <<var, arg, pc>>
    BY <1>13 DEF Traffic, vars, Finalize
  <2> QED
    BY <1>1, <1>2, <2>1 DEF PlacesInv
<1> QED
  BY <1>7, <1>8, <1>9, <1>10, <1>11, <1>12, <1>13 DEF Next, Step

LEMMA InitData == Init => HeapInv /\ BytesInv /\ GotInv /\ PlacesInv /\ PollInv
<1> SUFFICES ASSUME Init PROVE HeapInv /\ BytesInv /\ GotInv /\ PlacesInv /\ PollInv
  OBVIOUS
<1>1. HeapInv
  BY DEF Init, HeapInv, GoodCell, FreeCell
<1>2. BytesInv /\ GotInv /\ PollInv
  BY SessionDataAssumption DEF Init, BytesInv, GotInv, PollInv
<1>3. \A a \in Activities : Done(a) \in Nat \ {0}
  BY Lengths DEF Done
<1>4. PlacesInv
  BY <1>3 DEF Init, PlacesInv, NotCalling, Idle
<1> QED
  BY <1>1, <1>2, <1>4

(* Types, the fields of every struct included: what the getters return and *)
(* the counters are as large as what the core has counted.                 *)
THEOREM SessionDataTypes == Spec => []SessionDataTypeOK
<1>1. AccessInv /\ HeapInv /\ BytesInv /\ GotInv /\ PlacesInv => SessionDataTypeOK
  BY DEF AccessInv, OwnInv, OneOwner, IsFree, HeapInv, GoodCell, BytesInv, GotInv, PlacesInv,
         SessionDataTypeOK
<1> QED
  BY <1>1, InitData, InitAccessInv, NextAccessInv, InitRunnerInv, NextRunnerInv,
     NextHeapInv, NextBytesInv, NextGotInv, NextPlacesInv, PTL DEF Spec

(* SpeedsAddUp: however often the counters of the core start again, and    *)
(* although the poller may run on after stop(), the speeds a client is     *)
(* told add up to the data (ManagementHandler 288-306).                    *)
THEOREM SpeedsAreData == Spec => []SpeedsAddUp
<1>1. PollInv => SpeedsAddUp
  BY DEF PollInv, SpeedsAddUp
<1> QED
  BY <1>1, InitData, InitAccessInv, NextAccessInv, InitRunnerInv, NextRunnerInv,
     NextHeapInv, NextBytesInv, NextGotInv, NextPollInv, PTL DEF Spec

=============================================================================
