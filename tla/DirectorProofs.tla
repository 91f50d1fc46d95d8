--------------------------- MODULE DirectorProofs ---------------------------
(***************************************************************************)
(* Proofs about calls between Java and the core, for any threads, methods  *)
(* and depth of their calls.  First the life of a client and its proxy,    *)
(* ClientProxy, for any calls and changes of ownership: ProxyInv is        *)
(* inductive, and what has to hold of the two follows from it.  It holds   *)
(* under Director as well, where the calls are those of the stacks; no     *)
(* call attaches a thread of Java or leaves one of the core attached; an   *)
(* upcall reaches the Java method of its name; the session keeps no local  *)
(* reference; and a null argument goes no further than the JNI function    *)
(* that rejects it.                                                        *)
(***************************************************************************)
EXTENDS DirectorProperties, TLAPS

-----------------------------------------------------------------------------
(* A client and its proxy.                                                 *)

(* A step of the proofs below is one conjunct of ProxyInv.                 *)
(* Before the constructor there is nothing.                                *)
LEMMA InitProxyInv == ProxyInit => ProxyInv
<1> SUFFICES ASSUME ProxyInit PROVE ProxyInv
  OBVIOUS
<1>1. /\ ~held /\ ~swigCPtr /\ ~baseCPtr /\ ~swigCMemOwn
      /\ held \in BOOLEAN /\ swigCPtr \in BOOLEAN /\ baseCPtr \in BOOLEAN
      /\ swigCMemOwn \in BOOLEAN
  BY Zenon DEF ProxyInit
<1>2. ProxyTypeOK
  BY <1>1 DEF ProxyInit, ProxyTypeOK
<1>3. DeleteSteps /\ Construction /\ Deletion
  BY <1>1, FinalizerAssumption
     DEF ProxyInit, DeleteSteps, Construction, Deletion, Settled, Constructed,
         Destroying, Deleters
<1>4. Ownership /\ Collection /\ Undisturbed
  BY <1>1 DEF ProxyInit, Ownership, Collection, Undisturbed, Constructed, Deleters
<1> QED
  BY <1>2, <1>3, <1>4 DEF ProxyInv

(* The constructor makes the native object, with nobody to know it.        *)
LEMMA ConstructInv ==
  ASSUME ProxyInv, NEW t \in Threads, Construct(t)
  PROVE  ProxyInv'
<1>2. ProxyTypeOK'
  BY DEF ProxyInv, ProxyTypeOK, Construct, Deleters
<1>3. DeleteSteps'
  BY DEF ProxyInv, ProxyTypeOK, DeleteSteps, Construct, Deleters
<1>4. Construction'
  BY DEF ProxyInv, ProxyTypeOK, Construction, Construct, Deleters,
         Constructed, Settled
<1>5. Deletion'
  BY DEF ProxyInv, ProxyTypeOK, Deletion, Construction, Construct, Deleters,
         Destroying, Constructed, Settled
<1>6. Ownership'
  BY DEF ProxyInv, ProxyTypeOK, Ownership, Construction, Construct, Deleters,
         Constructed, Destroying, Settled
<1>7. Collection'
  BY DEF ProxyInv, ProxyTypeOK, Collection, DeleteSteps, Construct, Deleters
<1>8. Undisturbed'
  BY DEF ProxyInv, ProxyTypeOK, Undisturbed, Construct, Deleters
<1> QED
  BY <1>2, <1>3, <1>4, <1>5, <1>6, <1>7, <1>8 DEF ProxyInv

(* director_connect gives the program the proxy.                           *)
LEMMA ConnectInv ==
  ASSUME ProxyInv, NEW t \in Threads, Connect(t)
  PROVE  ProxyInv'
<1>2. ProxyTypeOK'
  BY DEF ProxyInv, ProxyTypeOK, Connect, Deleters, Reference
<1>3. DeleteSteps'
  BY DEF ProxyInv, ProxyTypeOK, DeleteSteps, Connect, Deleters, Reference
<1>4. Construction'
  BY DEF ProxyInv, ProxyTypeOK, Construction, Connect, Deleters, Constructed,
         Settled, Reference
<1>5. Deletion'
  BY DEF ProxyInv, ProxyTypeOK, Deletion, Connect, Deleters, Destroying,
         Reference
<1>6. Ownership'
  BY DEF ProxyInv, ProxyTypeOK, Ownership, Construction, Connect, Deleters,
         Constructed, Destroying, Settled, Reference
<1>7. Collection'
  BY DEF ProxyInv, ProxyTypeOK, Collection, Connect, Deleters, Reference
<1>8. Undisturbed'
  BY DEF ProxyInv, ProxyTypeOK, Undisturbed, Connect, Deleters, Reference
<1> QED
  BY <1>2, <1>3, <1>4, <1>5, <1>6, <1>7, <1>8 DEF ProxyInv

(* A native method is called.                                              *)
LEMMA EnterInv ==
  ASSUME ProxyInv, NEW t \in Threads, Enter(t)
  PROVE  ProxyInv'
<1>2. ProxyTypeOK'
  BY DEF ProxyInv, ProxyTypeOK, Enter, Deleters, Constructed
<1>3. DeleteSteps'
  BY DEF ProxyInv, ProxyTypeOK, DeleteSteps, Enter, Deleters, Constructed
<1>4. Construction'
  BY DEF ProxyInv, ProxyTypeOK, Construction, Enter, Deleters, Constructed,
         Settled
<1>5. Deletion'
  BY DEF ProxyInv, ProxyTypeOK, Deletion, Enter, Deleters, Destroying,
         Constructed
<1>6. Ownership'
  BY DEF ProxyInv, ProxyTypeOK, Ownership, Enter, Deleters, Constructed,
         Destroying
<1>7. Collection'
  BY DEF ProxyInv, ProxyTypeOK, Collection, Enter, Deleters, Constructed
<1>8. Undisturbed'
  BY DEF ProxyInv, ProxyTypeOK, Undisturbed, Enter, Deleters, Constructed
<1> QED
  BY <1>2, <1>3, <1>4, <1>5, <1>6, <1>7, <1>8 DEF ProxyInv

(* A native method returns.                                                *)
LEMMA LeaveInv ==
  ASSUME ProxyInv, NEW t \in Threads, Leave(t)
  PROVE  ProxyInv'
<1>2. ProxyTypeOK'
  BY DEF ProxyInv, ProxyTypeOK, Leave, Deleters, Constructed
<1>3. DeleteSteps'
  BY DEF ProxyInv, ProxyTypeOK, DeleteSteps, Leave, Deleters, Constructed
<1>4. Construction'
  BY DEF ProxyInv, ProxyTypeOK, Construction, Leave, Deleters, Constructed,
         Settled
<1>5. Deletion'
  BY DEF ProxyInv, ProxyTypeOK, Deletion, Leave, Deleters, Destroying,
         Constructed
<1>6. Ownership'
  BY DEF ProxyInv, ProxyTypeOK, Ownership, Leave, Deleters, Constructed,
         Destroying
<1>7. Collection'
  BY DEF ProxyInv, ProxyTypeOK, Collection, Leave, Deleters, Constructed
<1>8. Undisturbed'
  BY DEF ProxyInv, ProxyTypeOK, Undisturbed, Leave, Deleters, Constructed
<1> QED
  BY <1>2, <1>3, <1>4, <1>5, <1>6, <1>7, <1>8 DEF ProxyInv

(* The program forgets the proxy.                                          *)
LEMMA DropInv ==
  ASSUME ProxyInv, Drop
  PROVE  ProxyInv'
<1>1. ~held' /\ held' \in BOOLEAN
  BY Zenon DEF Drop
<1>2. ProxyTypeOK'
  BY <1>1
     DEF ProxyInv, ProxyTypeOK, Drop, Deleters
<1>3. DeleteSteps'
  BY DEF ProxyInv, ProxyTypeOK, DeleteSteps, Drop, Deleters
<1>4. Construction'
  BY DEF ProxyInv, ProxyTypeOK, Construction, Drop, Deleters, Constructed,
         Settled
<1>5. Deletion'
  BY DEF ProxyInv, ProxyTypeOK, Deletion, Drop, Deleters, Destroying
<1>6. Ownership'
  BY DEF ProxyInv, ProxyTypeOK, Ownership, Drop, Deleters, Constructed,
         Destroying
<1>7. Collection'
  BY DEF ProxyInv, ProxyTypeOK, Collection, Drop, Deleters
<1>8. Undisturbed'
  BY DEF ProxyInv, ProxyTypeOK, Undisturbed, Drop, Deleters
<1> QED
  BY <1>2, <1>3, <1>4, <1>5, <1>6, <1>7, <1>8 DEF ProxyInv

(* A thread calls delete().                                                *)
LEMMA CallDeleteInv ==
  ASSUME ProxyInv, NEW t \in Threads, CallDelete(t)
  PROVE  ProxyInv'
<1>2. ProxyTypeOK'
  BY DEF ProxyInv, ProxyTypeOK, CallDelete, Deleters, Constructed, At
<1>3. DeleteSteps'
  BY FinalizerAssumption
     DEF ProxyInv, ProxyTypeOK, DeleteSteps, CallDelete, Deleters,
         Constructed, At
<1>4. Construction'
  BY DEF ProxyInv, ProxyTypeOK, Construction, CallDelete, Deleters,
         Constructed, Settled, At
<1>5. Deletion'
  BY DEF ProxyInv, ProxyTypeOK, Deletion, CallDelete, Deleters, Destroying,
         Constructed, At
<1>6. Ownership'
  BY DEF ProxyInv, ProxyTypeOK, Ownership, DeleteSteps, CallDelete, Deleters,
         Constructed, Destroying, At
<1>7. Collection'
  BY FinalizerAssumption
     DEF ProxyInv, ProxyTypeOK, Collection, CallDelete, Deleters,
         Constructed, At
<1>8. Undisturbed'
  BY DEF ProxyInv, ProxyTypeOK, Undisturbed, CallDelete, Deleters,
         Constructed, At
<1> QED
  BY <1>2, <1>3, <1>4, <1>5, <1>6, <1>7, <1>8 DEF ProxyInv

(* The collector takes a proxy that nobody can reach.                      *)
LEMMA FinalizeInv ==
  ASSUME ProxyInv, Finalize
  PROVE  ProxyInv'
<1>2. ProxyTypeOK'
  BY DEF ProxyInv, ProxyTypeOK, Finalize, Deleters, Constructed, Reachable,
         At
<1>3. DeleteSteps'
  BY DEF ProxyInv, ProxyTypeOK, DeleteSteps, Finalize, Deleters, Constructed,
         Reachable, At
<1>4. Construction'
  BY DEF ProxyInv, ProxyTypeOK, Construction, Finalize, Deleters,
         Constructed, Settled, Reachable, At
<1>5. Deletion'
  BY DEF ProxyInv, ProxyTypeOK, Deletion, Finalize, Deleters, Destroying,
         Constructed, Reachable, At
<1>6. Ownership'
  BY DEF ProxyInv, ProxyTypeOK, Ownership, Finalize, Deleters, Constructed,
         Destroying, Reachable, At
<1>7. Collection'
  BY FinalizerAssumption
     DEF ProxyInv, ProxyTypeOK, Collection, Deletion, Ownership, Finalize,
         Deleters, Destroying, Constructed, Reachable, At
<1>8. Undisturbed'
  BY FinalizerAssumption
     DEF ProxyInv, ProxyTypeOK, Undisturbed, Finalize, Deleters, Constructed,
         Reachable, At
<1> QED
  BY <1>2, <1>3, <1>4, <1>5, <1>6, <1>7, <1>8 DEF ProxyInv

(* delete() takes the monitor.                                             *)
LEMMA EnterMonitorInv ==
  ASSUME ProxyInv, NEW t \in Deleters, EnterMonitor(t)
  PROVE  ProxyInv'
<1>2. ProxyTypeOK'
  BY DEF ProxyInv, ProxyTypeOK, EnterMonitor, Deleters, At
<1>3. DeleteSteps'
  BY FinalizerAssumption
     DEF ProxyInv, ProxyTypeOK, DeleteSteps, EnterMonitor, Deleters, At
<1>4. Construction'
  BY DEF ProxyInv, ProxyTypeOK, Construction, EnterMonitor, Deleters,
         Constructed, Settled, At
<1>5. Deletion'
  BY DEF ProxyInv, ProxyTypeOK, Deletion, EnterMonitor, Deleters, Destroying,
         At
<1>6. Ownership'
  BY DEF ProxyInv, ProxyTypeOK, Ownership, EnterMonitor, Deleters,
         Constructed, Destroying, At
<1>7. Collection'
  BY DEF ProxyInv, ProxyTypeOK, Collection, EnterMonitor, Deleters, At
<1>8. Undisturbed'
  BY DEF ProxyInv, ProxyTypeOK, Undisturbed, EnterMonitor, Deleters, At
<1> QED
  BY <1>2, <1>3, <1>4, <1>5, <1>6, <1>7, <1>8 DEF ProxyInv

(* delete() looks at swigCMemOwn.                                          *)
LEMMA TestOwnershipInv ==
  ASSUME ProxyInv, NEW t \in Deleters, TestOwnership(t)
  PROVE  ProxyInv'
<1>2. ProxyTypeOK'
  BY DEF ProxyInv, ProxyTypeOK, TestOwnership, Deleters, At
<1>3. DeleteSteps'
  BY DEF ProxyInv, ProxyTypeOK, DeleteSteps, TestOwnership, Deleters, At
<1>4. Construction'
  BY DEF ProxyInv, ProxyTypeOK, Construction, TestOwnership, Deleters,
         Constructed, Settled, At
<1>5. Deletion'
  BY DEF ProxyInv, ProxyTypeOK, Deletion, Construction, TestOwnership,
         Deleters, Destroying, Constructed, Settled, At
<1>6. Ownership'
  BY DEF ProxyInv, ProxyTypeOK, Ownership, TestOwnership, Deleters,
         Constructed, Destroying, At
<1>7. Collection'
  BY DEF ProxyInv, ProxyTypeOK, Collection, TestOwnership, Deleters, At
<1>8. Undisturbed'
  BY DEF ProxyInv, ProxyTypeOK, Undisturbed, TestOwnership, Deleters, At
<1> QED
  BY <1>2, <1>3, <1>4, <1>5, <1>6, <1>7, <1>8 DEF ProxyInv

(* delete() takes the ownership.                                           *)
LEMMA CallDestructorInv ==
  ASSUME ProxyInv, NEW t \in Deleters, CallDestructor(t)
  PROVE  ProxyInv'
<1>1. ~swigCMemOwn' /\ swigCMemOwn' \in BOOLEAN
  BY Zenon DEF CallDestructor
<1>2. ProxyTypeOK'
  BY <1>1
     DEF ProxyInv, ProxyTypeOK, CallDestructor, Deleters, At
<1>3. DeleteSteps'
  BY DEF ProxyInv, ProxyTypeOK, DeleteSteps, CallDestructor, Deleters, At
<1>4. Construction'
  BY DEF ProxyInv, ProxyTypeOK, Construction, CallDestructor, Deleters,
         Constructed, Settled, At
<1>5. Deletion'
  BY <1>1
     DEF ProxyInv, ProxyTypeOK, Deletion, DeleteSteps, Construction,
         Collection, CallDestructor, Deleters, Destroying, At
<1>6. Ownership'
  BY DEF ProxyInv, ProxyTypeOK, Ownership, CallDestructor, Deleters,
         Constructed, Destroying, At
<1>7. Collection'
  BY DEF ProxyInv, ProxyTypeOK, Collection, DeleteSteps, CallDestructor,
         Deleters, At
<1>8. Undisturbed'
  BY DEF ProxyInv, ProxyTypeOK, Undisturbed, CallDestructor, Deleters, At
<1> QED
  BY <1>2, <1>3, <1>4, <1>5, <1>6, <1>7, <1>8 DEF ProxyInv

(* The destructor disconnects the proxy, which it still finds.             *)
LEMMA DisconnectInv ==
  ASSUME ProxyInv, NEW t \in Deleters, Disconnect(t)
  PROVE  ProxyInv'
<1>0. FindsProxy
  BY DEF ProxyInv, Deletion, Destroying, Disconnect, At, FindsProxy
<1>1. /\ ~swigCMemOwn' /\ ~swigCPtr' /\ ~baseCPtr'
      /\ swigCMemOwn' \in BOOLEAN /\ swigCPtr' \in BOOLEAN /\ baseCPtr' \in BOOLEAN
  BY <1>0, Zenon DEF Disconnect
<1>2. ProxyTypeOK'
  BY <1>1
     DEF ProxyInv, ProxyTypeOK, Disconnect, Deleters, At
<1>3. DeleteSteps'
  BY DEF ProxyInv, ProxyTypeOK, DeleteSteps, Disconnect, Deleters,
         FindsProxy, At
<1>4. Construction'
  BY DEF ProxyInv, ProxyTypeOK, Construction, Disconnect, Deleters,
         Constructed, Settled, FindsProxy, At
<1>5. Deletion'
  BY <1>1
     DEF ProxyInv, ProxyTypeOK, Deletion, Disconnect, Deleters, Destroying,
         At
<1>6. Ownership'
  BY DEF ProxyInv, ProxyTypeOK, Ownership, Disconnect, Deleters, Constructed,
         Destroying, FindsProxy, At
<1>7. Collection'
  BY DEF ProxyInv, ProxyTypeOK, Collection, DeleteSteps, Disconnect,
         Deleters, FindsProxy, At
<1>8. Undisturbed'
  BY DEF ProxyInv, ProxyTypeOK, Undisturbed, Disconnect, Deleters,
         FindsProxy, At
<1> QED
  BY <1>2, <1>3, <1>4, <1>5, <1>6, <1>7, <1>8 DEF ProxyInv

(* The destructor releases the reference, and the object is gone.          *)
LEMMA ReleaseInv ==
  ASSUME ProxyInv, NEW t \in Deleters, Release(t)
  PROVE  ProxyInv'
<1>2. ProxyTypeOK'
  BY DEF ProxyInv, ProxyTypeOK, Release, Deleters, At
<1>3. DeleteSteps'
  BY DEF ProxyInv, ProxyTypeOK, DeleteSteps, Release, Deleters, At
<1>4. Construction'
  BY DEF ProxyInv, ProxyTypeOK, Construction, Release, Deleters, Constructed,
         Settled, At
<1>5. Deletion'
  BY DEF ProxyInv, ProxyTypeOK, Deletion, Release, Deleters, Destroying, At
<1>6. Ownership'
  BY DEF ProxyInv, ProxyTypeOK, Ownership, Release, Deleters, Constructed,
         Destroying, At
<1>7. Collection'
  BY DEF ProxyInv, ProxyTypeOK, Collection, Release, Deleters, At
<1>8. Undisturbed'
  BY DEF ProxyInv, ProxyTypeOK, Undisturbed, DeleteSteps, Release, Deleters,
         At
<1> QED
  BY <1>2, <1>3, <1>4, <1>5, <1>6, <1>7, <1>8 DEF ProxyInv

(* delete() ends; there is nothing left for super.delete() to delete.      *)
LEMMA ZeroInv ==
  ASSUME ProxyInv, NEW t \in Deleters, Zero(t)
  PROVE  ProxyInv'
<1>0. ~(baseCPtr /\ swigCMemOwn)
  BY DEF ProxyInv, Deletion, Zero, At
<1>1. /\ ~swigCPtr' /\ ~baseCPtr'
      /\ swigCPtr' \in BOOLEAN /\ baseCPtr' \in BOOLEAN
      /\ UNCHANGED <<swigCMemOwn, native, frees>>
  BY <1>0, Zenon DEF Zero
<1>2. ProxyTypeOK'
  BY <1>1
     DEF ProxyInv, ProxyTypeOK, Zero, Deleters, At
<1>3. DeleteSteps'
  BY FinalizerAssumption
     DEF ProxyInv, ProxyTypeOK, DeleteSteps, Zero, Deleters, At
<1>4. Construction'
  BY DEF ProxyInv, ProxyTypeOK, Construction, Zero, Deleters, Constructed,
         Settled, At
<1>5. Deletion'
  BY <1>1
     DEF ProxyInv, ProxyTypeOK, Deletion, DeleteSteps, Collection, Zero,
         Deleters, Destroying, At
<1>6. Ownership'
  BY DEF ProxyInv, ProxyTypeOK, Ownership, DeleteSteps, Deletion, Zero,
         Deleters, Constructed, Destroying, At
<1>7. Collection'
  BY DEF ProxyInv, ProxyTypeOK, Collection, DeleteSteps, Zero, Deleters, At
<1>8. Undisturbed'
  BY DEF ProxyInv, ProxyTypeOK, Undisturbed, Zero, Deleters, At
<1> QED
  BY <1>2, <1>3, <1>4, <1>5, <1>6, <1>7, <1>8 DEF ProxyInv

(* swigReleaseOwnership clears swigCMemOwn.                                *)
LEMMA StartReleaseInv ==
  ASSUME ProxyInv, NEW t \in Threads, StartRelease(t)
  PROVE  ProxyInv'
<1>1. ~swigCMemOwn' /\ swigCMemOwn' \in BOOLEAN
  BY Zenon DEF StartRelease
<1>2. ProxyTypeOK'
  BY <1>1
     DEF ProxyInv, ProxyTypeOK, StartRelease, Deleters, At
<1>3. DeleteSteps'
  BY FinalizerAssumption
     DEF ProxyInv, ProxyTypeOK, DeleteSteps, StartRelease, Deleters,
         Constructed, Settled, At
<1>4. Construction'
  BY DEF ProxyInv, ProxyTypeOK, Construction, StartRelease, Deleters,
         Constructed, Settled, At
<1>5. Deletion'
  BY DEF ProxyInv, ProxyTypeOK, Deletion, StartRelease, Deleters, Destroying,
         Constructed, Settled, At
<1>6. Ownership'
  BY DEF ProxyInv, ProxyTypeOK, Ownership, Construction, Deletion,
         StartRelease, Deleters, Constructed, Destroying, Settled, At
<1>7. Collection'
  BY DEF ProxyInv, ProxyTypeOK, Collection, StartRelease, Deleters,
         Constructed, Settled, At
<1>8. Undisturbed'
  BY DEF ProxyInv, ProxyTypeOK, Undisturbed, StartRelease, Deleters,
         Constructed, Settled, At
<1> QED
  BY <1>2, <1>3, <1>4, <1>5, <1>6, <1>7, <1>8 DEF ProxyInv

(* swigReleaseOwnership makes the reference strong.                        *)
LEMMA EndReleaseInv ==
  ASSUME ProxyInv, NEW t \in Threads, EndRelease(t)
  PROVE  ProxyInv'
<1>2. ProxyTypeOK'
  BY DEF ProxyInv, ProxyTypeOK, EndRelease, Deleters, ChangedOwnership, At
<1>3. DeleteSteps'
  BY DEF ProxyInv, ProxyTypeOK, DeleteSteps, EndRelease, Deleters,
         ChangedOwnership, At
<1>4. Construction'
  BY DEF ProxyInv, ProxyTypeOK, Construction, EndRelease, Deleters,
         Constructed, Settled, ChangedOwnership, At
<1>5. Deletion'
  BY DEF ProxyInv, ProxyTypeOK, Deletion, EndRelease, Deleters, Destroying,
         ChangedOwnership, At
<1>6. Ownership'
  BY DEF ProxyInv, ProxyTypeOK, Ownership, Deletion, EndRelease, Deleters,
         Constructed, Destroying, ChangedOwnership, At
<1>7. Collection'
  BY DEF ProxyInv, ProxyTypeOK, Collection, EndRelease, Deleters,
         ChangedOwnership, At
<1>8. Undisturbed'
  BY DEF ProxyInv, ProxyTypeOK, Undisturbed, EndRelease, Deleters,
         ChangedOwnership, At
<1> QED
  BY <1>2, <1>3, <1>4, <1>5, <1>6, <1>7, <1>8 DEF ProxyInv

(* swigTakeOwnership.                                                      *)
LEMMA TakeOwnershipInv ==
  ASSUME ProxyInv, NEW t \in Threads, TakeOwnership(t)
  PROVE  ProxyInv'
<1>2. ProxyTypeOK'
  BY DEF ProxyInv, ProxyTypeOK, TakeOwnership, Deleters, Constructed,
         Settled, ChangedOwnership
<1>3. DeleteSteps'
  BY DEF ProxyInv, ProxyTypeOK, DeleteSteps, TakeOwnership, Deleters,
         Constructed, Settled, ChangedOwnership
<1>4. Construction'
  BY DEF ProxyInv, ProxyTypeOK, Construction, TakeOwnership, Deleters,
         Constructed, Settled, ChangedOwnership
<1>5. Deletion'
  BY DEF ProxyInv, ProxyTypeOK, Deletion, TakeOwnership, Deleters,
         Destroying, Constructed, Settled, ChangedOwnership
<1>6. Ownership'
  BY DEF ProxyInv, ProxyTypeOK, Ownership, TakeOwnership, Deleters,
         Constructed, Destroying, Settled, ChangedOwnership
<1>7. Collection'
  BY DEF ProxyInv, ProxyTypeOK, Collection, TakeOwnership, Deleters,
         Constructed, Settled, ChangedOwnership
<1>8. Undisturbed'
  BY DEF ProxyInv, ProxyTypeOK, Undisturbed, TakeOwnership, Deleters,
         Constructed, Settled, ChangedOwnership
<1> QED
  BY <1>2, <1>3, <1>4, <1>5, <1>6, <1>7, <1>8 DEF ProxyInv

(* The C++ owner deletes the object.                                       *)
LEMMA OwnerDeleteInv ==
  ASSUME ProxyInv, NEW t \in Threads, OwnerDelete(t)
  PROVE  ProxyInv'
<1>2. ProxyTypeOK'
  BY DEF ProxyInv, ProxyTypeOK, OwnerDelete, Deleters, Settled, At
<1>3. DeleteSteps'
  BY FinalizerAssumption
     DEF ProxyInv, ProxyTypeOK, DeleteSteps, OwnerDelete, Deleters, Settled,
         At
<1>4. Construction'
  BY DEF ProxyInv, ProxyTypeOK, Construction, OwnerDelete, Deleters,
         Constructed, Settled, At
<1>5. Deletion'
  BY DEF ProxyInv, ProxyTypeOK, Deletion, Construction, Collection,
         OwnerDelete, Deleters, Destroying, Constructed, Settled, At
<1>6. Ownership'
  BY DEF ProxyInv, ProxyTypeOK, Ownership, OwnerDelete, Deleters,
         Constructed, Destroying, Settled, At
<1>7. Collection'
  BY DEF ProxyInv, ProxyTypeOK, Collection, DeleteSteps, OwnerDelete,
         Deleters, Settled, At
<1>8. Undisturbed'
  BY DEF ProxyInv, ProxyTypeOK, Undisturbed, OwnerDelete, Deleters, Settled,
         At
<1> QED
  BY <1>2, <1>3, <1>4, <1>5, <1>6, <1>7, <1>8 DEF ProxyInv

(* Nothing happens. *)
LEMMA StutterInv ==
  ASSUME ProxyInv, UNCHANGED proxyVars
  PROVE  ProxyInv'
BY DEF proxyVars, ProxyInv, ProxyTypeOK, DeleteSteps, Construction, Deletion,
       Ownership, Collection, Undisturbed, Settled, Constructed, Destroying

(* A step of a thread of the program preserves the invariant. *)
LEMMA ThreadStepInv ==
  ASSUME ProxyInv, NEW t \in Threads, ThreadStep(t)
  PROVE  ProxyInv'
BY ConstructInv, ConnectInv, EnterInv, LeaveInv, CallDeleteInv, StartReleaseInv,
   EndReleaseInv, TakeOwnershipInv, OwnerDeleteInv DEF ThreadStep

(* A step of delete() or of the destructor does. *)
LEMMA ProxyStepInv ==
  ASSUME ProxyInv, NEW t \in Deleters, ProxyStep(t)
  PROVE  ProxyInv'
BY EnterMonitorInv, TestOwnershipInv, CallDestructorInv, DisconnectInv,
   ReleaseInv, ZeroInv DEF ProxyStep

(* The invariant holds in every state of every client. *)
THEOREM ProxyInvHolds == ProxySpec => []ProxyInv
<1>1. ASSUME ProxyInv, [ProxyNext]_proxyVars PROVE ProxyInv'
  <2>1. CASE ProxyNext
    BY <1>1, <2>1, DropInv, FinalizeInv, ThreadStepInv, ProxyStepInv DEF ProxyNext
  <2>2. CASE UNCHANGED proxyVars
    BY <1>1, <2>2, StutterInv
  <2> QED
    BY <1>1, <2>1, <2>2
<1> QED
  BY InitProxyInv, <1>1, PTL DEF ProxySpec

-----------------------------------------------------------------------------
(* ProxyTypeOK: the state of a client is well formed. *)
THEOREM TypeCorrect == ProxySpec => []ProxyTypeOK
<1>1. ProxyInv => ProxyTypeOK
  BY DEF ProxyInv
<1> QED
  BY ProxyInvHolds, <1>1, PTL

(* FreedOnce: the native object is deleted at most once. *)
THEOREM NoDoubleFree == ProxySpec => []FreedOnce
<1>1. ProxyInv => FreedOnce
  BY DEF ProxyInv, Deletion, FreedOnce
<1> QED
  BY ProxyInvHolds, <1>1, PTL

LEMMA LiveCalls ==
  ProxyInv => CallsOnLive
<1> SUFFICES ASSUME ProxyInv, ~Deletes /\ ~Transfers,
                    NEW t \in Threads, calls[t] > 0
             PROVE  native = "live"
  BY DEF CallsOnLive
<1>1. life = "live"
  BY DEF ProxyInv, ProxyTypeOK, Construction, Collection
<1>2. native \notin {"none", "freed"}
  BY <1>1 DEF ProxyInv, Construction, Undisturbed
<1> QED
  BY <1>2 DEF ProxyInv, ProxyTypeOK

(* CallsOnLive: a native method of a client that is left to the collector  *)
(* runs on a live native object.                                           *)
THEOREM CallsAreSafe == ProxySpec => []CallsOnLive
  BY ProxyInvHolds, LiveCalls, PTL

(* OwnerIsCollectable: a proxy that owns its object is not kept by it. *)
THEOREM NoSelfReference == ProxySpec => []OwnerIsCollectable
<1>1. ProxyInv => OwnerIsCollectable
  BY DEF ProxyInv, Ownership, OwnerIsCollectable
<1> QED
  BY ProxyInvHolds, <1>1, PTL

(* NothingOrphaned: a proxy that is collected leaves no object behind. *)
THEOREM NothingLeftBehind == ProxySpec => []NothingOrphaned
<1>1. ProxyInv => NothingOrphaned
  BY DEF ProxyInv, Collection, Deletion, NothingOrphaned
<1> QED
  BY ProxyInvHolds, <1>1, PTL

(* NoDanglingProxy: no proxy has the address of an object that is gone. *)
THEOREM NoDanglingAddress == ProxySpec => []NoDanglingProxy
<1>1. ProxyInv => NoDanglingProxy
  BY DEF ProxyInv, Deletion, NoDanglingProxy
<1> QED
  BY ProxyInvHolds, <1>1, PTL

-----------------------------------------------------------------------------
(* The client.  Every step of Director is one of ClientProxy for it, or    *)
(* leaves it alone.                                                        *)

LEMMA NextProxyInv ==
  ASSUME ProxyInv, Next
  PROVE  ProxyInv'
<1>1. CASE ProxyLife
  <2>1. CASE Drop
    BY <2>1, DropInv
  <2>2. CASE Finalize
    BY <2>2, FinalizeInv
  <2>3. CASE \E t \in Threads \ Workers : stack[t] = <<>> /\ (Construct(t) \/ Connect(t))
    BY <2>3, ConstructInv, ConnectInv
  <2>4. CASE ProxyStep(Finalizer)
    BY <2>4, ProxyStepInv DEF Deleters
  <2> QED
    BY <1>1, <2>1, <2>2, <2>3, <2>4 DEF ProxyLife
<1>2. ASSUME NEW t \in Threads, JavaStep(t) PROVE ProxyInv'
  <2>1. Enter(t) \/ Leave(t) \/ UNCHANGED proxyVars
    BY <1>2 DEF JavaStep, CallWrapper, RejectNull, CallFunction, ReturnToJava,
                JavaReturns, JavaThrows
  <2> QED
    BY <1>2, <2>1, EnterInv, LeaveInv, StutterInv
<1>3. ASSUME NEW t \in Threads, CoreStep(t) PROVE ProxyInv'
  <2>1. UNCHANGED proxyVars
    BY <1>3 DEF CoreStep, CoreCalls, CoreEnds, EnterUpcall, CallBase, RejectPure,
                CallJava, FinalizeNetworks, LeaveUpcall
  <2> QED
    BY <2>1, StutterInv
<1> QED
  BY <1>1, <1>2, <1>3 DEF Next

LEMMA ProxyInvLifted == Spec => []ProxyInv
<1>1. Init => ProxyInv
  BY InitProxyInv DEF Init
<1>2. ProxyInv /\ [Next]_vars => ProxyInv'
  <2>1. ASSUME ProxyInv, UNCHANGED vars PROVE ProxyInv'
    BY <2>1, StutterInv DEF vars
  <2> QED
    BY <2>1, NextProxyInv
<1> QED
  BY <1>1, <1>2, PTL DEF Spec

(* CallsOnLive: also when callbacks of the core use the client again, on   *)
(* any number of threads, no native method runs on a deleted client.       *)
THEOREM CallbacksAreSafe == Spec => []CallsOnLive
<1>1. ProxyInv => CallsOnLive
  BY LiveCalls
<1> QED
  BY ProxyInvLifted, <1>1, PTL

-----------------------------------------------------------------------------
(* Stacks.                                                                 *)

IsStack(s) == \E S : s \in Seq(S)

IsFrame(f) ==
  DOMAIN f = {"code", "method", "at", "null", "refs", "attaches"}

Under(s) == SubSeq(s, 1, Len(s) - 1)

LEMMA StackLength ==
  ASSUME NEW s, IsStack(s)
  PROVE  Len(s) \in Nat /\ (s = <<>> <=> Len(s) = 0)
<1>1. PICK S : s \in Seq(S)
  BY DEF IsStack
<1> QED
  BY <1>1

LEMMA Pushed ==
  ASSUME NEW s, NEW e, IsStack(s)
  PROVE  /\ IsStack(Append(s, e))
         /\ Len(Append(s, e)) = Len(s) + 1
         /\ \A i \in 1 .. Len(s) : Append(s, e)[i] = s[i]
         /\ Append(s, e)[Len(s) + 1] = e
<1>1. PICK S : s \in Seq(S)
  BY DEF IsStack
<1> DEFINE T == S \cup {e}
<1>2. s \in Seq(T) /\ e \in T
  BY <1>1
<1> HIDE DEF T
<1>3. Append(s, e) \in Seq(T)
  BY <1>2
<1> QED
  BY <1>2, <1>3 DEF IsStack

LEMMA Popped ==
  ASSUME NEW s, IsStack(s), s # <<>>
  PROVE  /\ IsStack(Under(s))
         /\ Len(Under(s)) = Len(s) - 1
         /\ \A i \in 1 .. Len(s) - 1 : Under(s)[i] = s[i]
<1>1. PICK S : s \in Seq(S)
  BY DEF IsStack
<1>2. Len(s) \in Nat \ {0}
  BY <1>1
<1>3. Under(s) \in Seq(S)
  BY <1>1, <1>2 DEF Under
<1>4. \A m \in Nat : m <= Len(s) => Len(SubSeq(s, 1, m)) = m
  BY <1>1, <1>2
<1>5. \A i \in 1 .. Len(s) - 1 : Under(s)[i] = s[i]
  BY <1>1, <1>2 DEF Under
<1>6. IsStack(Under(s))
  BY <1>3 DEF IsStack
<1>7. Len(s) - 1 \in Nat /\ Len(s) - 1 <= Len(s)
  BY <1>2
<1> QED
  BY <1>4, <1>5, <1>6, <1>7 DEF Under

LEMMA Changed ==
  ASSUME NEW s, NEW f, IsStack(s), s # <<>>
  PROVE  LET c == [s EXCEPT ![Len(s)] = f] IN
         /\ IsStack(c)
         /\ Len(c) = Len(s)
         /\ \A i \in 1 .. Len(s) - 1 : c[i] = s[i]
         /\ c[Len(s)] = f
<1> DEFINE c == [s EXCEPT ![Len(s)] = f]
<1>1. PICK S : s \in Seq(S)
  BY DEF IsStack
<1> DEFINE T == S \cup {f}
<1>2. s \in Seq(T) /\ f \in T
  BY <1>1
<1> HIDE DEF T
<1>3. c \in Seq(T) /\ Len(c) = Len(s)
  BY <1>2
<1>4. IsStack(c)
  BY <1>3 DEF IsStack
<1>5. DOMAIN s = 1 .. Len(s) /\ Len(s) \in 1 .. Len(s)
  BY <1>1
<1>6. c[Len(s)] = f /\ \A i \in 1 .. Len(s) - 1 : c[i] = s[i]
  BY <1>1, <1>5
<1> QED
  BY <1>3, <1>4, <1>6

-----------------------------------------------------------------------------
(* A thread with stack s is known to the VM or not.  A thread of the core  *)
(* is attached by the outermost of its frames, once that is past enter, and *)
(* by no other; a thread of Java never is.                                 *)

Balanced(s, known, worker) ==
  /\ IsStack(s)
  /\ known \in BOOLEAN
  /\ \A i \in 1 .. Len(s) : IsFrame(s[i])
  /\ \A i \in 1 .. Len(s) - 1 : s[i].at # "enter"
  /\ Len(s) > 0 => s[1].code # "java"
  /\ ~worker => known /\ \A i \in 1 .. Len(s) : ~s[i].attaches
  /\ worker =>
       /\ known <=> Len(s) > 0 /\ (s[1].at # "enter" \/ Len(s) > 1)
       /\ \A i \in 1 .. Len(s) : s[i].attaches <=> i = 1 /\ known
       /\ Len(s) > 0 => s[1].code = "upcall"

(* A frame that no thread has entered. *)
NewFrame(f) == IsFrame(f) /\ ~f.attaches

LEMMA Nested ==
  ASSUME NEW s, NEW known, NEW worker, NEW f,
         Balanced(s, known, worker), NewFrame(f),
         Len(s) > 0 => s[Len(s)].at # "enter",
         Len(s) > 0 \/ (~worker /\ f.code # "java")
  PROVE  Balanced(Append(s, f), known, worker)
<1> DEFINE p == Append(s, f)
<1>1. Len(s) \in Nat
  BY StackLength DEF Balanced
<1>2. IsStack(p) /\ Len(p) = Len(s) + 1 /\ p[Len(s) + 1] = f
      /\ \A i \in 1 .. Len(s) : p[i] = s[i]
  BY Pushed DEF Balanced
<1> HIDE DEF p
<1>3. \A i \in 1 .. Len(p) : IsFrame(p[i])
  BY <1>1, <1>2 DEF Balanced, NewFrame
<1>4. \A i \in 1 .. Len(p) - 1 : p[i].at # "enter"
  BY <1>1, <1>2 DEF Balanced
<1>5. p[1].code # "java"
  BY <1>1, <1>2 DEF Balanced
<1>6. ~worker => known /\ \A i \in 1 .. Len(p) : ~p[i].attaches
  BY <1>1, <1>2 DEF Balanced, NewFrame
<1>7. ASSUME worker
      PROVE  /\ known <=> Len(p) > 0 /\ (p[1].at # "enter" \/ Len(p) > 1)
             /\ \A i \in 1 .. Len(p) : p[i].attaches <=> i = 1 /\ known
             /\ Len(p) > 0 => p[1].code = "upcall"
  <2>1. Len(s) > 0
    BY <1>1, <1>7
  <2>2. s[1].at # "enter" \/ Len(s) > 1
    BY <1>1, <2>1
  <2>3. known <=> Len(s) > 0 /\ (s[1].at # "enter" \/ Len(s) > 1)
    BY <1>7 DEF Balanced
  <2>4. known /\ Len(p) > 1 /\ p[1] = s[1]
    BY <1>1, <1>2, <2>1, <2>2, <2>3
  <2>5. \A i \in 1 .. Len(p) : p[i].attaches <=> i = 1 /\ known
    BY <1>1, <1>2, <1>7, <2>4 DEF Balanced, NewFrame
  <2> QED
    BY <1>7, <2>4, <2>5 DEF Balanced
<1> QED
  BY <1>2, <1>3, <1>4, <1>5, <1>6, <1>7 DEF Balanced, p

LEMMA Outermost ==
  ASSUME NEW s, NEW known, NEW f,
         Balanced(s, known, TRUE), ~(Len(s) > 0), NewFrame(f),
         f.code = "upcall", f.at = "enter"
  PROVE  Balanced(Append(s, f), known, TRUE)
<1> DEFINE p == Append(s, f)
<1>2. IsStack(p) /\ Len(p) = Len(s) + 1 /\ p[Len(s) + 1] = f
  BY Pushed DEF Balanced
<1> HIDE DEF p
<1>3. IsStack(p) /\ Len(p) = 1 /\ p[1] = f
  BY <1>2, StackLength DEF Balanced
<1> QED
  BY <1>3 DEF Balanced, NewFrame, p

LEMMA Back ==
  ASSUME NEW s, NEW known, NEW worker,
         Balanced(s, known, worker), Len(s) > 1 \/ (~worker /\ Len(s) > 0)
  PROVE  Balanced(Under(s), known, worker)
<1> DEFINE p == Under(s)
<1>1. Len(s) \in Nat \ {0}
  BY StackLength DEF Balanced
<1>2. IsStack(p) /\ Len(p) = Len(s) - 1 /\ \A i \in 1 .. Len(p) : p[i] = s[i]
  BY <1>1, Popped, StackLength DEF Balanced
<1> HIDE DEF p
<1>3. ~worker => known /\ \A i \in 1 .. Len(p) : ~p[i].attaches
  BY <1>1, <1>2 DEF Balanced
<1>4. ASSUME worker
      PROVE  /\ known <=> Len(p) > 0 /\ (p[1].at # "enter" \/ Len(p) > 1)
             /\ \A i \in 1 .. Len(p) : p[i].attaches <=> i = 1 /\ known
             /\ Len(p) > 0 => p[1].code = "upcall"
  <2>1. known /\ p[1] = s[1] /\ s[1].at # "enter" /\ Len(p) > 0
    BY <1>1, <1>2, <1>4 DEF Balanced
  <2> QED
    BY <1>1, <1>2, <1>4, <2>1 DEF Balanced
<1> QED
  BY <1>1, <1>2, <1>3, <1>4 DEF Balanced, p

(* A frame after a step of its own. *)
SameFrame(f, g) == IsFrame(g) /\ g.code = f.code /\ g.attaches = f.attaches

LEMMA Stepped ==
  ASSUME NEW s, NEW known, NEW worker, NEW f,
         Balanced(s, known, worker), Len(s) > 0, SameFrame(s[Len(s)], f),
         s[Len(s)].at # "enter" \/ Len(s) > 1, f.at # "enter"
  PROVE  Balanced([s EXCEPT ![Len(s)] = f], known, worker)
<1> DEFINE p == [s EXCEPT ![Len(s)] = f]
<1>1. Len(s) \in Nat \ {0} /\ s # <<>>
  BY StackLength DEF Balanced
<1>2. IsStack(p) /\ Len(p) = Len(s) /\ p[Len(s)] = f
      /\ \A i \in 1 .. Len(s) - 1 : p[i] = s[i]
  BY <1>1, Changed DEF Balanced
<1> HIDE DEF p
<1>3. \A i \in 1 .. Len(p) : IsFrame(p[i])
  BY <1>1, <1>2 DEF Balanced, SameFrame
<1>4. \A i \in 1 .. Len(p) : p[i].attaches = s[i].attaches /\ p[i].code = s[i].code
  BY <1>1, <1>2 DEF SameFrame
<1>5. ~worker => known /\ \A i \in 1 .. Len(p) : ~p[i].attaches
  BY <1>1, <1>2, <1>4 DEF Balanced
<1>6. ASSUME worker
      PROVE  /\ known <=> Len(p) > 0 /\ (p[1].at # "enter" \/ Len(p) > 1)
             /\ \A i \in 1 .. Len(p) : p[i].attaches <=> i = 1 /\ known
             /\ Len(p) > 0 => p[1].code = "upcall"
  <2>1. s[1].at # "enter" \/ Len(s) > 1
    BY <1>1
  <2>2. p[1].at # "enter" \/ Len(s) > 1
    BY <1>1, <1>2
  <2> QED
    BY <1>1, <1>2, <1>4, <1>6, <2>1, <2>2 DEF Balanced
<1>7. p[1].code # "java"
  BY <1>1, <1>2, <1>4 DEF Balanced
<1> QED
  BY <1>1, <1>2, <1>3, <1>5, <1>6, <1>7 DEF Balanced, p

LEMMA Entered ==
  ASSUME NEW s, NEW known, NEW worker, NEW f,
         Balanced(s, known, worker), Len(s) > 0, s[Len(s)].at = "enter",
         IsFrame(f), f.code = s[Len(s)].code, f.attaches <=> ~known, f.at # "enter"
  PROVE  Balanced([s EXCEPT ![Len(s)] = f], TRUE, worker)
<1> DEFINE p == [s EXCEPT ![Len(s)] = f]
<1>1. Len(s) \in Nat \ {0} /\ s # <<>>
  BY StackLength DEF Balanced
<1>2. IsStack(p) /\ Len(p) = Len(s) /\ p[Len(s)] = f
      /\ \A i \in 1 .. Len(s) - 1 : p[i] = s[i]
  BY <1>1, Changed DEF Balanced
<1> HIDE DEF p
<1>3. \A i \in 1 .. Len(p) : IsFrame(p[i])
  BY <1>1, <1>2 DEF Balanced
<1>4. \A i \in 1 .. Len(p) : p[i].code = s[i].code
  BY <1>1, <1>2
<1>5. ~worker => \A i \in 1 .. Len(p) : ~p[i].attaches
  BY <1>1, <1>2 DEF Balanced
<1>6. ASSUME worker
      PROVE  /\ Len(p) > 0 /\ (p[1].at # "enter" \/ Len(p) > 1)
             /\ \A i \in 1 .. Len(p) : p[i].attaches <=> i = 1
             /\ Len(p) > 0 => p[1].code = "upcall"
  <2>1. p[1].at # "enter" \/ Len(p) > 1
    BY <1>1, <1>2
  <2>2. known <=> Len(s) > 1
    BY <1>1, <1>6 DEF Balanced
  <2>3. \A i \in 1 .. Len(p) : p[i].attaches <=> i = 1
    BY <1>1, <1>2, <1>6, <2>2 DEF Balanced
  <2> QED
    BY <1>1, <1>2, <1>4, <1>6, <2>1, <2>3 DEF Balanced
<1> QED
  BY <1>1, <1>2, <1>3, <1>5, <1>6 DEF Balanced, p

LEMMA Detached ==
  ASSUME NEW s, NEW known, NEW worker,
         Balanced(s, known, worker), Len(s) > 0, s[Len(s)].at # "enter"
  PROVE  Balanced(Under(s), known /\ ~s[Len(s)].attaches, worker)
<1>1. Len(s) \in Nat \ {0} /\ s # <<>>
  BY StackLength DEF Balanced
<1>2. CASE Len(s) > 1 \/ ~worker
  <2>1. Balanced(Under(s), known, worker)
    BY <1>1, <1>2, Back
  <2>2. ~s[Len(s)].attaches
    BY <1>1, <1>2 DEF Balanced
  <2>3. (known /\ ~s[Len(s)].attaches) = known
    BY <2>2, Zenon DEF Balanced
  <2> QED
    BY <2>1, <2>3
<1>3. CASE ~(Len(s) > 1) /\ worker
  <2>1. IsStack(Under(s)) /\ ~(Len(Under(s)) > 0) /\ Len(Under(s)) \in Nat
    BY <1>1, <1>3, Popped, StackLength DEF Balanced
  <2>2. s[Len(s)] = s[1] /\ known /\ s[1].attaches
    BY <1>1, <1>3 DEF Balanced
  <2> QED
    BY <1>3, <2>1, <2>2 DEF Balanced
<1> QED
  BY <1>2, <1>3

LEMMA Replaced ==
  ASSUME NEW s, NEW f, IsStack(s), Len(s) > 0
  PROVE  Append(Under(s), f) = [s EXCEPT ![Len(s)] = f]
<1>1. PICK S : s \in Seq(S)
  BY DEF IsStack
<1> DEFINE T == S \cup {f}
           c == [s EXCEPT ![Len(s)] = f]
           a == Append(Under(s), f)
<1>2. Len(s) \in Nat \ {0} /\ s # <<>> /\ DOMAIN s = 1 .. Len(s)
  BY <1>1
<1>3. IsStack(c) /\ Len(c) = Len(s) /\ c[Len(s)] = f
      /\ \A i \in 1 .. Len(s) - 1 : c[i] = s[i]
  BY <1>2, Changed
<1>4. IsStack(Under(s)) /\ Len(Under(s)) = Len(s) - 1
      /\ \A i \in 1 .. Len(s) - 1 : Under(s)[i] = s[i]
  BY <1>2, Popped
<1>5. IsStack(a) /\ Len(a) = Len(Under(s)) + 1 /\ a[Len(Under(s)) + 1] = f
      /\ \A i \in 1 .. Len(Under(s)) : a[i] = Under(s)[i]
  BY <1>4, Pushed
<1> HIDE DEF a, c
<1>6. Len(a) = Len(c) /\ \A i \in 1 .. Len(c) : a[i] = c[i]
  BY <1>2, <1>3, <1>4, <1>5
<1>7. a = c
  <2>1. PICK A : a \in Seq(A)
    BY <1>5 DEF IsStack
  <2>2. PICK C : c \in Seq(C)
    BY <1>3 DEF IsStack
  <2>3. DOMAIN a = 1 .. Len(a) /\ DOMAIN c = 1 .. Len(c)
    BY <2>1, <2>2
  <2>4. a = [i \in DOMAIN a |-> a[i]] /\ c = [i \in DOMAIN c |-> c[i]]
    BY <2>1, <2>2
  <2> QED
    BY <1>6, <2>3, <2>4
<1> QED
  BY <1>7 DEF a, c

-----------------------------------------------------------------------------
(* The stacks of Director.                                                 *)

AttachInv ==
  /\ stack = [t \in Threads |-> stack[t]]
  /\ attached = [t \in Threads |-> attached[t]]
  /\ \A t \in Threads : Balanced(stack[t], attached[t], t \in Workers)

LEMMA OneThread ==
  ASSUME AttachInv, NEW t \in Threads, NEW s, NEW known,
         stack' = [stack EXCEPT ![t] = s],
         attached' = [attached EXCEPT ![t] = known],
         Balanced(s, known, t \in Workers)
  PROVE  AttachInv'
<1>1. /\ DOMAIN stack' = Threads /\ DOMAIN attached' = Threads
      /\ stack' = [u \in Threads |-> stack'[u]]
      /\ attached' = [u \in Threads |-> attached'[u]]
  BY DEF AttachInv
<1>2. ASSUME NEW u \in Threads
      PROVE  Balanced(stack'[u], attached'[u], u \in Workers)
  <2>1. CASE u = t
    BY <2>1 DEF AttachInv
  <2>2. CASE u # t
    <3>1. stack'[u] = stack[u] /\ attached'[u] = attached[u]
      BY <2>2 DEF AttachInv
    <3> QED
      BY <3>1 DEF AttachInv
  <2> QED
    BY <2>1, <2>2
<1> QED
  BY <1>1, <1>2 DEF AttachInv

LEMMA SameAttached ==
  ASSUME AttachInv, NEW t \in Threads, NEW s,
         stack' = [stack EXCEPT ![t] = s], UNCHANGED attached,
         Balanced(s, attached[t], t \in Workers)
  PROVE  AttachInv'
<1>1. attached' = [attached EXCEPT ![t] = attached[t]]
  BY DEF AttachInv
<1> QED
  BY <1>1, OneThread

LEMMA FrameIsNew ==
  ASSUME NEW code, NEW method, NEW at
  PROVE  /\ NewFrame(Frame(code, method, at))
         /\ Frame(code, method, at).code = code
         /\ Frame(code, method, at).at = at
  BY DEF NewFrame, IsFrame, Frame

(* The frame of a call goes on to another place.                           *)
LEMMA GotoKeeps ==
  ASSUME AttachInv, NEW t \in Threads, NEW place, place # "enter",
         stack[t] # <<>>, Top(t).at # "enter",
         stack' = Goto(t, place), UNCHANGED attached
  PROVE  AttachInv'
<1> DEFINE f == [Top(t) EXCEPT !.at = place]
           s == [stack[t] EXCEPT ![Len(stack[t])] = f]
<1>1. Len(stack[t]) > 0 /\ Len(stack[t]) \in Nat
  BY StackLength DEF AttachInv, Balanced
<1>2. IsFrame(Top(t))
  BY <1>1 DEF AttachInv, Balanced, Top
<1>3. SameFrame(Top(t), f) /\ f.at = place
  BY <1>2 DEF SameFrame, IsFrame
<1>4. stack' = [stack EXCEPT ![t] = s]
  BY DEF Goto, Top
<1> HIDE DEF f
<1>5. Balanced(s, attached[t], t \in Workers)
  BY <1>1, <1>3, Stepped DEF AttachInv, Top
<1> HIDE DEF s
<1> QED
  BY <1>4, <1>5, SameAttached

(* A call on top of the calls of a thread. *)
LEMMA PushKeeps ==
  ASSUME AttachInv, NEW t \in Threads, NEW f, NewFrame(f),
         stack[t] # <<>> => Top(t).at # "enter",
         stack[t] # <<>> \/ (t \notin Workers /\ f.code # "java"),
         stack' = [stack EXCEPT ![t] = Append(@, f)], UNCHANGED attached
  PROVE  AttachInv'
<1>1. Len(stack[t]) \in Nat /\ (stack[t] = <<>> <=> Len(stack[t]) = 0)
  BY StackLength DEF AttachInv, Balanced
<1>2. Len(stack[t]) > 0 => stack[t][Len(stack[t])].at # "enter"
  BY <1>1 DEF Top
<1>3. Len(stack[t]) > 0 \/ (t \notin Workers /\ f.code # "java")
  BY <1>1
<1>4. Balanced(stack[t], attached[t], t \in Workers)
  BY DEF AttachInv
<1>5. Balanced(Append(stack[t], f), attached[t], t \in Workers)
  BY <1>2, <1>3, <1>4, Nested
<1> QED
  BY <1>5, SameAttached

(* The end of a call: its caller, if there is one, goes on.                *)
LEMMA NotOutermost ==
  ASSUME AttachInv, NEW t \in Threads, stack[t] # <<>>,
         Top(t).code = "java" \/ (Top(t).code = "wrapper" /\ t \in Workers)
  PROVE  Len(stack[t]) > 1
<1>1. Len(stack[t]) > 0 /\ Len(stack[t]) \in Nat
  BY StackLength DEF AttachInv, Balanced
<1>2. ASSUME ~(Len(stack[t]) > 1) PROVE FALSE
  <2>1. Top(t) = stack[t][1]
    BY <1>1, <1>2 DEF Top
  <2> QED
    BY <1>1, <2>1 DEF AttachInv, Balanced
<1> QED
  BY <1>1, <1>2

LEMMA CallWrapperKeeps ==
  ASSUME AttachInv, NEW t \in Threads, NEW m, NEW null \in BOOLEAN,
         CallWrapper(t, m, null)
  PROVE  AttachInv'
<1> DEFINE f == [Frame("wrapper", Bridge(m), "check") EXCEPT !.null = null]
<1>1. NewFrame(f) /\ f.code = "wrapper"
  BY DEF NewFrame, IsFrame, Frame
<1>2. stack' = [stack EXCEPT ![t] = Append(@, f)] /\ UNCHANGED attached
  BY DEF CallWrapper
<1>3. /\ stack[t] # <<>> => Top(t).at # "enter"
      /\ stack[t] # <<>> \/ t \notin Workers
  BY DEF CallWrapper, InJava, Is
<1> HIDE DEF f
<1> QED
  BY <1>1, <1>2, <1>3, PushKeeps

LEMMA RejectNullKeeps ==
  ASSUME AttachInv, NEW t \in Threads, RejectNull(t)
  PROVE  AttachInv'
<1>1. stack[t] # <<>> /\ Top(t).at # "enter" /\ stack' = Goto(t, "zero")
      /\ UNCHANGED attached
  BY DEF RejectNull, Is
<1> QED
  BY <1>1, GotoKeeps

LEMMA CallFunctionKeeps ==
  ASSUME AttachInv, NEW t \in Threads, CallFunction(t)
  PROVE  AttachInv'
<1> DEFINE m == Top(t).method
<1>1. stack[t] # <<>> /\ Top(t).at # "enter" /\ UNCHANGED attached
  BY DEF CallFunction, Is
<1>2. \/ stack' = Goto(t, "running")
      \/ stack' = Goto(t, "done")
      \/ stack' = [Goto(t, "calling") EXCEPT ![t] = Append(@, Frame("upcall", m, "enter"))]
  BY DEF CallFunction
<1>3. CASE stack' = Goto(t, "running") \/ stack' = Goto(t, "done")
  BY <1>1, <1>3, GotoKeeps
<1>4. CASE stack' = [Goto(t, "calling") EXCEPT ![t] =
                       Append(@, Frame("upcall", m, "enter"))]
  <2> DEFINE f == [Top(t) EXCEPT !.at = "calling"]
             s == [stack[t] EXCEPT ![Len(stack[t])] = f]
             g == Frame("upcall", m, "enter")
  <2>1. stack' = [Goto(t, "calling") EXCEPT ![t] = Append(@, g)]
    BY <1>4
  <2>2. Goto(t, "calling") = [stack EXCEPT ![t] = s]
    BY DEF Goto, Top
  <2>3. stack' = [stack EXCEPT ![t] = Append(s, g)]
    BY <2>1, <2>2 DEF AttachInv
  <2>4. Len(stack[t]) > 0 /\ Len(stack[t]) \in Nat /\ stack[t] # <<>>
    BY <1>1, StackLength DEF AttachInv, Balanced
  <2>5. SameFrame(Top(t), f) /\ f.at = "calling"
    BY <2>4 DEF AttachInv, Balanced, Top, SameFrame, IsFrame
  <2>6. NewFrame(g)
    BY FrameIsNew
  <2> HIDE DEF f, g
  <2>7. Balanced(s, attached[t], t \in Workers)
    BY <1>1, <2>4, <2>5, Stepped DEF AttachInv, Top
  <2>8. Len(s) = Len(stack[t]) /\ s[Len(s)] = f
    BY <2>4, Changed DEF AttachInv, Balanced
  <2> HIDE DEF s
  <2>9. Balanced(Append(s, g), attached[t], t \in Workers)
    BY <2>4, <2>5, <2>6, <2>7, <2>8, Nested
  <2> QED
    BY <1>1, <2>3, <2>9, SameAttached
<1> QED
  BY <1>2, <1>3, <1>4

LEMMA BelowIsUnder ==
  ASSUME NEW t \in Threads
  PROVE  Below(t) = Under(stack[t])
  BY DEF Below, Under

(* The caller of a call that ends, at another place. *)
LEMMA CallerKeeps ==
  ASSUME AttachInv, NEW t \in Threads, NEW known, NEW f,
         stack[t] # <<>>, Below(t) # <<>>,
         Balanced(Below(t), known, t \in Workers),
         SameFrame(Below(t)[Len(Below(t))], f), f.at # "enter",
         stack' = [stack EXCEPT ![t] = [Below(t) EXCEPT ![Len(Below(t))] = f]],
         attached' = [attached EXCEPT ![t] = known]
  PROVE  AttachInv'
<1> DEFINE s == Below(t)
<1>1. Len(stack[t]) \in Nat \ {0}
  BY StackLength DEF AttachInv, Balanced
<1>2. Len(s) > 0 /\ Len(s) = Len(stack[t]) - 1
  BY <1>1, Popped, BelowIsUnder, StackLength DEF AttachInv, Balanced
<1>3. s[Len(s)] = stack[t][Len(s)] /\ Len(s) \in 1 .. Len(stack[t]) - 1
  BY <1>1, <1>2, Popped, BelowIsUnder DEF AttachInv, Balanced
<1>4. s[Len(s)].at # "enter"
  BY <1>3 DEF AttachInv, Balanced
<1> HIDE DEF s
<1>5. Balanced([s EXCEPT ![Len(s)] = f], known, t \in Workers)
  BY <1>2, <1>4, Stepped DEF s
<1> QED
  BY <1>5, OneThread DEF s

LEMMA ReturnToJavaKeeps ==
  ASSUME AttachInv, NEW t \in Threads, ReturnToJava(t)
  PROVE  AttachInv'
<1>1. stack[t] # <<>> /\ Top(t).code = "wrapper" /\ UNCHANGED attached
  BY DEF ReturnToJava, Is
<1>2. Len(stack[t]) > 1 \/ (t \notin Workers /\ Len(stack[t]) > 0)
  BY <1>1, NotOutermost, StackLength DEF AttachInv, Balanced
<1>3. Balanced(Below(t), attached[t], t \in Workers)
  BY <1>2, Back, BelowIsUnder DEF AttachInv
<1>4. CASE stack' = [stack EXCEPT ![t] = Below(t)]
  BY <1>1, <1>3, <1>4, SameAttached
<1>5. CASE /\ Below(t) # <<>>
           /\ stack' = [stack EXCEPT ![t] = [Below(t) EXCEPT ![Len(Below(t))].at = "raise"]]
  <2> DEFINE f == [Below(t)[Len(Below(t))] EXCEPT !.at = "raise"]
  <2>1. IsFrame(Below(t)[Len(Below(t))])
    BY <1>3, <1>5, StackLength DEF Balanced
  <2>2. SameFrame(Below(t)[Len(Below(t))], f) /\ f.at = "raise"
    BY <2>1 DEF SameFrame, IsFrame
  <2>3. stack' = [stack EXCEPT ![t] = [Below(t) EXCEPT ![Len(Below(t))] = f]]
    BY <1>5
  <2>4. attached' = [attached EXCEPT ![t] = attached[t]]
    BY <1>1 DEF AttachInv
  <2> HIDE DEF f
  <2> QED
    BY <1>1, <1>3, <1>5, <2>2, <2>3, <2>4, CallerKeeps
<1> QED
  BY <1>4, <1>5 DEF ReturnToJava

(* A Java body ends. *)
LEMMA BodyEnds ==
  ASSUME AttachInv, NEW t \in Threads, NEW place, place # "enter",
         stack[t] # <<>>, Top(t).code = "java",
         stack' = [stack EXCEPT ![t] = [Below(t) EXCEPT ![Len(Below(t))].at = place]],
         UNCHANGED attached
  PROVE  AttachInv'
<1> DEFINE f == [Below(t)[Len(Below(t))] EXCEPT !.at = place]
<1>1. Len(stack[t]) > 1
  BY NotOutermost
<1>2. Balanced(Below(t), attached[t], t \in Workers)
  BY <1>1, Back, BelowIsUnder DEF AttachInv
<1>3. Below(t) # <<>> /\ Len(Below(t)) \in Nat \ {0}
  BY <1>1, <1>2, Popped, BelowIsUnder, StackLength DEF AttachInv, Balanced
<1>4. IsFrame(Below(t)[Len(Below(t))])
  BY <1>2, <1>3 DEF Balanced
<1>5. SameFrame(Below(t)[Len(Below(t))], f) /\ f.at = place
  BY <1>4 DEF SameFrame, IsFrame
<1>6. stack' = [stack EXCEPT ![t] = [Below(t) EXCEPT ![Len(Below(t))] = f]]
  OBVIOUS
<1>7. attached' = [attached EXCEPT ![t] = attached[t]]
  BY DEF AttachInv
<1> HIDE DEF f
<1> QED
  BY <1>2, <1>3, <1>5, <1>6, <1>7, CallerKeeps

LEMMA JavaReturnsKeeps ==
  ASSUME AttachInv, NEW t \in Threads, JavaReturns(t)
  PROVE  AttachInv'
<1>1. PICK place \in {"value", "networks", "null"} :
        stack' = [stack EXCEPT ![t] = [Below(t) EXCEPT ![Len(Below(t))].at = place]]
  BY DEF JavaReturns
<1>2. stack[t] # <<>> /\ Top(t).code = "java" /\ UNCHANGED attached
  BY DEF JavaReturns, Is
<1> QED
  BY <1>1, <1>2, BodyEnds

LEMMA JavaThrowsKeeps ==
  ASSUME AttachInv, NEW t \in Threads, JavaThrows(t)
  PROVE  AttachInv'
<1>1. stack' = [stack EXCEPT ![t] = [Below(t) EXCEPT ![Len(Below(t))].at = "thrown"]]
      /\ stack[t] # <<>> /\ Top(t).code = "java" /\ UNCHANGED attached
  BY DEF JavaThrows, Is
<1> QED
  BY <1>1, BodyEnds

LEMMA CoreCallsKeeps ==
  ASSUME AttachInv, NEW t \in Threads, NEW m, CoreCalls(t, m)
  PROVE  AttachInv'
<1> DEFINE f == Frame("upcall", m, "enter")
<1>1. NewFrame(f) /\ f.code = "upcall" /\ f.at = "enter"
  BY FrameIsNew
<1>2. stack' = [stack EXCEPT ![t] = Append(@, f)] /\ UNCHANGED attached
  BY DEF CoreCalls
<1> HIDE DEF f
<1>3. CASE stack[t] # <<>>
  <2>1. Top(t).at # "enter"
    BY <1>3 DEF CoreCalls, InCore, Is
  <2> QED
    BY <1>1, <1>2, <1>3, <2>1, PushKeeps
<1>4. CASE stack[t] = <<>>
  <2>1. t \in Workers
    BY <1>4 DEF CoreCalls, InCore, Is
  <2>2. Balanced(stack[t], attached[t], TRUE) /\ ~(Len(stack[t]) > 0)
    BY <1>4, <2>1, StackLength DEF AttachInv, Balanced
  <2>3. Balanced(Append(stack[t], f), attached[t], TRUE)
    BY <1>1, <2>2, Outermost
  <2>4. Balanced(Append(stack[t], f), attached[t], t \in Workers)
    BY <2>1, <2>3 DEF Balanced
  <2> QED
    BY <1>2, <2>4, SameAttached
<1> QED
  BY <1>3, <1>4

LEMMA EnterUpcallKeeps ==
  ASSUME AttachInv, NEW t \in Threads, EnterUpcall(t)
  PROVE  AttachInv'
<1>1. PICK next \in {"self", "pure", "base"} :
        stack' = [stack EXCEPT ![t][Len(stack[t])] =
                    [@ EXCEPT !.at = next, !.attaches = ~attached[t]]]
  BY DEF EnterUpcall
<1> DEFINE f == [Top(t) EXCEPT !.at = next, !.attaches = ~attached[t]]
           s == [stack[t] EXCEPT ![Len(stack[t])] = f]
<1>2. Top(t).at = "enter" /\ Len(stack[t]) > 0 /\ Len(stack[t]) \in Nat
  BY StackLength DEF EnterUpcall, Is, AttachInv, Balanced
<1>3. IsFrame(Top(t))
  BY <1>2 DEF AttachInv, Balanced, Top
<1>4. IsFrame(f) /\ f.code = Top(t).code /\ f.at = next
  BY <1>3 DEF IsFrame
<1>5. f.attaches = ~attached[t]
  BY <1>3 DEF IsFrame
<1>6. stack' = [stack EXCEPT ![t] = s]
  BY <1>1 DEF Top
<1>7. attached' = [attached EXCEPT ![t] = TRUE]
  BY DEF EnterUpcall
<1> HIDE DEF f
<1>8. f.at # "enter" /\ (f.attaches <=> ~attached[t])
  BY <1>4, <1>5
<1>9. Balanced(s, TRUE, t \in Workers)
  BY <1>2, <1>4, <1>8, Entered DEF AttachInv, Top
<1> HIDE DEF s
<1> QED
  BY <1>6, <1>7, <1>9, OneThread

LEMMA CallJavaKeeps ==
  ASSUME AttachInv, NEW t \in Threads, CallJava(t)
  PROVE  AttachInv'
<1>1. stack[t] # <<>> /\ Top(t).at # "enter" /\ UNCHANGED attached
  BY DEF CallJava, Is
<1>2. CASE FindsProxy
  <2> DEFINE u == Upcalls[Top(t).method]
             f == [Top(t) EXCEPT !.at = "java", !.refs = 1 + Strings(u.args)]
             g == Frame("java", DirectorMethodId(u.slot), "body")
             s == Append(Below(t), f)
  <2>1. stack' = [stack EXCEPT ![t] = Append(s, g)]
    BY <1>2 DEF CallJava
  <2>2. Len(stack[t]) > 0 /\ Len(stack[t]) \in Nat /\ stack[t] # <<>>
    BY <1>1, StackLength DEF AttachInv, Balanced
  <2>3. IsFrame(Top(t))
    BY <2>2 DEF AttachInv, Balanced, Top
  <2>4. SameFrame(Top(t), f) /\ f.at = "java"
    BY <2>3 DEF SameFrame, IsFrame
  <2>5. NewFrame(g)
    BY FrameIsNew
  <2> HIDE DEF f, g
  <2>6. s = [stack[t] EXCEPT ![Len(stack[t])] = f]
    BY <2>2, Replaced, BelowIsUnder DEF AttachInv, Balanced
  <2> HIDE DEF s
  <2>7. Balanced(s, attached[t], t \in Workers)
    BY <1>1, <2>2, <2>4, <2>6, Stepped DEF AttachInv, Top
  <2>8. Len(s) = Len(stack[t]) /\ s[Len(s)] = f
    BY <2>2, <2>6, Changed DEF AttachInv, Balanced
  <2>9. Balanced(Append(s, g), attached[t], t \in Workers)
    BY <2>2, <2>4, <2>5, <2>7, <2>8, Nested
  <2> QED
    BY <1>1, <2>1, <2>9, SameAttached
<1>3. CASE ~FindsProxy
  <2>1. stack' = Goto(t, "default")
    BY <1>3 DEF CallJava
  <2> QED
    BY <1>1, <2>1, GotoKeeps
<1> QED
  BY <1>2, <1>3

LEMMA LeaveUpcallKeeps ==
  ASSUME AttachInv, NEW t \in Threads, LeaveUpcall(t)
  PROVE  AttachInv'
<1> DEFINE known == attached[t] /\ ~Top(t).attaches
           at == Top(t).at
           n == Len(Below(t))
<1>1. stack[t] # <<>> /\ Top(t).at # "enter"
  BY DEF LeaveUpcall, Is
<1>2. Len(stack[t]) > 0 /\ Len(stack[t]) \in Nat
  BY <1>1, StackLength DEF AttachInv, Balanced
<1>3. attached' = [attached EXCEPT ![t] = known]
  BY DEF LeaveUpcall, Detach
<1>4. Balanced(Below(t), known, t \in Workers)
  BY <1>1, <1>2, Detached, BelowIsUnder DEF AttachInv, Top
<1>5. n \in Nat /\ (Below(t) = <<>> <=> n = 0)
  BY <1>4, StackLength DEF Balanced
<1>6. CASE n = 0
  <2>1. stack' = [stack EXCEPT ![t] = <<>>]
    BY <1>6 DEF LeaveUpcall
  <2>2. Below(t) = <<>>
    BY <1>5, <1>6
  <2> HIDE DEF known
  <2>3. Balanced(<<>>, known, t \in Workers)
    BY <1>4, <2>2
  <2> QED
    BY <1>3, <2>1, <2>3, OneThread
<1>7. CASE n # 0
  <2> DEFINE c == Below(t)[n]
             f == [c EXCEPT !.at = Resumed(c.at, at), !.refs = c.refs + Leaked(at)]
  <2>1. stack' = [stack EXCEPT ![t] = [Below(t) EXCEPT ![n] = f]]
    <3>1. stack' = [stack EXCEPT ![t] = IF n = 0 THEN <<>> ELSE [Below(t) EXCEPT ![n] = f]]
      BY DEF LeaveUpcall
    <3> QED
      BY <1>7, <3>1, Zenon
  <2>2. IsFrame(c)
    BY <1>4, <1>5, <1>7 DEF Balanced
  <2>3. c.at # "enter"
    <3>1. c = stack[t][n] /\ n \in 1 .. Len(stack[t]) - 1
      BY <1>1, <1>2, <1>5, <1>7, Popped, BelowIsUnder DEF AttachInv, Balanced
    <3> QED
      BY <3>1 DEF AttachInv, Balanced
  <2>4. Resumed(c.at, at) # "enter"
    BY <2>3 DEF Resumed
  <2>5. SameFrame(c, f) /\ f.at # "enter"
    BY <2>2, <2>4 DEF SameFrame, IsFrame
  <2> HIDE DEF known, f
  <2> QED
    BY <1>1, <1>3, <1>4, <1>5, <1>7, <2>1, <2>5, CallerKeeps
<1> QED
  BY <1>6, <1>7

-----------------------------------------------------------------------------
LEMMA InitAttachInv ==
  ASSUME Init
  PROVE  AttachInv
<1>1. /\ stack = [t \in Threads |-> <<>>]
      /\ attached = [t \in Threads |-> t \notin Workers]
  BY DEF Init, DirectorInit
<1>2. <<>> \in Seq({})
  OBVIOUS
<1>3. IsStack(<<>>) /\ ~(Len(<<>>) > 0) /\ Len(<<>>) \in Nat
  BY <1>2 DEF IsStack
<1>4. ASSUME NEW t \in Threads
      PROVE  Balanced(stack[t], attached[t], t \in Workers)
  <2>1. stack[t] = <<>> /\ attached[t] \in BOOLEAN /\ (attached[t] <=> t \notin Workers)
    BY <1>1
  <2>2. \A i \in 1 .. Len(<<>>) : FALSE
    BY <1>3
  <2>3. \A i \in 1 .. Len(<<>>) - 1 : FALSE
    BY <1>3
  <2>4. Balanced(<<>>, attached[t], t \in Workers)
    BY <1>3, <2>1, <2>2, <2>3 DEF Balanced
  <2> QED
    BY <2>1, <2>4
<1> QED
  BY <1>1, <1>4 DEF AttachInv

LEMMA StutterAttachInv ==
  ASSUME AttachInv, UNCHANGED <<stack, attached>>
  PROVE  AttachInv'
  BY DEF AttachInv

LEMMA NextAttachInv ==
  ASSUME AttachInv, [Next]_vars
  PROVE  AttachInv'
<1>1. CASE UNCHANGED vars \/ ProxyLife
  BY <1>1, StutterAttachInv DEF vars, directorVars, ProxyLife
<1>2. ASSUME NEW t \in Threads, JavaStep(t) PROVE AttachInv'
  BY <1>2, CallWrapperKeeps, RejectNullKeeps, CallFunctionKeeps, ReturnToJavaKeeps,
     JavaReturnsKeeps, JavaThrowsKeeps DEF JavaStep
<1>3. ASSUME NEW t \in Threads, CoreStep(t) PROVE AttachInv'
  <2>1. CASE \E m \in CoreMethods : CoreCalls(t, m)
    BY <2>1, CoreCallsKeeps
  <2>2. CASE CoreEnds(t)
    BY <2>2, GotoKeeps DEF CoreEnds, Is
  <2>3. CASE EnterUpcall(t)
    BY <2>3, EnterUpcallKeeps
  <2>4. CASE CallBase(t)
    BY <2>4, GotoKeeps DEF CallBase, Is
  <2>5. CASE RejectPure(t)
    BY <2>5, GotoKeeps DEF RejectPure, Is
  <2>6. CASE CallJava(t)
    BY <2>6, CallJavaKeeps
  <2>7. CASE FinalizeNetworks(t)
    BY <2>7, GotoKeeps DEF FinalizeNetworks, Is
  <2>8. CASE LeaveUpcall(t)
    BY <2>8, LeaveUpcallKeeps
  <2> QED
    BY <1>3, <2>1, <2>2, <2>3, <2>4, <2>5, <2>6, <2>7, <2>8 DEF CoreStep
<1> QED
  BY <1>1, <1>2, <1>3 DEF Next

(* AttachBalanced: whatever the depth of its calls, a thread of Java stays *)
(* attached, a thread of the core is attached while it may run Java and    *)
(* detached when it is back in the core.                                   *)
THEOREM ThreadsStayAttached == Spec => []AttachBalanced
<1>1. AttachInv => AttachBalanced
  <2> SUFFICES ASSUME AttachInv, NEW t \in Threads
               PROVE  /\ attached[t] <=> t \notin Workers \/ \E f \in Frames(t) : f.attaches
                      /\ (\E f \in Frames(t) : f.code = "java") => attached[t]
    BY DEF AttachBalanced
  <2>1. Balanced(stack[t], attached[t], t \in Workers)
    BY DEF AttachInv
  <2>2. Len(stack[t]) \in Nat /\ DOMAIN stack[t] = 1 .. Len(stack[t])
    <3>1. PICK S : stack[t] \in Seq(S)
      BY <2>1 DEF Balanced, IsStack
    <3> QED
      BY <3>1
  <2>3. CASE t \notin Workers
    BY <2>1, <2>3 DEF Balanced
  <2>4. CASE t \in Workers
    <3>1. ASSUME attached[t] PROVE \E f \in Frames(t) : f.attaches
      <4>1. Len(stack[t]) > 0
        BY <2>1, <2>4, <3>1 DEF Balanced
      <4>2. 1 \in DOMAIN stack[t] /\ stack[t][1].attaches
        BY <2>1, <2>2, <2>4, <3>1, <4>1 DEF Balanced
      <4> QED
        BY <4>2 DEF Frames
    <3>2. ASSUME NEW f \in Frames(t), f.attaches PROVE attached[t]
      BY <2>1, <2>2, <2>4, <3>2 DEF Balanced, Frames
    <3>3. ASSUME NEW f \in Frames(t), f.code = "java" PROVE attached[t]
      <4>1. PICK i \in 1 .. Len(stack[t]) : f = stack[t][i]
        BY <2>2 DEF Frames
      <4>2. i # 1
        BY <2>1, <2>2, <3>3, <4>1 DEF Balanced
      <4>3. Len(stack[t]) > 1
        BY <2>2, <4>1, <4>2
      <4> QED
        BY <2>1, <2>2, <2>4, <4>3 DEF Balanced
    <3> QED
      BY <2>4, <3>1, <3>2, <3>3
  <2> QED
    BY <2>3, <2>4
<1> QED
  BY InitAttachInv, NextAttachInv, <1>1, PTL DEF Spec

-----------------------------------------------------------------------------
(* The tables.                                                             *)

(* The method of a director is the one of its slot in both tables of the   *)
(* Java VM, with the arguments the director passes.                        *)
OwnSlot(m, u) ==
  /\ OverrideMethods[u.slot + 1][1] = m
  /\ DirectorMethods[u.slot + 1] =
       <<m, [i \in DOMAIN u.args |-> JniType(u.args[i])], JniType(u.result)>>

OwnSlots(table) == \A m \in DOMAIN table : OwnSlot(m, table[m])

LEMMA OwnSlotsJoin ==
  ASSUME NEW f, NEW g, OwnSlots(f), OwnSlots(g)
  PROVE  OwnSlots(f ++ g)
  BY DEF OwnSlots, ++

LEMMA JniTypes ==
  /\ JniType("bool") = "Z" /\ JniType("int") = "I" /\ JniType("string") = "String"
  /\ JniType("void") = "V" /\ JniType("unsigned") = "J" /\ JniType("reference") = "J"
  /\ JniType("vector") = "J"
  BY DEF JniType

(* The types of the arguments, one by one. *)
LEMMA NoArguments == [i \in DOMAIN <<>> |-> JniType(<<>>[i])] = <<>>
  OBVIOUS

LEMMA OneArgument ==
  ASSUME NEW a
  PROVE  [i \in DOMAIN <<a>> |-> JniType(<<a>>[i])] = <<JniType(a)>>
  OBVIOUS

LEMMA TwoArguments ==
  ASSUME NEW a, NEW b
  PROVE  [i \in DOMAIN <<a, b>> |-> JniType(<<a, b>>[i])] = <<JniType(a), JniType(b)>>
  OBVIOUS

LEMMA ThreeArguments ==
  ASSUME NEW a, NEW b, NEW c
  PROVE  [i \in DOMAIN <<a, b, c>> |-> JniType(<<a, b, c>>[i])]
           = <<JniType(a), JniType(b), JniType(c)>>
  OBVIOUS

LEMMA FourArguments ==
  ASSUME NEW a, NEW b, NEW c, NEW d
  PROVE  [i \in DOMAIN <<a, b, c, d>> |-> JniType(<<a, b, c, d>>[i])]
           = <<JniType(a), JniType(b), JniType(c), JniType(d)>>
  OBVIOUS

LEMMA FiveArguments ==
  ASSUME NEW a, NEW b, NEW c, NEW d, NEW e
  PROVE  [i \in DOMAIN <<a, b, c, d, e>> |-> JniType(<<a, b, c, d, e>>[i])]
           = <<JniType(a), JniType(b), JniType(c), JniType(d), JniType(e)>>
  OBVIOUS

LEMMA AddressSlots == OwnSlots(AddressUpcalls)
<1>1. /\ OverrideMethods[1][1] = "tun_builder_new"
      /\ OverrideMethods[2][1] = "tun_builder_set_layer"
      /\ OverrideMethods[3][1] = "tun_builder_set_remote_address"
      /\ OverrideMethods[4][1] = "tun_builder_add_address"
  BY DEF OverrideMethods
<1>2. /\ DirectorMethods[1] = <<"tun_builder_new", <<>>, "Z">>
      /\ DirectorMethods[2] = <<"tun_builder_set_layer", <<"I">>, "Z">>
      /\ DirectorMethods[3] = <<"tun_builder_set_remote_address", <<"String", "Z">>, "Z">>
      /\ DirectorMethods[4] =
           <<"tun_builder_add_address", <<"String", "I", "String", "Z", "Z">>, "Z">>
  BY DEF DirectorMethods
<1>3. OwnSlot("tun_builder_new", Virtual(0, <<>>, "bool"))
  BY <1>1, <1>2, NoArguments, JniTypes DEF OwnSlot, Virtual
<1>4. OwnSlot("tun_builder_set_layer", Virtual(1, <<"int">>, "bool"))
  BY <1>1, <1>2, OneArgument, JniTypes DEF OwnSlot, Virtual
<1>5. OwnSlot("tun_builder_set_remote_address",
              Virtual(2, <<"string", "bool">>, "bool"))
  BY <1>1, <1>2, TwoArguments, JniTypes DEF OwnSlot, Virtual
<1>6. OwnSlot("tun_builder_add_address",
              Virtual(3, <<"string", "int", "string", "bool", "bool">>, "bool"))
  BY <1>1, <1>2, FiveArguments, JniTypes DEF OwnSlot, Virtual
<1> QED
  BY <1>3, <1>4, <1>5, <1>6 DEF OwnSlots, AddressUpcalls

LEMMA RouteSlots == OwnSlots(RouteUpcalls)
<1>1. /\ OverrideMethods[5][1] = "tun_builder_set_route_metric_default"
      /\ OverrideMethods[6][1] = "tun_builder_reroute_gw"
      /\ OverrideMethods[7][1] = "tun_builder_add_route"
      /\ OverrideMethods[8][1] = "tun_builder_exclude_route"
  BY DEF OverrideMethods
<1>2. /\ DirectorMethods[5] = <<"tun_builder_set_route_metric_default", <<"I">>, "Z">>
      /\ DirectorMethods[6] = <<"tun_builder_reroute_gw", <<"Z", "Z", "J">>, "Z">>
      /\ DirectorMethods[7] = <<"tun_builder_add_route", <<"String", "I", "I", "Z">>, "Z">>
      /\ DirectorMethods[8] = <<"tun_builder_exclude_route", <<"String", "I", "I", "Z">>, "Z">>
  BY DEF DirectorMethods
<1>3. OwnSlot("tun_builder_set_route_metric_default",
              Virtual(4, <<"int">>, "bool"))
  BY <1>1, <1>2, OneArgument, JniTypes DEF OwnSlot, Virtual
<1>4. OwnSlot("tun_builder_reroute_gw",
              Virtual(5, <<"bool", "bool", "unsigned">>, "bool"))
  BY <1>1, <1>2, ThreeArguments, JniTypes DEF OwnSlot, Virtual
<1>5. OwnSlot("tun_builder_add_route",
              Virtual(6, <<"string", "int", "int", "bool">>, "bool"))
  BY <1>1, <1>2, FourArguments, JniTypes DEF OwnSlot, Virtual
<1>6. OwnSlot("tun_builder_exclude_route",
              Virtual(7, <<"string", "int", "int", "bool">>, "bool"))
  BY <1>1, <1>2, FourArguments, JniTypes DEF OwnSlot, Virtual
<1> QED
  BY <1>3, <1>4, <1>5, <1>6 DEF OwnSlots, RouteUpcalls

LEMMA NameSlots == OwnSlots(NameUpcalls)
<1>1. /\ OverrideMethods[9][1] = "tun_builder_add_dns_server"
      /\ OverrideMethods[10][1] = "tun_builder_add_search_domain"
      /\ OverrideMethods[11][1] = "tun_builder_set_mtu"
      /\ OverrideMethods[12][1] = "tun_builder_set_session_name"
  BY DEF OverrideMethods
<1>2. /\ DirectorMethods[9] = <<"tun_builder_add_dns_server", <<"String", "Z">>, "Z">>
      /\ DirectorMethods[10] = <<"tun_builder_add_search_domain", <<"String">>, "Z">>
      /\ DirectorMethods[11] = <<"tun_builder_set_mtu", <<"I">>, "Z">>
      /\ DirectorMethods[12] = <<"tun_builder_set_session_name", <<"String">>, "Z">>
  BY DEF DirectorMethods
<1>3. OwnSlot("tun_builder_add_dns_server",
              Virtual(8, <<"string", "bool">>, "bool"))
  BY <1>1, <1>2, TwoArguments, JniTypes DEF OwnSlot, Virtual
<1>4. OwnSlot("tun_builder_add_search_domain",
              Virtual(9, <<"string">>, "bool"))
  BY <1>1, <1>2, OneArgument, JniTypes DEF OwnSlot, Virtual
<1>5. OwnSlot("tun_builder_set_mtu", Virtual(10, <<"int">>, "bool"))
  BY <1>1, <1>2, OneArgument, JniTypes DEF OwnSlot, Virtual
<1>6. OwnSlot("tun_builder_set_session_name",
              Virtual(11, <<"string">>, "bool"))
  BY <1>1, <1>2, OneArgument, JniTypes DEF OwnSlot, Virtual
<1> QED
  BY <1>3, <1>4, <1>5, <1>6 DEF OwnSlots, NameUpcalls

LEMMA ProxySlots == OwnSlots(ProxyUpcalls)
<1>1. /\ OverrideMethods[13][1] = "tun_builder_add_proxy_bypass"
      /\ OverrideMethods[14][1] = "tun_builder_set_proxy_auto_config_url"
      /\ OverrideMethods[15][1] = "tun_builder_set_proxy_http"
      /\ OverrideMethods[16][1] = "tun_builder_set_proxy_https"
  BY DEF OverrideMethods
<1>2. /\ DirectorMethods[13] = <<"tun_builder_add_proxy_bypass", <<"String">>, "Z">>
      /\ DirectorMethods[14] = <<"tun_builder_set_proxy_auto_config_url", <<"String">>, "Z">>
      /\ DirectorMethods[15] = <<"tun_builder_set_proxy_http", <<"String", "I">>, "Z">>
      /\ DirectorMethods[16] = <<"tun_builder_set_proxy_https", <<"String", "I">>, "Z">>
  BY DEF DirectorMethods
<1>3. OwnSlot("tun_builder_add_proxy_bypass",
              Virtual(12, <<"string">>, "bool"))
  BY <1>1, <1>2, OneArgument, JniTypes DEF OwnSlot, Virtual
<1>4. OwnSlot("tun_builder_set_proxy_auto_config_url",
              Virtual(13, <<"string">>, "bool"))
  BY <1>1, <1>2, OneArgument, JniTypes DEF OwnSlot, Virtual
<1>5. OwnSlot("tun_builder_set_proxy_http",
              Virtual(14, <<"string", "int">>, "bool"))
  BY <1>1, <1>2, TwoArguments, JniTypes DEF OwnSlot, Virtual
<1>6. OwnSlot("tun_builder_set_proxy_https",
              Virtual(15, <<"string", "int">>, "bool"))
  BY <1>1, <1>2, TwoArguments, JniTypes DEF OwnSlot, Virtual
<1> QED
  BY <1>3, <1>4, <1>5, <1>6 DEF OwnSlots, ProxyUpcalls

LEMMA SuffixSlots == OwnSlots(SuffixUpcalls)
<1>1. /\ OverrideMethods[17][1] = "tun_builder_add_wins_server"
      /\ OverrideMethods[18][1] = "tun_builder_set_block_ipv6"
      /\ OverrideMethods[19][1] = "tun_builder_set_adapter_domain_suffix"
  BY DEF OverrideMethods
<1>2. /\ DirectorMethods[17] = <<"tun_builder_add_wins_server", <<"String">>, "Z">>
      /\ DirectorMethods[18] = <<"tun_builder_set_block_ipv6", <<"Z">>, "Z">>
      /\ DirectorMethods[19] = <<"tun_builder_set_adapter_domain_suffix", <<"String">>, "Z">>
  BY DEF DirectorMethods
<1>3. OwnSlot("tun_builder_add_wins_server", Virtual(16, <<"string">>, "bool"))
  BY <1>1, <1>2, OneArgument, JniTypes DEF OwnSlot, Virtual
<1>4. OwnSlot("tun_builder_set_block_ipv6", Virtual(17, <<"bool">>, "bool"))
  BY <1>1, <1>2, OneArgument, JniTypes DEF OwnSlot, Virtual
<1>5. OwnSlot("tun_builder_set_adapter_domain_suffix",
              Virtual(18, <<"string">>, "bool"))
  BY <1>1, <1>2, OneArgument, JniTypes DEF OwnSlot, Virtual
<1> QED
  BY <1>3, <1>4, <1>5 DEF OwnSlots, SuffixUpcalls

LEMMA EstablishSlots == OwnSlots(EstablishUpcalls)
<1>1. /\ OverrideMethods[20][1] = "tun_builder_establish"
      /\ OverrideMethods[21][1] = "tun_builder_persist"
      /\ OverrideMethods[22][1] = "tun_builder_get_local_networks"
  BY DEF OverrideMethods
<1>2. /\ DirectorMethods[20] = <<"tun_builder_establish", <<>>, "I">>
      /\ DirectorMethods[21] = <<"tun_builder_persist", <<>>, "Z">>
      /\ DirectorMethods[22] = <<"tun_builder_get_local_networks", <<"Z">>, "J">>
  BY DEF DirectorMethods
<1>3. OwnSlot("tun_builder_establish", Virtual(19, <<>>, "int"))
  BY <1>1, <1>2, NoArguments, JniTypes DEF OwnSlot, Virtual
<1>4. OwnSlot("tun_builder_persist", Virtual(20, <<>>, "bool"))
  BY <1>1, <1>2, NoArguments, JniTypes DEF OwnSlot, Virtual
<1>5. OwnSlot("tun_builder_get_local_networks",
              Virtual(21, <<"bool">>, "vector"))
  BY <1>1, <1>2, OneArgument, JniTypes DEF OwnSlot, Virtual
<1> QED
  BY <1>3, <1>4, <1>5 DEF OwnSlots, EstablishUpcalls

LEMMA TeardownSlots == OwnSlots(TeardownUpcalls)
<1>1. /\ OverrideMethods[23][1] = "tun_builder_establish_lite"
      /\ OverrideMethods[24][1] = "tun_builder_teardown"
  BY DEF OverrideMethods
<1>2. /\ DirectorMethods[23] = <<"tun_builder_establish_lite", <<>>, "V">>
      /\ DirectorMethods[24] = <<"tun_builder_teardown", <<"Z">>, "V">>
  BY DEF DirectorMethods
<1>3. OwnSlot("tun_builder_establish_lite", Virtual(22, <<>>, "void"))
  BY <1>1, <1>2, NoArguments, JniTypes DEF OwnSlot, Virtual
<1>4. OwnSlot("tun_builder_teardown", Virtual(23, <<"bool">>, "void"))
  BY <1>1, <1>2, OneArgument, JniTypes DEF OwnSlot, Virtual
<1> QED
  BY <1>3, <1>4 DEF OwnSlots, TeardownUpcalls

LEMMA ClientSlots == OwnSlots(ClientUpcalls)
<1>1. /\ OverrideMethods[25][1] = "socket_protect"
      /\ OverrideMethods[26][1] = "pause_on_connection_timeout"
  BY DEF OverrideMethods
<1>2. /\ DirectorMethods[25] = <<"socket_protect", <<"I", "String", "Z">>, "Z">>
      /\ DirectorMethods[26] = <<"pause_on_connection_timeout", <<>>, "Z">>
  BY DEF DirectorMethods
<1>3. OwnSlot("socket_protect",
              PureVirtual(24, <<"int", "string", "bool">>, "bool"))
  BY <1>1, <1>2, ThreeArguments, JniTypes DEF OwnSlot, PureVirtual
<1>4. OwnSlot("pause_on_connection_timeout", PureVirtual(25, <<>>, "bool"))
  BY <1>1, <1>2, NoArguments, JniTypes DEF OwnSlot, PureVirtual
<1> QED
  BY <1>3, <1>4 DEF OwnSlots, ClientUpcalls

LEMMA EventSlots == OwnSlots(EventUpcalls)
<1>1. /\ OverrideMethods[27][1] = "event"
      /\ OverrideMethods[28][1] = "log"
      /\ OverrideMethods[29][1] = "external_pki_cert_request"
      /\ OverrideMethods[30][1] = "external_pki_sign_request"
  BY DEF OverrideMethods
<1>2. /\ DirectorMethods[27] = <<"event", <<"J">>, "V">>
      /\ DirectorMethods[28] = <<"log", <<"J">>, "V">>
      /\ DirectorMethods[29] = <<"external_pki_cert_request", <<"J">>, "V">>
      /\ DirectorMethods[30] = <<"external_pki_sign_request", <<"J">>, "V">>
  BY DEF DirectorMethods
<1>3. OwnSlot("event", PureVirtual(26, <<"reference">>, "void"))
  BY <1>1, <1>2, OneArgument, JniTypes DEF OwnSlot, PureVirtual
<1>4. OwnSlot("log", PureVirtual(27, <<"reference">>, "void"))
  BY <1>1, <1>2, OneArgument, JniTypes DEF OwnSlot, PureVirtual
<1>5. OwnSlot("external_pki_cert_request",
              PureVirtual(28, <<"reference">>, "void"))
  BY <1>1, <1>2, OneArgument, JniTypes DEF OwnSlot, PureVirtual
<1>6. OwnSlot("external_pki_sign_request",
              PureVirtual(29, <<"reference">>, "void"))
  BY <1>1, <1>2, OneArgument, JniTypes DEF OwnSlot, PureVirtual
<1> QED
  BY <1>3, <1>4, <1>5, <1>6 DEF OwnSlots, EventUpcalls

LEMMA OverrideSlots == OwnSlots(OverrideUpcalls)
<1>1. /\ OverrideMethods[31][1] = "remote_override_enabled"
      /\ OverrideMethods[32][1] = "remote_override"
      /\ OverrideMethods[33][1] = "clock_tick"
  BY DEF OverrideMethods
<1>2. /\ DirectorMethods[31] = <<"remote_override_enabled", <<>>, "Z">>
      /\ DirectorMethods[32] = <<"remote_override", <<"J">>, "V">>
      /\ DirectorMethods[33] = <<"clock_tick", <<>>, "V">>
  BY DEF DirectorMethods
<1>3. OwnSlot("remote_override_enabled", Virtual(30, <<>>, "bool"))
  BY <1>1, <1>2, NoArguments, JniTypes DEF OwnSlot, Virtual
<1>4. OwnSlot("remote_override", Virtual(31, <<"reference">>, "void"))
  BY <1>1, <1>2, OneArgument, JniTypes DEF OwnSlot, Virtual
<1>5. OwnSlot("clock_tick", Virtual(32, <<>>, "void"))
  BY <1>1, <1>2, NoArguments, JniTypes DEF OwnSlot, Virtual
<1> QED
  BY <1>3, <1>4, <1>5 DEF OwnSlots, OverrideUpcalls

LEMMA EverySlot == OwnSlots(Upcalls)
  BY AddressSlots, RouteSlots, NameSlots, ProxySlots, SuffixSlots, EstablishSlots,
     TeardownSlots, ClientSlots, EventSlots, OverrideSlots, OwnSlotsJoin DEF Upcalls

-----------------------------------------------------------------------------
(* The methods that C++ may call: every part of the table has only these.  *)
UpcallName ==
  {"tun_builder_new", "tun_builder_set_layer",
   "tun_builder_set_remote_address", "tun_builder_add_address",
   "tun_builder_set_route_metric_default", "tun_builder_reroute_gw",
   "tun_builder_add_route", "tun_builder_exclude_route",
   "tun_builder_add_dns_server", "tun_builder_add_search_domain",
   "tun_builder_set_mtu", "tun_builder_set_session_name",
   "tun_builder_add_proxy_bypass", "tun_builder_set_proxy_auto_config_url",
   "tun_builder_set_proxy_http", "tun_builder_set_proxy_https",
   "tun_builder_add_wins_server", "tun_builder_set_block_ipv6",
   "tun_builder_set_adapter_domain_suffix", "tun_builder_establish",
   "tun_builder_persist", "tun_builder_get_local_networks",
   "tun_builder_establish_lite", "tun_builder_teardown", "socket_protect",
   "pause_on_connection_timeout", "event", "log",
   "external_pki_cert_request", "external_pki_sign_request",
   "remote_override_enabled", "remote_override", "clock_tick"}

OnlyUpcalls(table) == \A m \in DOMAIN table : m \in UpcallName

LEMMA OnlyUpcallsJoin ==
  ASSUME NEW f, NEW g, OnlyUpcalls(f), OnlyUpcalls(g)
  PROVE  OnlyUpcalls(f ++ g)
  BY DEF OnlyUpcalls, ++

LEMMA UpcallNames == OnlyUpcalls(Upcalls)
<1>1. OnlyUpcalls(AddressUpcalls)
  BY DEF OnlyUpcalls, UpcallName, AddressUpcalls
<1>2. OnlyUpcalls(RouteUpcalls)
  BY DEF OnlyUpcalls, UpcallName, RouteUpcalls
<1>3. OnlyUpcalls(NameUpcalls)
  BY DEF OnlyUpcalls, UpcallName, NameUpcalls
<1>4. OnlyUpcalls(ProxyUpcalls)
  BY DEF OnlyUpcalls, UpcallName, ProxyUpcalls
<1>5. OnlyUpcalls(SuffixUpcalls)
  BY DEF OnlyUpcalls, UpcallName, SuffixUpcalls
<1>6. OnlyUpcalls(EstablishUpcalls)
  BY DEF OnlyUpcalls, UpcallName, EstablishUpcalls
<1>7. OnlyUpcalls(TeardownUpcalls)
  BY DEF OnlyUpcalls, UpcallName, TeardownUpcalls
<1>8. OnlyUpcalls(ClientUpcalls)
  BY DEF OnlyUpcalls, UpcallName, ClientUpcalls
<1>9. OnlyUpcalls(EventUpcalls)
  BY DEF OnlyUpcalls, UpcallName, EventUpcalls
<1>10. OnlyUpcalls(OverrideUpcalls)
  BY DEF OnlyUpcalls, UpcallName, OverrideUpcalls
<1> QED
  BY <1>1, <1>2, <1>3, <1>4, <1>5, <1>6, <1>7, <1>8, <1>9, <1>10,
     OnlyUpcallsJoin DEF Upcalls

(* None of them is static for Java. *)
NoStatic(table) == \A m \in DOMAIN table : table[m].static => m \notin DOMAIN Upcalls

LEMMA NoStaticJoin ==
  ASSUME NEW f, NEW g, NoStatic(f), NoStatic(g)
  PROVE  NoStatic(f ++ g)
  BY DEF NoStatic, ++

LEMMA NoUpcallIsStatic == NoStatic(Wrappers)
<1>1. NoStatic(AddressWrappers)
  BY DEF NoStatic, AddressWrappers, Method
<1>2. NoStatic(RouteWrappers)
  BY DEF NoStatic, RouteWrappers, Method
<1>3. NoStatic(ProxyWrappers)
  BY DEF NoStatic, ProxyWrappers, Method
<1>4. NoStatic(EstablishWrappers)
  BY DEF NoStatic, EstablishWrappers, Method
<1>5. NoStatic(ProcessWrappers)
  BY UpcallNames DEF OnlyUpcalls, UpcallName, NoStatic, ProcessWrappers, Function
<1>6. NoStatic(SessionWrappers)
  BY DEF NoStatic, SessionWrappers, Method
<1>7. NoStatic(StatisticsWrappers)
  BY UpcallNames
     DEF OnlyUpcalls, UpcallName, NoStatic, StatisticsWrappers, Function, Method
<1>8. NoStatic(EventWrappers)
  BY DEF NoStatic, EventWrappers, Method
<1>9. NoStatic(OverrideWrappers)
  BY UpcallNames DEF OnlyUpcalls, UpcallName, NoStatic, OverrideWrappers, Function, Method
<1> QED
  BY <1>1, <1>2, <1>3, <1>4, <1>5, <1>6, <1>7, <1>8, <1>9,
     NoStaticJoin DEF Wrappers

(* connect() is a method of the object, and no callback. *)
LEMMA ConnectIsMethod ==
  /\ "connect" \in DOMAIN Wrappers /\ ~Wrappers["connect"].static
  /\ "connect" \notin DOMAIN Upcalls
<1>1. "connect" \notin DOMAIN Upcalls
  BY UpcallNames DEF OnlyUpcalls, UpcallName
<1>2. /\ "connect" \in DOMAIN SessionWrappers
      /\ ~SessionWrappers["connect"].static
  BY DEF SessionWrappers, Method
<1>3. /\ "connect" \notin DOMAIN AddressWrappers /\ "connect" \notin DOMAIN RouteWrappers
      /\ "connect" \notin DOMAIN ProxyWrappers /\ "connect" \notin DOMAIN EstablishWrappers
      /\ "connect" \notin DOMAIN ProcessWrappers
  BY DEF AddressWrappers, RouteWrappers, ProxyWrappers, EstablishWrappers, ProcessWrappers
<1>4. "connect" \in DOMAIN Wrappers /\ Wrappers["connect"] = SessionWrappers["connect"]
  BY <1>2, <1>3 DEF Wrappers, ++
<1> QED
  BY <1>1, <1>2, <1>4

LEMMA BridgeIsMethod ==
  ASSUME NEW m \in DOMAIN Wrappers
  PROVE  Bridge(m) \in DOMAIN Wrappers
<1>1. \A k \in DOMAIN Explicit : Explicit[k] \in DOMAIN OverrideWrappers
  BY DEF Explicit, OverrideWrappers
<1>2. DOMAIN OverrideWrappers \subseteq DOMAIN Wrappers
  BY DEF Wrappers, ++
<1> QED
  BY <1>1, <1>2 DEF Bridge

-----------------------------------------------------------------------------
(* What a step does to the stack of its thread.                            *)

IsPush(s, s2, g) ==
  /\ IsStack(s2) /\ Len(s2) = Len(s) + 1
  /\ \A i \in 1 .. Len(s) : s2[i] = s[i]
  /\ s2[Len(s) + 1] = g

IsCall(s, s2, f, g) ==
  /\ Len(s) > 0 /\ IsStack(s2) /\ Len(s2) = Len(s) + 1
  /\ \A i \in 1 .. Len(s) - 1 : s2[i] = s[i]
  /\ s2[Len(s)] = f /\ s2[Len(s) + 1] = g

IsMove(s, s2, f) ==
  /\ Len(s) > 0 /\ IsStack(s2) /\ Len(s2) = Len(s)
  /\ \A i \in 1 .. Len(s) - 1 : s2[i] = s[i]
  /\ s2[Len(s)] = f

IsPop(s, s2) ==
  /\ Len(s) > 0 /\ IsStack(s2) /\ Len(s2) = Len(s) - 1
  /\ \A i \in 1 .. Len(s) - 1 : s2[i] = s[i]

IsEnd(s, s2, f) ==
  /\ Len(s) > 1 /\ IsStack(s2) /\ Len(s2) = Len(s) - 1
  /\ \A i \in 1 .. Len(s) - 2 : s2[i] = s[i]
  /\ s2[Len(s) - 1] = f

LEMMA PushForm ==
  ASSUME NEW s, NEW g, IsStack(s)
  PROVE  IsPush(s, Append(s, g), g)
  BY Pushed DEF IsPush

LEMMA MoveForm ==
  ASSUME NEW s, NEW f, IsStack(s), s # <<>>
  PROVE  IsMove(s, [s EXCEPT ![Len(s)] = f], f)
  BY Changed, StackLength DEF IsMove

LEMMA CallForm ==
  ASSUME NEW s, NEW f, NEW g, IsStack(s), s # <<>>
  PROVE  IsCall(s, Append([s EXCEPT ![Len(s)] = f], g), f, g)
<1> DEFINE c == [s EXCEPT ![Len(s)] = f]
<1>1. IsMove(s, c, f)
  BY MoveForm
<1> HIDE DEF c
<1>2. IsPush(c, Append(c, g), g)
  BY <1>1, PushForm DEF IsMove
<1>3. Len(s) \in Nat
  BY StackLength
<1>4. IsCall(s, Append(c, g), f, g)
  BY <1>1, <1>2, <1>3 DEF IsMove, IsPush, IsCall
<1> QED
  BY <1>4 DEF c

LEMMA PopForm ==
  ASSUME NEW s, IsStack(s), s # <<>>
  PROVE  IsPop(s, Under(s))
  BY Popped, StackLength DEF IsPop

LEMMA EndForm ==
  ASSUME NEW s, NEW f, IsStack(s), Len(s) > 1
  PROVE  IsEnd(s, [Under(s) EXCEPT ![Len(Under(s))] = f], f)
<1> DEFINE p == Under(s)
           c == [p EXCEPT ![Len(p)] = f]
<1>1. Len(s) \in Nat /\ s # <<>>
  BY StackLength
<1>2. IsPop(s, p)
  BY <1>1, PopForm
<1> HIDE DEF p
<1>3. p # <<>>
  BY <1>1, <1>2, StackLength DEF IsPop
<1>4. IsMove(p, c, f)
  BY <1>2, <1>3, MoveForm DEF IsPop
<1> HIDE DEF c
<1>5. IsEnd(s, c, f)
  BY <1>1, <1>2, <1>4 DEF IsPop, IsMove, IsEnd
<1> QED
  BY <1>5 DEF c, p

-----------------------------------------------------------------------------
(* The frames of a stack.  A wrapper is one of a method Java calls, and in *)
(* the core only for connect(); an upcall is one that Java overrides       *)
(* exactly where it is on its way to Java or back.                         *)

UpcallPlaces ==
  {"enter", "self", "pure", "base", "java", "value", "networks", "freed", "null",
   "default", "thrown"}

GoodWrapper(f) ==
  /\ \E m \in JavaMethods : f.method = Bridge(m)
  /\ f.at \in Places
  /\ f.null => f.at \in {"check", "zero"} /\ Takes(f.method, Nullable)
  /\ f.at \in {"running", "ending"} => f.method = "connect"
  /\ f.at = "calling" => f.method \in DOMAIN Upcalls
  /\ f.at = "check" => f.refs = 0
  /\ f.at = "running" /\ ReturnsNull = {} => f.refs = 0

GoodUpcall(f) ==
  /\ f.method \in DOMAIN Upcalls
  /\ f.at \in UpcallPlaces
  /\ f.at = "null" => ReturnsNull # {}
  /\ f.at \in {"self", "java", "networks", "freed", "null", "thrown"} =>
       f.method \in Overridden
  /\ f.at \in {"pure", "base"} => f.method \notin Overridden
  /\ f.at = "pure" => Upcalls[f.method].pure

GoodBody(f) == f.method \in Overridden /\ f.at \in {"body", "raise"}

GoodFrame(f) ==
  /\ IsFrame(f)
  /\ f.code \in {"wrapper", "upcall", "java"}
  /\ f.code = "wrapper" => GoodWrapper(f)
  /\ f.code = "upcall" => GoodUpcall(f)
  /\ f.code = "java" => GoodBody(f)

(* The call g was made from f. *)
CallFrom(f, g) ==
  \/ /\ f.code = "wrapper" /\ f.at = "running"
     /\ g.code = "upcall" /\ g.method \in CoreMethods
  \/ /\ f.code = "wrapper" /\ f.at = "calling"
     /\ g.code = "upcall" /\ g.method = f.method
  \/ /\ f.code = "upcall" /\ f.at = "java"
     /\ g.code = "java" /\ g.method = f.method
  \/ f.code = "java" /\ f.at = "body" /\ g.code = "wrapper"

(* The first call of a thread. *)
FirstCall(f, worker) ==
  /\ worker => f.code = "upcall" /\ f.method \in CoreMethods
  /\ ~worker => f.code = "wrapper"

(* Whose turn it is at a depth. *)
InTurn(f, i, worker) ==
  LET turn == (i + Turn(worker)) % 3 IN
    /\ f.code = "upcall" => turn = 0
    /\ f.code = "java" => turn = 1
    /\ f.code = "wrapper" => turn = 2

Shape(s, worker) ==
  /\ IsStack(s)
  /\ \A i \in 1 .. Len(s) : GoodFrame(s[i]) /\ InTurn(s[i], i, worker)
  /\ \A i \in 1 .. Len(s) - 1 : CallFrom(s[i], s[i + 1])
  /\ Len(s) > 0 => FirstCall(s[1], worker)

(* The frame of the same call. *)
SameCall(f, g) == GoodFrame(g) /\ g.code = f.code /\ g.method = f.method

LEMMA SameCallFrom ==
  ASSUME NEW f, NEW g, NEW h, SameCall(g, h), CallFrom(f, g)
  PROVE  CallFrom(f, h)
  BY DEF SameCall, CallFrom

LEMMA NextInTurn ==
  ASSUME NEW f, NEW g, NEW i \in Nat, NEW worker, InTurn(f, i, worker), CallFrom(f, g)
  PROVE  InTurn(g, i + 1, worker)
<1>1. Turn(worker) \in {1, 2}
  BY DEF Turn
<1>2. /\ (i + Turn(worker)) % 3 = 0 => (i + 1 + Turn(worker)) % 3 = 1
      /\ (i + Turn(worker)) % 3 = 1 => (i + 1 + Turn(worker)) % 3 = 2
      /\ (i + Turn(worker)) % 3 = 2 => (i + 1 + Turn(worker)) % 3 = 0
  BY <1>1
<1> QED
  BY <1>2 DEF InTurn, CallFrom

LEMMA FirstInTurn ==
  ASSUME NEW f, NEW worker, FirstCall(f, worker)
  PROVE  InTurn(f, 1, worker)
  BY DEF FirstCall, InTurn, Turn

LEMMA ShapePush ==
  ASSUME NEW s, NEW s2, NEW g, NEW worker, Shape(s, worker), IsPush(s, s2, g),
         GoodFrame(g),
         Len(s) > 0 => CallFrom(s[Len(s)], g),
         ~(Len(s) > 0) => FirstCall(g, worker)
  PROVE  Shape(s2, worker)
<1>1. Len(s) \in Nat
  BY StackLength DEF Shape
<1>2. \A i \in 1 .. Len(s2) : GoodFrame(s2[i]) /\ InTurn(s2[i], i, worker)
  <2>1. InTurn(g, Len(s) + 1, worker)
    <3>1. CASE Len(s) > 0
      BY <1>1, <3>1, NextInTurn DEF Shape
    <3>2. CASE ~(Len(s) > 0)
      <4>1. Len(s) + 1 = 1
        BY <1>1, <3>2
      <4> QED
        BY <3>2, <4>1, FirstInTurn
    <3> QED
      BY <3>1, <3>2
  <2> QED
    BY <1>1, <2>1 DEF Shape, IsPush
<1>3. \A i \in 1 .. Len(s2) - 1 : CallFrom(s2[i], s2[i + 1])
  <2> SUFFICES ASSUME NEW i \in 1 .. Len(s2) - 1
               PROVE  CallFrom(s2[i], s2[i + 1])
    OBVIOUS
  <2>1. CASE i < Len(s)
    BY <1>1, <2>1 DEF Shape, IsPush
  <2>2. CASE ~(i < Len(s))
    <3>1. i = Len(s)
      BY <1>1, <2>2 DEF IsPush
    <3> QED
      BY <1>1, <3>1 DEF IsPush
  <2> QED
    BY <2>1, <2>2
<1>4. FirstCall(s2[1], worker)
  BY <1>1 DEF Shape, IsPush
<1> QED
  BY <1>2, <1>3, <1>4 DEF Shape, IsPush

LEMMA ShapeMove ==
  ASSUME NEW s, NEW s2, NEW f, NEW worker, Shape(s, worker), IsMove(s, s2, f),
         SameCall(s[Len(s)], f)
  PROVE  Shape(s2, worker)
<1>1. Len(s) \in Nat
  BY StackLength DEF Shape
<1>2. \A i \in 1 .. Len(s2) : GoodFrame(s2[i]) /\ InTurn(s2[i], i, worker)
  <2>1. InTurn(f, Len(s), worker)
    BY <1>1 DEF Shape, IsMove, SameCall, InTurn
  <2> QED
    BY <1>1, <2>1 DEF Shape, IsMove, SameCall
<1>3. \A i \in 1 .. Len(s2) - 1 : CallFrom(s2[i], s2[i + 1])
  <2> SUFFICES ASSUME NEW i \in 1 .. Len(s) - 1
               PROVE  CallFrom(s2[i], s2[i + 1])
    BY DEF IsMove
  <2>1. CallFrom(s[i], s[i + 1]) /\ s2[i] = s[i]
    BY DEF Shape, IsMove
  <2>2. CASE i + 1 < Len(s)
    BY <1>1, <2>1, <2>2 DEF IsMove
  <2>3. CASE ~(i + 1 < Len(s))
    <3>1. i + 1 = Len(s)
      BY <1>1, <2>3
    <3> QED
      BY <2>1, <3>1, SameCallFrom DEF IsMove
  <2> QED
    BY <2>2, <2>3
<1>4. FirstCall(s2[1], worker)
  BY <1>1 DEF Shape, IsMove, SameCall, FirstCall
<1> QED
  BY <1>2, <1>3, <1>4 DEF Shape, IsMove

LEMMA ShapeCall ==
  ASSUME NEW s, NEW s2, NEW f, NEW g, NEW worker, Shape(s, worker),
         IsCall(s, s2, f, g), SameCall(s[Len(s)], f), GoodFrame(g), CallFrom(f, g)
  PROVE  Shape(s2, worker)
<1>1. Len(s) \in Nat
  BY StackLength DEF Shape
<1>2. \A i \in 1 .. Len(s2) : GoodFrame(s2[i]) /\ InTurn(s2[i], i, worker)
  <2>1. InTurn(f, Len(s), worker)
    BY <1>1 DEF Shape, IsCall, SameCall, InTurn
  <2>2. InTurn(g, Len(s) + 1, worker)
    BY <1>1, <2>1, NextInTurn
  <2> QED
    BY <1>1, <2>1, <2>2 DEF Shape, IsCall, SameCall
<1>3. \A i \in 1 .. Len(s2) - 1 : CallFrom(s2[i], s2[i + 1])
  <2> SUFFICES ASSUME NEW i \in 1 .. Len(s)
               PROVE  CallFrom(s2[i], s2[i + 1])
    BY <1>1 DEF IsCall
  <2>1. CASE i + 1 < Len(s)
    BY <1>1, <2>1 DEF Shape, IsCall
  <2>2. CASE i + 1 = Len(s)
    <3>1. CallFrom(s[i], s[i + 1]) /\ s2[i] = s[i]
      BY <1>1, <2>2 DEF Shape, IsCall
    <3> QED
      BY <2>2, <3>1, SameCallFrom DEF IsCall
  <2>3. CASE i = Len(s)
    BY <2>3 DEF IsCall
  <2> QED
    BY <1>1, <2>1, <2>2, <2>3
<1>4. FirstCall(s2[1], worker)
  BY <1>1 DEF Shape, IsCall, SameCall, FirstCall
<1> QED
  BY <1>2, <1>3, <1>4 DEF Shape, IsCall

LEMMA ShapePop ==
  ASSUME NEW s, NEW s2, NEW worker, Shape(s, worker), IsPop(s, s2)
  PROVE  Shape(s2, worker)
<1>1. Len(s) \in Nat
  BY StackLength DEF Shape
<1>2. \A i \in 1 .. Len(s2) : GoodFrame(s2[i]) /\ InTurn(s2[i], i, worker)
  BY <1>1 DEF Shape, IsPop
<1>3. \A i \in 1 .. Len(s2) - 1 : CallFrom(s2[i], s2[i + 1])
  BY <1>1 DEF Shape, IsPop
<1>4. Len(s2) > 0 => FirstCall(s2[1], worker)
  BY <1>1 DEF Shape, IsPop
<1> QED
  BY <1>2, <1>3, <1>4 DEF Shape, IsPop

LEMMA ShapeEnd ==
  ASSUME NEW s, NEW s2, NEW f, NEW worker, Shape(s, worker), IsEnd(s, s2, f),
         SameCall(s[Len(s) - 1], f)
  PROVE  Shape(s2, worker)
<1>1. Len(s) \in Nat
  BY StackLength DEF Shape
<1>2. \A i \in 1 .. Len(s2) : GoodFrame(s2[i]) /\ InTurn(s2[i], i, worker)
  <2>1. InTurn(f, Len(s) - 1, worker)
    BY <1>1 DEF Shape, IsEnd, SameCall, InTurn
  <2> QED
    BY <1>1, <2>1 DEF Shape, IsEnd, SameCall
<1>3. \A i \in 1 .. Len(s2) - 1 : CallFrom(s2[i], s2[i + 1])
  <2> SUFFICES ASSUME NEW i \in 1 .. Len(s) - 2
               PROVE  CallFrom(s2[i], s2[i + 1])
    BY <1>1 DEF IsEnd
  <2>1. CallFrom(s[i], s[i + 1]) /\ s2[i] = s[i]
    BY <1>1 DEF Shape, IsEnd
  <2>2. CASE i + 1 < Len(s) - 1
    BY <1>1, <2>1, <2>2 DEF IsEnd
  <2>3. CASE i + 1 = Len(s) - 1
    BY <2>1, <2>3, SameCallFrom DEF IsEnd
  <2> QED
    BY <1>1, <2>2, <2>3
<1>4. FirstCall(s2[1], worker)
  BY <1>1 DEF Shape, IsEnd, SameCall, FirstCall
<1> QED
  BY <1>2, <1>3, <1>4 DEF Shape, IsEnd

-----------------------------------------------------------------------------
(* Every stack has this shape.                                             *)

StackInv ==
  /\ stack = [t \in Threads |-> stack[t]]
  /\ \A t \in Threads : Shape(stack[t], t \in Workers)

Others(t) == \A u \in Threads \ {t} : stack'[u] = stack[u]

LEMMA TopFrame ==
  ASSUME StackInv, NEW t \in Threads, stack[t] # <<>>
  PROVE  /\ IsStack(stack[t]) /\ Len(stack[t]) \in Nat \ {0}
         /\ GoodFrame(Top(t)) /\ IsFrame(Top(t))
         /\ Len(stack[t]) = 1 => FirstCall(Top(t), t \in Workers)
         /\ Len(stack[t]) > 1 =>
              /\ CallFrom(stack[t][Len(stack[t]) - 1], Top(t))
              /\ GoodFrame(stack[t][Len(stack[t]) - 1])
<1>1. Shape(stack[t], t \in Workers)
  BY DEF StackInv
<1>2. IsStack(stack[t]) /\ Len(stack[t]) \in Nat \ {0}
  BY <1>1, StackLength DEF Shape
<1>3. GoodFrame(Top(t)) /\ IsFrame(Top(t))
  BY <1>1, <1>2 DEF Shape, Top, GoodFrame
<1>4. Len(stack[t]) = 1 => FirstCall(Top(t), t \in Workers)
  BY <1>1 DEF Shape, Top
<1>5. Len(stack[t]) > 1 =>
        /\ CallFrom(stack[t][Len(stack[t]) - 1], Top(t))
        /\ GoodFrame(stack[t][Len(stack[t]) - 1])
  BY <1>1, <1>2 DEF Shape, Top
<1> QED
  BY <1>2, <1>3, <1>4, <1>5

LEMMA OneShape ==
  ASSUME StackInv, NEW t \in Threads, NEW s, stack' = [stack EXCEPT ![t] = s],
         Shape(s, t \in Workers)
  PROVE  StackInv' /\ Others(t) /\ stack'[t] = s
<1>1. stack' = [u \in Threads |-> stack'[u]] /\ stack'[t] = s /\ Others(t)
  BY DEF StackInv, Others
<1>2. \A u \in Threads : Shape(stack'[u], u \in Workers)
  BY <1>1 DEF StackInv, Others
<1> QED
  BY <1>1, <1>2 DEF StackInv

LEMMA MoveStack ==
  ASSUME StackInv, NEW t \in Threads, NEW f, stack[t] # <<>>, SameCall(Top(t), f),
         stack' = [stack EXCEPT ![t] = [stack[t] EXCEPT ![Len(stack[t])] = f]]
  PROVE  StackInv' /\ Others(t) /\ IsMove(stack[t], stack'[t], f)
<1> DEFINE s == [stack[t] EXCEPT ![Len(stack[t])] = f]
<1>1. IsMove(stack[t], s, f)
  BY TopFrame, MoveForm
<1> HIDE DEF s
<1>2. Shape(s, t \in Workers)
  BY <1>1, ShapeMove DEF StackInv, Top
<1> QED
  BY <1>1, <1>2, OneShape DEF s

LEMMA PushStack ==
  ASSUME StackInv, NEW t \in Threads, NEW g, GoodFrame(g),
         stack[t] # <<>> => CallFrom(Top(t), g),
         stack[t] = <<>> => FirstCall(g, t \in Workers),
         stack' = [stack EXCEPT ![t] = Append(stack[t], g)]
  PROVE  StackInv' /\ Others(t) /\ IsPush(stack[t], stack'[t], g)
<1> DEFINE s == Append(stack[t], g)
<1>1. Shape(stack[t], t \in Workers)
  BY DEF StackInv
<1>2. IsPush(stack[t], s, g)
  BY <1>1, PushForm DEF Shape
<1>3. stack[t] = <<>> <=> ~(Len(stack[t]) > 0)
  BY <1>1, StackLength DEF Shape
<1> HIDE DEF s
<1>4. Shape(s, t \in Workers)
  BY <1>1, <1>2, <1>3, ShapePush DEF Top
<1> QED
  BY <1>2, <1>4, OneShape DEF s

LEMMA CallStack ==
  ASSUME StackInv, NEW t \in Threads, NEW f, NEW g, stack[t] # <<>>,
         SameCall(Top(t), f), GoodFrame(g), CallFrom(f, g),
         stack' = [stack EXCEPT ![t] = Append([stack[t] EXCEPT ![Len(stack[t])] = f], g)]
  PROVE  StackInv' /\ Others(t) /\ IsCall(stack[t], stack'[t], f, g)
<1> DEFINE s == Append([stack[t] EXCEPT ![Len(stack[t])] = f], g)
<1>1. IsCall(stack[t], s, f, g)
  BY TopFrame, CallForm
<1> HIDE DEF s
<1>2. Shape(s, t \in Workers)
  BY <1>1, ShapeCall DEF StackInv, Top
<1> QED
  BY <1>1, <1>2, OneShape DEF s

LEMMA PopStack ==
  ASSUME StackInv, NEW t \in Threads, stack[t] # <<>>,
         stack' = [stack EXCEPT ![t] = Below(t)]
  PROVE  StackInv' /\ Others(t) /\ IsPop(stack[t], stack'[t])
<1>1. IsPop(stack[t], Below(t))
  BY TopFrame, PopForm, BelowIsUnder
<1>2. Shape(Below(t), t \in Workers)
  BY <1>1, ShapePop DEF StackInv
<1> QED
  BY <1>1, <1>2, OneShape

(* The frame below, where there is one. *)
LEMMA CallerFrame ==
  ASSUME StackInv, NEW t \in Threads, stack[t] # <<>>
  PROVE  /\ Len(Below(t)) = Len(stack[t]) - 1
         /\ Below(t) = <<>> <=> Len(stack[t]) = 1
         /\ Len(stack[t]) > 1 =>
              Below(t)[Len(Below(t))] = stack[t][Len(stack[t]) - 1]
<1>1. IsPop(stack[t], Below(t)) /\ Len(stack[t]) \in Nat \ {0}
  BY TopFrame, PopForm, BelowIsUnder
<1>2. Below(t) = <<>> <=> Len(Below(t)) = 0
  BY <1>1, StackLength DEF IsPop
<1> QED
  BY <1>1, <1>2 DEF IsPop

LEMMA EndStack ==
  ASSUME StackInv, NEW t \in Threads, NEW f, Len(stack[t]) > 1, stack[t] # <<>>,
         SameCall(stack[t][Len(stack[t]) - 1], f),
         stack' = [stack EXCEPT ![t] = [Below(t) EXCEPT ![Len(Below(t))] = f]]
  PROVE  StackInv' /\ Others(t) /\ IsEnd(stack[t], stack'[t], f)
<1> DEFINE s == [Below(t) EXCEPT ![Len(Below(t))] = f]
<1>1. IsEnd(stack[t], s, f)
  BY TopFrame, EndForm, BelowIsUnder
<1> HIDE DEF s
<1>2. Shape(s, t \in Workers)
  BY <1>1, ShapeEnd DEF StackInv
<1> QED
  BY <1>1, <1>2, OneShape DEF s

(* A frame at another place. *)
LEMMA PlaceSet ==
  ASSUME NEW f, NEW place, IsFrame(f)
  PROVE  LET g == [f EXCEPT !.at = place] IN
         /\ IsFrame(g) /\ g.code = f.code /\ g.method = f.method
         /\ g.at = place /\ g.null = f.null /\ g.refs = f.refs
  BY DEF IsFrame

LEMMA NewCall ==
  ASSUME NEW code, NEW method, NEW at
  PROVE  LET g == Frame(code, method, at) IN
         /\ IsFrame(g) /\ g.code = code /\ g.method = method
         /\ g.at = at /\ g.null = FALSE /\ g.refs = 0
  BY DEF IsFrame, Frame

(* The slot of a method that Java overrides, or not. *)
LEMMA SlotOverridden ==
  ASSUME NEW m \in DOMAIN Upcalls
  PROVE  /\ SwigOverride(Upcalls[m].slot) <=> m \in Overridden
         /\ DirectorMethodId(Upcalls[m].slot) = m
<1>1. OwnSlot(m, Upcalls[m])
  BY EverySlot DEF OwnSlots
<1>2. OverrideMethods[Upcalls[m].slot + 1][1] = m
  BY <1>1 DEF OwnSlot
<1>3. DirectorMethods[Upcalls[m].slot + 1][1] = m
  BY <1>1 DEF OwnSlot
<1> QED
  BY <1>2, <1>3 DEF SwigOverride, DirectorMethodId

-----------------------------------------------------------------------------
(* The steps, in these terms.                                              *)
Moves(t, code, from, to) ==
  /\ Others(t) /\ stack[t] # <<>> /\ Top(t).code = code /\ Top(t).at \in from
  /\ \E f : IsMove(stack[t], stack'[t], f) /\ SameCall(Top(t), f) /\ f.at \in to

Ends(t, code, from, to) ==
  /\ Others(t) /\ stack[t] # <<>> /\ Top(t).code = code /\ Top(t).at \in from
  /\ \E f : /\ IsEnd(stack[t], stack'[t], f) /\ f.at \in to
            /\ SameCall(stack[t][Len(stack[t]) - 1], f)

Pops(t, code, from) ==
  /\ Others(t) /\ stack[t] # <<>> /\ Top(t).code = code /\ Top(t).at \in from
  /\ IsPop(stack[t], stack'[t])

Pushes(t, code, m, to) ==
  /\ Others(t)
  /\ \E g : IsPush(stack[t], stack'[t], g)
            /\ GoodFrame(g) /\ g.code = code /\ g.method = m /\ g.at = to

Calls(t, code, from, to) ==
  /\ Others(t) /\ stack[t] # <<>> /\ Top(t).code = code /\ Top(t).at \in from
  /\ \E f, g : /\ IsCall(stack[t], stack'[t], f, g)
               /\ SameCall(Top(t), f) /\ f.at = to
               /\ GoodFrame(g) /\ g.at \in {"enter", "body"} /\ CallFrom(f, g)

LEMMA MoveFrom ==
  ASSUME StackInv, NEW t \in Threads, NEW code, NEW from, NEW place,
         Is(t, code, from), stack' = Goto(t, place),
         GoodFrame([Top(t) EXCEPT !.at = place])
  PROVE  StackInv' /\ Moves(t, code, from, {place})
<1> DEFINE f == [Top(t) EXCEPT !.at = place]
<1>1. stack[t] # <<>> /\ Top(t).code = code /\ Top(t).at \in from
  BY DEF Is
<1>2. SameCall(Top(t), f) /\ f.at = place
  BY <1>1, TopFrame, PlaceSet DEF SameCall
<1>3. stack' = [stack EXCEPT ![t] = [stack[t] EXCEPT ![Len(stack[t])] = f]]
  BY DEF Goto, Top
<1> HIDE DEF f
<1>4. StackInv' /\ Others(t) /\ IsMove(stack[t], stack'[t], f)
  BY <1>1, <1>2, <1>3, MoveStack
<1> QED
  BY <1>1, <1>2, <1>4 DEF Moves

LEMMA CallWrapperStack ==
  ASSUME StackInv, NEW t \in Threads, NEW m \in JavaMethods, NEW null \in BOOLEAN,
         CallWrapper(t, m, null)
  PROVE  /\ StackInv' /\ Pushes(t, "wrapper", Bridge(m), "check")
         /\ InJava(t) /\ (Bridge(m) = "connect" => ~Connected(Places))
<1> DEFINE n == Frame("wrapper", Bridge(m), "check")
           g == [n EXCEPT !.null = null]
<1>1. IsFrame(n) /\ n.code = "wrapper" /\ n.method = Bridge(m) /\ n.at = "check"
      /\ n.refs = 0
  BY DEF IsFrame, Frame
<1>2. stack' = [stack EXCEPT ![t] = Append(stack[t], g)]
  BY DEF CallWrapper
<1>3. null => Takes(Bridge(m), Nullable)
  BY DEF CallWrapper
<1>4. InJava(t) /\ (Bridge(m) = "connect" => ~Connected(Places))
  BY DEF CallWrapper
<1> HIDE DEF n
<1>5. IsFrame(g) /\ g.code = "wrapper" /\ g.method = Bridge(m) /\ g.at = "check"
      /\ g.refs = 0 /\ g.null = null
  BY <1>1 DEF IsFrame
<1> HIDE DEF g
<1>6. GoodFrame(g)
  BY <1>3, <1>5 DEF GoodFrame, GoodWrapper, Places
<1>7. stack[t] # <<>> => CallFrom(Top(t), g)
  BY <1>4, <1>5 DEF InJava, Is, CallFrom
<1>8. stack[t] = <<>> => FirstCall(g, t \in Workers)
  BY <1>4, <1>5 DEF InJava, FirstCall
<1>9. StackInv' /\ Others(t) /\ IsPush(stack[t], stack'[t], g)
  BY <1>2, <1>6, <1>7, <1>8, PushStack
<1> QED
  BY <1>4, <1>5, <1>6, <1>9 DEF Pushes

LEMMA RejectNullStack ==
  ASSUME StackInv, NEW t \in Threads, RejectNull(t)
  PROVE  StackInv' /\ Moves(t, "wrapper", {"check"}, {"zero"})
<1> DEFINE f == [Top(t) EXCEPT !.at = "zero"]
<1>1. Is(t, "wrapper", {"check"}) /\ stack' = Goto(t, "zero")
  BY DEF RejectNull
<1>2. GoodFrame(Top(t)) /\ IsFrame(Top(t)) /\ Top(t).code = "wrapper" /\ Top(t).at = "check"
  BY <1>1, TopFrame DEF Is
<1>3. IsFrame(f) /\ f.code = Top(t).code /\ f.method = Top(t).method /\ f.at = "zero"
      /\ f.null = Top(t).null
  BY <1>2 DEF IsFrame
<1> HIDE DEF f
<1>4. GoodFrame(f)
  BY <1>2, <1>3 DEF GoodFrame, GoodWrapper, Places
<1> QED
  BY <1>1, <1>4, MoveFrom DEF f

LEMMA CallFunctionStack ==
  ASSUME StackInv, NEW t \in Threads, CallFunction(t)
  PROVE  /\ StackInv'
         /\ \/ Moves(t, "wrapper", {"check"}, {"running", "done"})
            \/ Calls(t, "wrapper", {"check"}, "calling")
<1>1. Is(t, "wrapper", {"check"}) /\ ~(Top(t).null /\ Takes(Top(t).method, Checked))
  BY DEF CallFunction
<1>2. GoodFrame(Top(t)) /\ IsFrame(Top(t)) /\ Top(t).code = "wrapper" /\ Top(t).at = "check"
      /\ stack[t] # <<>>
  BY <1>1, TopFrame DEF Is
<1>3. ~Top(t).null
  BY <1>1, <1>2 DEF GoodFrame, GoodWrapper, Checked, Nullable
<1>4. Top(t).refs = 0 /\ \E m \in JavaMethods : Top(t).method = Bridge(m)
  BY <1>2 DEF GoodFrame, GoodWrapper
<1>5. ASSUME NEW place \in {"running", "calling", "done"},
             place = "running" => Top(t).method = "connect",
             place = "calling" => Top(t).method \in DOMAIN Upcalls
      PROVE  SameCall(Top(t), [Top(t) EXCEPT !.at = place])
             /\ [Top(t) EXCEPT !.at = place].at = place
  <2> DEFINE f == [Top(t) EXCEPT !.at = place]
  <2>1. IsFrame(f) /\ f.code = Top(t).code /\ f.method = Top(t).method /\ f.at = place
        /\ f.null = Top(t).null /\ f.refs = Top(t).refs
    BY <1>2 DEF IsFrame
  <2> HIDE DEF f
  <2>2. GoodFrame(f)
    BY <1>2, <1>3, <1>4, <1>5, <2>1 DEF GoodFrame, GoodWrapper, Places
  <2> QED
    BY <2>1, <2>2 DEF SameCall, f
<1>6. CASE Top(t).method = "connect" /\ stack' = Goto(t, "running")
  <2>1. StackInv' /\ Moves(t, "wrapper", {"check"}, {"running"})
    BY <1>1, <1>5, <1>6, MoveFrom DEF SameCall
  <2> QED
    BY <2>1 DEF Moves
<1>7. CASE stack' = Goto(t, "done")
  <2>1. StackInv' /\ Moves(t, "wrapper", {"check"}, {"done"})
    BY <1>1, <1>5, <1>7, MoveFrom DEF SameCall
  <2> QED
    BY <2>1 DEF Moves
<1>8. CASE /\ Top(t).method \in DOMAIN Upcalls
           /\ stack' = [Goto(t, "calling") EXCEPT ![t] =
                          Append(@, Frame("upcall", Top(t).method, "enter"))]
  <2> DEFINE f == [Top(t) EXCEPT !.at = "calling"]
             g == Frame("upcall", Top(t).method, "enter")
             s == [stack[t] EXCEPT ![Len(stack[t])] = f]
  <2>1. SameCall(Top(t), f) /\ f.at = "calling"
    BY <1>5, <1>8
  <2>2. Goto(t, "calling") = [stack EXCEPT ![t] = s]
    BY DEF Goto, Top
  <2>3. stack' = [stack EXCEPT ![t] = Append(s, g)]
    BY <1>8, <2>2 DEF StackInv
  <2>4. IsFrame(g) /\ g.code = "upcall" /\ g.method = Top(t).method /\ g.at = "enter"
    BY DEF IsFrame, Frame
  <2> HIDE DEF f, g
  <2>5. GoodFrame(g) /\ CallFrom(f, g)
    BY <1>2, <1>8, <2>1, <2>4 DEF GoodFrame, GoodUpcall, UpcallPlaces, CallFrom, SameCall
  <2>6. StackInv' /\ Others(t) /\ IsCall(stack[t], stack'[t], f, g)
    BY <1>2, <2>1, <2>3, <2>5, CallStack
  <2> QED
    BY <1>2, <2>1, <2>4, <2>5, <2>6 DEF Calls
<1>9. \/ Top(t).method = "connect" /\ stack' = Goto(t, "running")
      \/ stack' = Goto(t, "done")
      \/ /\ Top(t).method \in DOMAIN Upcalls
         /\ stack' = [Goto(t, "calling") EXCEPT ![t] =
                        Append(@, Frame("upcall", Top(t).method, "enter"))]
  BY DEF CallFunction
<1> QED
  BY <1>6, <1>7, <1>8, <1>9

(* What a wrapper or a body returns to. *)
LEMMA Caller ==
  ASSUME StackInv, NEW t \in Threads, stack[t] # <<>>
  PROVE  LET n == Len(stack[t])
             f == stack[t][n - 1]
         IN /\ Top(t).code = "java" =>
                 n > 1 /\ f.code = "upcall" /\ f.at = "java" /\ f.method = Top(t).method
            /\ Top(t).code = "wrapper" /\ n > 1 => f.code = "java" /\ f.at = "body"
            /\ Top(t).code = "upcall" /\ n > 1 =>
                 f.code = "wrapper" /\ f.at \in {"running", "calling"}
<1>1. /\ Len(stack[t]) = 1 => FirstCall(Top(t), t \in Workers)
      /\ Len(stack[t]) > 1 => CallFrom(stack[t][Len(stack[t]) - 1], Top(t))
  BY TopFrame
<1>2. Len(stack[t]) = 1 \/ Len(stack[t]) > 1
  <2>1. Len(stack[t]) \in Nat \ {0}
    BY TopFrame
  <2>2. \A n \in Nat \ {0} : n = 1 \/ n > 1
    OBVIOUS
  <2> QED
    BY <2>1, <2>2
<1> QED
  BY <1>1, <1>2 DEF FirstCall, CallFrom

LEMMA ReturnToJavaStack ==
  ASSUME StackInv, NEW t \in Threads, ReturnToJava(t)
  PROVE  /\ StackInv'
         /\ \/ Pops(t, "wrapper", {"done", "zero"})
            \/ Ends(t, "wrapper", {"done", "zero"}, {"raise"})
<1>1. stack[t] # <<>> /\ Top(t).code = "wrapper" /\ Top(t).at \in {"done", "zero"}
  BY DEF ReturnToJava, Is
<1>2. CASE stack' = [stack EXCEPT ![t] = Below(t)]
  BY <1>1, <1>2, PopStack DEF Pops
<1>3. CASE /\ Below(t) # <<>>
           /\ stack' = [stack EXCEPT ![t] = [Below(t) EXCEPT ![Len(Below(t))].at = "raise"]]
  <2> DEFINE c == stack[t][Len(stack[t]) - 1]
             f == [c EXCEPT !.at = "raise"]
  <2>1. Len(stack[t]) > 1 /\ Below(t)[Len(Below(t))] = c
    BY <1>1, <1>3, TopFrame, CallerFrame
  <2>2. GoodFrame(c) /\ c.code = "java" /\ IsFrame(c)
    BY <1>1, <2>1, TopFrame, Caller DEF GoodFrame
  <2>3. IsFrame(f) /\ f.code = c.code /\ f.method = c.method /\ f.at = "raise"
    BY <2>2 DEF IsFrame
  <2>4. stack' = [stack EXCEPT ![t] = [Below(t) EXCEPT ![Len(Below(t))] = f]]
    BY <1>3, <2>1
  <2> HIDE DEF f
  <2>5. SameCall(c, f)
    BY <2>2, <2>3 DEF SameCall, GoodFrame, GoodBody
  <2>6. StackInv' /\ Others(t) /\ IsEnd(stack[t], stack'[t], f)
    BY <1>1, <2>1, <2>4, <2>5, EndStack
  <2> QED
    BY <1>1, <2>3, <2>5, <2>6 DEF Ends
<1> QED
  BY <1>2, <1>3 DEF ReturnToJava

(* A body ends, and the upcall goes on at a place.                         *)
LEMMA BodyStack ==
  ASSUME StackInv, NEW t \in Threads, NEW from, NEW place,
         Is(t, "java", from),
         place \in {"value", "networks", "null", "thrown"},
         place = "null" => ReturnsNull # {},
         stack' = [stack EXCEPT ![t] = [Below(t) EXCEPT ![Len(Below(t))].at = place]]
  PROVE  StackInv' /\ Ends(t, "java", from, {place})
<1> DEFINE c == stack[t][Len(stack[t]) - 1]
           f == [c EXCEPT !.at = place]
<1>1. stack[t] # <<>> /\ Top(t).code = "java" /\ Top(t).at \in from
  BY DEF Is
<1>2. Len(stack[t]) > 1 /\ Below(t)[Len(Below(t))] = c
  BY <1>1, Caller, CallerFrame
<1>3. GoodFrame(c) /\ c.code = "upcall" /\ c.at = "java" /\ IsFrame(c)
  BY <1>1, <1>2, TopFrame, Caller DEF GoodFrame
<1>4. IsFrame(f) /\ f.code = c.code /\ f.method = c.method /\ f.at = place
  BY <1>3 DEF IsFrame
<1>5. stack' = [stack EXCEPT ![t] = [Below(t) EXCEPT ![Len(Below(t))] = f]]
  BY <1>2
<1> HIDE DEF f
<1>6. SameCall(c, f)
  BY <1>3, <1>4 DEF SameCall, GoodFrame, GoodUpcall, UpcallPlaces
<1>7. StackInv' /\ Others(t) /\ IsEnd(stack[t], stack'[t], f)
  BY <1>1, <1>2, <1>5, <1>6, EndStack
<1> QED
  BY <1>1, <1>4, <1>6, <1>7 DEF Ends

LEMMA JavaReturnsStack ==
  ASSUME StackInv, NEW t \in Threads, JavaReturns(t)
  PROVE  StackInv' /\ Ends(t, "java", {"body"}, {"value", "networks", "null"})
<1>1. PICK place \in {"value", "networks", "null"} :
        /\ stack' = [stack EXCEPT ![t] = [Below(t) EXCEPT ![Len(Below(t))].at = place]]
        /\ place = "null" => ReturnsNull # {}
  BY DEF JavaReturns
<1>2. StackInv' /\ Ends(t, "java", {"body"}, {place})
  BY <1>1, BodyStack DEF JavaReturns
<1> QED
  BY <1>1, <1>2 DEF Ends

LEMMA JavaThrowsStack ==
  ASSUME StackInv, NEW t \in Threads, JavaThrows(t)
  PROVE  StackInv' /\ Ends(t, "java", {"body", "raise"}, {"thrown"})
  BY BodyStack DEF JavaThrows

LEMMA CoreCallsStack ==
  ASSUME StackInv, NEW t \in Threads, NEW m \in CoreMethods, CoreCalls(t, m)
  PROVE  StackInv' /\ Pushes(t, "upcall", m, "enter") /\ InCore(t)
<1> DEFINE g == Frame("upcall", m, "enter")
<1>1. IsFrame(g) /\ g.code = "upcall" /\ g.method = m /\ g.at = "enter"
  BY DEF IsFrame, Frame
<1>2. stack' = [stack EXCEPT ![t] = Append(stack[t], g)] /\ InCore(t)
  BY DEF CoreCalls
<1> HIDE DEF g
<1>3. GoodFrame(g)
  BY <1>1, DirectorAssumption DEF GoodFrame, GoodUpcall, UpcallPlaces
<1>4. stack[t] # <<>> => CallFrom(Top(t), g)
  BY <1>1, <1>2 DEF InCore, Is, CallFrom
<1>5. stack[t] = <<>> => FirstCall(g, t \in Workers)
  BY <1>1, <1>2 DEF InCore, Is, FirstCall
<1>6. StackInv' /\ Others(t) /\ IsPush(stack[t], stack'[t], g)
  BY <1>2, <1>3, <1>4, <1>5, PushStack
<1> QED
  BY <1>1, <1>2, <1>3, <1>6 DEF Pushes

LEMMA CoreEndsStack ==
  ASSUME StackInv, NEW t \in Threads, CoreEnds(t)
  PROVE  StackInv' /\ Moves(t, "wrapper", {"running", "ending"}, {"done"})
<1> DEFINE f == [Top(t) EXCEPT !.at = "done"]
<1>1. Is(t, "wrapper", {"running", "ending"}) /\ stack' = Goto(t, "done")
  BY DEF CoreEnds
<1>2. GoodFrame(Top(t)) /\ IsFrame(Top(t)) /\ Top(t).code = "wrapper"
      /\ Top(t).at \in {"running", "ending"}
  BY <1>1, TopFrame DEF Is
<1>3. IsFrame(f) /\ f.code = Top(t).code /\ f.method = Top(t).method /\ f.at = "done"
      /\ f.null = Top(t).null
  BY <1>2 DEF IsFrame
<1> HIDE DEF f
<1>4. GoodFrame(f)
  BY <1>2, <1>3 DEF GoodFrame, GoodWrapper, Places
<1> QED
  BY <1>1, <1>4, MoveFrom DEF f

LEMMA EnterUpcallStack ==
  ASSUME StackInv, NEW t \in Threads, EnterUpcall(t)
  PROVE  StackInv' /\ Moves(t, "upcall", {"enter"}, {"self", "pure", "base"})
<1> DEFINE u == Upcalls[Top(t).method]
           next == IF SwigOverride(u.slot) THEN "self" ELSE IF u.pure THEN "pure" ELSE "base"
           f == [Top(t) EXCEPT !.at = next, !.attaches = ~attached[t]]
<1>1. stack[t] # <<>> /\ Top(t).code = "upcall" /\ Top(t).at = "enter"
  BY DEF EnterUpcall, Is
<1>2. GoodFrame(Top(t)) /\ IsFrame(Top(t)) /\ Top(t).method \in DOMAIN Upcalls
  BY <1>1, TopFrame DEF GoodFrame, GoodUpcall
<1>3. SwigOverride(u.slot) <=> Top(t).method \in Overridden
  BY <1>2, SlotOverridden
<1>4. /\ next \in {"self", "pure", "base"}
      /\ next = "self" <=> Top(t).method \in Overridden
      /\ next = "pure" => u.pure
  BY <1>3
<1>5. stack' = [stack EXCEPT ![t] = [stack[t] EXCEPT ![Len(stack[t])] = f]]
  BY DEF EnterUpcall, Top
<1> HIDE DEF next
<1>6. IsFrame(f) /\ f.code = Top(t).code /\ f.method = Top(t).method /\ f.at = next
  BY <1>2 DEF IsFrame
<1> HIDE DEF f
<1>7. SameCall(Top(t), f)
  BY <1>1, <1>2, <1>4, <1>6 DEF SameCall, GoodFrame, GoodUpcall, UpcallPlaces
<1>8. StackInv' /\ Others(t) /\ IsMove(stack[t], stack'[t], f)
  BY <1>1, <1>5, <1>7, MoveStack
<1> QED
  BY <1>1, <1>4, <1>6, <1>7, <1>8 DEF Moves

(* An upcall that goes on to a place where its method is not told apart.   *)
LEMMA UpcallMoves ==
  ASSUME StackInv, NEW t \in Threads, NEW from, NEW place,
         Is(t, "upcall", from), stack' = Goto(t, place),
         \/ place \in {"value", "default"}
         \/ place = "freed" /\ from = {"networks"}
  PROVE  StackInv' /\ Moves(t, "upcall", from, {place})
<1> DEFINE f == [Top(t) EXCEPT !.at = place]
<1>1. GoodFrame(Top(t)) /\ IsFrame(Top(t)) /\ Top(t).code = "upcall" /\ Top(t).at \in from
  BY TopFrame DEF Is
<1>2. IsFrame(f) /\ f.code = Top(t).code /\ f.method = Top(t).method /\ f.at = place
  BY <1>1 DEF IsFrame
<1> HIDE DEF f
<1>3. GoodFrame(f)
  BY <1>1, <1>2 DEF GoodFrame, GoodUpcall, UpcallPlaces
<1> QED
  BY <1>3, MoveFrom DEF f

LEMMA CallBaseStack ==
  ASSUME StackInv, NEW t \in Threads, CallBase(t)
  PROVE  StackInv' /\ Moves(t, "upcall", {"base"}, {"value"})
  BY UpcallMoves DEF CallBase

LEMMA RejectPureStack ==
  ASSUME StackInv, NEW t \in Threads, RejectPure(t)
  PROVE  StackInv' /\ Moves(t, "upcall", {"pure"}, {"default"})
  BY UpcallMoves DEF RejectPure

LEMMA FinalizeNetworksStack ==
  ASSUME StackInv, NEW t \in Threads, FinalizeNetworks(t)
  PROVE  StackInv' /\ Moves(t, "upcall", {"networks"}, {"freed"})
  BY UpcallMoves DEF FinalizeNetworks

LEMMA CallJavaStack ==
  ASSUME StackInv, NEW t \in Threads, CallJava(t)
  PROVE  /\ StackInv'
         /\ \/ FindsProxy /\ Calls(t, "upcall", {"self"}, "java") /\ UNCHANGED pending
            \/ ~FindsProxy /\ Moves(t, "upcall", {"self"}, {"default"})
<1>1. stack[t] # <<>> /\ Top(t).code = "upcall" /\ Top(t).at = "self"
      /\ Is(t, "upcall", {"self"})
  BY DEF CallJava, Is
<1>2. CASE FindsProxy
  <2> DEFINE u == Upcalls[Top(t).method]
             f == [Top(t) EXCEPT !.at = "java", !.refs = 1 + Strings(u.args)]
             g == Frame("java", DirectorMethodId(u.slot), "body")
  <2>1. stack' = [stack EXCEPT ![t] = Append(Append(Below(t), f), g)] /\ UNCHANGED pending
    BY <1>2 DEF CallJava
  <2>2. /\ IsStack(stack[t]) /\ Len(stack[t]) \in Nat \ {0} /\ Len(stack[t]) > 0
        /\ GoodFrame(Top(t)) /\ IsFrame(Top(t))
    BY <1>1, TopFrame
  <2>3. Top(t).method \in DOMAIN Upcalls /\ Top(t).method \in Overridden
    BY <1>1, <2>2 DEF GoodFrame, GoodUpcall
  <2>4. DirectorMethodId(u.slot) = Top(t).method
    BY <2>3, SlotOverridden
  <2>5. IsFrame(f) /\ f.code = Top(t).code /\ f.method = Top(t).method /\ f.at = "java"
    BY <2>2 DEF IsFrame
  <2>6. IsFrame(g) /\ g.code = "java" /\ g.method = Top(t).method /\ g.at = "body"
    BY <2>4 DEF IsFrame, Frame
  <2> HIDE DEF f, g
  <2>7. Append(Below(t), f) = [stack[t] EXCEPT ![Len(stack[t])] = f]
    BY <2>2, Replaced, BelowIsUnder
  <2>8. SameCall(Top(t), f) /\ GoodFrame(g) /\ CallFrom(f, g)
    BY <1>1, <2>2, <2>3, <2>5, <2>6
       DEF SameCall, GoodFrame, GoodUpcall, GoodBody, UpcallPlaces, CallFrom
  <2>9. StackInv' /\ Others(t) /\ IsCall(stack[t], stack'[t], f, g)
    BY <1>1, <2>1, <2>7, <2>8, CallStack
  <2> QED
    BY <1>1, <1>2, <2>1, <2>5, <2>6, <2>8, <2>9 DEF Calls
<1>3. CASE ~FindsProxy
  <2>1. stack' = Goto(t, "default")
    BY <1>3 DEF CallJava
  <2> QED
    BY <1>1, <1>3, <2>1, UpcallMoves
<1> QED
  BY <1>2, <1>3

LeavePlaces == {"value", "networks", "freed", "null", "default", "thrown"}

LEMMA LeaveUpcallStack ==
  ASSUME StackInv, NEW t \in Threads, LeaveUpcall(t)
  PROVE  LET n == Len(stack[t]) IN
         /\ StackInv'
         /\ \/ n = 1 /\ Pops(t, "upcall", LeavePlaces)
            \/ n > 1 /\ Ends(t, "upcall", LeavePlaces,
                             {Resumed(stack[t][n - 1].at, Top(t).at)})
<1> DEFINE n == Len(stack[t])
           c == stack[t][n - 1]
           at == Top(t).at
           f == [c EXCEPT !.at = Resumed(c.at, at), !.refs = c.refs + Leaked(at)]
<1>1. stack[t] # <<>> /\ Top(t).code = "upcall" /\ at \in LeavePlaces
  BY DEF LeaveUpcall, Is, LeavePlaces
<1>2. n \in Nat \ {0} /\ Len(Below(t)) = n - 1 /\ (Below(t) = <<>> <=> n = 1)
  BY <1>1, TopFrame, CallerFrame
<1>3. CASE n = 1
  <2>1. Len(Below(t)) = 0 /\ Below(t) = <<>>
    BY <1>2, <1>3
  <2>2. stack' = [stack EXCEPT ![t] = <<>>]
    BY <2>1 DEF LeaveUpcall
  <2> QED
    BY <1>1, <1>3, <2>1, <2>2, PopStack DEF Pops
<1>4. CASE n # 1
  <2>1. n > 1 /\ Len(Below(t)) # 0
    BY <1>2, <1>4
  <2>2. Below(t)[Len(Below(t))] = c
    BY <1>1, <2>1, CallerFrame
  <2>3. stack' = [stack EXCEPT ![t] = [Below(t) EXCEPT ![Len(Below(t))] = f]]
    BY <2>1, <2>2 DEF LeaveUpcall
  <2>4. GoodFrame(c) /\ GoodFrame(Top(t)) /\ c.code = "wrapper" /\ c.at \in {"running", "calling"}
        /\ IsFrame(c)
    BY <1>1, <2>1, TopFrame, Caller DEF GoodFrame
  <2>5. IsFrame(f) /\ f.code = c.code /\ f.method = c.method /\ f.null = c.null
        /\ f.at = Resumed(c.at, at) /\ f.refs = c.refs + Leaked(at)
    BY <2>4 DEF IsFrame
  <2> HIDE DEF f
  <2>6. Resumed(c.at, at) = IF c.at = "calling" THEN "done"
                            ELSE IF at = "thrown" THEN "ending" ELSE "running"
    BY <2>4 DEF Resumed
  <2>7. ASSUME c.at = "running", at # "thrown", ReturnsNull = {}
        PROVE  c.refs + Leaked(at) = 0
    <3>1. at # "null"
      BY <1>1, <2>4, <2>7 DEF GoodFrame, GoodUpcall
    <3>2. Leaked(at) = 0
      BY <1>1, <2>7, <3>1 DEF Leaked, LeavePlaces
    <3>3. c.refs = 0
      BY <2>4, <2>7 DEF GoodFrame, GoodWrapper
    <3> QED
      BY <3>2, <3>3
  <2>8. /\ ~c.null
        /\ \E m \in JavaMethods : c.method = Bridge(m)
        /\ c.at = "running" => c.method = "connect"
    BY <2>4 DEF GoodFrame, GoodWrapper
  <2>9. SameCall(c, f)
    BY <2>4, <2>5, <2>6, <2>7, <2>8 DEF SameCall, GoodFrame, GoodWrapper, Places
  <2>10. StackInv' /\ Others(t) /\ IsEnd(stack[t], stack'[t], f)
    BY <1>1, <2>1, <2>3, <2>9, EndStack
  <2> QED
    BY <1>1, <2>1, <2>5, <2>9, <2>10 DEF Ends
<1> QED
  BY <1>3, <1>4

LEMMA InitStackInv ==
  ASSUME Init
  PROVE  StackInv
<1>1. stack = [t \in Threads |-> <<>>]
  BY DEF Init, DirectorInit
<1>2. <<>> \in Seq({})
  OBVIOUS
<1>3. IsStack(<<>>) /\ Len(<<>>) = 0
  BY <1>2 DEF IsStack
<1>4. \A worker : Shape(<<>>, worker)
  BY <1>3 DEF Shape
<1> QED
  BY <1>1, <1>4 DEF StackInv

LEMMA StutterStackInv ==
  ASSUME StackInv, UNCHANGED stack
  PROVE  StackInv'
  BY DEF StackInv

LEMMA NextStackInv ==
  ASSUME StackInv, [Next]_vars
  PROVE  StackInv'
<1>1. CASE UNCHANGED vars \/ ProxyLife
  BY <1>1, StutterStackInv DEF vars, directorVars, ProxyLife
<1>2. ASSUME NEW t \in Threads, JavaStep(t) PROVE StackInv'
  BY <1>2, CallWrapperStack, RejectNullStack, CallFunctionStack, ReturnToJavaStack,
     JavaReturnsStack, JavaThrowsStack DEF JavaStep
<1>3. ASSUME NEW t \in Threads, CoreStep(t) PROVE StackInv'
  BY <1>3, CoreCallsStack, CoreEndsStack, EnterUpcallStack, CallBaseStack,
     RejectPureStack, CallJavaStack, FinalizeNetworksStack, LeaveUpcallStack
     DEF CoreStep
<1> QED
  BY <1>1, <1>2, <1>3 DEF Next

LEMMA StackInvHolds == Spec => []StackInv
  BY InitStackInv, NextStackInv, PTL DEF Spec

LEMMA NextTops ==
  ASSUME StackInv, StackInv', NEW t \in Threads
  PROVE  /\ \A code, from, to : Moves(t, code, from, to) =>
              Others(t) /\ stack'[t] # <<>> /\ Top(t)'.code = code /\ Top(t)'.at \in to
         /\ \A code, m, to : Pushes(t, code, m, to) =>
              Others(t) /\ stack'[t] # <<>> /\ Top(t)'.code = code /\ Top(t)'.at = to
         /\ \A code, from, to : Calls(t, code, from, to) =>
              Others(t) /\ stack'[t] # <<>> /\ Top(t)'.at \in {"enter", "body"}
         /\ \A code, from, to : Ends(t, code, from, to) =>
              /\ Others(t) /\ stack[t] # <<>> /\ Top(t).code = code
              /\ stack'[t] # <<>> /\ Top(t)'.at \in to /\ Len(stack[t]) > 1
              /\ Top(t)'.code = stack[t][Len(stack[t]) - 1].code
         /\ \A code, from : Pops(t, code, from) =>
              /\ Others(t) /\ stack[t] # <<>> /\ Top(t).code = code
              /\ Len(stack[t]) = 1 => stack'[t] = <<>>
              /\ stack'[t] # <<>> =>
                   Len(stack[t]) > 1 /\ Top(t)' = stack[t][Len(stack[t]) - 1]
<1>1. /\ Len(stack[t]) \in Nat /\ (stack[t] = <<>> <=> Len(stack[t]) = 0)
      /\ Len(stack'[t]) \in Nat /\ (stack'[t] = <<>> <=> Len(stack'[t]) = 0)
  BY StackLength DEF StackInv, Shape
<1>2. ASSUME NEW code, NEW from, NEW to, Moves(t, code, from, to)
      PROVE  Others(t) /\ stack'[t] # <<>> /\ Top(t)'.code = code /\ Top(t)'.at \in to
  BY <1>1, <1>2 DEF Moves, IsMove, SameCall, Top
<1>3. ASSUME NEW code, NEW m, NEW to, Pushes(t, code, m, to)
      PROVE  Others(t) /\ stack'[t] # <<>> /\ Top(t)'.code = code /\ Top(t)'.at = to
  BY <1>1, <1>3 DEF Pushes, IsPush, Top
<1>4. ASSUME NEW code, NEW from, NEW to, Calls(t, code, from, to)
      PROVE  Others(t) /\ stack'[t] # <<>> /\ Top(t)'.at \in {"enter", "body"}
  BY <1>1, <1>4 DEF Calls, IsCall, Top
<1>5. ASSUME NEW code, NEW from, NEW to, Ends(t, code, from, to)
      PROVE  /\ Others(t) /\ stack[t] # <<>> /\ Top(t).code = code
             /\ stack'[t] # <<>> /\ Top(t)'.at \in to /\ Len(stack[t]) > 1
             /\ Top(t)'.code = stack[t][Len(stack[t]) - 1].code
  BY <1>1, <1>5 DEF Ends, IsEnd, SameCall, Top
<1>6. ASSUME NEW code, NEW from, Pops(t, code, from)
      PROVE  /\ Others(t) /\ stack[t] # <<>> /\ Top(t).code = code
             /\ Len(stack[t]) = 1 => stack'[t] = <<>>
             /\ stack'[t] # <<>> =>
                  Len(stack[t]) > 1 /\ Top(t)' = stack[t][Len(stack[t]) - 1]
  BY <1>1, <1>6 DEF Pops, IsPop, Top
<1> QED
  BY <1>2, <1>3, <1>4, <1>5, <1>6

-----------------------------------------------------------------------------
(* OwnMethod: for any class of the proxy and any depth of the calls, the   *)
(* body that runs is the one of the method that C++ called, and its slot   *)
(* has it, with these types, in both tables (swig_module_init and          *)
(* swig_connect_director).                                                 *)
THEOREM UpcallsReachTheirMethod == Spec => []OwnMethod
<1>1. StackInv => OwnMethod
  <2> SUFFICES ASSUME StackInv, NEW t \in Threads, Is(t, "java", {"body", "raise"})
               PROVE  LET m == Below(t)[Len(Below(t))].method
                          u == Upcalls[m]
                      IN /\ Top(t).method = m
                         /\ OverrideMethods[u.slot + 1][1] = m
                         /\ DirectorMethods[u.slot + 1] =
                              <<m, [i \in DOMAIN u.args |-> JniType(u.args[i])],
                                JniType(u.result)>>
    BY DEF OwnMethod
  <2> DEFINE f == stack[t][Len(stack[t]) - 1]
  <2>1. stack[t] # <<>> /\ Top(t).code = "java"
    BY DEF Is
  <2>2. Len(stack[t]) > 1 /\ f.code = "upcall" /\ f.method = Top(t).method
    BY <2>1, Caller
  <2>3. f.method \in DOMAIN Upcalls
    BY <2>1, <2>2, TopFrame DEF GoodFrame, GoodUpcall
  <2>4. Below(t)[Len(Below(t))] = f
    BY <2>1, <2>2, CallerFrame
  <2>5. OwnSlot(f.method, Upcalls[f.method])
    BY <2>3, EverySlot DEF OwnSlots
  <2> QED
    BY <2>2, <2>4, <2>5 DEF OwnSlot
<1> QED
  BY StackInvHolds, <1>1, PTL

(* The frames of a thread. *)
LEMMA FramesAreGood ==
  ASSUME StackInv, NEW t \in Threads, NEW f \in Frames(t)
  PROVE  /\ GoodFrame(f)
         /\ \/ stack[t] # <<>> /\ f = Top(t)
            \/ f.at \in {"running", "calling", "java", "body"}
<1>1. Shape(stack[t], t \in Workers)
  BY DEF StackInv
<1>2. PICK S : stack[t] \in Seq(S)
  BY <1>1 DEF Shape, IsStack
<1>3. PICK i \in 1 .. Len(stack[t]) : f = stack[t][i]
  BY <1>2 DEF Frames
<1>4. GoodFrame(f)
  BY <1>1, <1>3 DEF Shape
<1>5. CASE i = Len(stack[t])
  BY <1>2, <1>3, <1>4, <1>5 DEF Top
<1>6. CASE i # Len(stack[t])
  <2>1. i \in 1 .. Len(stack[t]) - 1
    BY <1>2, <1>3, <1>6
  <2>2. CallFrom(stack[t][i], stack[t][i + 1])
    BY <1>1, <2>1 DEF Shape
  <2> QED
    BY <1>3, <1>4, <2>2 DEF CallFrom
<1> QED
  BY <1>5, <1>6

(* RefsBalanced: a body may return null for a vector, and only then does   *)
(* connect() keep a local reference of an upcall: the hypothesis is what   *)
(* tun_builder_get_local_networks of ManagementHandler does.               *)
THEOREM ReferencesAreDeleted ==
  ASSUME ReturnsNull = {}
  PROVE  Spec => []RefsBalanced
<1>1. StackInv => RefsBalanced
  BY FramesAreGood
     DEF RefsBalanced, GoodFrame, GoodWrapper, GoodUpcall, GoodBody, UpcallPlaces
<1> QED
  BY StackInvHolds, <1>1, PTL

-----------------------------------------------------------------------------
(* A 0 that is returned for a null argument comes with an exception.       *)
ZeroTold(s, exception) ==
  s # <<>> /\ s[Len(s)].code = "wrapper" /\ s[Len(s)].at = "zero" => exception

NullTold ==
  /\ pending = [t \in Threads |-> pending[t]]
  /\ \A t \in Threads : ZeroTold(stack[t], pending[t])

LEMMA OneZero ==
  ASSUME NullTold, NEW t \in Threads, Others(t),
         \/ UNCHANGED pending
         \/ \E exception : pending' = [pending EXCEPT ![t] = exception],
         ZeroTold(stack'[t], pending'[t])
  PROVE  NullTold'
  BY DEF NullTold, Others

LEMMA ZeroJavaStep ==
  ASSUME StackInv, NullTold, NEW t \in Threads, JavaStep(t)
  PROVE  NullTold'
<1>1. ASSUME NEW m \in JavaMethods, NEW null \in BOOLEAN, CallWrapper(t, m, null)
      PROVE  NullTold'
  <2>1. StackInv' /\ Pushes(t, "wrapper", Bridge(m), "check") /\ UNCHANGED pending
    BY <1>1, CallWrapperStack DEF CallWrapper
  <2>2. Top(t)'.at = "check" /\ Others(t)
    BY <2>1, NextTops
  <2> QED
    BY <2>1, <2>2, OneZero DEF ZeroTold, Top
<1>2. CASE RejectNull(t)
  <2>1. StackInv' /\ Moves(t, "wrapper", {"check"}, {"zero"})
        /\ pending' = [pending EXCEPT ![t] = TRUE]
    BY <1>2, RejectNullStack DEF RejectNull
  <2>2. Others(t) /\ pending'[t] = TRUE
    BY <2>1 DEF Moves, NullTold
  <2> QED
    BY <2>1, <2>2, OneZero DEF ZeroTold
<1>3. CASE CallFunction(t)
  <2>1. StackInv' /\ UNCHANGED pending
        /\ \/ Moves(t, "wrapper", {"check"}, {"running", "done"})
           \/ Calls(t, "wrapper", {"check"}, "calling")
    BY <1>3, CallFunctionStack DEF CallFunction
  <2>2. Top(t)'.at \in {"running", "done", "enter", "body"} /\ Others(t)
    BY <2>1, NextTops
  <2> QED
    BY <2>1, <2>2, OneZero DEF ZeroTold, Top
<1>4. CASE ReturnToJava(t)
  <2>1. StackInv' /\ pending' = [pending EXCEPT ![t] = FALSE]
        /\ \/ Pops(t, "wrapper", {"done", "zero"})
           \/ Ends(t, "wrapper", {"done", "zero"}, {"raise"})
    BY <1>4, ReturnToJavaStack DEF ReturnToJava
  <2>2. CASE Ends(t, "wrapper", {"done", "zero"}, {"raise"})
    <3>1. Top(t)'.at = "raise" /\ Others(t)
      BY <2>1, <2>2, NextTops
    <3> QED
      BY <2>1, <3>1, OneZero DEF ZeroTold, Top
  <2>3. CASE Pops(t, "wrapper", {"done", "zero"})
    <3>1. stack'[t] # <<>> => Top(t)'.code = "java"
      BY <2>1, <2>3, NextTops, Caller
    <3>2. Others(t)
      BY <2>1, <2>3, NextTops
    <3> QED
      BY <2>1, <3>1, <3>2, OneZero DEF ZeroTold, Top
  <2> QED
    BY <2>1, <2>2, <2>3
<1>5. CASE JavaReturns(t) \/ JavaThrows(t)
  <2>1. /\ StackInv' /\ Ends(t, "java", {"body", "raise"}, {"value", "networks", "null", "thrown"})
        /\ \/ UNCHANGED pending
           \/ pending' = [pending EXCEPT ![t] = TRUE]
    BY <1>5, JavaReturnsStack, JavaThrowsStack DEF JavaReturns, JavaThrows, Ends
  <2>2. Top(t)'.at \in {"value", "networks", "null", "thrown"} /\ Others(t)
    BY <2>1, NextTops
  <2> QED
    BY <2>1, <2>2, OneZero DEF ZeroTold, Top
<1> QED
  BY <1>1, <1>2, <1>3, <1>4, <1>5 DEF JavaStep

LEMMA ZeroCoreStep ==
  ASSUME StackInv, NullTold, NEW t \in Threads, CoreStep(t)
  PROVE  NullTold'
<1>1. ASSUME NEW m \in CoreMethods, CoreCalls(t, m) PROVE NullTold'
  <2>1. StackInv' /\ Pushes(t, "upcall", m, "enter") /\ UNCHANGED pending
    BY <1>1, CoreCallsStack DEF CoreCalls
  <2>2. Top(t)'.at = "enter" /\ Others(t)
    BY <2>1, NextTops
  <2> QED
    BY <2>1, <2>2, OneZero DEF ZeroTold, Top
<1>2. CASE CoreEnds(t)
  <2>1. StackInv' /\ Moves(t, "wrapper", {"running", "ending"}, {"done"}) /\ UNCHANGED pending
    BY <1>2, CoreEndsStack DEF CoreEnds
  <2>2. Top(t)'.at = "done" /\ Others(t)
    BY <2>1, NextTops
  <2> QED
    BY <2>1, <2>2, OneZero DEF ZeroTold, Top
<1>3. CASE EnterUpcall(t) \/ CallBase(t) \/ RejectPure(t) \/ FinalizeNetworks(t)
  <2>1. StackInv' /\ Others(t) /\ Top(t)'.code = "upcall"
    BY <1>3, EnterUpcallStack, CallBaseStack, RejectPureStack, FinalizeNetworksStack,
       NextTops
  <2>2. UNCHANGED pending \/ pending' = [pending EXCEPT ![t] = TRUE]
    BY <1>3 DEF EnterUpcall, CallBase, RejectPure, FinalizeNetworks
  <2> QED
    BY <2>1, <2>2, OneZero DEF ZeroTold, Top
<1>4. CASE CallJava(t)
  <2>1. /\ StackInv'
        /\ \/ Calls(t, "upcall", {"self"}, "java")
           \/ Moves(t, "upcall", {"self"}, {"default"})
    BY <1>4, CallJavaStack
  <2>2. Top(t)'.at \in {"enter", "body", "default"} /\ Others(t)
    BY <2>1, NextTops
  <2>3. UNCHANGED pending \/ pending' = [pending EXCEPT ![t] = TRUE]
    BY <1>4 DEF CallJava
  <2> QED
    BY <2>2, <2>3, OneZero DEF ZeroTold, Top
<1>5. CASE LeaveUpcall(t)
  <2> DEFINE n == Len(stack[t])
             next == Resumed(stack[t][n - 1].at, Top(t).at)
  <2>1. /\ StackInv'
        /\ \/ n = 1 /\ Pops(t, "upcall", LeavePlaces)
           \/ n > 1 /\ Ends(t, "upcall", LeavePlaces, {next})
    BY <1>5, LeaveUpcallStack
  <2>2. \E exception : pending' = [pending EXCEPT ![t] = exception]
    BY <1>5 DEF LeaveUpcall
  <2>3. CASE n = 1 /\ Pops(t, "upcall", LeavePlaces)
    <3>1. stack'[t] = <<>> /\ Others(t)
      BY <2>1, <2>3, NextTops
    <3> QED
      BY <2>2, <3>1, OneZero DEF ZeroTold
  <2>4. CASE n > 1 /\ Ends(t, "upcall", LeavePlaces, {next})
    <3>1. Top(t)'.at = next /\ Others(t) /\ stack[t] # <<>> /\ Top(t).code = "upcall"
      BY <2>1, <2>4, NextTops
    <3>2. stack[t][n - 1].at \in {"running", "calling"}
      BY <2>4, <3>1, Caller
    <3>3. next \in {"running", "ending", "done"}
      BY <3>2 DEF Resumed
    <3> HIDE DEF next
    <3> QED
      BY <2>2, <3>1, <3>3, OneZero DEF ZeroTold, Top
  <2> QED
    BY <2>1, <2>3, <2>4
<1> QED
  BY <1>1, <1>2, <1>3, <1>4, <1>5 DEF CoreStep

LEMMA NullToldHolds == Spec => []NullTold
<1>1. Init => NullTold
  BY DEF Init, DirectorInit, NullTold, ZeroTold
<1>2. StackInv /\ NullTold /\ [Next]_vars => NullTold'
  <2>1. ASSUME NullTold, UNCHANGED vars \/ ProxyLife PROVE NullTold'
    BY <2>1 DEF vars, directorVars, ProxyLife, NullTold
  <2> QED
    BY <2>1, ZeroJavaStep, ZeroCoreStep DEF Next
<1> QED
  BY StackInvHolds, <1>1, <1>2, PTL DEF Spec

(* NullIsRejected: no null argument gets past the test of its JNI          *)
(* function, and the 0 that is returned instead comes with an exception,   *)
(* for any methods and any depth of the calls.                             *)
THEOREM NullNeverArrives == Spec => []NullIsRejected
<1>1. StackInv /\ NullTold => NullIsRejected
  <2> SUFFICES ASSUME StackInv, NullTold, NEW t \in Threads, NEW f \in Frames(t),
                      f.code = "wrapper"
               PROVE  /\ f.null => f.at \in {"check", "zero"}
                      /\ f.at = "zero" => pending[t]
    BY DEF NullIsRejected
  <2>1. GoodWrapper(f)
    BY FramesAreGood DEF GoodFrame
  <2>2. f.null => f.at \in {"check", "zero"}
    BY <2>1 DEF GoodWrapper
  <2>3. ASSUME f.at = "zero" PROVE pending[t]
    <3>1. stack[t] # <<>> /\ f = Top(t)
      BY <2>3, FramesAreGood
    <3> QED
      BY <2>3, <3>1 DEF NullTold, ZeroTold, Top
  <2> QED
    BY <2>2, <2>3
<1> QED
  BY StackInvHolds, NullToldHolds, <1>1, PTL

=============================================================================
