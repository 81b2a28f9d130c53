------------------------ MODULE ConnectionPoolProofs ------------------------
(***************************************************************************)
(* Proofs about ConnectionPool for every set of getters and every size.    *)
(*                                                                         *)
(* The invariant Inv has two halves. BaseInv types the variables, says     *)
(* which program counters come with a connection in loc, and ties the      *)
(* mutex of the resource pool to Maintain's steps. SemInv relates the      *)
(* semaphore's counter and queue to the positions of the getters. Only     *)
(* three actions touch the semaphore; SemFrame disposes of the others.     *)
(***************************************************************************)
EXTENDS ConnectionPool, FiniteSetTheorems, SequenceTheorems, TLAPS

(* Positions at which loc[p] is a connection. *)
LocatedPCs == OwningPCs \cup {"dLoad", "dWaitConn", "dCas"}
LocalsOK == \A p \in Procs : pc[p] \in LocatedPCs => loc[p] \in ConnIds

(* Maintain holds the resource pool's mutex in exactly these positions, and *)
(* its cursor stays within the list.                                        *)
LockedPCs == {"mPrune", "mLoop", "make", "makeCheck", "makeInsert"}
LockOK ==
  /\ \A p \in Maintainers : pc[p] \in LockedPCs <=> rpLock = p
  /\ rpLock # NoProc /\ pc[rpLock] = "mPrune" => cursor <= Len(idle)

BaseInv == TypeOK /\ LocalsOK /\ LockOK

(* The queue of the semaphore holds each getter that waits, once, and no    *)
(* other.                                                                   *)
QueueOK ==
  /\ \A i \in 1..Len(waiters) : pc[waiters[i]] = "queued"
  /\ \A i, j \in 1..Len(waiters) : waiters[i] = waiters[j] => i = j
  /\ \A g \in Getters : pc[g] = "queued" => \E i \in 1..Len(waiters) : waiters[i] = g

SemInv == PermitsConserved /\ NoLostWakeup /\ QueueOK

Inv == BaseInv /\ SemInv
-----------------------------------------------------------------------------
(* Facts about the helpers *)

(* The names of the processes are distinct: the goroutines that use the     *)
(* pool, its timer and its owner.                                           *)
LEMMA ProcNames ==
  /\ Timer \notin Getters /\ Admin \notin Getters /\ Timer # Admin
  /\ NoProc \notin Procs
BY GettersAssumption DEF Timer, Admin, NoProc, Procs, Maintainers

(* The arithmetic of totalSize stays within its unsigned type.              *)
LEMMA Unsigned ==
  ASSUME NEW n \in 0..MaxUint, NEW k \in Int
  PROVE  Minus(n, k) \in 0..MaxUint /\ Plus1(n) \in 0..MaxUint
BY SizesAssumption DEF Minus, Plus1

(* Whatever the pool adds to or takes from totalSize, it stays a uint.      *)
LEMMA TotalType ==
  ASSUME DataType
  PROVE  /\ total \in 0..MaxUint /\ Plus1(total) \in 0..MaxUint
         /\ Minus(total, 1) \in 0..MaxUint /\ Minus(total, Len(idle)) \in 0..MaxUint
<1>1. total \in 0..MaxUint
  BY DEF DataType
<1>2. 1 \in Int /\ Len(idle) \in Int
  BY DEF DataType
<1> QED
  BY <1>1, <1>2, Unsigned

(* A connection, or the nil that a refused one leaves, goes to the start of *)
(* the list.                                                                *)
LEMMA PushType ==
  ASSUME DataType, NEW c \in ConnIds \cup {NilConn}
  PROVE  /\ <<c>> \o idle \in Seq(ConnIds \cup {NilConn})
         /\ Len(<<c>> \o idle) = Len(idle) + 1
<1>1. idle \in Seq(ConnIds \cup {NilConn}) /\ <<c>> \in Seq(ConnIds \cup {NilConn})
  BY DEF DataType
<1> QED
  BY <1>1

(* Taking an element out of a list leaves a list one shorter.               *)
LEMMA WithoutType ==
  ASSUME NEW S, NEW s \in Seq(S), NEW i \in 1..Len(s)
  PROVE  /\ Without(s, i) \in Seq(S)
         /\ Len(Without(s, i)) = Len(s) - 1
         /\ \A j \in 1..(Len(s) - 1) : Without(s, i)[j] = IF j < i THEN s[j] ELSE s[j + 1]
<1>1. Without(s, i) \in [1..(Len(s) - 1) -> S]
  BY DEF Without
<1>2. Len(s) - 1 \in Nat
  OBVIOUS
<1> QED
  BY <1>1, <1>2 DEF Without

(* What closing connections does to the tables keeps their types.           *)
LEMMA RemoveType ==
  ASSUME DataType, NEW S \in SUBSET ConnIds, RemoveConnections(S)
  PROVE  opened' \subseteq ConnIds /\ closedEvents' \in [ConnIds -> Nat]
BY DEF DataType, RemoveConnections

(* What connectionCloseFunc does to the tables keeps their types.           *)
LEMMA CloseType ==
  ASSUME DataType, NEW S \in SUBSET ConnIds, CloseConnections(S)
  PROVE  /\ opened' \subseteq ConnIds
         /\ closedEvents' \in [ConnIds -> Nat]
         /\ conn' \in [ConnIds -> ConnRecord]
<1>1. \A r \in ConnRecord : [r EXCEPT !.closer = "load"] \in ConnRecord
  BY DEF ConnRecord, CloserStates
<1>2. conn \in [ConnIds -> ConnRecord]
  BY DEF DataType
<1>3. conn' \in [ConnIds -> ConnRecord]
  BY <1>1, <1>2 DEF CloseConnections
<1> QED
  BY <1>3, RemoveType DEF CloseConnections

(* Closing a connection leaves a record of the same type.                   *)
LEMMA ClosedType ==
  ASSUME NEW r \in ConnRecord
  PROVE  Closed(r) \in ConnRecord
BY DEF Closed, ConnRecord, ConnStates
-----------------------------------------------------------------------------
(* BaseInv is preserved *)

(* A process goes to a label of its own kind: what is left to show is that  *)
(* it has a connection where the label calls for one ...                    *)
LabelsOf(p) ==
  IF p \in Getters THEN GetPCs
  ELSE IF p = Timer THEN MaintainPCs ELSE MaintainPCs \cup DisconnectPCs

(* ... and the label and the connection stay in the ranges PcOK names.      *)
LEMMA Moves ==
  ASSUME BaseInv, NEW p \in Procs, NEW label \in LabelsOf(p), Goto(p, label),
         label \in LocatedPCs => loc'[p] \in ConnIds,
         \A q \in Procs \ {p} : loc'[q] = loc[q]
  PROVE  PcType' /\ LocalsOK'
<1> USE ProcNames
<1>1. PcType'
  BY DEF BaseInv, TypeOK, PcType, Goto, Procs, Maintainers, LabelsOf
<1>2. LocalsOK'
  BY DEF BaseInv, TypeOK, PcType, LocalsOK, Goto, Procs
<1> QED
  BY <1>1, <1>2

(* ... and that the mutex is where the label puts it: a getter never keeps  *)
(* it, and changes the list only when nobody has it.                        *)
LEMMA GetterMoves ==
  ASSUME BaseInv, NEW g \in Getters, NEW label \in GetPCs, Goto(g, label),
         label \in LocatedPCs => loc'[g] \in ConnIds,
         \A p \in Procs \ {g} : loc'[p] = loc[p],
         UNCHANGED <<rpLock, cursor>>, UNCHANGED idle \/ rpLock = NoProc
  PROVE  PcType' /\ LocalsOK' /\ LockOK'
<1> USE ProcNames
<1>1. PcType' /\ LocalsOK'
  BY Moves DEF LabelsOf, Procs
<1>2. LockOK'
  BY DEF BaseInv, TypeOK, PcType, DataType, LockOK, Goto, Procs, Maintainers
<1> QED
  BY <1>1, <1>2

(* Maintain takes the mutex, keeps it, or gives it back as its label says. *)
LEMMA MaintainerMoves ==
  ASSUME BaseInv, NEW p \in Maintainers, NEW label \in LabelsOf(p), Goto(p, label),
         label \in LocatedPCs => loc'[p] \in ConnIds,
         \A q \in Procs \ {p} : loc'[q] = loc[q],
         label \in LockedPCs <=> rpLock' = p,
         UNCHANGED rpLock \/ {rpLock, rpLock'} = {p, NoProc},
         IF label = "mPrune" THEN cursor' <= Len(idle')
                             ELSE rpLock' \in {p, NoProc} \/ UNCHANGED <<cursor, idle>>
  PROVE  PcType' /\ LocalsOK' /\ LockOK'
<1> USE ProcNames
<1>1. PcType' /\ LocalsOK'
  BY Moves DEF Procs
<1>2. \A q \in Maintainers : pc'[q] \in LockedPCs <=> rpLock' = q
  BY DEF BaseInv, TypeOK, PcType, LockOK, Goto, Procs, Maintainers
<1>3. rpLock' # NoProc /\ pc'[rpLock'] = "mPrune" => cursor' <= Len(idle')
  BY DEF BaseInv, TypeOK, PcType, DataType, LockOK, Goto, Procs, Maintainers
<1> QED
  BY <1>1, <1>2, <1>3 DEF LockOK

(* No process moves and the list is left alone.                             *)
LEMMA Still ==
  ASSUME BaseInv, UNCHANGED <<pc, loc, rpLock, cursor, idle>>
  PROVE  PcType' /\ LocalsOK' /\ LockOK'
BY DEF BaseInv, TypeOK, PcType, LocalsOK, LockOK

(* Checking out, up to the point where a connection is needed. *)
LEMMA BaseAcquire ==
  ASSUME Inv, NEW g \in Getters,
         GetStart(g) \/ Acquire(g) \/ AcquireTimeout(g) \/ GetLoop(g) \/ SelectTimeout(g)
         \/ IncrementTotal(g)
  PROVE  BaseInv'
<1> USE SizesAssumption DEF GetPCs, LocatedPCs, OwningPCs,
           poolVars, semVars, rpVars, rpCtl, connVars, procVars, downVars, histVars,
           allButPc, allButConn
<1> BaseInv /\ DataType /\ g \in Procs
  BY DEF Inv, BaseInv, TypeOK, Procs
<1> pc[g] \in LocatedPCs => loc[g] \in ConnIds
  BY DEF BaseInv, LocalsOK
<1>1. CASE GetStart(g)
  <2>1. DataType'
    BY <1>1 DEF DataType, GetStart, Count, CallKinds
  <2>2. PcType' /\ LocalsOK' /\ LockOK'
    BY <1>1, GetterMoves DEF GetStart
  <2> QED
    BY <2>1, <2>2 DEF BaseInv, TypeOK
<1>2. CASE Acquire(g)
  <2>1. DataType'
    <3>1. semCur' \in 0..MaxPoolSize
      BY <1>2 DEF DataType, Acquire, PermitFree
    <3>2. waiters' \in Seq(Getters)
      <4>1. waiters \in Seq(Getters) /\ Append(waiters, g) \in Seq(Getters)
        BY DEF DataType
      <4> QED
        BY <1>2, <4>1 DEF Acquire
    <3> QED
      BY <1>2, <3>1, <3>2 DEF DataType, Acquire
  <2>2. PcType' /\ LocalsOK' /\ LockOK'
    <3>1. PICK label \in {"loop", "queued"} : Goto(g, label)
      BY <1>2 DEF Acquire
    <3> QED
      BY <1>2, <3>1, GetterMoves DEF Acquire
  <2> QED
    BY <2>1, <2>2 DEF BaseInv, TypeOK
<1>3. CASE AcquireTimeout(g)
  <2>1. PICK i \in 1..Len(waiters) : waiters' = Without(waiters, i)
    BY <1>3 DEF AcquireTimeout
  <2>2. DataType'
    BY <1>3, <2>1, WithoutType DEF DataType, AcquireTimeout
  <2>3. PcType' /\ LocalsOK' /\ LockOK'
    BY <1>3, GetterMoves DEF AcquireTimeout
  <2> QED
    BY <2>2, <2>3 DEF BaseInv, TypeOK
<1>4. CASE GetLoop(g)
  <2>1. DataType'
    BY <1>4 DEF DataType, GetLoop
  <2>2. PcType' /\ LocalsOK' /\ LockOK'
    <3>1. PICK label \in {"get", "release"} : Goto(g, label)
      BY <1>4 DEF GetLoop
    <3> QED
      BY <1>4, <3>1, GetterMoves DEF GetLoop
  <2> QED
    BY <2>1, <2>2 DEF BaseInv, TypeOK
<1>5. CASE SelectTimeout(g)
  <2>1. DataType'
    BY <1>5 DEF DataType, SelectTimeout
  <2>2. PcType' /\ LocalsOK' /\ LockOK'
    BY <1>5, GetterMoves DEF SelectTimeout
  <2> QED
    BY <2>1, <2>2 DEF BaseInv, TypeOK
<1>6. CASE IncrementTotal(g)
  <2>1. DataType'
    BY <1>6 DEF DataType, IncrementTotal, AtMax
  <2>2. PcType' /\ LocalsOK' /\ LockOK'
    <3>1. PICK label \in {"loop", "make"} : Goto(g, label)
      BY <1>6 DEF IncrementTotal
    <3> QED
      BY <1>6, <3>1, GetterMoves DEF IncrementTotal
  <2> QED
    BY <2>1, <2>2 DEF BaseInv, TypeOK
<1> QED
  BY <1>1, <1>2, <1>3, <1>4, <1>5, <1>6

(* Taking a connection from the list, connecting it or giving it up. *)
LEMMA BaseGet ==
  ASSUME Inv, NEW g \in Getters,
         RPGet(g) \/ GetConnect(g) \/ GetWait(g) \/ GetRemove(g) \/ DecrementTotal(g)
  PROVE  BaseInv'
<1> USE SizesAssumption DEF GetPCs, LocatedPCs, OwningPCs,
           poolVars, semVars, rpVars, rpCtl, connVars, procVars, downVars, histVars,
           allButPc, allButConn
<1> BaseInv /\ DataType /\ g \in Procs
  BY DEF Inv, BaseInv, TypeOK, Procs
<1> pc[g] \in LocatedPCs => loc[g] \in ConnIds
  BY DEF BaseInv, LocalsOK
<1>1. CASE RPGet(g)
  <2>1. PICK first \in 1..(Len(idle) + 1) :
          /\ FirstFresh(first)
          /\ CloseConnections(DropBefore(first))
          /\ total' = Minus(total, first - 1)
          /\ idle' = RestAfter(first)
          /\ IF first > Len(idle)
             THEN loc' = loc /\ Goto(g, "select")
             ELSE loc' = [loc EXCEPT ![g] = idle[first]] /\ Goto(g, "connect")
    BY <1>1 DEF RPGet
  <2>2. first <= Len(idle) => idle[first] \in ConnIds
    BY <2>1 DEF FirstFresh, Expired, DataType
  <2>3. DropBefore(first) \in SUBSET ConnIds
    BY <2>1 DEF DropBefore, DataType
  <2>4. idle' \in Seq(ConnIds \cup {NilConn}) /\ total' \in 0..MaxUint
    <3>1. idle' \in Seq(ConnIds \cup {NilConn})
      BY <2>1 DEF RestAfter, DataType
    <3>2. total \in 0..MaxUint /\ first - 1 \in Int
      BY DEF DataType
    <3> QED
      BY <2>1, <3>1, <3>2, Unsigned
  <2>5. loc' \in [Procs -> ConnIds \cup {NilConn}] /\ \A p \in Procs \ {g} : loc'[p] = loc[p]
    BY <2>1, <2>2 DEF DataType
  <2>6. opened' \subseteq ConnIds /\ closedEvents' \in [ConnIds -> Nat]
        /\ conn' \in [ConnIds -> ConnRecord]
    BY <2>1, <2>3, CloseType
  <2>7. DataType'
    BY <1>1, <2>4, <2>5, <2>6 DEF DataType, RPGet
  <2>8. PcType' /\ LocalsOK' /\ LockOK'
    <3>1. CASE first > Len(idle)
      BY <1>1, <2>1, <2>5, <3>1, GetterMoves DEF RPGet
    <3>2. CASE ~(first > Len(idle))
      <4>1. loc'[g] \in ConnIds
        BY <2>1, <2>2, <3>2 DEF DataType
      <4> QED
        BY <1>1, <2>1, <2>5, <3>2, <4>1, GetterMoves DEF RPGet
    <3> QED
      BY <3>1, <3>2
  <2> QED
    BY <2>7, <2>8 DEF BaseInv, TypeOK
<1>2. CASE GetConnect(g)
  <2>1. loc[g] \in ConnIds
    BY <1>2 DEF GetConnect
  <2>2. conn' \in [ConnIds -> ConnRecord]
    <3>1. conn[loc[g]] \in ConnRecord /\ conn \in [ConnIds -> ConnRecord]
      BY <2>1 DEF DataType
    <3>2. [conn[loc[g]] EXCEPT !.state = "connected", !.phase = "dial"] \in ConnRecord
      BY <3>1 DEF ConnRecord, ConnStates, Phases
    <3> QED
      BY <1>2, <2>1, <3>1, <3>2 DEF GetConnect
  <2>3. DataType'
    BY <1>2, <2>2 DEF DataType, GetConnect
  <2>4. PcType' /\ LocalsOK' /\ LockOK'
    BY <1>2, <2>1, GetterMoves DEF GetConnect
  <2> QED
    BY <2>3, <2>4 DEF BaseInv, TypeOK
<1>3. CASE GetWait(g)
  <2>1. DataType'
    BY <1>3 DEF DataType, GetWait
  <2>2. PcType' /\ LocalsOK' /\ LockOK'
    <3>1. PICK label \in {"remove", "holding"} : Goto(g, label)
      BY <1>3 DEF GetWait
    <3>2. loc[g] \in ConnIds
      BY <1>3 DEF GetWait
    <3> QED
      BY <1>3, <3>1, <3>2, GetterMoves DEF GetWait
  <2> QED
    BY <2>1, <2>2 DEF BaseInv, TypeOK
<1>4. CASE GetRemove(g)
  <2>1. loc[g] \in ConnIds
    BY <1>4 DEF GetRemove
  <2>2. DataType'
    BY <1>4, <2>1, RemoveType DEF DataType, GetRemove
  <2>3. PcType' /\ LocalsOK' /\ LockOK'
    BY <1>4, GetterMoves DEF GetRemove
  <2> QED
    BY <2>2, <2>3 DEF BaseInv, TypeOK
<1>5. CASE DecrementTotal(g)
  <2>1. DataType'
    <3>1. Minus(total, 1) \in 0..MaxUint
      BY TotalType
    <3> QED
      BY <1>5, <3>1 DEF DataType, DecrementTotal
  <2>2. \A p \in Procs \ {g} : loc'[p] = loc[p]
    BY <1>5 DEF DecrementTotal, DataType
  <2>3. PcType' /\ LocalsOK' /\ LockOK'
    BY <1>5, <2>2, GetterMoves DEF DecrementTotal
  <2> QED
    BY <2>1, <2>3 DEF BaseInv, TypeOK
<1> QED
  BY <1>1, <1>2, <1>3, <1>4, <1>5

(* Using a connection and putting it back. *)
LEMMA BaseUse ==
  ASSUME Inv, NEW g \in Getters,
         UseSucceeds(g) \/ UseFails(g) \/ ReturnConnection(g) \/ ExpireConnection(g) \/
         RPPut(g)
  PROVE  BaseInv'
<1> USE SizesAssumption DEF GetPCs, LocatedPCs, OwningPCs,
           poolVars, semVars, rpVars, rpCtl, connVars, procVars, downVars, histVars,
           allButPc, allButConn
<1> BaseInv /\ DataType /\ g \in Procs
  BY DEF Inv, BaseInv, TypeOK, Procs
<1> pc[g] \in LocatedPCs => loc[g] \in ConnIds
  BY DEF BaseInv, LocalsOK
<1>1. CASE UseSucceeds(g)
  <2>1. DataType'
    BY <1>1 DEF DataType, UseSucceeds
  <2>2. PcType' /\ LocalsOK' /\ LockOK'
    BY <1>1, Still DEF UseSucceeds
  <2> QED
    BY <2>1, <2>2 DEF BaseInv, TypeOK
<1>2. CASE UseFails(g)
  <2>1. conn' \in [ConnIds -> ConnRecord]
    BY <1>2, ClosedType DEF UseFails, DataType
  <2>2. DataType'
    BY <1>2, <2>1 DEF DataType, UseFails
  <2>3. PcType' /\ LocalsOK' /\ LockOK'
    BY <1>2, Still DEF UseFails
  <2> QED
    BY <2>2, <2>3 DEF BaseInv, TypeOK
<1>3. CASE ReturnConnection(g)
  <2>1. DataType'
    BY <1>3 DEF DataType, ReturnConnection
  <2>2. PcType' /\ LocalsOK' /\ LockOK'
    BY <1>3, GetterMoves DEF ReturnConnection
  <2> QED
    BY <2>1, <2>2 DEF BaseInv, TypeOK
<1>4. CASE ExpireConnection(g)
  <2>1. conn' \in [ConnIds -> ConnRecord] /\ loc[g] \in ConnIds
    BY <1>4, ClosedType DEF ExpireConnection, DataType
  <2>2. DataType'
    BY <1>4, <2>1 DEF DataType, ExpireConnection
  <2>3. PcType' /\ LocalsOK' /\ LockOK'
    BY <1>4, <2>1, GetterMoves DEF ExpireConnection
  <2> QED
    BY <2>2, <2>3 DEF BaseInv, TypeOK
<1>5. CASE RPPut(g)
  <2>1. loc[g] \in ConnIds /\ {loc[g]} \in SUBSET ConnIds
    BY <1>5 DEF RPPut
  <2>2. opened' \subseteq ConnIds /\ closedEvents' \in [ConnIds -> Nat]
        /\ conn' \in [ConnIds -> ConnRecord]
    <3>1. CASE Expired(loc[g])
      BY <1>5, <2>1, <3>1, CloseType DEF RPPut
    <3>2. CASE ~Expired(loc[g])
      BY <1>5, <3>2 DEF RPPut, DataType
    <3> QED
      BY <3>1, <3>2
  <2>3. idle' \in Seq(ConnIds \cup {NilConn}) /\ total' \in 0..MaxUint
    <3>1. idle' \in Seq(ConnIds \cup {NilConn})
      <4>1. idle \in Seq(ConnIds \cup {NilConn})
        BY DEF DataType
      <4>2. <<loc[g]>> \o idle \in Seq(ConnIds \cup {NilConn})
        BY <2>1, PushType
      <4> QED
        BY <1>5, <4>1, <4>2 DEF RPPut
    <3>2. total \in 0..MaxUint /\ Minus(total, 1) \in 0..MaxUint
      BY TotalType
    <3> QED
      BY <1>5, <3>1, <3>2 DEF RPPut
  <2>4. loc' \in [Procs -> ConnIds \cup {NilConn}] /\ \A p \in Procs \ {g} : loc'[p] = loc[p]
    BY <1>5 DEF RPPut, DataType
  <2>5. DataType'
    BY <1>5, <2>2, <2>3, <2>4 DEF DataType, RPPut
  <2>6. PcType' /\ LocalsOK' /\ LockOK'
    BY <1>5, <2>4, GetterMoves DEF RPPut
  <2> QED
    BY <2>5, <2>6 DEF BaseInv, TypeOK
<1> QED
  BY <1>1, <1>2, <1>3, <1>4, <1>5

(* The goroutines of a connection. *)
LEMMA BaseConnection ==
  ASSUME Inv, NEW c \in ConnIds,
         BackgroundConnect(c) \/ DialSucceeds(c) \/ HandshakeSucceeds(c) \/
         ConnectFails(c) \/ HandshakeErrorCheck(c) \/ HandshakeErrorClear(c) \/
         CloserLoad(c) \/ CloserWait(c) \/ CloserCas(c) \/ IdleDeadlinePasses(c)
  PROVE  BaseInv'
<1> USE SizesAssumption DEF GetPCs, LocatedPCs, OwningPCs,
           poolVars, semVars, rpVars, rpCtl, connVars, procVars, downVars, histVars,
           allButPc, allButConn
<1> BaseInv /\ DataType
  BY DEF Inv, BaseInv, TypeOK
<1>1. CASE BackgroundConnect(c)
  <2>1. conn' \in [ConnIds -> ConnRecord]
    <3>1. conn[c] \in ConnRecord /\ conn \in [ConnIds -> ConnRecord]
      BY DEF DataType
    <3>2. [conn[c] EXCEPT !.state = "connected", !.phase = "dial"] \in ConnRecord
      BY <3>1 DEF ConnRecord, ConnStates, Phases
    <3> QED
      BY <1>1, <3>1, <3>2 DEF BackgroundConnect
  <2>2. DataType'
    BY <1>1, <2>1 DEF DataType, BackgroundConnect
  <2>3. PcType' /\ LocalsOK' /\ LockOK'
    BY <1>1, Still DEF BackgroundConnect
  <2> QED
    BY <2>2, <2>3 DEF BaseInv, TypeOK
<1>2. CASE DialSucceeds(c)
  <2>1. conn' \in [ConnIds -> ConnRecord]
    <3>1. conn[c] \in ConnRecord /\ conn \in [ConnIds -> ConnRecord]
      BY DEF DataType
    <3>2. [conn[c] EXCEPT !.phase = "handshake", !.net = TRUE] \in ConnRecord
      BY <3>1 DEF ConnRecord, Phases
    <3> QED
      BY <1>2, <3>1, <3>2 DEF DialSucceeds
  <2>2. DataType'
    BY <1>2, <2>1 DEF DataType, DialSucceeds
  <2>3. PcType' /\ LocalsOK' /\ LockOK'
    BY <1>2, Still DEF DialSucceeds
  <2> QED
    BY <2>2, <2>3 DEF BaseInv, TypeOK
<1>3. CASE HandshakeSucceeds(c)
  <2>1. conn' \in [ConnIds -> ConnRecord]
    <3>1. conn[c] \in ConnRecord /\ conn \in [ConnIds -> ConnRecord]
      BY DEF DataType
    <3>2. [conn[c] EXCEPT !.phase = "over"] \in ConnRecord
      BY <3>1 DEF ConnRecord, Phases
    <3> QED
      BY <1>3, <3>1, <3>2 DEF HandshakeSucceeds
  <2>2. DataType'
    BY <1>3, <2>1 DEF DataType, HandshakeSucceeds
  <2>3. PcType' /\ LocalsOK' /\ LockOK'
    BY <1>3, Still DEF HandshakeSucceeds
  <2> QED
    BY <2>2, <2>3 DEF BaseInv, TypeOK
<1>4. CASE ConnectFails(c)
  <2>1. conn' \in [ConnIds -> ConnRecord]
    <3>1. conn[c] \in ConnRecord /\ conn \in [ConnIds -> ConnRecord]
      BY DEF DataType
    <3>2. [conn[c] EXCEPT !.phase = "failed", !.state = "disconnected", !.net = FALSE,
                        !.err = TRUE] \in ConnRecord
      BY <3>1 DEF ConnRecord, Phases, ConnStates
    <3> QED
      BY <1>4, <3>1, <3>2 DEF ConnectFails
  <2>2. DataType'
    BY <1>4, <2>1 DEF DataType, ConnectFails
  <2>3. PcType' /\ LocalsOK' /\ LockOK'
    BY <1>4, Still DEF ConnectFails
  <2> QED
    BY <2>2, <2>3 DEF BaseInv, TypeOK
<1>5. CASE HandshakeErrorCheck(c)
  <2>1. conn' \in [ConnIds -> ConnRecord]
    <3>1. PICK next \in {"over", "clearing"} : conn' = [conn EXCEPT ![c].phase = next]
      BY <1>5 DEF HandshakeErrorCheck
    <3>2. conn[c] \in ConnRecord /\ conn \in [ConnIds -> ConnRecord]
      BY DEF DataType
    <3>3. [conn[c] EXCEPT !.phase = next] \in ConnRecord
      BY <3>2 DEF ConnRecord, Phases
    <3> QED
      BY <3>1, <3>2, <3>3
  <2>2. DataType'
    BY <1>5, <2>1 DEF DataType, HandshakeErrorCheck
  <2>3. PcType' /\ LocalsOK' /\ LockOK'
    BY <1>5, Still DEF HandshakeErrorCheck
  <2> QED
    BY <2>2, <2>3 DEF BaseInv, TypeOK
<1>6. CASE HandshakeErrorClear(c)
  <2>1. conn' \in [ConnIds -> ConnRecord]
    <3>1. conn[c] \in ConnRecord /\ conn \in [ConnIds -> ConnRecord]
      BY DEF DataType
    <3>2. [conn[c] EXCEPT !.phase = "over"] \in ConnRecord
      BY <3>1 DEF ConnRecord, Phases
    <3> QED
      BY <1>6, <3>1, <3>2 DEF HandshakeErrorClear
  <2>2. DataType'
    <3>1. generation' \in Nat
      BY <1>6 DEF DataType, HandshakeErrorClear
    <3> QED
      BY <1>6, <2>1, <3>1 DEF DataType, HandshakeErrorClear
  <2>3. PcType' /\ LocalsOK' /\ LockOK'
    BY <1>6, Still DEF HandshakeErrorClear
  <2> QED
    BY <2>2, <2>3 DEF BaseInv, TypeOK
<1>7. CASE CloserLoad(c)
  <2>1. conn' \in [ConnIds -> ConnRecord]
    <3>1. PICK next \in {"wait", "cas"} : conn' = [conn EXCEPT ![c].closer = next]
      BY <1>7 DEF CloserLoad
    <3>2. conn[c] \in ConnRecord /\ conn \in [ConnIds -> ConnRecord]
      BY DEF DataType
    <3>3. [conn[c] EXCEPT !.closer = next] \in ConnRecord
      BY <3>2 DEF ConnRecord, CloserStates
    <3> QED
      BY <3>1, <3>2, <3>3
  <2>2. DataType'
    BY <1>7, <2>1 DEF DataType, CloserLoad
  <2>3. PcType' /\ LocalsOK' /\ LockOK'
    BY <1>7, Still DEF CloserLoad
  <2> QED
    BY <2>2, <2>3 DEF BaseInv, TypeOK
<1>8. CASE CloserWait(c)
  <2>1. conn' \in [ConnIds -> ConnRecord]
    <3>1. conn[c] \in ConnRecord /\ conn \in [ConnIds -> ConnRecord]
      BY DEF DataType
    <3>2. [conn[c] EXCEPT !.closer = "cas"] \in ConnRecord
      BY <3>1 DEF ConnRecord, CloserStates
    <3> QED
      BY <1>8, <3>1, <3>2 DEF CloserWait
  <2>2. DataType'
    BY <1>8, <2>1 DEF DataType, CloserWait
  <2>3. PcType' /\ LocalsOK' /\ LockOK'
    BY <1>8, Still DEF CloserWait
  <2> QED
    BY <2>2, <2>3 DEF BaseInv, TypeOK
<1>9. CASE CloserCas(c)
  <2>1. \A r \in ConnRecord : [Closed(r) EXCEPT !.closer = "none"] \in ConnRecord
    BY ClosedType DEF ConnRecord, CloserStates
  <2>2. conn' \in [ConnIds -> ConnRecord]
    BY <1>9, <2>1 DEF CloserCas, DataType
  <2>3. DataType'
    BY <1>9, <2>2 DEF DataType, CloserCas
  <2>4. PcType' /\ LocalsOK' /\ LockOK'
    BY <1>9, Still DEF CloserCas
  <2> QED
    BY <2>3, <2>4 DEF BaseInv, TypeOK
<1>10. CASE IdleDeadlinePasses(c)
  <2>1. DataType'
    BY <1>10 DEF DataType, IdleDeadlinePasses
  <2>2. PcType' /\ LocalsOK' /\ LockOK'
    BY <1>10, Still DEF IdleDeadlinePasses
  <2> QED
    BY <2>1, <2>2 DEF BaseInv, TypeOK
<1> QED
  BY <1>1, <1>2, <1>3, <1>4, <1>5, <1>6, <1>7, <1>8, <1>9, <1>10

(* Making a connection, for a getter or, with the mutex held, for Maintain. *)
LEMMA MakeMoves ==
  ASSUME BaseInv, NEW p \in Procs, pc[p] \in {"make", "makeCheck", "makeInsert"},
         NEW label, Goto(p, label),
         IF p \in Maintainers THEN label \in {"makeCheck", "makeInsert", "mLoop"}
         ELSE label \in {"makeCheck", "makeInsert", "connect", "decr"} /\ UNCHANGED idle,
         label \in LocatedPCs => loc'[p] \in ConnIds,
         \A q \in Procs \ {p} : loc'[q] = loc[q],
         UNCHANGED <<rpLock, cursor>>
  PROVE  PcType' /\ LocalsOK' /\ LockOK'
<1> USE ProcNames
<1>1. CASE p \in Maintainers
  <2>1. rpLock' = p
    BY <1>1 DEF BaseInv, LockOK, LockedPCs
  <2>2. label \in LabelsOf(p) /\ label \in LockedPCs /\ label # "mPrune"
    BY <1>1 DEF LabelsOf, MaintainPCs, LockedPCs, Maintainers
  <2> QED
    BY <1>1, <2>1, <2>2, MaintainerMoves
<1>2. CASE p \notin Maintainers
  <2>1. p \in Getters /\ label \in GetPCs
    BY <1>2 DEF GetPCs, Procs
  <2> QED
    BY <1>2, <2>1, GetterMoves
<1> QED
  BY <1>1, <1>2

(* The steps of makeNewConnection keep BaseInv.                            *)
LEMMA BaseMake ==
  ASSUME Inv, NEW p \in Procs,
         MakeConnection(p) \/ MakeRefused(p) \/ MakeChecked(p) \/ MakeInsert(p)
  PROVE  BaseInv'
<1> USE SizesAssumption DEF LocatedPCs, OwningPCs,
           poolVars, semVars, rpVars, rpCtl, connVars, procVars, downVars, histVars,
           allButPc, allButConn
<1> BaseInv /\ DataType
  BY DEF Inv, BaseInv, TypeOK
<1> pc[p] \in LocatedPCs => loc[p] \in ConnIds
  BY DEF BaseInv, LocalsOK
<1> loc \in [Procs -> ConnIds \cup {NilConn}] /\ conn \in [ConnIds -> ConnRecord]
  BY DEF DataType
<1>1. CASE MakeConnection(p)
  <2>1. nextid' \in 0..MaxConnId /\ nextid + 1 \in ConnIds
    BY <1>1 DEF MakeConnection, DataType, ConnIds
  <2>2. conn' \in [ConnIds -> ConnRecord]
    <3>1. conn[nextid + 1] \in ConnRecord /\ generation \in Nat
      BY <2>1 DEF DataType
    <3>2. [conn[nextid + 1] EXCEPT !.state = "initialized", !.gen = generation] \in ConnRecord
      BY <3>1 DEF ConnRecord, ConnStates
    <3> QED
      BY <1>1, <2>1, <3>2 DEF MakeConnection
  <2>3. /\ loc' \in [Procs -> ConnIds \cup {NilConn}]
        /\ loc'[p] \in ConnIds /\ \A q \in Procs \ {p} : loc'[q] = loc[q]
    BY <1>1, <2>1 DEF MakeConnection
  <2>4. DataType'
    BY <1>1, <2>1, <2>2, <2>3 DEF DataType, MakeConnection
  <2>5. PcType' /\ LocalsOK' /\ LockOK'
    BY <1>1, <2>3, MakeMoves DEF MakeConnection
  <2> QED
    BY <2>4, <2>5 DEF BaseInv, TypeOK
<1>2. CASE MakeRefused(p)
  <2>1. loc[p] \in ConnIds
    BY <1>2 DEF MakeRefused
  <2>2. closedEvents' \in [ConnIds -> Nat]
    BY <1>2, <2>1 DEF MakeRefused, DataType
  <2>3. /\ loc' \in [Procs -> ConnIds \cup {NilConn}]
        /\ \A q \in Procs \ {p} : loc'[q] = loc[q]
    BY <1>2 DEF MakeRefused
  <2>4. idle' \in Seq(ConnIds \cup {NilConn}) /\ total' \in 0..MaxUint
    <3>1. /\ idle \in Seq(ConnIds \cup {NilConn})
          /\ <<NilConn>> \o idle \in Seq(ConnIds \cup {NilConn})
      BY PushType DEF DataType
    <3> QED
      BY <1>2, <3>1, TotalType DEF MakeRefused
  <2>5. DataType'
    BY <1>2, <2>2, <2>3, <2>4 DEF DataType, MakeRefused
  <2>6. PcType' /\ LocalsOK' /\ LockOK'
    <3>1. PICK label : /\ Goto(p, label)
                       /\ IF p \in Maintainers THEN label = "mLoop"
                          ELSE label = "decr" /\ UNCHANGED idle
      BY <1>2 DEF MakeRefused
    <3> QED
      BY <1>2, <2>3, <3>1, MakeMoves DEF MakeRefused
  <2> QED
    BY <2>5, <2>6 DEF BaseInv, TypeOK
<1>3. CASE MakeChecked(p)
  <2>1. DataType'
    BY <1>3 DEF DataType, MakeChecked
  <2>2. loc[p] \in ConnIds
    BY <1>3 DEF MakeChecked
  <2>3. PcType' /\ LocalsOK' /\ LockOK'
    BY <1>3, <2>2, MakeMoves DEF MakeChecked
  <2> QED
    BY <2>1, <2>3 DEF BaseInv, TypeOK
<1>4. CASE MakeInsert(p)
  <2>1. loc[p] \in ConnIds
    BY <1>4 DEF MakeInsert
  <2>2. conn' \in [ConnIds -> ConnRecord] /\ opened' \subseteq ConnIds
    <3>1. conn[loc[p]] \in ConnRecord
      BY <2>1
    <3>2. [conn[loc[p]] EXCEPT !.phase = "spawned"] \in ConnRecord
      BY <3>1 DEF ConnRecord, Phases
    <3>3. opened \subseteq ConnIds
      BY DEF DataType
    <3> QED
      BY <1>4, <2>1, <3>2, <3>3 DEF MakeInsert
  <2>3. /\ loc' \in [Procs -> ConnIds \cup {NilConn}]
        /\ \A q \in Procs \ {p} : loc'[q] = loc[q]
    BY <1>4 DEF MakeInsert
  <2>4. idle' \in Seq(ConnIds \cup {NilConn}) /\ total' \in 0..MaxUint
    <3>1. /\ idle \in Seq(ConnIds \cup {NilConn})
          /\ <<loc[p]>> \o idle \in Seq(ConnIds \cup {NilConn})
      BY <2>1, PushType DEF DataType
    <3> QED
      BY <1>4, <3>1, TotalType DEF MakeInsert
  <2>5. DataType'
    BY <1>4, <2>2, <2>3, <2>4 DEF DataType, MakeInsert
  <2>6. PcType' /\ LocalsOK' /\ LockOK'
    <3>1. PICK label : /\ Goto(p, label)
                       /\ IF p \in Maintainers THEN label = "mLoop"
                          ELSE label = "connect" /\ UNCHANGED <<idle, loc>>
      BY <1>4 DEF MakeInsert
    <3> QED
      BY <1>4, <2>1, <2>3, <3>1, MakeMoves DEF MakeInsert
  <2> QED
    BY <2>5, <2>6 DEF BaseInv, TypeOK
<1> QED
  BY <1>1, <1>2, <1>3, <1>4

(* Maintain, for the timer and for connect. *)
LEMMA BaseMaintain ==
  ASSUME Inv, NEW p \in Maintainers, MaintainStep(p)
  PROVE  BaseInv'
<1> USE SizesAssumption DEF LocatedPCs, OwningPCs,
           poolVars, semVars, rpVars, rpCtl, connVars, procVars, downVars, histVars,
           allButPc, allButConn
<1> BaseInv /\ DataType /\ p \in Procs /\ {"idle", "mPrune", "mLoop", "make"} \subseteq LabelsOf(p)
  BY ProcNames DEF Inv, BaseInv, TypeOK, Procs, LabelsOf, MaintainPCs, Maintainers
<1> pc[p] \in LockedPCs <=> rpLock = p
  BY DEF BaseInv, LockOK
<1> idle \in Seq(ConnIds \cup {NilConn})
  BY DEF DataType
<1> p # NoProc
  BY ProcNames
<1>1. CASE MaintainStart(p)
  <2>1. DataType'
    BY <1>1 DEF DataType, MaintainStart
  <2>2. PcType' /\ LocalsOK' /\ LockOK'
    <3>1. CASE rpClosed
      BY <1>1, <3>1, MaintainerMoves DEF MaintainStart, LockedPCs
    <3>2. CASE ~rpClosed
      <4>1. Len(idle) <= Len(idle')
        BY <1>1 DEF MaintainStart
      <4> QED
        BY <1>1, <3>2, <4>1, MaintainerMoves DEF MaintainStart, LockedPCs
    <3> QED
      BY <3>1, <3>2
  <2> QED
    BY <2>1, <2>2 DEF BaseInv, TypeOK
<1>2. CASE MaintainPrune(p)
  <2>1. rpLock = p /\ cursor \in 1..Len(idle)
    BY <1>2 DEF MaintainPrune, LockedPCs, BaseInv, LockOK, DataType
  <2>2. {idle[cursor]} \ {NilConn} \in SUBSET ConnIds
    BY <2>1
  <2>3. CASE Expired(idle[cursor])
    <3>1. /\ CloseConnections({idle[cursor]} \ {NilConn})
          /\ idle' = Without(idle, cursor) /\ total' = Minus(total, 1)
          /\ cursor' = cursor - 1
          /\ UNCHANGED <<connected, generation, nextid, semVars, rpClosed, rpLock, timerArmed,
                         idleExpired, procVars, downVars, startGen, calls>>
      BY <1>2, <2>3 DEF MaintainPrune
    <3>2. /\ opened' \subseteq ConnIds /\ closedEvents' \in [ConnIds -> Nat]
          /\ conn' \in [ConnIds -> ConnRecord]
      BY <2>2, <3>1, CloseType
    <3>3. idle' \in Seq(ConnIds \cup {NilConn}) /\ Len(idle') = Len(idle) - 1
      BY <2>1, <3>1, WithoutType
    <3>4. total' \in 0..MaxUint /\ cursor' \in Nat
      BY <2>1, <3>1, TotalType
    <3>5. DataType'
      BY <3>1, <3>2, <3>3, <3>4 DEF DataType
    <3>6. cursor' <= Len(idle')
      BY <2>1, <3>1, <3>3
    <3>7. PcType' /\ LocalsOK' /\ LockOK'
      BY <3>1, <3>6 DEF BaseInv, TypeOK, PcType, LocalsOK, LockOK
    <3> QED
      BY <3>5, <3>7 DEF BaseInv, TypeOK
  <2>4. CASE ~Expired(idle[cursor])
    <3>1. /\ cursor' = cursor - 1
          /\ UNCHANGED <<idle, total, opened, closedEvents, conn>>
          /\ UNCHANGED <<connected, generation, nextid, semVars, rpClosed, rpLock, timerArmed,
                         idleExpired, procVars, downVars, startGen, calls>>
      BY <1>2, <2>4 DEF MaintainPrune
    <3>2. cursor' \in Nat /\ cursor' <= Len(idle')
      BY <2>1, <3>1
    <3>3. DataType'
      BY <3>1, <3>2 DEF DataType
    <3>4. PcType' /\ LocalsOK' /\ LockOK'
      BY <3>1, <3>2 DEF BaseInv, TypeOK, PcType, LocalsOK, LockOK
    <3> QED
      BY <3>3, <3>4 DEF BaseInv, TypeOK
  <2> QED
    BY <2>3, <2>4
<1>3. CASE MaintainPruned(p)
  <2>1. DataType'
    BY <1>3 DEF DataType, MaintainPruned
  <2>2. PcType' /\ LocalsOK' /\ LockOK'
    BY <1>3, MaintainerMoves DEF MaintainPruned, LockedPCs
  <2> QED
    BY <2>1, <2>2 DEF BaseInv, TypeOK
<1>4. CASE MaintainLoop(p)
  <2>1. DataType'
    BY <1>4 DEF DataType, MaintainLoop
  <2>2. rpLock = p
    BY <1>4 DEF MaintainLoop, LockedPCs
  <2>3. PcType' /\ LocalsOK' /\ LockOK'
    <3>1. CASE total < MinPoolSize
      BY <1>4, <2>2, <3>1, MaintainerMoves DEF MaintainLoop, LockedPCs
    <3>2. CASE ~(total < MinPoolSize)
      BY <1>4, <2>2, <3>2, MaintainerMoves DEF MaintainLoop, LockedPCs
    <3> QED
      BY <3>1, <3>2
  <2> QED
    BY <2>1, <2>3 DEF BaseInv, TypeOK
<1> QED
  BY <1>1, <1>2, <1>3, <1>4 DEF MaintainStep

(* The owner and the timer outside Maintain's critical section. *)
LEMMA OutsideMoves ==
  ASSUME BaseInv, NEW p \in Maintainers, NEW label \in LabelsOf(p), Goto(p, label),
         pc[p] \notin LockedPCs, label \notin LockedPCs,
         label \in LocatedPCs => loc'[p] \in ConnIds,
         \A q \in Procs \ {p} : loc'[q] = loc[q],
         UNCHANGED <<rpLock, cursor>>, UNCHANGED idle \/ rpLock = NoProc
  PROVE  PcType' /\ LocalsOK' /\ LockOK'
<1> USE ProcNames
<1>1. PcType' /\ LocalsOK'
  BY Moves DEF Procs
<1>2. LockOK'
  BY DEF BaseInv, TypeOK, PcType, DataType, LockOK, Goto, Procs, Maintainers
<1> QED
  BY <1>1, <1>2

(* The calls that start, clear and end the pool. *)
LEMMA BaseAdmin ==
  ASSUME Inv,
         Clear \/ TimerFires \/ Connect \/ Initialize \/ Disconnect \/ DeadlinePasses
  PROVE  BaseInv'
<1> USE SizesAssumption DEF LocatedPCs, OwningPCs, LockedPCs,
           poolVars, semVars, rpVars, rpCtl, connVars, procVars, downVars, histVars,
           allButPc, allButConn
<1> BaseInv /\ DataType /\ Admin \in Maintainers /\ Timer \in Maintainers
  BY DEF Inv, BaseInv, TypeOK, Maintainers
<1> /\ {"init", "mLock", "dClose"} \subseteq LabelsOf(Admin) /\ "mLock" \in LabelsOf(Timer)
  BY ProcNames DEF LabelsOf, MaintainPCs, DisconnectPCs
<1>1. CASE Clear
  <2>1. generation' \in Nat /\ calls' \in [CallKinds -> Nat]
    BY <1>1 DEF DataType, Clear, Count, CallKinds
  <2>2. DataType'
    BY <1>1, <2>1 DEF DataType, Clear
  <2>3. PcType' /\ LocalsOK' /\ LockOK'
    BY <1>1, Still DEF Clear
  <2> QED
    BY <2>2, <2>3 DEF BaseInv, TypeOK
<1>2. CASE TimerFires
  <2>1. calls' \in [CallKinds -> Nat]
    BY <1>2 DEF DataType, TimerFires, Count, CallKinds
  <2>2. DataType'
    BY <1>2, <2>1 DEF DataType, TimerFires
  <2>3. PcType' /\ LocalsOK' /\ LockOK'
    BY <1>2, OutsideMoves DEF TimerFires
  <2> QED
    BY <2>2, <2>3 DEF BaseInv, TypeOK
<1>3. CASE Connect
  <2>1. calls' \in [CallKinds -> Nat]
    BY <1>3 DEF DataType, Connect, Count, CallKinds
  <2>2. DataType'
    BY <1>3, <2>1 DEF DataType, Connect
  <2>3. PcType' /\ LocalsOK' /\ LockOK'
    BY <1>3, OutsideMoves DEF Connect
  <2> QED
    BY <2>2, <2>3 DEF BaseInv, TypeOK
<1>4. CASE Initialize
  <2>1. DataType'
    BY <1>4 DEF DataType, Initialize
  <2>2. PcType' /\ LocalsOK' /\ LockOK'
    BY <1>4, OutsideMoves DEF Initialize
  <2> QED
    BY <2>1, <2>2 DEF BaseInv, TypeOK
<1>5. CASE Disconnect
  <2>1. calls' \in [CallKinds -> Nat]
    BY <1>5 DEF DataType, Disconnect, Count, CallKinds
  <2>2. DataType'
    BY <1>5, <2>1 DEF DataType, Disconnect
  <2>3. PcType' /\ LocalsOK' /\ LockOK'
    BY <1>5, OutsideMoves DEF Disconnect
  <2> QED
    BY <2>2, <2>3 DEF BaseInv, TypeOK
<1>6. CASE DeadlinePasses
  <2>1. DataType'
    BY <1>6 DEF DataType, DeadlinePasses
  <2>2. PcType' /\ LocalsOK' /\ LockOK'
    BY <1>6, Still DEF DeadlinePasses
  <2> QED
    BY <2>1, <2>2 DEF BaseInv, TypeOK
<1> QED
  BY <1>1, <1>2, <1>3, <1>4, <1>5, <1>6

(* The steps of disconnect. *)
LEMMA BaseDisconnect ==
  ASSUME Inv, DisconnectStep
  PROVE  BaseInv'
<1> USE SizesAssumption DEF LocatedPCs, OwningPCs, LockedPCs,
           poolVars, semVars, rpVars, rpCtl, connVars, procVars, downVars, histVars,
           allButPc, allButConn
<1> BaseInv /\ DataType /\ Admin \in Maintainers /\ Admin \in Procs
  BY DEF Inv, BaseInv, TypeOK, Maintainers, Procs
<1> {"idle", "dGen", "dWait", "dCopy", "dNext", "dLoad", "dWaitConn", "dCas", "dClear"}
      \subseteq LabelsOf(Admin)
  BY ProcNames DEF LabelsOf, MaintainPCs, DisconnectPCs
<1> pc[Admin] \in LocatedPCs => loc[Admin] \in ConnIds
  BY DEF BaseInv, LocalsOK
<1> loc \in [Procs -> ConnIds \cup {NilConn}]
  BY DEF DataType
<1>1. CASE RPClose
  <2>1. Elements(idle) \ {NilConn} \in SUBSET ConnIds
    BY DEF DataType, Elements
  <2>2. /\ opened' \subseteq ConnIds /\ closedEvents' \in [ConnIds -> Nat]
        /\ conn' \in [ConnIds -> ConnRecord]
    BY <1>1, <2>1, CloseType DEF RPClose
  <2>3. idle' \in Seq(ConnIds \cup {NilConn}) /\ total' \in 0..MaxUint
    BY <1>1, TotalType DEF RPClose
  <2>4. DataType'
    BY <1>1, <2>2, <2>3 DEF DataType, RPClose
  <2>5. PcType' /\ LocalsOK' /\ LockOK'
    BY <1>1, OutsideMoves DEF RPClose
  <2> QED
    BY <2>4, <2>5 DEF BaseInv, TypeOK
<1>2. CASE DisconnectGeneration
  <2>1. generation' \in Nat
    BY <1>2 DEF DataType, DisconnectGeneration
  <2>2. DataType'
    BY <1>2, <2>1 DEF DataType, DisconnectGeneration
  <2>3. PICK label \in {"dWait", "dCopy"} : Goto(Admin, label)
    BY <1>2 DEF DisconnectGeneration
  <2>4. PcType' /\ LocalsOK' /\ LockOK'
    BY <1>2, <2>3, OutsideMoves DEF DisconnectGeneration
  <2> QED
    BY <2>2, <2>4 DEF BaseInv, TypeOK
<1>3. CASE DisconnectWait
  <2>1. DataType'
    BY <1>3 DEF DataType, DisconnectWait
  <2>2. PcType' /\ LocalsOK' /\ LockOK'
    BY <1>3, OutsideMoves DEF DisconnectWait
  <2> QED
    BY <2>1, <2>2 DEF BaseInv, TypeOK
<1>4. CASE DisconnectCopy
  <2>1. DataType'
    BY <1>4 DEF DataType, DisconnectCopy
  <2>2. PcType' /\ LocalsOK' /\ LockOK'
    BY <1>4, OutsideMoves DEF DisconnectCopy
  <2> QED
    BY <2>1, <2>2 DEF BaseInv, TypeOK
<1>5. ASSUME NEW c \in ConnIds, DisconnectRemove(c) PROVE BaseInv'
  <2>1. opened' \subseteq ConnIds /\ closedEvents' \in [ConnIds -> Nat]
    BY <1>5, RemoveType DEF DisconnectRemove
  <2>2. /\ loc' \in [Procs -> ConnIds \cup {NilConn}] /\ loc'[Admin] \in ConnIds
        /\ \A q \in Procs \ {Admin} : loc'[q] = loc[q]
    BY <1>5 DEF DisconnectRemove
  <2>3. DataType'
    BY <1>5, <2>1, <2>2 DEF DataType, DisconnectRemove
  <2>4. PcType' /\ LocalsOK' /\ LockOK'
    BY <1>5, <2>2, OutsideMoves DEF DisconnectRemove
  <2> QED
    BY <2>3, <2>4 DEF BaseInv, TypeOK
<1>6. CASE DisconnectLoad
  <2>1. DataType'
    BY <1>6 DEF DataType, DisconnectLoad
  <2>2. PICK label \in {"dWaitConn", "dCas"} : Goto(Admin, label)
    BY <1>6 DEF DisconnectLoad
  <2>3. PcType' /\ LocalsOK' /\ LockOK'
    BY <1>6, <2>2, OutsideMoves DEF DisconnectLoad
  <2> QED
    BY <2>1, <2>3 DEF BaseInv, TypeOK
<1>7. CASE DisconnectWaitConn
  <2>1. DataType'
    BY <1>7 DEF DataType, DisconnectWaitConn
  <2>2. PcType' /\ LocalsOK' /\ LockOK'
    BY <1>7, OutsideMoves DEF DisconnectWaitConn
  <2> QED
    BY <2>1, <2>2 DEF BaseInv, TypeOK
<1>8. CASE DisconnectCas
  <2>1. loc[Admin] \in ConnIds
    BY <1>8 DEF DisconnectCas
  <2>2. conn' \in [ConnIds -> ConnRecord]
    BY <1>8, <2>1, ClosedType DEF DisconnectCas, DataType
  <2>3. /\ loc' \in [Procs -> ConnIds \cup {NilConn}]
        /\ \A q \in Procs \ {Admin} : loc'[q] = loc[q]
    BY <1>8 DEF DisconnectCas
  <2>4. DataType'
    BY <1>8, <2>2, <2>3 DEF DataType, DisconnectCas
  <2>5. PcType' /\ LocalsOK' /\ LockOK'
    BY <1>8, <2>3, OutsideMoves DEF DisconnectCas
  <2> QED
    BY <2>4, <2>5 DEF BaseInv, TypeOK
<1>9. CASE DisconnectState
  <2>1. DataType'
    BY <1>9 DEF DataType, DisconnectState
  <2>2. PcType' /\ LocalsOK' /\ LockOK'
    BY <1>9, OutsideMoves DEF DisconnectState
  <2> QED
    BY <2>1, <2>2 DEF BaseInv, TypeOK
<1>10. CASE ClearTotal
  <2>1. DataType'
    BY <1>10 DEF DataType, ClearTotal
  <2>2. PcType' /\ LocalsOK' /\ LockOK'
    BY <1>10, OutsideMoves DEF ClearTotal
  <2> QED
    BY <2>1, <2>2 DEF BaseInv, TypeOK
<1> QED
  BY <1>1, <1>2, <1>3, <1>4, <1>5, <1>6, <1>7, <1>8, <1>9, <1>10 DEF DisconnectStep

-----------------------------------------------------------------------------
(* SemInv is preserved *)

(* The semaphore is left alone, and every getter stays on the side of it    *)
(* where it was.                                                            *)
LEMMA SemFrame ==
  ASSUME Inv, UNCHANGED semVars,
         \A g \in Getters : /\ pc'[g] \in PermitPCs <=> pc[g] \in PermitPCs
                            /\ pc'[g] = "queued" <=> pc[g] = "queued"
  PROVE  SemInv'
<1>1. PermitHolders' = PermitHolders
  BY DEF PermitHolders
<1>2. \A i \in 1..Len(waiters) : waiters[i] \in Getters
  BY DEF Inv, BaseInv, TypeOK, DataType
<1>3. PermitsConserved'
  BY <1>1 DEF Inv, SemInv, PermitsConserved, semVars
<1>4. NoLostWakeup'
  BY DEF Inv, SemInv, NoLostWakeup, semVars
<1>5. QueueOK'
  BY <1>2 DEF Inv, SemInv, QueueOK, semVars
<1> QED
  BY <1>3, <1>4, <1>5 DEF SemInv

(* A getter goes from one position to another with its permit. *)
LEMMA SemInside ==
  ASSUME Inv, UNCHANGED semVars, NEW g \in Getters, pc[g] \in PermitPCs,
         NEW label \in PermitPCs, Goto(g, label)
  PROVE  SemInv'
<1>1. pc \in [Procs -> GetPCs \cup MaintainPCs \cup DisconnectPCs] /\ Getters \subseteq Procs
  BY DEF Inv, BaseInv, TypeOK, PcType, Procs
<1>2. \A h \in Getters : /\ pc'[h] \in PermitPCs <=> pc[h] \in PermitPCs
                         /\ pc'[h] = "queued" <=> pc[h] = "queued"
  BY <1>1 DEF Goto, PermitPCs
<1> QED
  BY <1>2, SemFrame

(* A process that is not a getter moves, or none does. *)
LEMMA SemOther ==
  ASSUME Inv, UNCHANGED semVars,
         UNCHANGED pc \/ \E p \in Maintainers : \E label : Goto(p, label)
  PROVE  SemInv'
<1>1. pc \in [Procs -> GetPCs \cup MaintainPCs \cup DisconnectPCs] /\ Getters \subseteq Procs
  BY DEF Inv, BaseInv, TypeOK, PcType, Procs
<1>2. \A h \in Getters : pc'[h] = pc[h]
  BY <1>1, ProcNames DEF Goto, Maintainers
<1> QED
  BY <1>2, SemFrame

(* The permits are counted by a finite set. *)
LEMMA HoldersFinite ==
  ASSUME Inv
  PROVE  /\ IsFiniteSet(PermitHolders) /\ semCur = Cardinality(PermitHolders)
         /\ semCur \in 0..MaxPoolSize /\ waiters \in Seq(Getters)
         /\ pc \in [Procs -> GetPCs \cup MaintainPCs \cup DisconnectPCs]
         /\ PermitHolders \subseteq Getters /\ Getters \subseteq Procs
<1>1. PermitHolders \subseteq Getters
  BY DEF PermitHolders
<1>2. IsFiniteSet(PermitHolders)
  BY <1>1, FS_Subset, GettersAssumption
<1> QED
  BY <1>1, <1>2 DEF Inv, BaseInv, TypeOK, PcType, DataType, SemInv, PermitsConserved, Procs

(* Acquire: a permit is taken, or the getter joins the queue of a semaphore *)
(* that has none left.                                                      *)
LEMMA SemAcquire ==
  ASSUME Inv, NEW g \in Getters, Acquire(g)
  PROVE  SemInv'
<1> USE HoldersFinite, SizesAssumption
<1> g \in Procs /\ pc[g] = "acquire"
  BY DEF Acquire
<1>q. QueueOK /\ NoLostWakeup
  BY DEF Inv, SemInv
<1>1. CASE PermitFree
  <2>1. semCur' = semCur + 1 /\ waiters' = waiters /\ pc' = [pc EXCEPT ![g] = "loop"]
        /\ waiters = <<>>
    BY <1>1 DEF Acquire, Goto, PermitFree
  <2>2. PermitHolders' = PermitHolders \cup {g} /\ g \notin PermitHolders
    BY <2>1 DEF PermitHolders, PermitPCs
  <2>3. PermitsConserved'
    <3>1. Cardinality(PermitHolders \cup {g}) = Cardinality(PermitHolders) + 1
      BY <2>2, FS_AddElement
    <3> QED
      BY <2>1, <2>2, <3>1 DEF PermitsConserved
  <2>4. NoLostWakeup'
    BY <2>1 DEF NoLostWakeup
  <2>5. QueueOK'
    BY <2>1, <1>q DEF QueueOK
  <2> QED
    BY <2>3, <2>4, <2>5 DEF SemInv
<1>2. CASE ~PermitFree
  <2>1. semCur' = semCur /\ waiters' = Append(waiters, g) /\ pc' = [pc EXCEPT ![g] = "queued"]
    BY <1>2 DEF Acquire, Goto
  <2>2. PermitHolders' = PermitHolders
    BY <2>1 DEF PermitHolders, PermitPCs
  <2>3. PermitsConserved'
    BY <2>1, <2>2 DEF PermitsConserved
  <2>4. NoLostWakeup'
    BY <1>2, <1>q, <2>1 DEF NoLostWakeup, PermitFree
  <2>5. QueueOK'
    <3>1. Len(waiters') = Len(waiters) + 1 /\ waiters'[Len(waiters) + 1] = g
          /\ \A i \in 1..Len(waiters) : waiters'[i] = waiters[i] /\ waiters[i] \in Getters
      BY <2>1
    <3>2. \A i \in 1..Len(waiters) : waiters[i] # g
      BY <1>q DEF QueueOK
    <3>3. \A i \in 1..Len(waiters') : pc'[waiters'[i]] = "queued"
      BY <1>q, <2>1, <3>1, <3>2 DEF QueueOK
    <3>4. \A i, j \in 1..Len(waiters') : waiters'[i] = waiters'[j] => i = j
      BY <1>q, <3>1, <3>2 DEF QueueOK
    <3>5. \A h \in Getters : pc'[h] = "queued" => \E i \in 1..Len(waiters') : waiters'[i] = h
      <4> SUFFICES ASSUME NEW h \in Getters, pc'[h] = "queued"
                   PROVE  \E i \in 1..Len(waiters') : waiters'[i] = h
        OBVIOUS
      <4>1. CASE h = g
        BY <3>1, <4>1
      <4>2. CASE h # g
        <5>1. PICK i \in 1..Len(waiters) : waiters[i] = h
          BY <1>q, <2>1, <4>2 DEF QueueOK
        <5> QED
          BY <3>1, <5>1
      <4> QED
        BY <4>1, <4>2
    <3> QED
      BY <3>3, <3>4, <3>5 DEF QueueOK
  <2> QED
    BY <2>3, <2>4, <2>5 DEF SemInv
<1> QED
  BY <1>1, <1>2

(* A get whose context ends leaves the queue; the others keep their order.  *)
LEMMA SemTimeout ==
  ASSUME Inv, NEW g \in Getters, AcquireTimeout(g)
  PROVE  SemInv'
<1> USE HoldersFinite, SizesAssumption
<1>q. QueueOK /\ NoLostWakeup
  BY DEF Inv, SemInv
<1>1. PICK k \in 1..Len(waiters) : waiters[k] = g /\ waiters' = Without(waiters, k)
  BY DEF AcquireTimeout
<1>2. semCur' = semCur /\ pc' = [pc EXCEPT ![g] = "idle"] /\ pc[g] = "queued" /\ g \in Procs
  BY DEF AcquireTimeout, Goto
<1>3. PermitHolders' = PermitHolders
  BY <1>2 DEF PermitHolders, PermitPCs
<1>4. PermitsConserved'
  BY <1>2, <1>3 DEF PermitsConserved
<1>5. NoLostWakeup'
  BY <1>q, <1>1, <1>2 DEF NoLostWakeup
<1>6. /\ Len(waiters') = Len(waiters) - 1
      /\ \A j \in 1..(Len(waiters) - 1) :
           waiters'[j] = IF j < k THEN waiters[j] ELSE waiters[j + 1]
  BY <1>1, WithoutType
<1>7. \A j \in 1..Len(waiters') : \E i \in 1..Len(waiters) :
        waiters'[j] = waiters[i] /\ i = (IF j < k THEN j ELSE j + 1) /\ i # k
  BY <1>6
<1>8. QueueOK'
  <2>1. \A j \in 1..Len(waiters') : pc'[waiters'[j]] = "queued"
    <3> SUFFICES ASSUME NEW j \in 1..Len(waiters') PROVE pc'[waiters'[j]] = "queued"
      OBVIOUS
    <3>1. PICK i \in 1..Len(waiters) : waiters'[j] = waiters[i] /\ i # k
      BY <1>7
    <3>2. waiters[i] # g /\ waiters[i] \in Getters /\ pc[waiters[i]] = "queued"
      BY <1>q, <1>1, <3>1 DEF QueueOK
    <3> QED
      BY <1>2, <3>1, <3>2
  <2>2. \A i, j \in 1..Len(waiters') : waiters'[i] = waiters'[j] => i = j
    BY <1>q, <1>6, <1>7 DEF QueueOK
  <2>3. \A h \in Getters : pc'[h] = "queued" => \E i \in 1..Len(waiters') : waiters'[i] = h
    <3> SUFFICES ASSUME NEW h \in Getters, pc'[h] = "queued"
                 PROVE  \E i \in 1..Len(waiters') : waiters'[i] = h
      OBVIOUS
    <3>1. h # g /\ pc[h] = "queued"
      BY <1>2
    <3>2. PICK i \in 1..Len(waiters) : waiters[i] = h
      BY <1>q, <3>1 DEF QueueOK
    <3>3. i # k
      BY <1>1, <3>1, <3>2
    <3>4. CASE i < k
      BY <1>6, <3>2, <3>4
    <3>5. CASE i > k
      <4>1. i - 1 \in 1..Len(waiters') /\ waiters'[i - 1] = waiters[i]
        BY <1>6, <3>5
      <4> QED
        BY <3>2, <4>1
    <3> QED
      BY <3>3, <3>4, <3>5
  <2> QED
    BY <2>1, <2>2, <2>3 DEF QueueOK
<1> QED
  BY <1>4, <1>5, <1>8 DEF SemInv

(* What Release does, given SemInv: nobody is woken when nobody waits, and  *)
(* otherwise the permit goes to the first of the queue.                     *)
LEMMA ReleaseWakes ==
  ASSUME Inv, NEW g \in Getters, Release(g)
  PROVE  /\ semCur >= 1
         /\ waiters = <<>> => Woken = 0
         /\ waiters # <<>> => Woken = 1 /\ semCur = MaxPoolSize
<1> USE HoldersFinite, SizesAssumption
<1>1. g \in PermitHolders
  BY DEF Release, PermitHolders, PermitPCs
<1>2. Cardinality(PermitHolders \ {g}) = Cardinality(PermitHolders) - 1
      /\ Cardinality(PermitHolders \ {g}) \in Nat
  BY <1>1, FS_RemoveElement, FS_CardinalityType
<1>3. semCur >= 1
  BY <1>2
<1>4. waiters = <<>> => Woken = 0
  BY <1>3 DEF Woken
<1>5. waiters # <<>> => Woken = 1 /\ semCur = MaxPoolSize
  BY <1>3 DEF Woken, Inv, SemInv, NoLostWakeup
<1> QED
  BY <1>3, <1>4, <1>5

(* Release keeps BaseInv: the counter stays within the pool size, and only *)
(* getters are moved.                                                       *)
LEMMA BaseRelease ==
  ASSUME Inv, NEW g \in Getters, Release(g)
  PROVE  BaseInv'
<1> USE HoldersFinite, SizesAssumption
<1> DEFINE awake == {waiters[i] : i \in 1..Woken}
<1>1. Woken \in 0..Len(waiters) /\ semCur - 1 + Woken \in 0..MaxPoolSize
  BY ReleaseWakes
<1>2. awake \subseteq Getters
  BY <1>1
<1>3. pc' = [p \in Procs |-> IF p = g THEN "idle" ELSE IF p \in awake THEN "loop" ELSE pc[p]]
  BY DEF Release
<1>4. semCur' \in 0..MaxPoolSize /\ waiters' \in Seq(Getters)
  BY <1>1 DEF Release
<1>5. DataType'
  BY <1>4 DEF Release, Inv, BaseInv, TypeOK, DataType, poolVars, rpVars, rpCtl, connVars,
              downVars, histVars
<1> HIDE DEF awake
<1>6. PcType'
  BY <1>2, <1>3, ProcNames
     DEF Inv, BaseInv, TypeOK, PcType, GetPCs, Procs, Maintainers
<1>7. LocalsOK'
  BY <1>2, <1>3 DEF Inv, BaseInv, LocalsOK, LocatedPCs, OwningPCs, Release
<1>8. LockOK'
  <2>1. \A p \in Maintainers : pc'[p] = pc[p] /\ p \in Procs
    BY <1>2, <1>3, ProcNames DEF Maintainers, Procs
  <2>2. UNCHANGED <<rpLock, cursor, idle>> /\ rpLock \in Maintainers \cup {NoProc}
    BY DEF Release, rpVars, rpCtl, Inv, BaseInv, TypeOK, DataType
  <2> QED
    BY <2>1, <2>2 DEF Inv, BaseInv, LockOK
<1> QED
  BY <1>5, <1>6, <1>7, <1>8 DEF BaseInv, TypeOK

(* Release: the permit is returned, or passes to the first of the queue.    *)
LEMMA SemRelease ==
  ASSUME Inv, NEW g \in Getters, Release(g)
  PROVE  SemInv'
<1> USE HoldersFinite, SizesAssumption
<1>q. QueueOK /\ NoLostWakeup
  BY DEF Inv, SemInv
<1>g. g \in PermitHolders /\ g \in Procs /\ pc[g] = "release"
  BY DEF Release, PermitHolders, PermitPCs
<1>c. /\ IsFiniteSet(PermitHolders \ {g})
      /\ Cardinality(PermitHolders \ {g}) = Cardinality(PermitHolders) - 1
  BY <1>g, FS_RemoveElement
<1>1. CASE waiters = <<>>
  <2>1. /\ semCur' = semCur - 1 /\ waiters' = <<>>
        /\ pc' = [p \in Procs |-> IF p = g THEN "idle" ELSE pc[p]]
    BY <1>1, ReleaseWakes DEF Release
  <2>2. PermitHolders' = PermitHolders \ {g}
    BY <2>1 DEF PermitHolders, PermitPCs
  <2>3. PermitsConserved'
    BY <1>c, <2>1, <2>2 DEF PermitsConserved
  <2>4. NoLostWakeup' /\ QueueOK'
    BY <1>1, <1>q, <2>1 DEF NoLostWakeup, QueueOK
  <2> QED
    BY <2>3, <2>4 DEF SemInv
<1>2. CASE waiters # <<>>
  <2>1. Woken = 1 /\ semCur = MaxPoolSize /\ Len(waiters) >= 1
    BY <1>2, ReleaseWakes
  <2> DEFINE h == waiters[1]
  <2>2. h \in Getters /\ pc[h] = "queued" /\ h # g
    BY <1>q, <1>g, <2>1 DEF QueueOK
  <2>3. {waiters[i] : i \in 1..Woken} = {h}
    BY <2>1
  <2>4. /\ semCur' = semCur
        /\ waiters' = SubSeq(waiters, 2, Len(waiters))
        /\ pc' = [p \in Procs |-> IF p = g THEN "idle" ELSE IF p = h THEN "loop" ELSE pc[p]]
    BY <2>1, <2>3 DEF Release
  <2>5. /\ Len(waiters') = Len(waiters) - 1
        /\ \A j \in 1..(Len(waiters) - 1) : waiters'[j] = waiters[j + 1]
    <3>1. waiters \in Seq(Getters) /\ waiters # <<>>
      BY <1>2
    <3>2. waiters' = Tail(waiters)
      BY <2>4, <3>1, TailIsSubSeq
    <3>3. /\ Len(Tail(waiters)) = Len(waiters) - 1
          /\ \A j \in 1..Len(Tail(waiters)) : Tail(waiters)[j] = waiters[j + 1]
      BY <3>1, HeadTailProperties
    <3> QED
      BY <3>2, <3>3
  <2> HIDE DEF h
  <2>6. PermitHolders' = (PermitHolders \ {g}) \cup {h} /\ h \notin PermitHolders \ {g}
    BY <2>2, <2>4 DEF PermitHolders, PermitPCs
  <2>7. PermitsConserved'
    <3>1. Cardinality((PermitHolders \ {g}) \cup {h}) = Cardinality(PermitHolders \ {g}) + 1
      BY <1>c, <2>6, FS_AddElement
    <3> QED
      BY <1>c, <2>4, <2>6, <3>1 DEF PermitsConserved
  <2>8. NoLostWakeup'
    BY <2>1, <2>4 DEF NoLostWakeup
  <2>9. QueueOK'
    <3>0. \A i \in 1..Len(waiters) : waiters[i] = h => i = 1
      BY <1>q, <2>1 DEF QueueOK, h
    <3>1. \A j \in 1..Len(waiters') : pc'[waiters'[j]] = "queued"
      <4> SUFFICES ASSUME NEW j \in 1..Len(waiters') PROVE pc'[waiters'[j]] = "queued"
        OBVIOUS
      <4>1. j + 1 \in 1..Len(waiters) /\ waiters'[j] = waiters[j + 1]
        BY <2>5
      <4>2. waiters[j + 1] \in Getters /\ pc[waiters[j + 1]] = "queued" /\ waiters[j + 1] # h
        BY <1>q, <3>0, <4>1 DEF QueueOK
      <4> QED
        BY <1>g, <2>4, <4>1, <4>2
    <3>2. \A i, j \in 1..Len(waiters') : waiters'[i] = waiters'[j] => i = j
      <4> SUFFICES ASSUME NEW i \in 1..Len(waiters'), NEW j \in 1..Len(waiters'),
                          waiters'[i] = waiters'[j]
                   PROVE  i = j
        OBVIOUS
      <4>1. i \in Nat /\ i + 1 \in 1..Len(waiters) /\ waiters'[i] = waiters[i + 1]
        BY <2>5
      <4>2. j \in Nat /\ j + 1 \in 1..Len(waiters) /\ waiters'[j] = waiters[j + 1]
        BY <2>5
      <4>3. i + 1 = j + 1
        BY <1>q, <4>1, <4>2 DEF QueueOK
      <4> QED
        BY <4>1, <4>2, <4>3
    <3>3. \A w \in Getters : pc'[w] = "queued" => \E i \in 1..Len(waiters') : waiters'[i] = w
      <4> SUFFICES ASSUME NEW w \in Getters, pc'[w] = "queued"
                   PROVE  \E i \in 1..Len(waiters') : waiters'[i] = w
        OBVIOUS
      <4>1. w # h /\ pc[w] = "queued"
        BY <2>4
      <4>2. PICK i \in 1..Len(waiters) : waiters[i] = w
        BY <1>q, <4>1 DEF QueueOK
      <4>3. i # 1
        BY <4>1, <4>2 DEF h
      <4>4. i - 1 \in 1..Len(waiters') /\ waiters'[i - 1] = waiters[i]
        BY <2>5, <4>3
      <4> QED
        BY <4>2, <4>4
    <3> QED
      BY <3>1, <3>2, <3>3 DEF QueueOK
  <2> QED
    BY <2>7, <2>8, <2>9 DEF SemInv
<1> QED
  BY <1>1, <1>2

(* Every other step of get and put keeps the getter on its side of the      *)
(* semaphore.                                                               *)
LEMMA SemGet ==
  ASSUME Inv, NEW g \in Getters,
         \/ GetStart(g) \/ GetLoop(g) \/ RPGet(g) \/ SelectTimeout(g) \/ IncrementTotal(g)
         \/ GetConnect(g) \/ GetWait(g) \/ GetRemove(g) \/ DecrementTotal(g)
         \/ UserStep(g) \/ RPPut(g)
  PROVE  SemInv'
<1> USE DEF semVars, allButPc, allButConn, procVars, PermitPCs
<1>1. CASE GetStart(g)
  <2>1. pc \in [Procs -> GetPCs \cup MaintainPCs \cup DisconnectPCs] /\ Getters \subseteq Procs
    BY HoldersFinite
  <2>2. /\ pc[g] = "idle" /\ pc' = [pc EXCEPT ![g] = "acquire"] /\ UNCHANGED semVars
    BY <1>1 DEF GetStart, Goto
  <2>3. \A h \in Getters : /\ pc'[h] \in PermitPCs <=> pc[h] \in PermitPCs
                           /\ pc'[h] = "queued" <=> pc[h] = "queued"
    BY <2>1, <2>2
  <2> QED
    BY <2>2, <2>3, SemFrame
<1>2. CASE UseSucceeds(g) \/ UseFails(g)
  BY <1>2, SemOther DEF UseSucceeds, UseFails
<1>3. CASE \/ GetLoop(g) \/ RPGet(g) \/ SelectTimeout(g) \/ IncrementTotal(g)
           \/ GetConnect(g) \/ GetWait(g) \/ GetRemove(g) \/ DecrementTotal(g)
           \/ ReturnConnection(g) \/ ExpireConnection(g) \/ RPPut(g)
  <2>1. UNCHANGED semVars /\ pc[g] \in PermitPCs
    BY <1>3 DEF GetLoop, RPGet, SelectTimeout, IncrementTotal, GetConnect, GetWait, GetRemove,
                DecrementTotal, ReturnConnection, ExpireConnection, RPPut
  <2>2. \E label \in PermitPCs : Goto(g, label)
    BY <1>3 DEF GetLoop, RPGet, SelectTimeout, IncrementTotal, GetConnect, GetWait, GetRemove,
                DecrementTotal, ReturnConnection, ExpireConnection, RPPut
  <2> QED
    BY <2>1, <2>2, SemInside
<1> QED
  BY <1>1, <1>2, <1>3 DEF UserStep

(* makeNewConnection is called with a permit, or by Maintain.               *)
LEMMA SemMake ==
  ASSUME Inv, NEW p \in Procs, MakeStep(p)
  PROVE  SemInv'
<1> USE DEF semVars, allButPc
<1>1. UNCHANGED semVars /\ pc[p] \in PermitPCs
  BY DEF MakeStep, MakeConnection, MakeRefused, MakeChecked, MakeInsert, PermitPCs
<1>2. CASE p \in Maintainers
  <2>1. \E label : Goto(p, label)
    BY <1>2 DEF MakeStep, MakeConnection, MakeRefused, MakeChecked, MakeInsert
  <2> QED
    BY <1>1, <1>2, <2>1, SemOther
<1>3. CASE p \notin Maintainers
  <2>1. p \in Getters
    BY <1>3 DEF Procs
  <2>2. \E label \in PermitPCs : Goto(p, label)
    BY <1>3 DEF MakeStep, MakeConnection, MakeRefused, MakeChecked, MakeInsert, PermitPCs
  <2> QED
    BY <1>1, <2>1, <2>2, SemInside
<1> QED
  BY <1>2, <1>3

(* The goroutines of connections, Maintain, and connect, clear and          *)
(* disconnect have nothing to do with the semaphore.                        *)
LEMMA SemElsewhere ==
  ASSUME Inv,
         \/ \E c \in ConnIds : ConnectStep(c) \/ CloserStep(c) \/ IdleDeadlinePasses(c)
         \/ \E p \in Maintainers : MaintainStep(p)
         \/ Clear \/ TimerFires \/ Connect \/ Initialize \/ Disconnect \/ DeadlinePasses
         \/ DisconnectStep
  PROVE  SemInv'
<1> USE DEF semVars, allButPc, allButConn, procVars
<1>1. CASE \E c \in ConnIds : ConnectStep(c) \/ CloserStep(c) \/ IdleDeadlinePasses(c)
  <2>1. UNCHANGED semVars /\ UNCHANGED pc
    BY <1>1 DEF ConnectStep, CloserStep, BackgroundConnect, DialSucceeds, HandshakeSucceeds,
                ConnectFails, HandshakeErrorCheck, HandshakeErrorClear, CloserLoad, CloserWait,
                CloserCas, IdleDeadlinePasses
  <2> QED
    BY <2>1, SemOther
<1>2. CASE \E p \in Maintainers : MaintainStep(p)
  <2>1. UNCHANGED semVars
    BY <1>2 DEF MaintainStep, MaintainStart, MaintainPrune, MaintainPruned, MaintainLoop
  <2>2. UNCHANGED pc \/ \E p \in Maintainers : \E label : Goto(p, label)
    BY <1>2 DEF MaintainStep, MaintainStart, MaintainPrune, MaintainPruned, MaintainLoop
  <2> QED
    BY <2>1, <2>2, SemOther
<1>3. CASE Clear \/ TimerFires \/ Connect \/ Initialize \/ Disconnect \/ DeadlinePasses
  <2>1. UNCHANGED semVars
    BY <1>3 DEF Clear, TimerFires, Connect, Initialize, Disconnect, DeadlinePasses
  <2>2. UNCHANGED pc \/ \E p \in Maintainers : \E label : Goto(p, label)
    BY <1>3 DEF Clear, TimerFires, Connect, Initialize, Disconnect, DeadlinePasses, Maintainers
  <2> QED
    BY <2>1, <2>2, SemOther
<1>4. CASE DisconnectStep
  <2>1. UNCHANGED semVars
    BY <1>4 DEF DisconnectStep, RPClose, DisconnectGeneration, DisconnectWait, DisconnectCopy,
                DisconnectRemove, DisconnectLoad, DisconnectWaitConn, DisconnectCas,
                DisconnectState, ClearTotal
  <2>2. \E p \in Maintainers : \E label : Goto(p, label)
    BY <1>4 DEF DisconnectStep, RPClose, DisconnectGeneration, DisconnectWait, DisconnectCopy,
                DisconnectRemove, DisconnectLoad, DisconnectWaitConn, DisconnectCas,
                DisconnectState, ClearTotal, Maintainers
  <2> QED
    BY <2>1, <2>2, SemOther
<1> QED
  BY <1>1, <1>2, <1>3, <1>4
-----------------------------------------------------------------------------
(* The theorems *)

(* newPool establishes the invariant. *)
LEMMA InitInv == Init => Inv
<1> SUFFICES ASSUME Init PROVE Inv
  OBVIOUS
<1> USE SizesAssumption, ProcNames DEF Init
<1>1. PcType
  BY DEF PcType, GetPCs, MaintainPCs, Procs, Maintainers
<1>2. DataType
  <2>1. Unmade \in ConnRecord
    BY DEF Unmade, ConnRecord, ConnStates, Phases, CloserStates
  <2> QED
    <3>1. <<>> \in Seq(Getters) /\ <<>> \in Seq(ConnIds \cup {NilConn})
      OBVIOUS
    <3>2. 0 \in 0..MaxConnId /\ 0 \in 0..MaxPoolSize /\ 0 \in 0..MaxUint /\ 0 \in Nat
      OBVIOUS
    <3>3. /\ conn \in [ConnIds -> ConnRecord] /\ loc \in [Procs -> ConnIds \cup {NilConn}]
          /\ startGen \in [Getters -> Nat] /\ closedEvents \in [ConnIds -> Nat]
          /\ calls \in [CallKinds -> Nat]
      BY <2>1
    <3> QED
      BY <3>1, <3>2, <3>3 DEF DataType
<1>3. LocalsOK /\ LockOK
  BY DEF LocalsOK, LockOK, LocatedPCs, OwningPCs, LockedPCs, Procs, Maintainers, NoProc, Timer, Admin
<1>4. SemInv
  <2>1. PermitHolders = {}
    BY DEF PermitHolders, PermitPCs, Procs
  <2>2. PermitsConserved
    BY <2>1, FS_EmptySet DEF PermitsConserved
  <2>3. NoLostWakeup /\ QueueOK
    BY DEF NoLostWakeup, QueueOK, Procs
  <2> QED
    BY <2>2, <2>3 DEF SemInv
<1> QED
  BY <1>1, <1>2, <1>3, <1>4 DEF Inv, BaseInv, TypeOK

(* Every step of every goroutine preserves it. *)
LEMMA StepInv == Inv /\ [Next]_vars => Inv'
<1> SUFFICES ASSUME Inv, [Next]_vars PROVE BaseInv' /\ SemInv'
  BY DEF Inv
<1>1. ASSUME NEW g \in Getters, GetStart(g) \/ AcquireTimeout(g) \/ SelectTimeout(g)
                                \/ GetStep(g) \/ UserStep(g)
      PROVE  BaseInv' /\ SemInv'
  <2>1. BaseInv'
    BY <1>1, BaseAcquire, BaseGet, BaseUse, BaseRelease DEF GetStep, UserStep
  <2>2. SemInv'
    BY <1>1, SemAcquire, SemTimeout, SemRelease, SemGet DEF GetStep
  <2> QED
    BY <2>1, <2>2
<1>2. ASSUME NEW p \in Procs, MakeStep(p) PROVE BaseInv' /\ SemInv'
  BY <1>2, BaseMake, SemMake DEF MakeStep
<1>3. ASSUME NEW c \in ConnIds, ConnectStep(c) \/ CloserStep(c) \/ IdleDeadlinePasses(c)
      PROVE  BaseInv' /\ SemInv'
  BY <1>3, BaseConnection, SemElsewhere DEF ConnectStep, CloserStep
<1>4. ASSUME NEW p \in Maintainers, MaintainStep(p) PROVE BaseInv' /\ SemInv'
  BY <1>4, BaseMaintain, SemElsewhere
<1>5. CASE Clear \/ TimerFires \/ Connect \/ Initialize \/ Disconnect \/ DeadlinePasses
  BY <1>5, BaseAdmin, SemElsewhere
<1>6. CASE DisconnectStep
  BY <1>6, BaseDisconnect, SemElsewhere
<1>7. CASE UNCHANGED vars
  <2>1. UNCHANGED <<pc, loc, rpLock, cursor, idle>> /\ UNCHANGED semVars
    BY <1>7 DEF vars, procVars, rpVars, rpCtl
  <2>2. DataType'
    BY <1>7 DEF vars, poolVars, semVars, rpVars, rpCtl, connVars, procVars, downVars, histVars,
                Inv, BaseInv, TypeOK, DataType
  <2>3. PcType' /\ LocalsOK' /\ LockOK'
    BY <2>1, Still DEF Inv
  <2>4. SemInv'
    BY <2>1, SemOther
  <2> QED
    BY <2>2, <2>3, <2>4 DEF BaseInv, TypeOK
<1> QED
  BY <1>1, <1>2, <1>3, <1>4, <1>5, <1>6, <1>7 DEF Next

(* The inductive invariant holds in every reachable state of the pool, for  *)
(* any number of getters and any sizes.                                     *)
THEOREM Invariance == Spec => []Inv
BY InitInv, StepInv, PTL DEF Spec

(* Every variable of the pool keeps its type: in particular the semaphore's *)
(* counter never leaves 0..maxPoolSize and totalSize never leaves its       *)
(* unsigned range, whatever Maintain, clear and disconnect do meanwhile.    *)
THEOREM TypeCorrect == Spec => []TypeOK
<1>1. Inv => TypeOK
  BY DEF Inv, BaseInv
<1> QED
  BY <1>1, Invariance, PTL

(* Every path of get and put that acquired the semaphore releases it        *)
(* exactly once, timeouts, failed connects and a closing pool included.     *)
THEOREM PermitsSafe == Spec => []PermitsConserved
<1>1. Inv => PermitsConserved
  BY DEF Inv, SemInv
<1> QED
  BY <1>1, Invariance, PTL

(* No get sleeps in the semaphore's queue beside a free permit, although    *)
(* waiters leave the queue when their context ends.                         *)
THEOREM WakeupSafe == Spec => []NoLostWakeup
<1>1. Inv => NoLostWakeup
  BY DEF Inv, SemInv
<1> QED
  BY <1>1, Invariance, PTL
=============================================================================
