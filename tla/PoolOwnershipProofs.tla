------------------------ MODULE PoolOwnershipProofs -------------------------
(***************************************************************************)
(* Proofs about who has each connection of ConnectionPool: the list, a     *)
(* getter, or Maintain; when its closed event is published; how old it is; *)
(* and how many there are.                                                 *)
(*                                                                         *)
(* They rest on Inv of ConnectionPoolProofs and add three invariants.      *)
(* OwnInv follows each connection from makeNewConnection to its removal    *)
(* from opened. FreshInv compares its generation with the one a get began  *)
(* in. SizeInv ties totalSize to the list and the getters until the first  *)
(* disconnect clears it, and bounds the pool by the semaphore after that.  *)
(***************************************************************************)
EXTENDS ConnectionPoolProofs

MakingPCs == {"makeCheck", "makeInsert"}
UsingPCs == {"connect", "wait", "remove", "holding", "put"}

(* No connection repeats in the list; the nils of refused ones may.         *)
NoRepeat(s) == \A i, j \in 1..Len(s) : i # j /\ s[i] # NilConn => s[i] # s[j]

(* Only identifiers that nextid has reached are anywhere in the pool.       *)
Known ==
  /\ \A c \in opened : c \in 1..nextid
  /\ \A c \in toClose : c \in 1..nextid
  /\ \A p \in Procs : pc[p] \in OwningPCs => loc[p] \in 1..nextid
  /\ \A c \in Elements(idle) : c \in 0..nextid
  /\ \A c \in ConnIds : c > nextid => closedEvents[c] = 0

(* The three parts of ExclusiveCheckout. *)
OneOwner ==
  \A p, q \in Procs :
    pc[p] \in OwningPCs /\ pc[q] \in OwningPCs /\ p # q => loc[p] # loc[q]
OwnedNotIdle == \A p \in Procs : pc[p] \in OwningPCs => loc[p] \notin Elements(idle)

(* A connection that makeNewConnection still works on is not open yet, nor  *)
(* among those disconnect found open, and an open one is somewhere.         *)
NotYetOpen ==
  \A p \in Procs : pc[p] \in MakingPCs => loc[p] \notin opened /\ loc[p] \notin toClose
OpenIsKept ==
  \A c \in opened :
    c \in Elements(idle) \/ \E p \in Procs : pc[p] \in UsingPCs /\ loc[p] = c

(* Until the first disconnect all that is idle or checked out is open.      *)
OpenUntilDisconnect ==
  calls["disconnect"] = 0 =>
    /\ pc[Admin] \notin DisconnectPCs
    /\ \A p \in Procs : pc[p] \in UsingPCs => loc[p] \in opened
    /\ \A c \in Elements(idle) : c # NilConn => c \in opened

(* ClosedEventsMatch, one connection at a time. *)
EventsMatch ==
  \A c \in ConnIds : c <= nextid =>
    IF c \in opened \/ \E p \in Procs : pc[p] \in MakingPCs /\ loc[p] = c
    THEN closedEvents[c] = 0 ELSE closedEvents[c] = 1

OwnInv ==
  /\ Known /\ OneOwner /\ OwnedNotIdle /\ NoRepeat(idle) /\ NotYetOpen /\ OpenIsKept
  /\ OpenUntilDisconnect /\ EventsMatch
-----------------------------------------------------------------------------
(* Facts about lists *)

(* The elements of a list with one more at its start. *)
LEMMA PushElements ==
  ASSUME NEW S, NEW s \in Seq(S), NEW c \in S
  PROVE  /\ Elements(<<c>> \o s) = {c} \cup Elements(s)
         /\ NoRepeat(s) /\ (c = NilConn \/ c \notin Elements(s)) => NoRepeat(<<c>> \o s)
<1> DEFINE t == <<c>> \o s
<1>1. /\ Len(t) = Len(s) + 1 /\ t \in Seq(S) /\ t[1] = c
      /\ \A i \in 2..Len(t) : t[i] = s[i - 1]
  OBVIOUS
<1>2. Len(s) \in Nat
  OBVIOUS
<1> HIDE DEF t
<1>3. \A i \in 1..Len(s) : i + 1 \in 1..Len(t) /\ t[i + 1] = s[i]
  BY <1>1, <1>2
<1>4. Elements(t) \subseteq {c} \cup Elements(s)
  BY <1>1, <1>2 DEF Elements
<1>5. {c} \cup Elements(s) \subseteq Elements(t)
  <2>1. 1 \in 1..Len(t)
    BY <1>1, <1>2
  <2> QED
    BY <1>1, <1>3, <2>1 DEF Elements
<1>6. ASSUME NoRepeat(s), c = NilConn \/ c \notin Elements(s)
      PROVE  NoRepeat(t)
  <2> SUFFICES ASSUME NEW i \in 1..Len(t), NEW j \in 1..Len(t), i # j, t[i] # NilConn
               PROVE  t[i] # t[j]
    BY <1>1 DEF NoRepeat
  <2>1. CASE i = 1
    BY <1>1, <1>2, <1>6, <2>1 DEF Elements
  <2>2. CASE j = 1
    BY <1>1, <1>2, <1>6, <2>2 DEF Elements
  <2>3. CASE i # 1 /\ j # 1
    <3>1. i - 1 \in 1..Len(s) /\ j - 1 \in 1..Len(s) /\ i - 1 # j - 1
      BY <1>1, <1>2, <2>3
    <3>2. t[i] = s[i - 1] /\ t[j] = s[j - 1]
      BY <1>1, <1>2, <2>3
    <3> QED
      BY <1>6, <3>1, <3>2 DEF NoRepeat
  <2> QED
    BY <2>1, <2>2, <2>3
<1> QED
  BY <1>4, <1>5, <1>6 DEF t

(* The elements of a list without one of them. *)
LEMMA WithoutElements ==
  ASSUME NEW S, NEW s \in Seq(S), NEW i \in 1..Len(s)
  PROVE  /\ Elements(Without(s, i)) \subseteq Elements(s)
         /\ Elements(s) \subseteq {s[i]} \cup Elements(Without(s, i))
         /\ NoRepeat(s) => NoRepeat(Without(s, i))
         /\ NoRepeat(s) /\ s[i] # NilConn => s[i] \notin Elements(Without(s, i))
<1> DEFINE t == Without(s, i)
<1>1. /\ t \in Seq(S) /\ Len(t) = Len(s) - 1
      /\ \A j \in 1..(Len(s) - 1) : t[j] = IF j < i THEN s[j] ELSE s[j + 1]
  BY WithoutType
<1>2. Len(s) \in Nat /\ Len(t) = Len(s) - 1
  BY <1>1
<1> HIDE DEF t
<1>3. Elements(t) \subseteq Elements(s)
  BY <1>1, <1>2 DEF Elements
<1>4. Elements(s) \subseteq {s[i]} \cup Elements(t)
  <2> SUFFICES ASSUME NEW j \in 1..Len(s), j # i PROVE s[j] \in Elements(t)
    BY DEF Elements
  <2>1. CASE j < i
    <3>1. j \in 1..Len(t) /\ t[j] = s[j]
      BY <1>1, <1>2, <2>1
    <3> QED
      BY <3>1 DEF Elements
  <2>2. CASE j > i
    <3>1. j - 1 \in 1..Len(t) /\ t[j - 1] = s[j]
      BY <1>1, <1>2, <2>2
    <3> QED
      BY <3>1 DEF Elements
  <2> QED
    BY <1>2, <2>1, <2>2
<1>5. ASSUME NoRepeat(s) PROVE NoRepeat(t)
  <2> SUFFICES ASSUME NEW j \in 1..Len(t), NEW k \in 1..Len(t), j # k, t[j] # NilConn
               PROVE  t[j] # t[k]
    BY DEF NoRepeat
  <2>1. PICK a \in 1..Len(s) : t[j] = s[a] /\ a = IF j < i THEN j ELSE j + 1
    BY <1>1, <1>2
  <2>2. PICK b \in 1..Len(s) : t[k] = s[b] /\ b = IF k < i THEN k ELSE k + 1
    BY <1>1, <1>2
  <2>3. a # b
    BY <1>2, <2>1, <2>2
  <2> QED
    BY <1>5, <2>1, <2>2, <2>3 DEF NoRepeat
<1>6. ASSUME NoRepeat(s), s[i] # NilConn PROVE s[i] \notin Elements(t)
  <2> SUFFICES ASSUME NEW j \in 1..Len(t), t[j] = s[i] PROVE FALSE
    BY <1>1, <1>2 DEF Elements
  <2>1. PICK a \in 1..Len(s) : t[j] = s[a] /\ a # i
    BY <1>1, <1>2
  <2> QED
    BY <1>2, <1>6, <2>1 DEF NoRepeat
<1> QED
  BY <1>3, <1>4, <1>5, <1>6 DEF t

(* The elements of the rest of a list, of the ones before it, and the one   *)
(* between.                                                                 *)
LEMMA RestElements ==
  ASSUME NEW S, NEW s \in Seq(S), NEW n \in 1..(Len(s) + 1), NoRepeat(s)
  PROVE  LET t == SubSeq(s, n + 1, Len(s))
             d == {s[i] : i \in 1..(n - 1)} \ {NilConn}
         IN  /\ Elements(t) \subseteq Elements(s) /\ NoRepeat(t) /\ d \subseteq Elements(s)
             /\ d \cap Elements(t) = {}
             /\ n <= Len(s) => /\ Elements(s) \subseteq d \cup {NilConn, s[n]} \cup Elements(t)
                               /\ s[n] \in Elements(s)
                               /\ s[n] # NilConn => s[n] \notin Elements(t) \cup d
             /\ n > Len(s) => Elements(s) \subseteq d \cup {NilConn} /\ t = <<>>
<1> DEFINE t == SubSeq(s, n + 1, Len(s))
           d == {s[i] : i \in 1..(n - 1)} \ {NilConn}
<1>1. /\ n \in Nat /\ Len(s) \in Nat /\ t \in Seq(S)
      /\ Len(t) = IF n <= Len(s) THEN Len(s) - n ELSE 0
      /\ \A i \in 1..Len(t) : t[i] = s[n + i]
  <2>1. /\ n \in Nat /\ n + 1 \in Int /\ Len(s) \in Nat /\ Len(s) \in Int /\ \A i \in (n + 1)..Len(s) : s[i] \in S
    OBVIOUS
  <2>2. /\ t \in Seq(S) /\ Len(t) = IF n + 1 <= Len(s) THEN Len(s) - (n + 1) + 1 ELSE 0
        /\ \A i \in 1..(Len(s) - (n + 1) + 1) : t[i] = s[n + 1 + i - 1]
    BY <2>1, SubSeqProperties
  <2> HIDE DEF t
  <2>3. Len(t) = IF n <= Len(s) THEN Len(s) - n ELSE 0
    BY <2>1, <2>2
  <2>4. \A i \in 1..Len(t) : i \in 1..(Len(s) - (n + 1) + 1) /\ n + 1 + i - 1 = n + i
    BY <2>1, <2>3
  <2> QED
    BY <2>1, <2>2, <2>3, <2>4
<1>2. Len(t) \in Nat
  BY <1>1
<1> HIDE DEF t
<1>3. \A i \in 1..Len(t) : n + i \in 1..Len(s) /\ t[i] = s[n + i]
  BY <1>1, <1>2
<1>4. Elements(t) \subseteq Elements(s) /\ d \subseteq Elements(s)
  <2>1. \A i \in 1..(n - 1) : i \in 1..Len(s)
    BY <1>1
  <2> QED
    BY <1>1, <1>2, <1>3, <2>1 DEF Elements
<1>5. NoRepeat(t)
  <2> SUFFICES ASSUME NEW i \in 1..Len(t), NEW j \in 1..Len(t), i # j, t[i] # NilConn
               PROVE  t[i] # t[j]
    BY DEF NoRepeat
  <2>1. n + i # n + j
    BY <1>2
  <2> QED
    BY <1>3, <2>1 DEF NoRepeat
<1>6. d \cap Elements(t) = {}
  <2> SUFFICES ASSUME NEW i \in 1..(n - 1), NEW j \in 1..Len(t), s[i] # NilConn, s[i] = t[j]
               PROVE  FALSE
    BY <1>2 DEF Elements
  <2>1. i \in 1..Len(s) /\ i # n + j
    BY <1>1, <1>2
  <2> QED
    BY <1>3, <2>1 DEF NoRepeat
<1>7. ASSUME n <= Len(s)
      PROVE  /\ Elements(s) \subseteq d \cup {NilConn, s[n]} \cup Elements(t)
             /\ s[n] \in Elements(s)
             /\ s[n] # NilConn => s[n] \notin Elements(t) \cup d
  <2>1. ASSUME NEW i \in 1..Len(s) PROVE s[i] \in d \cup {NilConn, s[n]} \cup Elements(t)
    <3>1. CASE i < n
      BY <1>1, <3>1
    <3>2. CASE i > n
      <4>1. i - n \in 1..Len(t) /\ t[i - n] = s[i]
        BY <1>1, <1>7, <3>2
      <4> QED
        BY <4>1 DEF Elements
    <3> QED
      BY <1>1, <3>1, <3>2
  <2>2. n \in 1..Len(s)
    BY <1>1, <1>7
  <2>3. ASSUME s[n] # NilConn PROVE s[n] \notin Elements(t) \cup d
    <3>1. \A j \in 1..Len(t) : t[j] # s[n]
      <4> TAKE j \in 1..Len(t)
      <4>1. n + j # n
        BY <1>2
      <4> QED
        BY <1>3, <2>2, <2>3, <4>1 DEF NoRepeat
    <3>2. \A j \in 1..(n - 1) : s[j] # s[n]
      BY <1>1, <2>2, <2>3 DEF NoRepeat
    <3> QED
      BY <1>2, <3>1, <3>2 DEF Elements
  <2> QED
    BY <1>1, <2>1, <2>2, <2>3 DEF Elements
<1>8. ASSUME n > Len(s) PROVE Elements(s) \subseteq d \cup {NilConn} /\ t = <<>>
  <2>1. \A i \in 1..Len(s) : i \in 1..(n - 1)
    BY <1>1, <1>8
  <2>2. t = <<>>
    BY <1>1, <1>8, SubSeqEmpty DEF t
  <2> QED
    BY <2>1, <2>2 DEF Elements
<1> QED
  BY <1>4, <1>5, <1>6, <1>7, <1>8 DEF t
-----------------------------------------------------------------------------
(* OwnInv is preserved *)

(* What a goroutine's move does to the program counters. *)
LEMMA Moved ==
  ASSUME Inv, NEW p \in Procs, NEW label, Goto(p, label)
  PROVE  pc'[p] = label /\ \A q \in Procs : q # p => pc'[q] = pc[q]
BY DEF Inv, BaseInv, TypeOK, PcType, Goto

(* The types OwnInv's proofs use. *)
LEMMA OwnTypes ==
  ASSUME Inv
  PROVE  /\ nextid \in 0..MaxConnId /\ nextid \in Nat /\ MaxConnId \in Nat
         /\ opened \subseteq ConnIds
         /\ idle \in Seq(ConnIds \cup {NilConn}) /\ loc \in [Procs -> ConnIds \cup {NilConn}]
         /\ closedEvents \in [ConnIds -> Nat]
         /\ \A p \in Procs : pc[p] \in OwningPCs => loc[p] \in ConnIds
BY SizesAssumption DEF Inv, BaseInv, TypeOK, DataType, LocalsOK, LocatedPCs

(* Admin is in disconnect only once it has been called. *)
NotCalledBack ==
  calls'["disconnect"] = 0 =>
    /\ calls["disconnect"] = 0
    /\ pc[Admin] \notin DisconnectPCs => pc'[Admin] \notin DisconnectPCs

(* A step that takes no connection from anybody and gives none: the tables  *)
(* and the list stay, and every process keeps the connection it has.        *)
LEMMA OwnFrame ==
  ASSUME Inv, OwnInv, UNCHANGED <<opened, idle, nextid, closedEvents>>, NotCalledBack,
         toClose' \subseteq toClose \cup opened,
         \A p \in Procs : /\ pc'[p] \in MakingPCs <=> pc[p] \in MakingPCs
                          /\ pc'[p] \in UsingPCs <=> pc[p] \in UsingPCs
                          /\ pc[p] \in OwningPCs => loc'[p] = loc[p]
  PROVE  OwnInv'
<1>1. \A p \in Procs : /\ pc'[p] \in OwningPCs <=> pc[p] \in OwningPCs
                       /\ pc[p] \in MakingPCs \cup UsingPCs => loc'[p] = loc[p]
  BY DEF OwningPCs, MakingPCs, UsingPCs
<1>2. Known' /\ OneOwner' /\ OwnedNotIdle' /\ NoRepeat(idle)'
  BY <1>1 DEF OwnInv, Known, OneOwner, OwnedNotIdle, NoRepeat
<1>3. NotYetOpen' /\ OpenIsKept' /\ EventsMatch'
  BY <1>1 DEF OwnInv, NotYetOpen, OpenIsKept, EventsMatch
<1>4. OpenUntilDisconnect'
  BY <1>1 DEF OwnInv, OpenUntilDisconnect, NotCalledBack
<1> QED
  BY <1>2, <1>3, <1>4 DEF OwnInv

(* A process moves between two positions of the same kind.                  *)
LEMMA OwnMove ==
  ASSUME Inv, OwnInv, UNCHANGED <<opened, idle, nextid, closedEvents>>,
         toClose' \subseteq toClose \cup opened,
         calls'["disconnect"] = calls["disconnect"],
         NEW p \in Procs, NEW label, Goto(p, label),
         label \in MakingPCs <=> pc[p] \in MakingPCs,
         label \in UsingPCs <=> pc[p] \in UsingPCs,
         label \in DisconnectPCs => pc[p] \in DisconnectPCs,
         \A q \in Procs : pc[q] \in OwningPCs => loc'[q] = loc[q]
  PROVE  OwnInv'
<1>1. pc'[p] = label /\ \A q \in Procs : q # p => pc'[q] = pc[q]
  BY Moved
<1>2. Admin \in Procs
  BY DEF Procs, Maintainers
<1> QED
  BY <1>1, <1>2, OwnFrame DEF NotCalledBack

(* Nobody moves. *)
LEMMA OwnStill ==
  ASSUME Inv, OwnInv, UNCHANGED <<opened, idle, nextid, closedEvents, pc, loc, toClose>>,
         calls'["disconnect"] = calls["disconnect"]
  PROVE  OwnInv'
BY OwnFrame DEF NotCalledBack

(* Checking out, waiting and giving back leave every connection where it is *)
(* but for the steps with a lemma of their own.                             *)
LEMMA OwnGet ==
  ASSUME Inv, OwnInv, NEW g \in Getters,
         \/ GetStart(g) \/ Acquire(g) \/ AcquireTimeout(g) \/ GetLoop(g) \/ SelectTimeout(g)
         \/ IncrementTotal(g) \/ GetConnect(g) \/ GetWait(g) \/ DecrementTotal(g)
         \/ ReturnConnection(g) \/ ExpireConnection(g)
  PROVE  OwnInv'
<1> USE DEF poolVars, rpVars, procVars, histVars, downVars, allButPc, allButConn, MakingPCs, UsingPCs, OwningPCs,
            DisconnectPCs
<1>1. UNCHANGED <<opened, idle, nextid, closedEvents, toClose>>
  BY DEF GetStart, Acquire, AcquireTimeout, GetLoop, SelectTimeout, IncrementTotal, GetConnect,
         GetWait, DecrementTotal, ReturnConnection, ExpireConnection
<1>2. calls'["disconnect"] = calls["disconnect"]
  BY DEF GetStart, Acquire, AcquireTimeout, GetLoop, SelectTimeout, IncrementTotal, GetConnect,
         GetWait, DecrementTotal, ReturnConnection, ExpireConnection, Count, CallKinds,
         Inv, BaseInv, TypeOK, DataType
<1>3. g \in Procs
  BY DEF Procs
<1>4. \A q \in Procs : pc[q] \in OwningPCs => loc'[q] = loc[q]
  BY <1>3, OwnTypes DEF GetStart, Acquire, AcquireTimeout, GetLoop, SelectTimeout, IncrementTotal, GetConnect,
         GetWait, DecrementTotal, ReturnConnection, ExpireConnection
<1>5. \E label : /\ Goto(g, label)
                 /\ label \in MakingPCs <=> pc[g] \in MakingPCs
                 /\ label \in UsingPCs <=> pc[g] \in UsingPCs
                 /\ label \in DisconnectPCs => pc[g] \in DisconnectPCs
  BY DEF GetStart, Acquire, AcquireTimeout, GetLoop, SelectTimeout, IncrementTotal, GetConnect,
         GetWait, DecrementTotal, ReturnConnection, ExpireConnection
<1> QED
  BY <1>1, <1>2, <1>3, <1>4, <1>5, OwnMove

(* Release moves its caller and the getters it wakes, none of which has a   *)
(* connection.                                                              *)
LEMMA OwnRelease ==
  ASSUME Inv, OwnInv, NEW g \in Getters, Release(g)
  PROVE  OwnInv'
<1>1. UNCHANGED <<opened, idle, nextid, closedEvents, loc, toClose>> /\ UNCHANGED calls /\ pc[g] = "release"
  BY DEF Release, poolVars, rpVars, histVars, downVars
<1>2. pc' = [p \in Procs |-> IF p = g THEN "idle"
                             ELSE IF p \in {waiters[i] : i \in 1..Woken} THEN "loop"
                             ELSE pc[p]]
  BY DEF Release
<1>3. \A i \in 1..Woken : pc[waiters[i]] = "queued" /\ waiters[i] \in Getters
  <2>1. semCur \in Nat /\ MaxPoolSize \in Nat /\ Len(waiters) \in Nat
    BY SizesAssumption DEF Inv, BaseInv, TypeOK, DataType
  <2>2. \A i \in 1..Woken : i \in 1..Len(waiters)
    BY <2>1 DEF Woken
  <2> QED
    BY <2>2 DEF Inv, BaseInv, TypeOK, DataType, SemInv, QueueOK
<1>4. Admin \in Procs /\ Admin \notin Getters
  BY ProcNames DEF Procs, Maintainers
<1>5. pc'[Admin] = pc[Admin]
  BY <1>2, <1>3, <1>4
<1>6. \A p \in Procs : /\ pc'[p] \in MakingPCs <=> pc[p] \in MakingPCs
                       /\ pc'[p] \in UsingPCs <=> pc[p] \in UsingPCs
  BY <1>1, <1>2, <1>3 DEF MakingPCs, UsingPCs
<1> QED
  BY <1>1, <1>5, <1>6, OwnFrame DEF NotCalledBack

(* The users of a connection and the goroutines that connect and close it   *)
(* do not move it.                                                          *)
LEMMA OwnConnection ==
  ASSUME Inv, OwnInv,
         \/ \E g \in Getters : UseSucceeds(g) \/ UseFails(g)
         \/ \E c \in ConnIds : ConnectStep(c) \/ CloserStep(c) \/ IdleDeadlinePasses(c)
         \/ DeadlinePasses \/ Clear \/ UNCHANGED vars
  PROVE  OwnInv'
<1> USE DEF poolVars, rpVars, procVars, histVars, downVars, allButConn
<1>1. UNCHANGED <<opened, idle, nextid, closedEvents, pc, loc, toClose>>
  BY DEF UseSucceeds, UseFails, ConnectStep, CloserStep, BackgroundConnect, DialSucceeds,
         HandshakeSucceeds, ConnectFails, HandshakeErrorCheck, HandshakeErrorClear, CloserLoad,
         CloserWait, CloserCas, IdleDeadlinePasses, DeadlinePasses, Clear, vars
<1>2. calls'["disconnect"] = calls["disconnect"]
  BY DEF UseSucceeds, UseFails, ConnectStep, CloserStep, BackgroundConnect, DialSucceeds,
         HandshakeSucceeds, ConnectFails, HandshakeErrorCheck, HandshakeErrorClear, CloserLoad,
         CloserWait, CloserCas, IdleDeadlinePasses, DeadlinePasses, Clear, vars,
         Count, CallKinds, Inv, BaseInv, TypeOK, DataType
<1> QED
  BY <1>1, <1>2, OwnStill

(* Maintain, connect and disconnect touch connections in two steps only.    *)
LEMMA OwnAdmin ==
  ASSUME Inv, OwnInv,
         \/ \E p \in Maintainers : MaintainStart(p) \/ MaintainPruned(p) \/ MaintainLoop(p)
         \/ TimerFires \/ Connect \/ Initialize \/ DisconnectGeneration \/ DisconnectWait
         \/ DisconnectCopy \/ DisconnectLoad \/ DisconnectWaitConn \/ DisconnectCas
         \/ DisconnectState \/ ClearTotal
  PROVE  OwnInv'
<1> USE DEF poolVars, rpVars, rpCtl, procVars, histVars, downVars, allButPc, MakingPCs, UsingPCs, OwningPCs,
            DisconnectPCs
<1>1. UNCHANGED <<opened, idle, nextid, closedEvents>> /\ toClose' \subseteq toClose \cup opened
  BY DEF MaintainStart, MaintainPruned, MaintainLoop, TimerFires, Connect, Initialize,
         DisconnectGeneration, DisconnectWait, DisconnectCopy, DisconnectLoad,
         DisconnectWaitConn, DisconnectCas, DisconnectState, ClearTotal
<1>2. calls'["disconnect"] = calls["disconnect"]
  BY DEF MaintainStart, MaintainPruned, MaintainLoop, TimerFires, Connect, Initialize,
         DisconnectGeneration, DisconnectWait, DisconnectCopy, DisconnectLoad,
         DisconnectWaitConn, DisconnectCas, DisconnectState, ClearTotal,
         Count, CallKinds, Inv, BaseInv, TypeOK, DataType
<1>3. Maintainers \subseteq Procs /\ Timer \in Maintainers /\ Admin \in Maintainers
  BY DEF Procs, Maintainers
<1>4. \A q \in Procs : pc[q] \in OwningPCs => loc'[q] = loc[q]
  BY <1>3, OwnTypes DEF MaintainStart, MaintainPruned, MaintainLoop, TimerFires, Connect, Initialize,
         DisconnectGeneration, DisconnectWait, DisconnectCopy, DisconnectLoad,
         DisconnectWaitConn, DisconnectCas, DisconnectState, ClearTotal
<1>5. \E p \in Maintainers : \E label :
                 /\ Goto(p, label)
                 /\ label \in MakingPCs <=> pc[p] \in MakingPCs
                 /\ label \in UsingPCs <=> pc[p] \in UsingPCs
                 /\ label \in DisconnectPCs => pc[p] \in DisconnectPCs
  BY <1>3 DEF MaintainStart, MaintainPruned, MaintainLoop, TimerFires, Connect, Initialize,
         DisconnectGeneration, DisconnectWait, DisconnectCopy, DisconnectLoad,
         DisconnectWaitConn, DisconnectCas, DisconnectState, ClearTotal
<1> QED
  BY <1>1, <1>2, <1>3, <1>4, <1>5, OwnMove

(* The call of disconnect. *)
LEMMA OwnDisconnect ==
  ASSUME Inv, OwnInv, Disconnect
  PROVE  OwnInv'
<1>1. UNCHANGED <<opened, idle, nextid, closedEvents, loc, toClose>>
  BY DEF Disconnect, rpVars, histVars
<1>2. calls["disconnect"] \in Nat /\ calls'["disconnect"] = calls["disconnect"] + 1
  BY DEF Disconnect, Count, Inv, BaseInv, TypeOK, DataType, CallKinds
<1>3. Admin \in Procs /\ Goto(Admin, "dClose") /\ pc[Admin] = "idle"
  BY DEF Disconnect, Procs, Maintainers
<1>4. \A p \in Procs : /\ pc'[p] \in MakingPCs <=> pc[p] \in MakingPCs
                       /\ pc'[p] \in UsingPCs <=> pc[p] \in UsingPCs
  BY <1>3, Moved DEF MakingPCs, UsingPCs
<1>5. calls'["disconnect"] # 0
  BY <1>2
<1> QED
  BY <1>1, <1>4, <1>5, OwnFrame DEF NotCalledBack

(* Connections are dropped: those of D leave opened with their event, the   *)
(* list loses them, and whoever had one lets go. At most one process, h,    *)
(* moves; it may take the connection t from the list.                       *)
LEMMA OwnDrop ==
  ASSUME Inv, OwnInv, NEW D \in SUBSET ConnIds, RemoveConnections(D), UNCHANGED nextid,
         NotCalledBack, toClose' \subseteq toClose,
         Elements(idle') \subseteq Elements(idle), NoRepeat(idle'),
         calls["disconnect"] = 0 => D \cap Elements(idle') = {},
         \A p \in Procs : /\ pc'[p] \in MakingPCs <=> pc[p] \in MakingPCs
                          /\ pc[p] \in MakingPCs => loc'[p] = loc[p] /\ loc[p] \notin D,
         \A p \in Procs : pc'[p] \in UsingPCs /\ pc[p] \in UsingPCs => loc'[p] = loc[p],
         \A p \in Procs : pc[p] \in UsingPCs /\ pc'[p] \notin UsingPCs => loc[p] \in D,
         \A p \in Procs : pc'[p] \in UsingPCs /\ pc[p] \notin UsingPCs =>
                            loc'[p] \in Elements(idle) \ (Elements(idle') \cup D \cup {NilConn}),
         \A p, q \in Procs : p # q /\ pc'[p] \in UsingPCs /\ pc'[q] \in UsingPCs =>
                               pc[p] \in UsingPCs \/ pc[q] \in UsingPCs,
         calls["disconnect"] = 0 =>
           \A p \in Procs : pc[p] \in UsingPCs /\ pc'[p] \in UsingPCs => loc[p] \notin D,
         \A c \in Elements(idle) \ (Elements(idle') \cup D \cup {NilConn}) :
           \E p \in Procs : pc'[p] \in UsingPCs /\ loc'[p] = c
  PROVE  OwnInv'
<1>1. \A p \in Procs : /\ pc[p] \in OwningPCs <=> pc[p] \in MakingPCs \/ pc[p] \in UsingPCs
                       /\ pc'[p] \in OwningPCs <=> pc'[p] \in MakingPCs \/ pc'[p] \in UsingPCs
                       /\ ~(pc[p] \in MakingPCs /\ pc[p] \in UsingPCs)
  BY DEF OwningPCs, MakingPCs, UsingPCs
<1>2. /\ opened' = opened \ D /\ opened \subseteq ConnIds
      /\ \A c \in ConnIds : closedEvents'[c] =
            IF c \in D /\ c \in opened THEN closedEvents[c] + 1 ELSE closedEvents[c]
  BY OwnTypes DEF RemoveConnections
<1>3. Known /\ OneOwner /\ OwnedNotIdle /\ NotYetOpen /\ OpenIsKept /\ OpenUntilDisconnect /\ EventsMatch
  BY DEF OwnInv
<1>4. \A c \in Elements(idle) : c # NilConn => c \in 1..nextid
  BY <1>3, OwnTypes DEF Known, NilConn
<1>5. Known'
  <2>1. \A c \in opened' \cup toClose' : c \in 1..nextid'
    BY <1>2, <1>3 DEF Known
  <2>2. \A p \in Procs : pc'[p] \in OwningPCs => loc'[p] \in 1..nextid'
    BY <1>1, <1>3, <1>4 DEF Known
  <2>3. \A c \in Elements(idle') : c \in 0..nextid'
    BY <1>3 DEF Known
  <2>4. \A c \in ConnIds : c > nextid' => closedEvents'[c] = 0
    BY <1>2, <1>3, OwnTypes DEF Known
  <2> QED
    BY <2>1, <2>2, <2>3, <2>4 DEF Known
<1>6. OneOwner'
  BY <1>1, <1>3 DEF OneOwner, OwnedNotIdle
<1>7. OwnedNotIdle'
  BY <1>1, <1>3 DEF OwnedNotIdle
<1>8. NotYetOpen'
  BY <1>2, <1>3 DEF NotYetOpen
<1>9. OpenIsKept'
  <2> SUFFICES ASSUME NEW c \in opened', c \notin Elements(idle')
               PROVE  \E p \in Procs : pc'[p] \in UsingPCs /\ loc'[p] = c
    BY DEF OpenIsKept
  <2>1. c \in opened /\ c \notin D /\ c # NilConn
    BY <1>2 DEF ConnIds, NilConn
  <2>2. CASE c \in Elements(idle)
    BY <2>1, <2>2
  <2>3. CASE c \notin Elements(idle)
    BY <1>3, <2>1, <2>3 DEF OpenIsKept
  <2> QED
    BY <2>2, <2>3
<1>10. OpenUntilDisconnect'
  BY <1>2, <1>3 DEF OpenUntilDisconnect, NotCalledBack
<1>11. EventsMatch'
  <2> SUFFICES ASSUME NEW c \in ConnIds, c <= nextid
               PROVE  IF c \in opened' \/ \E p \in Procs : pc'[p] \in MakingPCs /\ loc'[p] = c
                      THEN closedEvents'[c] = 0 ELSE closedEvents'[c] = 1
    BY DEF EventsMatch
  <2>1. IF c \in opened \/ \E p \in Procs : pc[p] \in MakingPCs /\ loc[p] = c
        THEN closedEvents[c] = 0 ELSE closedEvents[c] = 1
    BY <1>3 DEF EventsMatch
  <2>2. (\E p \in Procs : pc'[p] \in MakingPCs /\ loc'[p] = c)
          <=> \E p \in Procs : pc[p] \in MakingPCs /\ loc[p] = c
    OBVIOUS
  <2>3. (\E p \in Procs : pc[p] \in MakingPCs /\ loc[p] = c) => c \notin D
    OBVIOUS
  <2> QED
    BY <1>2, <2>1, <2>2, <2>3
<1> QED
  BY <1>5, <1>6, <1>7, <1>8, <1>9, <1>10, <1>11 DEF OwnInv

(* Nobody takes anything: a special case for the removals of one process.   *)
LEMMA OwnRemove ==
  ASSUME Inv, OwnInv, NEW D \in SUBSET ConnIds, RemoveConnections(D), UNCHANGED <<nextid, calls>>,
         toClose' \subseteq toClose,
         NEW h \in Procs, NEW label, Goto(h, label), pc[h] \notin MakingPCs,
         label \notin OwningPCs, label \in DisconnectPCs => pc[h] \in DisconnectPCs,
         \A p \in Procs : p # h => loc'[p] = loc[p],
         pc[h] \in UsingPCs => loc[h] \in D,
         \A p \in Procs : p # h /\ pc[p] \in OwningPCs =>
            loc[p] \notin D \/ (pc[p] \in UsingPCs /\ calls["disconnect"] # 0),
         Elements(idle') \subseteq Elements(idle), NoRepeat(idle'),
         calls["disconnect"] = 0 => D \cap Elements(idle') = {},
         Elements(idle) \subseteq Elements(idle') \cup D \cup {NilConn}
  PROVE  OwnInv'
<1>1. pc'[h] = label /\ \A q \in Procs : q # h => pc'[q] = pc[q]
  BY Moved
<1>2. Admin \in Procs
  BY DEF Procs, Maintainers
<1>3. NotCalledBack
  BY <1>1, <1>2 DEF NotCalledBack
<1>4. \A p \in Procs : pc[p] \in OwningPCs <=> pc[p] \in MakingPCs \/ pc[p] \in UsingPCs
  BY DEF OwningPCs, MakingPCs, UsingPCs
<1>5. label \notin MakingPCs /\ label \notin UsingPCs
  BY DEF OwningPCs, MakingPCs, UsingPCs
<1>6. \A p \in Procs : pc[p] \in MakingPCs => pc[p] \notin UsingPCs
  BY DEF MakingPCs, UsingPCs
<1>7. \A p \in Procs : /\ pc'[p] \in MakingPCs <=> pc[p] \in MakingPCs
                       /\ pc[p] \in MakingPCs => loc'[p] = loc[p] /\ loc[p] \notin D
  BY <1>1, <1>4, <1>5, <1>6
<1>8. /\ \A p \in Procs : pc'[p] \in UsingPCs => pc[p] \in UsingPCs /\ p # h /\ loc'[p] = loc[p]
      /\ \A p \in Procs : pc[p] \in UsingPCs /\ pc'[p] \notin UsingPCs => p = h
  BY <1>1, <1>5
<1> QED
  BY <1>3, <1>4, <1>7, <1>8, OwnDrop

(* resourcePool.Get: the expired connections at the start of the list are   *)
(* closed, and the first that is not goes to the getter.                    *)
LEMMA OwnRPGet ==
  ASSUME Inv, OwnInv, NEW g \in Getters, RPGet(g)
  PROVE  OwnInv'
<1>1. PICK first \in 1..(Len(idle) + 1) :
         /\ FirstFresh(first) /\ CloseConnections(DropBefore(first)) /\ idle' = RestAfter(first)
         /\ IF first > Len(idle)
            THEN loc' = loc /\ Goto(g, "select")
            ELSE loc' = [loc EXCEPT ![g] = idle[first]] /\ Goto(g, "connect")
  BY DEF RPGet
<1> DEFINE D == DropBefore(first)
<1>2. /\ idle \in Seq(ConnIds \cup {NilConn}) /\ NoRepeat(idle) /\ g \in Procs /\ pc[g] = "get"
      /\ loc \in [Procs -> ConnIds \cup {NilConn}] /\ Len(idle) \in Nat
  BY OwnTypes DEF OwnInv, RPGet, Procs
<1>3. UNCHANGED <<nextid, calls, toClose>> /\ RemoveConnections(D)
  BY <1>1 DEF RPGet, CloseConnections, downVars
<1>4. /\ Elements(idle') \subseteq Elements(idle) /\ NoRepeat(idle') /\ D \subseteq Elements(idle)
      /\ D \cap Elements(idle') = {}
      /\ first <= Len(idle) =>
           /\ Elements(idle) \subseteq D \cup {NilConn, idle[first]} \cup Elements(idle')
           /\ idle[first] \in Elements(idle)
           /\ idle[first] # NilConn => idle[first] \notin Elements(idle') \cup D
      /\ first > Len(idle) => Elements(idle) \subseteq D \cup {NilConn}
  BY <1>1, <1>2, RestElements DEF RestAfter, DropBefore
<1>5. D \in SUBSET ConnIds
  <2>1. \A i \in 1..(first - 1) : idle[i] \in ConnIds \cup {NilConn}
    BY <1>2
  <2> QED
    BY <2>1 DEF DropBefore
<1>6. OwnedNotIdle
  BY DEF OwnInv
<1>7. \A p \in Procs : pc[p] \in OwningPCs => loc[p] \notin D
  BY <1>4, <1>6 DEF OwnedNotIdle
<1> HIDE DEF D
<1>8. CASE first > Len(idle)
  <2>1. loc' = loc /\ Goto(g, "select")
    BY <1>1, <1>8
  <2>2. pc[g] \notin OwningPCs /\ "select" \notin OwningPCs /\ "select" \notin DisconnectPCs
        /\ pc[g] \notin MakingPCs /\ pc[g] \notin UsingPCs
    BY <1>2 DEF OwningPCs, DisconnectPCs, MakingPCs, UsingPCs
  <2>3. Elements(idle) \subseteq Elements(idle') \cup D \cup {NilConn}
    BY <1>4, <1>8
  <2> QED
    BY <1>2, <1>3, <1>4, <1>5, <1>7, <2>1, <2>2, <2>3, OwnRemove
<1>9. CASE ~(first > Len(idle))
  <2>1. first <= Len(idle)
    BY <1>2, <1>9
  <2>2. loc' = [loc EXCEPT ![g] = idle[first]] /\ Goto(g, "connect")
    BY <1>1, <1>9
  <2>3. idle[first] # NilConn
    BY <1>1, <2>1 DEF FirstFresh, Expired
  <2>4. idle[first] \in Elements(idle) \ (Elements(idle') \cup D \cup {NilConn})
    BY <1>4, <2>1, <2>3
  <2>5. Elements(idle) \ (Elements(idle') \cup D \cup {NilConn}) \subseteq {idle[first]}
    BY <1>4, <2>1
  <2>6. /\ pc'[g] = "connect" /\ loc'[g] = idle[first]
        /\ \A p \in Procs : p # g => pc'[p] = pc[p] /\ loc'[p] = loc[p]
    BY <1>2, <2>2, Moved
  <2>7. /\ pc[g] \notin MakingPCs /\ pc[g] \notin UsingPCs /\ pc'[g] \in UsingPCs
        /\ pc'[g] \notin MakingPCs /\ Admin \in Procs /\ Admin # g
    BY <1>2, <2>6, ProcNames DEF MakingPCs, UsingPCs, Procs, Maintainers
  <2>8. NotCalledBack
    BY <1>3, <2>6, <2>7 DEF NotCalledBack
  <2>9. \A p \in Procs : pc[p] \in MakingPCs \/ pc[p] \in UsingPCs => pc[p] \in OwningPCs
    BY DEF MakingPCs, UsingPCs, OwningPCs
  <2>10. \A p \in Procs : /\ pc'[p] \in MakingPCs <=> pc[p] \in MakingPCs
                          /\ pc[p] \in MakingPCs => loc'[p] = loc[p] /\ loc[p] \notin D
    BY <1>7, <2>6, <2>7, <2>9
  <2>11. /\ \A p \in Procs : pc'[p] \in UsingPCs /\ pc[p] \in UsingPCs => loc'[p] = loc[p]
         /\ \A p \in Procs : pc[p] \in UsingPCs => pc'[p] \in UsingPCs /\ loc[p] \notin D
         /\ \A p \in Procs : pc'[p] \in UsingPCs /\ pc[p] \notin UsingPCs => p = g
    BY <1>7, <2>6, <2>7, <2>9
  <2> QED
    BY <1>2, <1>3, <1>4, <1>5, <2>4, <2>5, <2>6, <2>7, <2>8, <2>10, <2>11, OwnDrop
<1> QED
  BY <1>8, <1>9

(* A connection that could not be connected is removed by its getter.       *)
LEMMA OwnGetRemove ==
  ASSUME Inv, OwnInv, NEW g \in Getters, GetRemove(g)
  PROVE  OwnInv'
<1>1. /\ pc[g] = "remove" /\ RemoveConnections({loc[g]}) /\ Goto(g, "decr")
      /\ UNCHANGED <<nextid, calls, idle, loc, toClose>> /\ g \in Procs
  BY DEF GetRemove, rpVars, downVars, Procs
<1>2. /\ pc[g] \in OwningPCs /\ pc[g] \notin MakingPCs /\ "decr" \notin OwningPCs
      /\ "decr" \notin DisconnectPCs
  BY <1>1 DEF OwningPCs, MakingPCs, DisconnectPCs
<1>3. {loc[g]} \in SUBSET ConnIds
  BY <1>1, <1>2, OwnTypes
<1>4. \A p \in Procs : p # g /\ pc[p] \in OwningPCs => loc[p] \notin {loc[g]}
  BY <1>1, <1>2 DEF OwnInv, OneOwner
<1>5. /\ {loc[g]} \cap Elements(idle') = {} /\ NoRepeat(idle') /\ Elements(idle') = Elements(idle)
  BY <1>1, <1>2 DEF OwnInv, OwnedNotIdle
<1> QED
  BY <1>1, <1>2, <1>3, <1>4, <1>5, OwnRemove

(* A process gives its connection to the list, or adds a nil to it.         *)
LEMMA OwnPush ==
  ASSUME Inv, OwnInv, UNCHANGED <<opened, closedEvents, nextid, calls, toClose>>,
         NEW h \in Procs, pc[h] \in UsingPCs, NEW label, Goto(h, label),
         label \notin OwningPCs, label \notin DisconnectPCs,
         idle' = <<loc[h]>> \o idle, \A p \in Procs : p # h => loc'[p] = loc[p]
  PROVE  OwnInv'
<1>1. pc'[h] = label /\ \A q \in Procs : q # h => pc'[q] = pc[q]
  BY Moved
<1>2. \A p \in Procs : /\ pc[p] \in OwningPCs <=> pc[p] \in MakingPCs \/ pc[p] \in UsingPCs
                       /\ ~(pc[p] \in MakingPCs /\ pc[p] \in UsingPCs)
  BY DEF OwningPCs, MakingPCs, UsingPCs
<1>3. label \notin MakingPCs /\ label \notin UsingPCs
  BY DEF OwningPCs, MakingPCs, UsingPCs
<1>4. Known /\ OneOwner /\ OwnedNotIdle /\ NoRepeat(idle) /\ NotYetOpen /\ OpenIsKept
      /\ OpenUntilDisconnect /\ EventsMatch
  BY DEF OwnInv
<1>5. loc[h] \in ConnIds /\ idle \in Seq(ConnIds \cup {NilConn}) /\ loc[h] \notin Elements(idle)
  BY <1>2, <1>4, OwnTypes DEF OwnedNotIdle
<1>6. Elements(idle') = {loc[h]} \cup Elements(idle) /\ NoRepeat(idle')
  BY <1>4, <1>5, PushElements
<1>7. \A p \in Procs : /\ pc'[p] \in MakingPCs <=> pc[p] \in MakingPCs
                       /\ pc'[p] \in UsingPCs <=> pc[p] \in UsingPCs /\ p # h
                       /\ pc'[p] \in OwningPCs <=> pc[p] \in OwningPCs /\ p # h
  BY <1>1, <1>2, <1>3
<1>8. Known'
  <2>1. loc[h] \in 0..nextid
    BY <1>2, <1>4, OwnTypes DEF Known
  <2>2. \A c \in Elements(idle') : c \in 0..nextid'
    BY <1>4, <1>6, <2>1 DEF Known
  <2>3. \A p \in Procs : pc'[p] \in OwningPCs => loc'[p] \in 1..nextid'
    BY <1>4, <1>7 DEF Known
  <2>4. /\ \A c \in opened' \cup toClose' : c \in 1..nextid'
        /\ \A c \in ConnIds : c > nextid' => closedEvents'[c] = 0
    BY <1>4 DEF Known
  <2> QED
    BY <2>2, <2>3, <2>4 DEF Known
<1>9. OneOwner'
  BY <1>4, <1>7 DEF OneOwner
<1>10. OwnedNotIdle'
  BY <1>2, <1>4, <1>6, <1>7 DEF OneOwner, OwnedNotIdle
<1>11. NotYetOpen'
  BY <1>2, <1>4, <1>7 DEF NotYetOpen
<1>12. OpenIsKept'
  BY <1>4, <1>6, <1>7 DEF OpenIsKept
<1>13. OpenUntilDisconnect'
  <2>1. pc'[Admin] \in DisconnectPCs => pc[Admin] \in DisconnectPCs
    BY <1>1 DEF Procs, Maintainers
  <2> QED
    BY <1>4, <1>6, <1>7, <2>1 DEF OpenUntilDisconnect
<1>14. EventsMatch'
  <2>1. \A c : (\E p \in Procs : pc'[p] \in MakingPCs /\ loc'[p] = c)
          <=> \E p \in Procs : pc[p] \in MakingPCs /\ loc[p] = c
    BY <1>2, <1>7
  <2> QED
    BY <1>4, <2>1 DEF EventsMatch
<1> QED
  BY <1>6, <1>8, <1>9, <1>10, <1>11, <1>12, <1>13, <1>14 DEF OwnInv

(* resourcePool.Put: an expired connection is closed, another is idle.      *)
LEMMA OwnRPPut ==
  ASSUME Inv, OwnInv, NEW g \in Getters, RPPut(g)
  PROVE  OwnInv'
<1>1. /\ pc[g] = "put" /\ Goto(g, "release") /\ UNCHANGED <<nextid, calls, toClose>> /\ g \in Procs
      /\ loc' = [loc EXCEPT ![g] = NilConn]
  BY DEF RPPut, Procs, downVars
<1>2. /\ pc[g] \in OwningPCs /\ pc[g] \notin MakingPCs /\ pc[g] \in UsingPCs
      /\ "release" \notin OwningPCs /\ "release" \notin DisconnectPCs
  BY <1>1 DEF OwningPCs, MakingPCs, UsingPCs, DisconnectPCs
<1>3. \A p \in Procs : p # g => loc'[p] = loc[p]
  BY <1>1, OwnTypes
<1>4. CASE Expired(loc[g])
  <2>1. RemoveConnections({loc[g]}) /\ idle' = idle
    BY <1>4 DEF RPPut, CloseConnections
  <2>2. {loc[g]} \in SUBSET ConnIds
    BY <1>1, <1>2, OwnTypes
  <2>3. \A p \in Procs : p # g /\ pc[p] \in OwningPCs => loc[p] \notin {loc[g]}
    BY <1>1, <1>2 DEF OwnInv, OneOwner
  <2>4. /\ {loc[g]} \cap Elements(idle') = {} /\ NoRepeat(idle') /\ Elements(idle') = Elements(idle)
    BY <1>1, <1>2, <2>1 DEF OwnInv, OwnedNotIdle
  <2> QED
    BY <1>1, <1>2, <1>3, <2>1, <2>2, <2>3, <2>4, OwnRemove
<1>5. CASE ~Expired(loc[g])
  <2>1. idle' = <<loc[g]>> \o idle /\ UNCHANGED <<opened, closedEvents>>
    BY <1>5 DEF RPPut
  <2> QED
    BY <1>1, <1>2, <1>3, <2>1, OwnPush
<1> QED
  BY <1>4, <1>5

(* The first loop of Maintain: an expired connection leaves the list.       *)
LEMMA OwnPrune ==
  ASSUME Inv, OwnInv, NEW p \in Maintainers, MaintainPrune(p)
  PROVE  OwnInv'
<1>1. UNCHANGED <<nextid, calls, pc, loc, toClose>> /\ p \in Procs /\ pc[p] = "mPrune"
  BY DEF MaintainPrune, procVars, Procs, downVars
<1>2. CASE Expired(idle[cursor])
  <2> DEFINE D == {idle[cursor]} \ {NilConn}
  <2>1. RemoveConnections(D) /\ idle' = Without(idle, cursor)
    BY <1>2 DEF MaintainPrune, CloseConnections
  <2>2. idle \in Seq(ConnIds \cup {NilConn}) /\ cursor \in 1..Len(idle)
    <3>1. rpLock = p /\ rpLock # NoProc /\ pc[rpLock] = "mPrune"
      BY <1>1, ProcNames DEF Inv, BaseInv, LockOK, LockedPCs
    <3> QED
      BY <3>1 DEF MaintainPrune, Inv, BaseInv, LockOK, TypeOK, DataType
  <2>3. NoRepeat(idle) /\ OwnedNotIdle
    BY DEF OwnInv
  <2>4. /\ Elements(idle') \subseteq Elements(idle) /\ NoRepeat(idle')
        /\ Elements(idle) \subseteq {idle[cursor]} \cup Elements(idle')
        /\ D \cap Elements(idle') = {}
    BY <2>1, <2>2, <2>3, WithoutElements
  <2>5. D \in SUBSET ConnIds /\ D \subseteq Elements(idle)
    BY <2>2 DEF Elements
  <2>6. \A q \in Procs : pc[q] \in OwningPCs => loc[q] \notin D
    BY <2>3, <2>5 DEF OwnedNotIdle
  <2>7. Elements(idle) \subseteq Elements(idle') \cup D \cup {NilConn}
    BY <2>4
  <2> HIDE DEF D
  <2>8. NotCalledBack
    BY <1>1 DEF NotCalledBack
  <2>9. \A q \in Procs : pc[q] \in MakingPCs \/ pc[q] \in UsingPCs => pc[q] \in OwningPCs
    BY DEF MakingPCs, UsingPCs, OwningPCs
  <2> QED
    BY <1>1, <2>1, <2>4, <2>5, <2>6, <2>7, <2>8, <2>9, OwnDrop
<1>3. CASE ~Expired(idle[cursor])
  BY <1>1, <1>3, OwnStill DEF MaintainPrune
<1> QED
  BY <1>2, <1>3

(* resourcePool.Close: every idle connection is closed. *)
LEMMA OwnRPClose ==
  ASSUME Inv, OwnInv, RPClose
  PROVE  OwnInv'
<1> DEFINE D == Elements(idle) \ {NilConn}
<1>1. /\ pc[Admin] = "dClose" /\ Goto(Admin, "dGen") /\ UNCHANGED <<nextid, calls, loc, toClose>>
      /\ RemoveConnections(D) /\ idle' = <<>> /\ Admin \in Procs
  BY DEF RPClose, CloseConnections, Procs, downVars, Maintainers
<1>2. idle \in Seq(ConnIds \cup {NilConn}) /\ OwnedNotIdle
  BY OwnTypes DEF OwnInv
<1>3. D \in SUBSET ConnIds
  BY <1>2 DEF Elements
<1>4. Elements(idle') = {} /\ NoRepeat(idle')
  BY <1>1 DEF Elements, NoRepeat
<1>5. \A q \in Procs : pc[q] \in OwningPCs => loc[q] \notin D
  BY <1>2 DEF OwnedNotIdle
<1>6. /\ pc[Admin] \notin MakingPCs /\ pc[Admin] \notin UsingPCs /\ "dGen" \notin OwningPCs
      /\ pc[Admin] \in DisconnectPCs
  BY <1>1 DEF OwningPCs, MakingPCs, UsingPCs, DisconnectPCs
<1>7. Elements(idle) \subseteq Elements(idle') \cup D \cup {NilConn}
  OBVIOUS
<1> HIDE DEF D
<1> QED
  BY <1>1, <1>3, <1>4, <1>5, <1>6, <1>7, OwnRemove

(* disconnect removes an open connection, whoever has it.                   *)
LEMMA OwnDisconnectRemove ==
  ASSUME Inv, OwnInv, NEW c \in ConnIds, DisconnectRemove(c)
  PROVE  OwnInv'
<1>1. /\ pc[Admin] = "dNext" /\ Goto(Admin, "dLoad") /\ UNCHANGED <<nextid, calls, idle>>
      /\ RemoveConnections({c}) /\ loc' = [loc EXCEPT ![Admin] = c] /\ Admin \in Procs
      /\ c \in toClose /\ toClose' \subseteq toClose
  BY DEF DisconnectRemove, rpVars, Procs, Maintainers
<1>2. /\ pc[Admin] \in DisconnectPCs /\ pc[Admin] \notin OwningPCs /\ pc[Admin] \notin MakingPCs
      /\ pc[Admin] \notin UsingPCs /\ "dLoad" \notin OwningPCs
  BY <1>1 DEF OwningPCs, MakingPCs, UsingPCs, DisconnectPCs
<1>3. calls["disconnect"] # 0 /\ NoRepeat(idle)
  BY <1>2 DEF OwnInv, OpenUntilDisconnect
<1>4. \A p \in Procs : p # Admin => loc'[p] = loc[p]
  BY <1>1, OwnTypes
<1>5. \A p \in Procs : pc[p] \in OwningPCs => pc[p] \in UsingPCs \/ loc[p] # c
  <2>1. \A p \in Procs : pc[p] \in OwningPCs => pc[p] \in UsingPCs \/ pc[p] \in MakingPCs
    BY DEF OwningPCs, UsingPCs, MakingPCs
  <2> QED
    BY <1>1, <2>1 DEF OwnInv, NotYetOpen
<1> QED
  BY <1>1, <1>2, <1>3, <1>4, <1>5, OwnRemove

(* makeNewConnection takes an identifier that nobody has.                   *)
LEMMA OwnMakeConnection ==
  ASSUME Inv, OwnInv, NEW h \in Procs, MakeConnection(h)
  PROVE  OwnInv'
<1>1. /\ pc[h] = "make" /\ nextid' = nextid + 1 /\ Goto(h, "makeCheck") /\ nextid < MaxConnId
      /\ loc' = [loc EXCEPT ![h] = nextid + 1]
      /\ UNCHANGED <<opened, idle, closedEvents, calls, toClose>>
  BY DEF MakeConnection, rpVars, histVars, downVars
<1> DEFINE n == nextid + 1
<1>2. /\ nextid \in Nat /\ MaxConnId \in Nat /\ n \in ConnIds /\ n > nextid /\ nextid' = n
  BY <1>1, OwnTypes DEF ConnIds
<1>3. /\ pc'[h] = "makeCheck" /\ loc'[h] = n
      /\ \A q \in Procs : q # h => pc'[q] = pc[q] /\ loc'[q] = loc[q]
  BY <1>1, Moved, OwnTypes
<1>4. \A p \in Procs : /\ pc[p] \in OwningPCs <=> pc[p] \in MakingPCs \/ pc[p] \in UsingPCs
                       /\ ~(pc[p] \in MakingPCs /\ pc[p] \in UsingPCs)
  BY DEF OwningPCs, MakingPCs, UsingPCs
<1>5. Known /\ OneOwner /\ OwnedNotIdle /\ NoRepeat(idle) /\ NotYetOpen /\ OpenIsKept
      /\ OpenUntilDisconnect /\ EventsMatch
  BY DEF OwnInv
<1>6. /\ pc[h] \notin OwningPCs /\ pc[h] \notin MakingPCs /\ pc[h] \notin UsingPCs
      /\ pc'[h] \in MakingPCs /\ pc'[h] \notin UsingPCs /\ pc'[h] \notin DisconnectPCs
  BY <1>1, <1>3 DEF OwningPCs, MakingPCs, UsingPCs, DisconnectPCs
<1>7. \A p \in Procs : /\ pc'[p] \in MakingPCs <=> pc[p] \in MakingPCs \/ p = h
                       /\ pc'[p] \in UsingPCs <=> pc[p] \in UsingPCs
                       /\ pc'[p] \in OwningPCs <=> pc[p] \in OwningPCs \/ p = h
  BY <1>3, <1>4, <1>6 DEF OwningPCs, MakingPCs
<1>8. /\ \A p \in Procs : pc[p] \in OwningPCs => loc[p] # n /\ p # h
      /\ n \notin opened /\ n \notin toClose /\ n \notin Elements(idle) /\ closedEvents[n] = 0
  BY <1>2, <1>5, <1>6 DEF Known
<1>9. \A k \in Int : k <= nextid => k <= n
  BY <1>2
<1>10. Known'
  <2>1. \A c : c \in 1..nextid => c \in 1..n
    BY <1>2
  <2>2. \A c : c \in 0..nextid => c \in 0..n
    BY <1>2
  <2>3. n \in 1..n /\ \A c \in ConnIds : c > n => c > nextid
    BY <1>2 DEF ConnIds
  <2> HIDE DEF n
  <2>4. \A c \in opened' \cup toClose' : c \in 1..nextid'
    BY <1>1, <1>2, <1>5, <2>1 DEF Known
  <2>5. \A p \in Procs : pc'[p] \in OwningPCs => loc'[p] \in 1..nextid'
    BY <1>2, <1>3, <1>5, <1>7, <2>1, <2>3 DEF Known
  <2>6. \A c \in Elements(idle') : c \in 0..nextid'
    BY <1>1, <1>2, <1>5, <2>2 DEF Known
  <2>7. \A c \in ConnIds : c > nextid' => closedEvents'[c] = 0
    BY <1>1, <1>2, <1>5, <2>3 DEF Known
  <2> QED
    BY <2>4, <2>5, <2>6, <2>7 DEF Known
<1> HIDE DEF n
<1>11. OneOwner' /\ OwnedNotIdle' /\ NoRepeat(idle')
  BY <1>1, <1>3, <1>5, <1>7, <1>8 DEF OneOwner, OwnedNotIdle
<1>12. NotYetOpen'
  BY <1>1, <1>3, <1>5, <1>7, <1>8 DEF NotYetOpen
<1>13. OpenIsKept'
  BY <1>1, <1>3, <1>4, <1>5, <1>7, <1>8 DEF OpenIsKept
<1>14. OpenUntilDisconnect'
  <2>1. pc'[Admin] \in DisconnectPCs => pc[Admin] \in DisconnectPCs
    BY <1>3, <1>6 DEF Procs, Maintainers
  <2> QED
    BY <1>1, <1>3, <1>4, <1>5, <1>6, <1>7, <2>1 DEF OpenUntilDisconnect
<1>15. EventsMatch'
  <2> SUFFICES ASSUME NEW c \in ConnIds, c <= n
               PROVE  IF c \in opened \/ \E p \in Procs : pc'[p] \in MakingPCs /\ loc'[p] = c
                      THEN closedEvents[c] = 0 ELSE closedEvents[c] = 1
    BY <1>1, <1>2 DEF EventsMatch
  <2>1. CASE c = n
    BY <1>3, <1>6, <1>8, <2>1
  <2>2. CASE c # n
    <3>1. c <= nextid
      BY <1>2, <2>2 DEF ConnIds, n
    <3>2. (\E p \in Procs : pc'[p] \in MakingPCs /\ loc'[p] = c)
            <=> \E p \in Procs : pc[p] \in MakingPCs /\ loc[p] = c
      BY <1>3, <1>6, <1>7, <2>2
    <3> QED
      BY <1>5, <3>1, <3>2 DEF EventsMatch
  <2> QED
    BY <2>1, <2>2
<1> QED
  BY <1>10, <1>11, <1>12, <1>13, <1>14, <1>15 DEF OwnInv

(* The pool is no longer connected: the connection is given up with its     *)
(* event, and Maintain adds a nil to the list.                              *)
LEMMA OwnMakeRefused ==
  ASSUME Inv, OwnInv, NEW h \in Procs, MakeRefused(h)
  PROVE  OwnInv'
<1>1. /\ pc[h] = "makeCheck" /\ closedEvents' = [closedEvents EXCEPT ![loc[h]] = @ + 1]
      /\ loc' = [loc EXCEPT ![h] = NilConn] /\ UNCHANGED <<opened, nextid, calls, toClose>>
  BY DEF MakeRefused, poolVars, downVars
<1>2. PICK label \in {"mLoop", "decr"} : Goto(h, label)
  BY DEF MakeRefused
<1>3. /\ idle \in Seq(ConnIds \cup {NilConn}) /\ (idle' = idle \/ idle' = <<NilConn>> \o idle)
  BY OwnTypes DEF MakeRefused
<1>4. Known /\ OneOwner /\ OwnedNotIdle /\ NoRepeat(idle) /\ NotYetOpen /\ OpenIsKept
      /\ OpenUntilDisconnect /\ EventsMatch
  BY DEF OwnInv
<1>5. NoRepeat(idle') /\ (Elements(idle') = Elements(idle) \/ Elements(idle') = {NilConn} \cup Elements(idle))
  <2>1. /\ Elements(<<NilConn>> \o idle) = {NilConn} \cup Elements(idle)
        /\ NoRepeat(<<NilConn>> \o idle)
    BY <1>3, <1>4, PushElements
  <2> QED
    BY <1>3, <1>4, <2>1
<1>6. /\ pc'[h] = label /\ \A q \in Procs : q # h => pc'[q] = pc[q] /\ loc'[q] = loc[q]
  BY <1>1, <1>2, Moved, OwnTypes
<1>7. \A p \in Procs : /\ pc[p] \in OwningPCs <=> pc[p] \in MakingPCs \/ pc[p] \in UsingPCs
                       /\ ~(pc[p] \in MakingPCs /\ pc[p] \in UsingPCs)
  BY DEF OwningPCs, MakingPCs, UsingPCs
<1>8. /\ pc[h] \in MakingPCs /\ pc[h] \in OwningPCs /\ pc'[h] \notin OwningPCs
      /\ pc'[h] \notin MakingPCs /\ pc'[h] \notin UsingPCs /\ pc'[h] \notin DisconnectPCs
  BY <1>1, <1>6 DEF OwningPCs, MakingPCs, UsingPCs, DisconnectPCs
<1>9. \A p \in Procs : /\ pc'[p] \in MakingPCs <=> pc[p] \in MakingPCs /\ p # h
                       /\ pc'[p] \in UsingPCs <=> pc[p] \in UsingPCs
                       /\ pc'[p] \in OwningPCs <=> pc[p] \in OwningPCs /\ p # h
  BY <1>6, <1>7, <1>8
<1>10. /\ loc[h] \in ConnIds /\ loc[h] \in 1..nextid /\ loc[h] \notin opened
       /\ closedEvents[loc[h]] = 0 /\ closedEvents'[loc[h]] = 1
       /\ \A c \in ConnIds : c # loc[h] => closedEvents'[c] = closedEvents[c]
  <2>1. loc[h] \in ConnIds /\ loc[h] \in 1..nextid /\ loc[h] \notin opened
    BY <1>4, <1>8, OwnTypes DEF Known, NotYetOpen
  <2>2. closedEvents[loc[h]] = 0
    BY <1>4, <1>8, <2>1, OwnTypes DEF EventsMatch
  <2> QED
    BY <1>1, <2>1, <2>2, OwnTypes
<1>11. Known'
  <2>1. NilConn \in 0..nextid
    BY OwnTypes DEF NilConn
  <2>2. \A c \in opened' \cup toClose' : c \in 1..nextid'
    BY <1>1, <1>4 DEF Known
  <2>3. \A p \in Procs : pc'[p] \in OwningPCs => loc'[p] \in 1..nextid'
    BY <1>1, <1>4, <1>6, <1>9 DEF Known
  <2>4. \A c \in Elements(idle') : c \in 0..nextid'
    BY <1>1, <1>4, <1>5, <2>1 DEF Known
  <2>5. \A c \in ConnIds : c > nextid' => closedEvents'[c] = 0
    BY <1>1, <1>4, <1>10, OwnTypes DEF Known
  <2> QED
    BY <2>2, <2>3, <2>4, <2>5 DEF Known
<1>12. OneOwner' /\ OwnedNotIdle'
  <2>1. \A p \in Procs : pc[p] \in OwningPCs => loc[p] # NilConn
    BY OwnTypes DEF ConnIds, NilConn
  <2> QED
    BY <1>4, <1>5, <1>6, <1>9, <2>1 DEF OneOwner, OwnedNotIdle
<1>13. NotYetOpen'
  BY <1>1, <1>4, <1>6, <1>9 DEF NotYetOpen
<1>14. OpenIsKept'
  BY <1>1, <1>4, <1>5, <1>6, <1>7, <1>8, <1>9 DEF OpenIsKept
<1>15. OpenUntilDisconnect'
  <2>1. pc'[Admin] \in DisconnectPCs => pc[Admin] \in DisconnectPCs
    BY <1>6, <1>8 DEF Procs, Maintainers
  <2> QED
    BY <1>1, <1>4, <1>5, <1>6, <1>7, <1>8, <1>9, <2>1 DEF OpenUntilDisconnect
<1>16. EventsMatch'
  <2> SUFFICES ASSUME NEW c \in ConnIds, c <= nextid
               PROVE  IF c \in opened \/ \E p \in Procs : pc'[p] \in MakingPCs /\ loc'[p] = c
                      THEN closedEvents'[c] = 0 ELSE closedEvents'[c] = 1
    BY <1>1 DEF EventsMatch
  <2>1. CASE c = loc[h]
    <3>1. \A p \in Procs : pc'[p] \in MakingPCs => loc'[p] # c
      BY <1>4, <1>6, <1>7, <1>8, <1>9, <2>1 DEF OneOwner
    <3> QED
      BY <1>10, <2>1, <3>1
  <2>2. CASE c # loc[h]
    <3>1. (\E p \in Procs : pc'[p] \in MakingPCs /\ loc'[p] = c)
            <=> \E p \in Procs : pc[p] \in MakingPCs /\ loc[p] = c
      BY <1>6, <1>9, <2>2
    <3>2. IF c \in opened \/ \E p \in Procs : pc[p] \in MakingPCs /\ loc[p] = c
          THEN closedEvents[c] = 0 ELSE closedEvents[c] = 1
      BY <1>4 DEF EventsMatch
    <3> QED
      BY <1>10, <2>2, <3>1, <3>2
  <2> QED
    BY <2>1, <2>2
<1> QED
  BY <1>5, <1>11, <1>12, <1>13, <1>14, <1>15, <1>16 DEF OwnInv

(* The connection enters opened; a getter keeps it, Maintain puts it in the *)
(* list.                                                                    *)
LEMMA OwnMakeInsert ==
  ASSUME Inv, OwnInv, NEW h \in Procs, MakeInsert(h)
  PROVE  OwnInv'
<1>1. /\ pc[h] = "makeInsert" /\ opened' = opened \cup {loc[h]}
      /\ UNCHANGED <<nextid, calls, toClose, closedEvents>>
  BY DEF MakeInsert, histVars, downVars
<1>2. PICK label \in {"mLoop", "connect"} :
        /\ Goto(h, label)
        /\ \/ label = "mLoop" /\ idle' = <<loc[h]>> \o idle /\ loc' = [loc EXCEPT ![h] = NilConn]
           \/ label = "connect" /\ idle' = idle /\ loc' = loc
  BY DEF MakeInsert
<1>3. Known /\ OneOwner /\ OwnedNotIdle /\ NoRepeat(idle) /\ NotYetOpen /\ OpenIsKept
      /\ OpenUntilDisconnect /\ EventsMatch
  BY DEF OwnInv
<1>4. \A p \in Procs : /\ pc[p] \in OwningPCs <=> pc[p] \in MakingPCs \/ pc[p] \in UsingPCs
                       /\ ~(pc[p] \in MakingPCs /\ pc[p] \in UsingPCs)
  BY DEF OwningPCs, MakingPCs, UsingPCs
<1>5. /\ pc'[h] = label /\ \A q \in Procs : q # h => pc'[q] = pc[q] /\ loc'[q] = loc[q]
  BY <1>2, Moved, OwnTypes
<1>6. /\ pc[h] \in MakingPCs /\ pc[h] \in OwningPCs /\ pc'[h] \notin MakingPCs
      /\ pc'[h] \notin DisconnectPCs /\ pc[h] \notin UsingPCs
      /\ pc'[h] \in UsingPCs <=> label = "connect"
      /\ pc'[h] \in OwningPCs <=> label = "connect"
  BY <1>1, <1>5 DEF OwningPCs, MakingPCs, UsingPCs, DisconnectPCs
<1>7. /\ loc[h] \in ConnIds /\ loc[h] \in 1..nextid /\ loc[h] \notin opened
      /\ loc[h] \notin Elements(idle) /\ closedEvents[loc[h]] = 0
      /\ idle \in Seq(ConnIds \cup {NilConn})
      /\ \A q \in Procs : q # h /\ pc[q] \in OwningPCs => loc[q] # loc[h]
  <2>1. loc[h] \in ConnIds /\ loc[h] \in 1..nextid /\ loc[h] \notin opened
    BY <1>3, <1>6, OwnTypes DEF Known, NotYetOpen
  <2>2. closedEvents[loc[h]] = 0
    BY <1>3, <1>6, <2>1, OwnTypes DEF EventsMatch
  <2> QED
    BY <1>3, <1>6, <2>1, <2>2, OwnTypes DEF OneOwner, OwnedNotIdle
<1>8. NoRepeat(idle') /\ Elements(idle') = IF label = "connect" THEN Elements(idle)
                                           ELSE {loc[h]} \cup Elements(idle)
  <2>1. /\ Elements(<<loc[h]>> \o idle) = {loc[h]} \cup Elements(idle)
        /\ NoRepeat(<<loc[h]>> \o idle)
    BY <1>3, <1>7, PushElements
  <2> QED
    BY <1>2, <1>3, <2>1
<1>9. label = "connect" => loc'[h] = loc[h]
  BY <1>2
<1>10. \A p \in Procs : /\ pc'[p] \in MakingPCs <=> pc[p] \in MakingPCs /\ p # h
                        /\ pc'[p] \in UsingPCs <=> pc[p] \in UsingPCs \/ (p = h /\ label = "connect")
                        /\ pc'[p] \in OwningPCs =>
                             pc[p] \in OwningPCs /\ (p = h => label = "connect") /\ loc'[p] = loc[p]
  BY <1>4, <1>5, <1>6, <1>9
<1>11. Known'
  <2>1. loc[h] \in 0..nextid
    BY <1>7, OwnTypes
  <2>2. \A c \in opened' \cup toClose' : c \in 1..nextid'
    BY <1>1, <1>3, <1>7 DEF Known
  <2>3. \A p \in Procs : pc'[p] \in OwningPCs => loc'[p] \in 1..nextid'
    BY <1>1, <1>3, <1>10 DEF Known
  <2>4. \A c \in Elements(idle') : c \in 0..nextid'
    BY <1>1, <1>3, <1>8, <2>1 DEF Known
  <2>5. \A c \in ConnIds : c > nextid' => closedEvents'[c] = 0
    BY <1>1, <1>3 DEF Known
  <2> QED
    BY <2>2, <2>3, <2>4, <2>5 DEF Known
<1>12. OneOwner'
  BY <1>3, <1>10 DEF OneOwner
<1>13. OwnedNotIdle'
  BY <1>3, <1>7, <1>8, <1>10 DEF OwnedNotIdle
<1>14. NotYetOpen'
  BY <1>1, <1>3, <1>4, <1>5, <1>7, <1>10 DEF NotYetOpen
<1>15. OpenIsKept'
  <2> SUFFICES ASSUME NEW c \in opened', c \notin Elements(idle')
               PROVE  \E p \in Procs : pc'[p] \in UsingPCs /\ loc'[p] = c
    BY DEF OpenIsKept
  <2>1. CASE c = loc[h]
    <3>1. label = "connect"
      BY <1>8, <2>1
    <3> QED
      BY <1>9, <1>10, <2>1, <3>1
  <2>2. CASE c # loc[h]
    <3>1. PICK p \in Procs : pc[p] \in UsingPCs /\ loc[p] = c
      BY <1>1, <1>3, <1>8, <2>2 DEF OpenIsKept
    <3> QED
      BY <1>5, <1>6, <1>10, <3>1
  <2> QED
    BY <2>1, <2>2
<1>16. OpenUntilDisconnect'
  <2>1. pc'[Admin] \in DisconnectPCs => pc[Admin] \in DisconnectPCs
    BY <1>5, <1>6 DEF Procs, Maintainers
  <2> QED
    <3> SUFFICES ASSUME calls["disconnect"] = 0
                 PROVE  /\ pc'[Admin] \notin DisconnectPCs
                        /\ \A p \in Procs : pc'[p] \in UsingPCs => loc'[p] \in opened'
                        /\ \A c \in Elements(idle') : c # NilConn => c \in opened'
      BY <1>1 DEF OpenUntilDisconnect
    <3>1. /\ pc[Admin] \notin DisconnectPCs
          /\ \A p \in Procs : pc[p] \in UsingPCs => loc[p] \in opened
          /\ \A c \in Elements(idle) : c # NilConn => c \in opened
      BY <1>3 DEF OpenUntilDisconnect
    <3>2. \A p \in Procs : pc'[p] \in UsingPCs => loc'[p] \in opened'
      BY <1>1, <1>5, <1>6, <1>9, <1>10, <3>1
    <3>3. \A c \in Elements(idle') : c # NilConn => c \in opened'
      BY <1>1, <1>8, <3>1
    <3> QED
      BY <2>1, <3>1, <3>2, <3>3
<1>17. EventsMatch'
  <2> SUFFICES ASSUME NEW c \in ConnIds, c <= nextid
               PROVE  IF c \in opened' \/ \E p \in Procs : pc'[p] \in MakingPCs /\ loc'[p] = c
                      THEN closedEvents[c] = 0 ELSE closedEvents[c] = 1
    BY <1>1 DEF EventsMatch
  <2>1. CASE c = loc[h]
    BY <1>1, <1>7, <2>1
  <2>2. CASE c # loc[h]
    <3>1. (\E p \in Procs : pc'[p] \in MakingPCs /\ loc'[p] = c)
            <=> \E p \in Procs : pc[p] \in MakingPCs /\ loc[p] = c
      BY <1>5, <1>10, <2>2
    <3> QED
      BY <1>1, <1>3, <2>2, <3>1 DEF EventsMatch
  <2> QED
    BY <2>1, <2>2
<1> QED
  BY <1>8, <1>11, <1>12, <1>13, <1>14, <1>15, <1>16, <1>17 DEF OwnInv

(* Every step of makeNewConnection. *)
LEMMA OwnMake ==
  ASSUME Inv, OwnInv, NEW p \in Procs, MakeStep(p)
  PROVE  OwnInv'
<1>1. CASE MakeChecked(p)
  <2>1. /\ UNCHANGED <<opened, idle, nextid, closedEvents, toClose, loc, calls>>
        /\ Goto(p, "makeInsert") /\ pc[p] = "makeCheck"
    BY <1>1 DEF MakeChecked, allButPc, poolVars, rpVars, histVars, downVars
  <2> QED
    BY <2>1, OwnMove DEF MakingPCs, UsingPCs, DisconnectPCs
<1> QED
  BY <1>1, OwnMakeConnection, OwnMakeRefused, OwnMakeInsert DEF MakeStep

(* newPool makes no connection. *)
LEMMA OwnInit == Init => OwnInv
<1> SUFFICES ASSUME Init PROVE OwnInv
  OBVIOUS
<1>1. Elements(idle) = {} /\ NoRepeat(idle)
  BY DEF Init, Elements, NoRepeat
<1>2. \A p \in Procs : pc[p] \notin OwningPCs /\ pc[p] \notin MakingPCs /\ pc[p] \notin UsingPCs
                       /\ pc[p] \notin DisconnectPCs
  BY DEF Init, OwningPCs, MakingPCs, UsingPCs, DisconnectPCs
<1>3. Known /\ OneOwner /\ OwnedNotIdle /\ NotYetOpen /\ OpenIsKept
  BY <1>1, <1>2 DEF Init, Known, OneOwner, OwnedNotIdle, NotYetOpen, OpenIsKept
<1>4. OpenUntilDisconnect
  BY <1>1, <1>2 DEF Init, OpenUntilDisconnect, Procs, Maintainers
<1>5. EventsMatch
  BY <1>2 DEF Init, EventsMatch, ConnIds
<1> QED
  BY <1>1, <1>3, <1>4, <1>5 DEF OwnInv

(* Every step of every goroutine preserves OwnInv. *)
LEMMA OwnStep == Inv /\ OwnInv /\ [Next]_vars => OwnInv'
<1> SUFFICES ASSUME Inv, OwnInv, [Next]_vars PROVE OwnInv'
  OBVIOUS
<1>1. ASSUME NEW g \in Getters, GetStart(g) \/ AcquireTimeout(g) \/ SelectTimeout(g)
                                \/ GetStep(g) \/ UserStep(g)
      PROVE  OwnInv'
  BY <1>1, OwnGet, OwnRelease, OwnRPGet, OwnGetRemove, OwnRPPut, OwnConnection DEF GetStep, UserStep
<1>2. ASSUME NEW p \in Procs, MakeStep(p) PROVE OwnInv'
  BY <1>2, OwnMake
<1>3. ASSUME NEW c \in ConnIds, ConnectStep(c) \/ CloserStep(c) \/ IdleDeadlinePasses(c)
      PROVE  OwnInv'
  BY <1>3, OwnConnection
<1>4. ASSUME NEW p \in Maintainers, MaintainStep(p) PROVE OwnInv'
  BY <1>4, OwnAdmin, OwnPrune DEF MaintainStep
<1>5. CASE Clear \/ TimerFires \/ Connect \/ Initialize \/ Disconnect \/ DeadlinePasses
  BY <1>5, OwnConnection, OwnAdmin, OwnDisconnect
<1>6. CASE DisconnectStep
  BY <1>6, OwnAdmin, OwnRPClose, OwnDisconnectRemove DEF DisconnectStep
<1>7. CASE UNCHANGED vars
  BY <1>7, OwnConnection
<1> QED
  BY <1>1, <1>2, <1>3, <1>4, <1>5, <1>6, <1>7 DEF Next

(* What OwnInv says in the words of the properties. *)
LEMMA OwnProperties ==
  ASSUME Inv, OwnInv
  PROVE  ExclusiveCheckout /\ ConnectionsKept /\ ClosedEventsMatch
<1>1. ExclusiveCheckout
  <2>1. DOMAIN idle = 1..Len(idle)
    BY OwnTypes
  <2>2. \A i, j \in DOMAIN idle : i # j /\ idle[i] # NilConn => idle[i] # idle[j]
    BY <2>1 DEF OwnInv, NoRepeat
  <2> QED
    BY <2>2 DEF OwnInv, ExclusiveCheckout, OneOwner, OwnedNotIdle, Owners
<1>2. NoLostConnection
  <2>1. \A p \in Procs : pc[p] \in UsingPCs => p \in Owners
    BY DEF UsingPCs, Owners, OwningPCs
  <2> QED
    BY <2>1 DEF OwnInv, OpenIsKept, NoLostConnection
<1>3. ClosedNotHeld
  <2> SUFFICES ASSUME calls["disconnect"] = 0, NEW g \in Getters,
                      pc[g] \in {"wait", "holding", "put"}
               PROVE  closedEvents[loc[g]] = 0
    BY DEF ClosedNotHeld
  <2>1. g \in Procs /\ pc[g] \in UsingPCs /\ pc[g] \in OwningPCs
    BY DEF Procs, UsingPCs, OwningPCs
  <2>2. loc[g] \in opened /\ loc[g] \in ConnIds /\ loc[g] \in 1..nextid
    BY <2>1, OwnTypes DEF OwnInv, OpenUntilDisconnect, Known
  <2> QED
    BY <2>2, OwnTypes DEF OwnInv, EventsMatch
<1>4. ClosedEventsMatch
  <2> SUFFICES ASSUME NEW c \in 1..nextid
               PROVE  closedEvents[c] =
                        IF \/ c \in opened
                           \/ \E p \in Procs : loc[p] = c /\ pc[p] \in {"makeCheck", "makeInsert"}
                        THEN 0 ELSE 1
    BY DEF ClosedEventsMatch
  <2>1. c \in ConnIds /\ c <= nextid
    BY OwnTypes DEF ConnIds
  <2>2. IF c \in opened \/ \E p \in Procs : pc[p] \in MakingPCs /\ loc[p] = c
        THEN closedEvents[c] = 0 ELSE closedEvents[c] = 1
    BY <2>1 DEF OwnInv, EventsMatch
  <2> QED
    BY <2>2 DEF MakingPCs
<1> QED
  BY <1>1, <1>2, <1>3, <1>4 DEF ConnectionsKept
-----------------------------------------------------------------------------
(* FreshInv: how old a connection is *)

(* Positions at which a getter has a connection that must be fresh. *)
FreshPCs == {"makeCheck", "makeInsert", "connect", "wait", "holding"}

FreshInv ==
  /\ \A g \in Getters : startGen[g] <= generation
  /\ \A g \in Getters : pc[g] \in FreshPCs => conn[loc[g]].gen >= startGen[g]

(* The types FreshInv's proofs use. *)
LEMMA FreshTypes ==
  ASSUME Inv
  PROVE  /\ generation \in Nat /\ startGen \in [Getters -> Nat]
         /\ conn \in [ConnIds -> ConnRecord] /\ \A c \in ConnIds : conn[c].gen \in Nat
         /\ Getters \subseteq Procs
BY DEF Inv, BaseInv, TypeOK, DataType, ConnRecord, Procs

(* A step that makes no connection and hands out none. *)
LEMMA FreshFrame ==
  ASSUME Inv, OwnInv, FreshInv, UNCHANGED startGen, generation' \in Nat, generation' >= generation,
         \A c \in ConnIds : conn'[c].gen = conn[c].gen,
         \A g \in Getters : pc'[g] \in FreshPCs => pc[g] \in FreshPCs /\ loc'[g] = loc[g]
  PROVE  FreshInv'
<1>1. \A g \in Getters : startGen[g] <= generation'
  BY FreshTypes DEF FreshInv
<1>2. \A g \in Getters : pc[g] \in FreshPCs => loc[g] \in ConnIds
  BY FreshTypes, OwnTypes DEF FreshPCs, OwningPCs
<1> QED
  BY <1>1, <1>2 DEF FreshInv

(* The generation of a connection never changes once it is made.            *)
LEMMA CloseKeepsGen ==
  ASSUME Inv, NEW S \in SUBSET ConnIds, CloseConnections(S)
  PROVE  \A c \in ConnIds : conn'[c].gen = conn[c].gen
BY FreshTypes DEF CloseConnections, ConnRecord

(* The steps of connection.connect and closeConnection. *)
LEMMA FreshConnection ==
  ASSUME Inv, OwnInv, FreshInv, NEW c \in ConnIds,
         ConnectStep(c) \/ CloserStep(c) \/ IdleDeadlinePasses(c)
  PROVE  FreshInv'
<1> USE DEF procVars, histVars, poolVars, allButConn
<1>1. UNCHANGED <<pc, loc, startGen>>
  BY DEF ConnectStep, CloserStep, BackgroundConnect, DialSucceeds, HandshakeSucceeds,
         ConnectFails, HandshakeErrorCheck, HandshakeErrorClear, CloserLoad, CloserWait,
         CloserCas, IdleDeadlinePasses
<1>2. generation' \in Nat /\ generation' >= generation
  BY FreshTypes DEF ConnectStep, CloserStep, BackgroundConnect, DialSucceeds, HandshakeSucceeds,
         ConnectFails, HandshakeErrorCheck, HandshakeErrorClear, CloserLoad, CloserWait,
         CloserCas, IdleDeadlinePasses
<1>3. \A d \in ConnIds : conn'[d].gen = conn[d].gen
  <2> USE FreshTypes DEF ConnRecord
  <2>1. CASE BackgroundConnect(c)
    BY <2>1 DEF BackgroundConnect
  <2>2. CASE DialSucceeds(c)
    BY <2>2 DEF DialSucceeds
  <2>3. CASE HandshakeSucceeds(c)
    BY <2>3 DEF HandshakeSucceeds
  <2>4. CASE ConnectFails(c)
    BY <2>4 DEF ConnectFails
  <2>5. CASE HandshakeErrorCheck(c)
    BY <2>5 DEF HandshakeErrorCheck
  <2>6. CASE HandshakeErrorClear(c)
    BY <2>6 DEF HandshakeErrorClear
  <2>7. CASE CloserLoad(c)
    BY <2>7 DEF CloserLoad
  <2>8. CASE CloserWait(c)
    BY <2>8 DEF CloserWait
  <2>9. CASE CloserCas(c)
    BY <2>9 DEF CloserCas, Closed
  <2>10. CASE IdleDeadlinePasses(c)
    BY <2>10 DEF IdleDeadlinePasses
  <2> QED
    BY <2>1, <2>2, <2>3, <2>4, <2>5, <2>6, <2>7, <2>8, <2>9, <2>10 DEF ConnectStep, CloserStep
<1> QED
  BY <1>1, <1>2, <1>3, FreshFrame

(* Getting and returning, but for the call of get and the two steps that    *)
(* give a getter its connection.                                            *)
LEMMA FreshGet ==
  ASSUME Inv, OwnInv, FreshInv, NEW g \in Getters,
         \/ Acquire(g) \/ AcquireTimeout(g) \/ GetLoop(g) \/ SelectTimeout(g) \/ IncrementTotal(g)
         \/ GetConnect(g) \/ GetWait(g) \/ GetRemove(g) \/ DecrementTotal(g) \/ UserStep(g)
         \/ RPPut(g)
  PROVE  FreshInv'
<1> USE DEF poolVars, connVars, procVars, histVars, allButPc, allButConn, FreshPCs
<1>1. UNCHANGED <<generation, startGen>>
  BY DEF Acquire, AcquireTimeout, GetLoop, SelectTimeout, IncrementTotal, GetConnect,
         GetWait, GetRemove, DecrementTotal, UserStep, UseSucceeds, UseFails, ReturnConnection,
         ExpireConnection, RPPut
<1>2. \A h \in Getters : pc'[h] \in FreshPCs => pc[h] \in FreshPCs /\ loc'[h] = loc[h]
  <2>1. pc \in [Procs -> GetPCs \cup MaintainPCs \cup DisconnectPCs]
        /\ loc \in [Procs -> ConnIds \cup {NilConn}] /\ Getters \subseteq Procs
    BY OwnTypes, FreshTypes DEF Inv, BaseInv, TypeOK, PcType
  <2>2. CASE \/ Acquire(g) \/ AcquireTimeout(g) \/ GetLoop(g) \/ SelectTimeout(g)
             \/ IncrementTotal(g) \/ DecrementTotal(g) \/ GetRemove(g) \/ RPPut(g)
    BY <2>1, <2>2 DEF Acquire, AcquireTimeout, GetLoop, SelectTimeout, IncrementTotal,
                      DecrementTotal, GetRemove, RPPut, Goto
  <2>3. CASE GetConnect(g) \/ GetWait(g) \/ UserStep(g)
    BY <2>1, <2>3 DEF GetConnect, GetWait, UserStep, UseSucceeds, UseFails, ReturnConnection,
                      ExpireConnection, Goto
  <2> QED
    BY <2>2, <2>3
<1>3. \A c \in ConnIds : conn'[c].gen = conn[c].gen
  <2>1. CASE \/ Acquire(g) \/ AcquireTimeout(g) \/ GetLoop(g) \/ SelectTimeout(g)
             \/ IncrementTotal(g) \/ GetWait(g) \/ DecrementTotal(g) \/ GetRemove(g)
             \/ UseSucceeds(g) \/ ReturnConnection(g)
    BY <2>1 DEF Acquire, AcquireTimeout, GetLoop, SelectTimeout, IncrementTotal, GetWait,
                DecrementTotal, GetRemove, UseSucceeds, ReturnConnection
  <2>2. CASE GetConnect(g) \/ UseFails(g) \/ ExpireConnection(g)
    <3>1. g \in Procs /\ pc[g] \in OwningPCs
      BY <2>2 DEF Procs, OwningPCs, GetConnect, UseFails, ExpireConnection
    <3>2. loc[g] \in ConnIds
      BY <3>1, OwnTypes
    <3>3. CASE GetConnect(g)
      BY <3>2, <3>3, FreshTypes DEF GetConnect, ConnRecord
    <3>4. CASE UseFails(g) \/ ExpireConnection(g)
      <4>1. conn' = [conn EXCEPT ![loc[g]] = Closed(conn[loc[g]])]
        BY <3>4 DEF UseFails, ExpireConnection
      <4>2. Closed(conn[loc[g]]).gen = conn[loc[g]].gen
        BY <3>2, FreshTypes DEF Closed, ConnRecord
      <4> QED
        BY <3>2, <4>1, <4>2, FreshTypes
    <3> QED
      BY <2>2, <3>3, <3>4
  <2>3. CASE RPPut(g)
    <3>1. {loc[g]} \in SUBSET ConnIds
      BY <2>3, OwnTypes DEF RPPut, OwningPCs, Procs
    <3> QED
      BY <2>3, <3>1, CloseKeepsGen DEF RPPut
  <2> QED
    BY <2>1, <2>2, <2>3 DEF UserStep
<1>4. generation' \in Nat /\ generation' >= generation
  BY <1>1, FreshTypes
<1> QED
  BY <1>1, <1>2, <1>3, <1>4, FreshFrame

(* Release wakes getters that have no connection yet. *)
LEMMA FreshRelease ==
  ASSUME Inv, OwnInv, FreshInv, NEW g \in Getters, Release(g)
  PROVE  FreshInv'
<1>1. UNCHANGED <<generation, startGen, conn, loc>>
  BY DEF Release, poolVars, connVars, histVars
<1>2. \A h \in Getters : pc'[h] \in FreshPCs => pc[h] \in FreshPCs
  BY FreshTypes DEF Release, FreshPCs
<1> QED
  BY <1>1, <1>2, FreshTypes, FreshFrame

(* A get notes the generation it starts in. *)
LEMMA FreshStart ==
  ASSUME Inv, OwnInv, FreshInv, NEW g \in Getters, GetStart(g)
  PROVE  FreshInv'
<1>1. /\ startGen' = [startGen EXCEPT ![g] = generation] /\ Goto(g, "acquire")
      /\ UNCHANGED <<generation, conn, loc>> /\ g \in Procs
  BY DEF GetStart, poolVars, connVars, Procs
<1>2. pc'[g] = "acquire" /\ \A q \in Procs : q # g => pc'[q] = pc[q]
  BY <1>1, Moved
<1>3. \A h \in Getters : h \in Procs
  BY FreshTypes
<1>4. pc'[g] \notin FreshPCs
  BY <1>2 DEF FreshPCs
<1>5. /\ startGen'[g] = generation /\ \A h \in Getters : h # g => startGen'[h] = startGen[h]
  BY <1>1, FreshTypes
<1>6. \A h \in Getters : startGen'[h] <= generation'
  BY <1>1, <1>5, FreshTypes DEF FreshInv
<1>7. \A h \in Getters : pc'[h] \in FreshPCs => conn'[loc'[h]].gen >= startGen'[h]
  BY <1>1, <1>2, <1>3, <1>4, <1>5 DEF FreshInv
<1> QED
  BY <1>6, <1>7 DEF FreshInv

(* resourcePool.Get returns a connection of the current generation. *)
LEMMA FreshRPGet ==
  ASSUME Inv, OwnInv, FreshInv, NEW g \in Getters, RPGet(g)
  PROVE  FreshInv'
<1>1. PICK first \in 1..(Len(idle) + 1) :
         /\ FirstFresh(first) /\ CloseConnections(DropBefore(first))
         /\ IF first > Len(idle)
            THEN loc' = loc /\ Goto(g, "select")
            ELSE loc' = [loc EXCEPT ![g] = idle[first]] /\ Goto(g, "connect")
  BY DEF RPGet
<1>2. UNCHANGED <<generation, startGen>> /\ g \in Procs
  BY DEF RPGet, Procs
<1>3. /\ idle \in Seq(ConnIds \cup {NilConn}) /\ loc \in [Procs -> ConnIds \cup {NilConn}]
      /\ Len(idle) \in Nat
  BY OwnTypes
<1>4. DropBefore(first) \in SUBSET ConnIds
  <2>1. \A i \in 1..(first - 1) : idle[i] \in ConnIds \cup {NilConn}
    BY <1>3
  <2> QED
    BY <2>1 DEF DropBefore
<1>5. \A c \in ConnIds : conn'[c].gen = conn[c].gen
  BY <1>1, <1>4, CloseKeepsGen
<1>6. CASE first > Len(idle)
  <2>1. pc'[g] = "select" /\ loc' = loc /\ \A q \in Procs : q # g => pc'[q] = pc[q]
    BY <1>1, <1>2, <1>6, Moved
  <2>2. \A h \in Getters : pc'[h] \in FreshPCs => pc[h] \in FreshPCs /\ loc'[h] = loc[h]
    BY <2>1, FreshTypes DEF FreshPCs
  <2> QED
    BY <1>2, <1>5, <2>2, FreshTypes, FreshFrame
<1>7. CASE ~(first > Len(idle))
  <2>1. first \in 1..Len(idle) /\ idle[first] \in ConnIds \cup {NilConn}
    BY <1>3, <1>7
  <2>2. ~Expired(idle[first])
    BY <1>1, <2>1 DEF FirstFresh
  <2>3. idle[first] \in ConnIds /\ ~(conn[idle[first]].gen < generation)
    BY <2>1, <2>2 DEF Expired, Stale
  <2>4. conn[idle[first]].gen >= generation
    BY <2>3, FreshTypes
  <2>5. /\ pc'[g] = "connect" /\ loc'[g] = idle[first]
        /\ \A q \in Procs : q # g => pc'[q] = pc[q] /\ loc'[q] = loc[q]
    BY <1>1, <1>2, <1>3, <1>7, Moved
  <2>6. ASSUME NEW h \in Getters, pc'[h] \in FreshPCs PROVE conn'[loc'[h]].gen >= startGen'[h]
    <3>1. CASE h = g
      <4>1. startGen[g] <= generation /\ conn'[loc'[g]].gen = conn[idle[first]].gen
        BY <1>5, <2>3, <2>5 DEF FreshInv
      <4> QED
        BY <1>2, <2>3, <2>4, <3>1, <4>1, FreshTypes
    <3>2. CASE h # g
      <4>1. h \in Procs /\ pc[h] \in FreshPCs /\ loc'[h] = loc[h]
        BY <2>5, <2>6, <3>2, FreshTypes
      <4>2. loc[h] \in ConnIds
        BY <4>1, OwnTypes DEF FreshPCs, OwningPCs
      <4> QED
        BY <1>2, <1>5, <4>1, <4>2 DEF FreshInv
    <3> QED
      BY <3>1, <3>2
  <2> QED
    BY <1>2, <2>6 DEF FreshInv
<1> QED
  BY <1>6, <1>7

(* makeNewConnection: a new connection has the current generation. *)
LEMMA FreshMake ==
  ASSUME Inv, OwnInv, FreshInv, NEW p \in Procs, MakeStep(p)
  PROVE  FreshInv'
<1>1. CASE MakeConnection(p)
  <2> DEFINE n == nextid + 1
  <2>1. /\ pc[p] = "make" /\ nextid < MaxConnId /\ loc' = [loc EXCEPT ![p] = n]
        /\ conn' = [conn EXCEPT ![n] = [@ EXCEPT !.state = "initialized", !.gen = generation]]
        /\ Goto(p, "makeCheck") /\ UNCHANGED <<generation, startGen>>
    BY <1>1 DEF MakeConnection, histVars
  <2>2. nextid \in Nat /\ n \in ConnIds /\ n > nextid
    BY <2>1, OwnTypes DEF ConnIds
  <2>3. /\ pc'[p] = "makeCheck" /\ loc'[p] = n
        /\ \A q \in Procs : q # p => pc'[q] = pc[q] /\ loc'[q] = loc[q]
    BY <2>1, Moved, OwnTypes
  <2>4. /\ conn'[n].gen = generation /\ \A c \in ConnIds : c # n => conn'[c] = conn[c]
    BY <2>1, <2>2, FreshTypes DEF ConnRecord
  <2>5. ASSUME NEW h \in Getters, pc'[h] \in FreshPCs PROVE conn'[loc'[h]].gen >= startGen'[h]
    <3>1. CASE h = p
      BY <2>1, <2>3, <2>4, <3>1, FreshTypes DEF FreshInv
    <3>2. CASE h # p
      <4>1. h \in Procs /\ pc[h] \in FreshPCs /\ loc'[h] = loc[h]
        BY <2>3, <2>5, <3>2, FreshTypes
      <4>2. pc[h] \in OwningPCs
        BY <4>1 DEF FreshPCs, OwningPCs
      <4>3. loc[h] \in ConnIds /\ loc[h] # n
        BY <2>2, <4>1, <4>2, OwnTypes DEF OwnInv, Known
      <4> QED
        BY <2>1, <2>4, <4>1, <4>3 DEF FreshInv
    <3> QED
      BY <3>1, <3>2
  <2> QED
    BY <2>1, <2>5 DEF FreshInv
<1>2. CASE MakeRefused(p) \/ MakeChecked(p) \/ MakeInsert(p)
  <2>1. UNCHANGED <<generation, startGen>>
    BY <1>2 DEF MakeRefused, MakeChecked, MakeInsert, poolVars, histVars, allButPc
  <2>2. pc[p] \in MakingPCs
    BY <1>2 DEF MakeRefused, MakeChecked, MakeInsert, MakingPCs
  <2>3. loc[p] \in ConnIds
    BY <2>2, OwnTypes DEF MakingPCs, OwningPCs
  <2>4. \A c \in ConnIds : conn'[c].gen = conn[c].gen
    BY <1>2, <2>3, FreshTypes DEF MakeRefused, MakeChecked, MakeInsert, connVars, allButPc, ConnRecord
  <2>5. \A h \in Getters : pc'[h] \in FreshPCs => pc[h] \in FreshPCs /\ loc'[h] = loc[h]
    <3>1. pc \in [Procs -> GetPCs \cup MaintainPCs \cup DisconnectPCs]
          /\ loc \in [Procs -> ConnIds \cup {NilConn}] /\ Getters \subseteq Procs
      BY OwnTypes, FreshTypes DEF Inv, BaseInv, TypeOK, PcType
    <3>2. pc[p] \in FreshPCs
      BY <2>2 DEF MakingPCs, FreshPCs
    <3>3. CASE MakeRefused(p)
      BY <3>1, <3>3 DEF MakeRefused, Goto, FreshPCs
    <3>4. CASE MakeChecked(p)
      BY <3>1, <3>2, <3>4 DEF MakeChecked, Goto, allButPc
    <3>5. CASE MakeInsert(p)
      BY <3>1, <3>2, <3>5 DEF MakeInsert, Goto, FreshPCs
    <3> QED
      BY <1>2, <3>3, <3>4, <3>5
  <2> QED
    BY <2>1, <2>4, <2>5, FreshTypes, FreshFrame
<1> QED
  BY <1>1, <1>2 DEF MakeStep

(* Maintain, clear, connect and disconnect: the generation only grows.      *)
LEMMA FreshElsewhere ==
  ASSUME Inv, OwnInv, FreshInv,
         \/ \E p \in Maintainers : MaintainStep(p)
         \/ Clear \/ TimerFires \/ Connect \/ Initialize \/ Disconnect \/ DeadlinePasses
         \/ DisconnectStep \/ UNCHANGED vars
  PROVE  FreshInv'
<1> USE DEF poolVars, connVars, procVars, histVars, allButPc
<1>1. UNCHANGED startGen
  BY DEF MaintainStep, MaintainStart, MaintainPrune, MaintainPruned, MaintainLoop, Clear,
         TimerFires, Connect, Initialize, Disconnect, DeadlinePasses, DisconnectStep, RPClose,
         DisconnectGeneration, DisconnectWait, DisconnectCopy, DisconnectRemove, DisconnectLoad,
         DisconnectWaitConn, DisconnectCas, DisconnectState, ClearTotal, vars
<1>2. generation' = generation \/ generation' = generation + 1
  BY DEF MaintainStep, MaintainStart, MaintainPrune, MaintainPruned, MaintainLoop, Clear,
         TimerFires, Connect, Initialize, Disconnect, DeadlinePasses, DisconnectStep, RPClose,
         DisconnectGeneration, DisconnectWait, DisconnectCopy, DisconnectRemove, DisconnectLoad,
         DisconnectWaitConn, DisconnectCas, DisconnectState, ClearTotal, vars
<1>3. generation' \in Nat /\ generation' >= generation
  BY <1>2, FreshTypes
<1>4. \A g \in Getters : pc'[g] = pc[g]
  <2>1. pc \in [Procs -> GetPCs \cup MaintainPCs \cup DisconnectPCs] /\ Getters \subseteq Procs
    BY FreshTypes DEF Inv, BaseInv, TypeOK, PcType
  <2>2. UNCHANGED pc \/ \E p \in Maintainers : \E label : Goto(p, label)
    BY DEF MaintainStep, MaintainStart, MaintainPrune, MaintainPruned, MaintainLoop, Clear,
         TimerFires, Connect, Initialize, Disconnect, DeadlinePasses, DisconnectStep, RPClose,
         DisconnectGeneration, DisconnectWait, DisconnectCopy, DisconnectRemove, DisconnectLoad,
         DisconnectWaitConn, DisconnectCas, DisconnectState, ClearTotal, vars, Maintainers
  <2> QED
    BY <2>1, <2>2, ProcNames DEF Goto, Maintainers
<1>5. \A g \in Getters : loc'[g] = loc[g]
  <2>1. UNCHANGED loc \/ \E c : loc' = [loc EXCEPT ![Admin] = c]
    BY DEF MaintainStep, MaintainStart, MaintainPrune, MaintainPruned, MaintainLoop, Clear,
         TimerFires, Connect, Initialize, Disconnect, DeadlinePasses, DisconnectStep, RPClose,
         DisconnectGeneration, DisconnectWait, DisconnectCopy, DisconnectRemove, DisconnectLoad,
         DisconnectWaitConn, DisconnectCas, DisconnectState, ClearTotal, vars
  <2> QED
    BY <2>1, ProcNames, FreshTypes, OwnTypes
<1>6. \A c \in ConnIds : conn'[c].gen = conn[c].gen
  <2>1. CASE RPClose
    <3>1. Elements(idle) \ {NilConn} \in SUBSET ConnIds
      BY OwnTypes DEF Elements
    <3> QED
      BY <2>1, <3>1, CloseKeepsGen DEF RPClose
  <2>2. CASE DisconnectCas
    <3>1. loc[Admin] \in ConnIds
      BY <2>2 DEF DisconnectCas, Inv, BaseInv, LocalsOK, LocatedPCs, Procs, Maintainers
    <3> QED
      BY <2>2, <3>1, FreshTypes DEF DisconnectCas, Closed, ConnRecord
  <2>3. ASSUME NEW p \in Maintainers, MaintainPrune(p)
        PROVE  \A c \in ConnIds : conn'[c].gen = conn[c].gen
    <3>1. p \in Procs /\ rpLock = p /\ rpLock # NoProc /\ pc[rpLock] = "mPrune"
      BY <2>3, ProcNames DEF MaintainPrune, Procs, Inv, BaseInv, LockOK, LockedPCs
    <3>2. cursor \in 1..Len(idle)
      BY <2>3, <3>1 DEF MaintainPrune, Inv, BaseInv, LockOK, TypeOK, DataType
    <3>3. {idle[cursor]} \ {NilConn} \in SUBSET ConnIds
      BY <3>2, OwnTypes
    <3> QED
      BY <2>3, <3>3, CloseKeepsGen DEF MaintainPrune
  <2>4. \/ UNCHANGED conn \/ RPClose \/ DisconnectCas \/ \E p \in Maintainers : MaintainPrune(p)
    BY DEF MaintainStep, MaintainStart, MaintainPruned, MaintainLoop, Clear,
         TimerFires, Connect, Initialize, Disconnect, DeadlinePasses, DisconnectStep,
         DisconnectGeneration, DisconnectWait, DisconnectCopy, DisconnectRemove, DisconnectLoad,
         DisconnectWaitConn, DisconnectState, ClearTotal, vars
  <2> QED
    BY <2>1, <2>2, <2>3, <2>4
<1> QED
  BY <1>1, <1>3, <1>4, <1>5, <1>6, FreshFrame

(* Every step of every goroutine preserves FreshInv. *)
LEMMA FreshStep == Inv /\ OwnInv /\ FreshInv /\ [Next]_vars => FreshInv'
<1> SUFFICES ASSUME Inv, OwnInv, FreshInv, [Next]_vars PROVE FreshInv'
  OBVIOUS
<1>1. ASSUME NEW g \in Getters, GetStart(g) \/ AcquireTimeout(g) \/ SelectTimeout(g)
                                \/ GetStep(g) \/ UserStep(g)
      PROVE  FreshInv'
  BY <1>1, FreshStart, FreshGet, FreshRelease, FreshRPGet DEF GetStep
<1>2. ASSUME NEW p \in Procs, MakeStep(p) PROVE FreshInv'
  BY <1>2, FreshMake
<1>3. ASSUME NEW c \in ConnIds, ConnectStep(c) \/ CloserStep(c) \/ IdleDeadlinePasses(c)
      PROVE  FreshInv'
  BY <1>3, FreshConnection
<1> QED
  BY <1>1, <1>2, <1>3, FreshElsewhere DEF Next
-----------------------------------------------------------------------------
(* SizeInv: how many connections there are *)

(* Positions of a getter that has left the list with a connection or the    *)
(* right to make one: what bounds the pool once it has been closed.         *)
PastPCs == {"select", "connect", "wait", "make", "makeCheck", "makeInsert", "remove",
            "holding", "put"}
PastGet == {g \in Getters : pc[g] \in PastPCs}

(* resourcePool.Close has run by the time the first disconnect goes on, and *)
(* Maintain never holds the mutex of a closed resource pool.                *)
ClosedOnce ==
  /\ \/ rpClosed
     \/ calls["disconnect"] = 0
     \/ calls["disconnect"] = 1 /\ pc[Admin] = "dClose"
  /\ rpLock # NoProc => ~rpClosed

(* totalSize is exact in the first lifetime, and Maintain adds a resource   *)
(* only below minPoolSize.                                                  *)
Exact ==
  FirstLifetime => total = Len(idle) + Cardinality(Counted) /\ total <= MaxPoolSize
FillPCs == {"make", "makeCheck", "makeInsert"}
Filling == \A p \in Maintainers : pc[p] \in FillPCs => total < MinPoolSize

(* A closed resource pool gets no connection from Maintain, and the permits *)
(* bound what the getters have and leave in the list, whatever totalSize is.*)
BoundedByPermits == rpClosed => Len(idle) + Cardinality(PastGet) <= MaxPoolSize

SizeInv == ClosedOnce /\ Exact /\ Filling /\ BoundedByPermits

(* The types SizeInv's proofs use. *)
LEMMA SizeTypes ==
  ASSUME Inv
  PROVE  /\ Len(idle) \in Nat /\ total \in 0..MaxUint /\ MaxPoolSize \in Nat
         /\ MinPoolSize \in 0..MaxPoolSize /\ MaxUint \in Nat /\ MaxUint > MaxPoolSize
         /\ calls["disconnect"] \in Nat /\ rpClosed \in BOOLEAN
         /\ IsFiniteSet(Counted) /\ Cardinality(Counted) \in Nat
         /\ IsFiniteSet(PastGet) /\ Cardinality(PastGet) \in Nat
<1>1. IsFiniteSet(Counted) /\ IsFiniteSet(PastGet)
  BY FS_Subset, GettersAssumption DEF Counted, PastGet
<1>2. Cardinality(Counted) \in Nat /\ Cardinality(PastGet) \in Nat
  BY <1>1, FS_CardinalityType
<1>3. MaxPoolSize \in Nat /\ MinPoolSize \in 0..MaxPoolSize /\ MaxUint \in Nat /\ MaxUint > MaxPoolSize
  BY SizesAssumption
<1>4. Len(idle) \in Nat /\ total \in 0..MaxUint /\ rpClosed \in BOOLEAN /\ calls["disconnect"] \in Nat
  BY DEF Inv, BaseInv, TypeOK, DataType, CallKinds
<1> QED
  BY <1>1, <1>2, <1>3, <1>4

(* The steps between two calls of disconnect, and what they do to the       *)
(* position of Admin, the mutex and closed.                                 *)
CallsKept ==
  /\ calls'["disconnect"] = calls["disconnect"]
  /\ pc'[Admin] \in DisconnectPCs => pc[Admin] \in DisconnectPCs

(* A process other than Admin, or Admin at a position outside disconnect. *)
LEMMA KeptByMove ==
  ASSUME Inv, NEW p \in Procs, NEW label, Goto(p, label),
         label \in DisconnectPCs => pc[p] \in DisconnectPCs,
         calls'["disconnect"] = calls["disconnect"],
         p = Admin => pc[p] # "dClose"
  PROVE  CallsKept /\ (pc[Admin] = "dClose" => pc'[Admin] = "dClose")
<1>1. pc'[p] = label /\ \A q \in Procs : q # p => pc'[q] = pc[q]
  BY Moved
<1>2. Admin \in Procs
  BY DEF Procs, Maintainers
<1> QED
  BY <1>1, <1>2 DEF CallsKept

(* No call of disconnect: it has returned no earlier than it began.         *)
LEMMA LifeBack ==
  ASSUME CallsKept
  PROVE  FirstLifetime' => FirstLifetime
BY DEF CallsKept, FirstLifetime

(* ClosedOnce across a step that neither closes nor disconnects.            *)
LEMMA ClosedOnceKept ==
  ASSUME ClosedOnce, CallsKept, UNCHANGED rpClosed, pc[Admin] = "dClose" => pc'[Admin] = "dClose",
         rpLock' \in {rpLock, NoProc} \/ ~rpClosed
  PROVE  ClosedOnce'
BY DEF ClosedOnce, CallsKept

(* A set of getters after at most one of them has entered or left it.       *)
LEMMA CountMove ==
  ASSUME NEW S \in SUBSET Getters, NEW T \in SUBSET Getters, NEW g \in Getters,
         \A h \in Getters : h # g => (h \in S <=> h \in T)
  PROVE  /\ Cardinality(S) \in Nat /\ Cardinality(T) \in Nat
         /\ (g \in S <=> g \in T) => Cardinality(T) = Cardinality(S)
         /\ g \in T /\ g \notin S => Cardinality(T) = Cardinality(S) + 1
         /\ g \in S /\ g \notin T => Cardinality(T) = Cardinality(S) - 1 /\ Cardinality(S) > 0
<1>1. IsFiniteSet(S) /\ IsFiniteSet(T)
  BY FS_Subset, GettersAssumption
<1>2. Cardinality(S) \in Nat /\ Cardinality(T) \in Nat
  BY <1>1, FS_CardinalityType
<1>3. (g \in S <=> g \in T) => T = S
  OBVIOUS
<1>4. g \in T /\ g \notin S => Cardinality(T) = Cardinality(S) + 1
  <2>1. g \in T /\ g \notin S => T = S \cup {g}
    OBVIOUS
  <2> QED
    BY <1>1, <2>1, FS_AddElement
<1>5. g \in S /\ g \notin T => Cardinality(S) = Cardinality(T) + 1
  <2>1. g \in S /\ g \notin T => S = T \cup {g}
    OBVIOUS
  <2> QED
    BY <1>1, <2>1, FS_AddElement
<1> QED
  BY <1>2, <1>3, <1>4, <1>5

(* What a getter's move does to the two counts of getters. *)
LEMMA CountedMove ==
  ASSUME Inv, NEW g \in Getters, NEW label, Goto(g, label)
  PROVE  /\ (label \in CountedPCs <=> pc[g] \in CountedPCs) =>
              Cardinality(Counted') = Cardinality(Counted)
         /\ label \in CountedPCs /\ pc[g] \notin CountedPCs =>
              Cardinality(Counted') = Cardinality(Counted) + 1
         /\ label \notin CountedPCs /\ pc[g] \in CountedPCs =>
              Cardinality(Counted') = Cardinality(Counted) - 1 /\ Cardinality(Counted) > 0
<1>1. pc'[g] = label /\ \A h \in Getters : h # g => pc'[h] = pc[h]
  BY Moved DEF Procs
<1>2. /\ Counted \in SUBSET Getters /\ Counted' \in SUBSET Getters
      /\ g \in Counted <=> pc[g] \in CountedPCs
      /\ g \in Counted' <=> label \in CountedPCs
      /\ \A h \in Getters : h # g => (h \in Counted <=> h \in Counted')
  BY <1>1 DEF Counted
<1> QED
  BY <1>2, CountMove

(* The same for the getters that are past get. *)
LEMMA PastMove ==
  ASSUME Inv, NEW g \in Getters, NEW label, Goto(g, label)
  PROVE  /\ (label \in PastPCs <=> pc[g] \in PastPCs) =>
              Cardinality(PastGet') = Cardinality(PastGet)
         /\ label \in PastPCs /\ pc[g] \notin PastPCs =>
              Cardinality(PastGet') = Cardinality(PastGet) + 1
         /\ label \notin PastPCs /\ pc[g] \in PastPCs =>
              Cardinality(PastGet') = Cardinality(PastGet) - 1
<1>1. pc'[g] = label /\ \A h \in Getters : h # g => pc'[h] = pc[h]
  BY Moved DEF Procs
<1>2. /\ PastGet \in SUBSET Getters /\ PastGet' \in SUBSET Getters
      /\ g \in PastGet <=> pc[g] \in PastPCs
      /\ g \in PastGet' <=> label \in PastPCs
      /\ \A h \in Getters : h # g => (h \in PastGet <=> h \in PastGet')
  BY <1>1 DEF PastGet
<1> QED
  BY <1>2, CountMove

(* A getter moves: Maintain and Admin stay, and the sums are what is left.  *)
LEMMA SizeGetter ==
  ASSUME Inv, SizeInv, NEW g \in Getters, NEW label \in GetPCs, Goto(g, label),
         calls'["disconnect"] = calls["disconnect"], UNCHANGED <<rpClosed, rpLock>>,
         UNCHANGED total \/ rpLock = NoProc,
         FirstLifetime => total' = Len(idle') + Cardinality(Counted') /\ total' <= MaxPoolSize,
         rpClosed => Len(idle') + Cardinality(PastGet') <= MaxPoolSize
  PROVE  SizeInv'
<1>1. g \in Procs /\ g # Admin /\ g \notin Maintainers /\ label \notin DisconnectPCs
  BY ProcNames DEF Procs, Maintainers, GetPCs, DisconnectPCs
<1>2. CallsKept /\ (pc[Admin] = "dClose" => pc'[Admin] = "dClose")
  BY <1>1, KeptByMove
<1>3. \A p \in Maintainers : pc'[p] = pc[p]
  BY <1>1, Moved DEF Procs
<1>4. ClosedOnce'
  BY <1>2, ClosedOnceKept DEF SizeInv
<1>5. Exact'
  BY <1>2, LifeBack DEF Exact
<1>6. rpLock = NoProc => \A p \in Maintainers : pc[p] \notin FillPCs
  BY ProcNames DEF Inv, BaseInv, LockOK, LockedPCs, FillPCs, Procs
<1>7. Filling'
  BY <1>3, <1>6 DEF SizeInv, Filling
<1>8. BoundedByPermits'
  BY DEF BoundedByPermits
<1> QED
  BY <1>4, <1>5, <1>7, <1>8 DEF SizeInv

(* Taking n from totalSize when it counts at least n does not wrap around.  *)
LEMMA MinusExact ==
  ASSUME NEW n \in 0..MaxUint, NEW k \in 0..n
  PROVE  Minus(n, k) = n - k
BY SizesAssumption DEF Minus

(* Nor does adding one below the maximal pool size. *)
LEMMA PlusExact ==
  ASSUME NEW n \in 0..MaxUint, n < MaxUint
  PROVE  Plus1(n) = n + 1
BY SizesAssumption DEF Plus1

(* Steps of getters that leave the list and totalSize alone. *)
LEMMA SizeQuiet ==
  ASSUME Inv, SizeInv, NEW g \in Getters, NEW label \in GetPCs, Goto(g, label),
         calls'["disconnect"] = calls["disconnect"], UNCHANGED <<rpClosed, rpLock, total, idle>>,
         label \in CountedPCs <=> pc[g] \in CountedPCs,
         label \in PastPCs => pc[g] \in PastPCs
  PROVE  SizeInv'
<1>1. Cardinality(Counted') = Cardinality(Counted)
  BY CountedMove, PastMove
<1>2. Cardinality(PastGet') = Cardinality(PastGet) \/ Cardinality(PastGet') = Cardinality(PastGet) - 1
  BY CountedMove, PastMove
<1>3. rpClosed => Len(idle) + Cardinality(PastGet') <= MaxPoolSize
  BY <1>2, SizeTypes DEF SizeInv, BoundedByPermits
<1>4. FirstLifetime => total = Len(idle) + Cardinality(Counted') /\ total <= MaxPoolSize
  BY <1>1 DEF SizeInv, Exact
<1> QED
  BY <1>3, <1>4, SizeGetter

(* All of get and put but the steps that touch the list or totalSize.       *)
LEMMA SizeGet ==
  ASSUME Inv, SizeInv, NEW g \in Getters,
         \/ GetStart(g) \/ Acquire(g) \/ AcquireTimeout(g) \/ GetLoop(g) \/ SelectTimeout(g)
         \/ GetConnect(g) \/ GetWait(g) \/ GetRemove(g) \/ ReturnConnection(g)
         \/ ExpireConnection(g)
  PROVE  SizeInv'
<1> USE DEF rpVars, rpCtl, allButPc, GetPCs, CountedPCs, PastPCs
<1>1. UNCHANGED <<rpClosed, rpLock, total, idle>>
  BY DEF GetStart, Acquire, AcquireTimeout, GetLoop, SelectTimeout, GetConnect, GetWait,
         GetRemove, ReturnConnection, ExpireConnection
<1>2. calls'["disconnect"] = calls["disconnect"]
  BY DEF GetStart, Acquire, AcquireTimeout, GetLoop, SelectTimeout, GetConnect, GetWait,
         GetRemove, ReturnConnection, ExpireConnection, Count, CallKinds, Inv, BaseInv, TypeOK,
         DataType
<1>3. \E label \in GetPCs : /\ Goto(g, label)
                            /\ label \in CountedPCs <=> pc[g] \in CountedPCs
                            /\ label \in PastPCs => pc[g] \in PastPCs
  BY DEF GetStart, Acquire, AcquireTimeout, GetLoop, SelectTimeout, GetConnect, GetWait,
         GetRemove, ReturnConnection, ExpireConnection
<1> QED
  BY <1>1, <1>2, <1>3, SizeQuiet

(* incrementTotal: below the maximum the caller may make a connection.      *)
LEMMA SizeIncrement ==
  ASSUME Inv, SizeInv, NEW g \in Getters, IncrementTotal(g)
  PROVE  SizeInv'
<1>1. /\ pc[g] = "select" /\ rpLock = NoProc /\ UNCHANGED <<idle, rpClosed, rpLock, calls>>
  BY DEF IncrementTotal, rpCtl
<1>2. CASE AtMax
  <2>1. UNCHANGED total /\ Goto(g, "loop")
    BY <1>2 DEF IncrementTotal
  <2> QED
    BY <1>1, <2>1, SizeQuiet DEF GetPCs, CountedPCs, PastPCs
<1>3. CASE ~AtMax
  <2>1. total' = total + 1 /\ Goto(g, "make")
    BY <1>3 DEF IncrementTotal
  <2>2. total < MaxPoolSize
    BY <1>3, SizeTypes DEF AtMax
  <2>3. Cardinality(Counted') = Cardinality(Counted) + 1 /\ Cardinality(PastGet') = Cardinality(PastGet)
    BY <1>1, <2>1, CountedMove, PastMove DEF CountedPCs, PastPCs
  <2>4. FirstLifetime => total' = Len(idle') + Cardinality(Counted') /\ total' <= MaxPoolSize
    BY <1>1, <2>1, <2>2, <2>3, SizeTypes DEF SizeInv, Exact
  <2>5. rpClosed => Len(idle') + Cardinality(PastGet') <= MaxPoolSize
    BY <1>1, <2>3 DEF SizeInv, BoundedByPermits
  <2> QED
    BY <1>1, <2>1, <2>4, <2>5, SizeGetter DEF GetPCs
<1> QED
  BY <1>2, <1>3

(* decrementTotal: the connection given up was counted. *)
LEMMA SizeDecrement ==
  ASSUME Inv, SizeInv, NEW g \in Getters, DecrementTotal(g)
  PROVE  SizeInv'
<1>1. /\ pc[g] = "decr" /\ rpLock = NoProc /\ UNCHANGED <<idle, rpClosed, rpLock, calls>>
      /\ total' = Minus(total, 1) /\ Goto(g, "release")
  BY DEF DecrementTotal, rpCtl
<1>2. /\ Cardinality(Counted') = Cardinality(Counted) - 1 /\ Cardinality(Counted) > 0
      /\ Cardinality(PastGet') = Cardinality(PastGet)
  BY <1>1, CountedMove, PastMove DEF CountedPCs, PastPCs
<1>3. ASSUME FirstLifetime PROVE total' = Len(idle') + Cardinality(Counted') /\ total' <= MaxPoolSize
  <2>1. total = Len(idle) + Cardinality(Counted) /\ total <= MaxPoolSize
    BY <1>3 DEF SizeInv, Exact
  <2>2. 1 \in 0..total /\ total \in 0..MaxUint
    BY <1>2, <2>1, SizeTypes
  <2>3. total' = total - 1
    BY <1>1, <2>2, MinusExact
  <2> QED
    BY <1>1, <1>2, <2>1, <2>3, SizeTypes
<1>4. rpClosed => Len(idle') + Cardinality(PastGet') <= MaxPoolSize
  BY <1>1, <1>2 DEF SizeInv, BoundedByPermits
<1> QED
  BY <1>1, <1>3, <1>4, SizeGetter DEF GetPCs

(* resourcePool.Put: the connection stops being counted, or goes to the     *)
(* list and is counted there.                                               *)
LEMMA SizeRPPut ==
  ASSUME Inv, SizeInv, NEW g \in Getters, RPPut(g)
  PROVE  SizeInv'
<1>1. /\ pc[g] = "put" /\ rpLock = NoProc /\ UNCHANGED <<rpClosed, rpLock, calls>>
      /\ Goto(g, "release")
  BY DEF RPPut, rpCtl
<1>2. /\ Cardinality(Counted') = Cardinality(Counted) - 1 /\ Cardinality(Counted) > 0
      /\ Cardinality(PastGet') = Cardinality(PastGet) - 1
  BY <1>1, CountedMove, PastMove DEF CountedPCs, PastPCs
<1>3. CASE Expired(loc[g])
  <2>1. total' = Minus(total, 1) /\ idle' = idle
    BY <1>3 DEF RPPut
  <2>2. ASSUME FirstLifetime PROVE total' = Len(idle') + Cardinality(Counted') /\ total' <= MaxPoolSize
    <3>1. total = Len(idle) + Cardinality(Counted) /\ total <= MaxPoolSize
      BY <2>2 DEF SizeInv, Exact
    <3>2. 1 \in 0..total /\ total \in 0..MaxUint
      BY <1>2, <3>1, SizeTypes
    <3>3. total' = total - 1
      BY <2>1, <3>2, MinusExact
    <3> QED
      BY <1>2, <2>1, <3>1, <3>3, SizeTypes
  <2>3. rpClosed => Len(idle') + Cardinality(PastGet') <= MaxPoolSize
    BY <1>2, <2>1, SizeTypes DEF SizeInv, BoundedByPermits
  <2> QED
    BY <1>1, <2>2, <2>3, SizeGetter DEF GetPCs
<1>4. CASE ~Expired(loc[g])
  <2>1. total' = total /\ idle' = <<loc[g]>> \o idle
    BY <1>4 DEF RPPut
  <2>2. loc[g] \in ConnIds \cup {NilConn}
    BY OwnTypes DEF Procs
  <2>3. Len(idle') = Len(idle) + 1
    BY <2>1, <2>2, PushType DEF Inv, BaseInv, TypeOK
  <2>4. FirstLifetime => total' = Len(idle') + Cardinality(Counted') /\ total' <= MaxPoolSize
    BY <1>2, <2>1, <2>3, SizeTypes DEF SizeInv, Exact
  <2>5. rpClosed => Len(idle') + Cardinality(PastGet') <= MaxPoolSize
    BY <1>2, <2>3, SizeTypes DEF SizeInv, BoundedByPermits
  <2> QED
    BY <1>1, <2>4, <2>5, SizeGetter DEF GetPCs
<1> QED
  BY <1>3, <1>4

(* The getters that hold the semaphore bound the ones past the list.        *)
LEMMA PastBound ==
  ASSUME Inv
  PROVE  Cardinality(PastGet) <= MaxPoolSize
<1>1. PastGet \in SUBSET PermitHolders
  BY DEF PastGet, PastPCs, PermitHolders, PermitPCs
<1>2. /\ IsFiniteSet(PermitHolders) /\ semCur = Cardinality(PermitHolders)
      /\ semCur \in 0..MaxPoolSize
  BY HoldersFinite
<1>3. Cardinality(PastGet) <= Cardinality(PermitHolders)
  BY <1>1, <1>2, FS_Subset
<1> QED
  BY <1>2, <1>3, SizeTypes

(* resourcePool.Get: what is dropped is no longer counted, and what is      *)
(* taken is counted with its getter.                                        *)
LEMMA SizeRPGet ==
  ASSUME Inv, Inv', SizeInv, NEW g \in Getters, RPGet(g)
  PROVE  SizeInv'
<1>1. PICK first \in 1..(Len(idle) + 1) :
         /\ total' = Minus(total, first - 1) /\ idle' = RestAfter(first)
         /\ IF first > Len(idle) THEN Goto(g, "select") ELSE Goto(g, "connect")
  BY DEF RPGet
<1>2. /\ pc[g] = "get" /\ rpLock = NoProc /\ UNCHANGED <<rpClosed, rpLock, calls>>
  BY DEF RPGet, rpCtl
<1>3. Len(idle') = IF first <= Len(idle) THEN Len(idle) - first ELSE 0
  <2>1. /\ first \in Nat /\ first + 1 \in Int /\ Len(idle) \in Nat /\ Len(idle) \in Int
        /\ idle \in Seq(ConnIds \cup {NilConn})
    BY OwnTypes
  <2>2. \A i \in (first + 1)..Len(idle) : idle[i] \in ConnIds \cup {NilConn}
    BY <2>1
  <2>3. Len(SubSeq(idle, first + 1, Len(idle))) =
          IF first + 1 <= Len(idle) THEN Len(idle) - (first + 1) + 1 ELSE 0
    BY <2>1, <2>2, SubSeqProperties
  <2>4. idle' = SubSeq(idle, first + 1, Len(idle))
    BY <1>1 DEF RestAfter
  <2>5. Len(idle') = IF first + 1 <= Len(idle) THEN Len(idle) - (first + 1) + 1 ELSE 0
    BY <2>3, <2>4
  <2> QED
    BY <2>1, <2>5
<1>4. ASSUME FirstLifetime
      PROVE  total = Len(idle) + Cardinality(Counted) /\ total <= MaxPoolSize
             /\ total' = total - (first - 1)
  <2>1. total = Len(idle) + Cardinality(Counted) /\ total <= MaxPoolSize
    BY <1>4 DEF SizeInv, Exact
  <2>2. first - 1 \in 0..total /\ total \in 0..MaxUint
    BY <2>1, SizeTypes
  <2> QED
    BY <1>1, <2>1, <2>2, MinusExact
<1>5. CASE first > Len(idle)
  <2>1. Goto(g, "select") /\ first = Len(idle) + 1 /\ Len(idle') = 0
    BY <1>1, <1>3, <1>5, SizeTypes
  <2>2. Cardinality(Counted') = Cardinality(Counted)
    BY <1>2, <2>1, CountedMove DEF CountedPCs
  <2>3. Cardinality(PastGet') <= MaxPoolSize /\ Cardinality(PastGet') \in Nat
    <3>1. (Cardinality(PastGet) <= MaxPoolSize)'
      BY PastBound, PTL
    <3>2. (Cardinality(PastGet) \in Nat)'
      BY SizeTypes, PTL
    <3> QED
      BY <3>1, <3>2
  <2>4. FirstLifetime => total' = Len(idle') + Cardinality(Counted') /\ total' <= MaxPoolSize
    BY <1>4, <2>1, <2>2, SizeTypes
  <2>5. rpClosed => Len(idle') + Cardinality(PastGet') <= MaxPoolSize
    BY <2>1, <2>3
  <2> QED
    BY <1>2, <2>1, <2>4, <2>5, SizeGetter DEF GetPCs
<1>6. CASE ~(first > Len(idle))
  <2>1. Goto(g, "connect") /\ first <= Len(idle) /\ Len(idle') = Len(idle) - first
    BY <1>1, <1>3, <1>6, SizeTypes
  <2>2. /\ Cardinality(Counted') = Cardinality(Counted) + 1
        /\ Cardinality(PastGet') = Cardinality(PastGet) + 1
    BY <1>2, <2>1, CountedMove, PastMove DEF CountedPCs, PastPCs
  <2>3. FirstLifetime => total' = Len(idle') + Cardinality(Counted') /\ total' <= MaxPoolSize
    BY <1>4, <2>1, <2>2, SizeTypes
  <2>4. rpClosed => Len(idle') + Cardinality(PastGet') <= MaxPoolSize
    BY <2>1, <2>2, SizeTypes DEF SizeInv, BoundedByPermits
  <2> QED
    BY <1>2, <2>1, <2>3, <2>4, SizeGetter DEF GetPCs
<1> QED
  BY <1>5, <1>6

(* No getter moves in or out of the counts, and the list and totalSize stay.*)
LEMMA SizeFrame ==
  ASSUME Inv, SizeInv, UNCHANGED <<idle, total, rpClosed>>, ClosedOnce',
         FirstLifetime' => FirstLifetime, Filling',
         \A h \in Getters : /\ pc'[h] \in CountedPCs <=> pc[h] \in CountedPCs
                            /\ pc'[h] \in PastPCs <=> pc[h] \in PastPCs
  PROVE  SizeInv'
<1>1. Counted' = Counted /\ PastGet' = PastGet
  BY DEF Counted, PastGet
<1>2. Exact' /\ BoundedByPermits'
  BY <1>1 DEF SizeInv, Exact, BoundedByPermits
<1> QED
  BY <1>2 DEF SizeInv

(* Nobody moves. *)
LEMMA SizeStill ==
  ASSUME Inv, SizeInv,
         \/ \E g \in Getters : UseSucceeds(g) \/ UseFails(g)
         \/ \E c \in ConnIds : ConnectStep(c) \/ CloserStep(c) \/ IdleDeadlinePasses(c)
         \/ DeadlinePasses \/ Clear \/ UNCHANGED vars
  PROVE  SizeInv'
<1> USE DEF rpVars, rpCtl, procVars, allButConn
<1>1. UNCHANGED <<idle, total, rpClosed, rpLock, pc>>
  BY DEF UseSucceeds, UseFails, ConnectStep, CloserStep, BackgroundConnect, DialSucceeds,
         HandshakeSucceeds, ConnectFails, HandshakeErrorCheck, HandshakeErrorClear, CloserLoad,
         CloserWait, CloserCas, IdleDeadlinePasses, DeadlinePasses, Clear, vars
<1>2. calls'["disconnect"] = calls["disconnect"]
  BY DEF UseSucceeds, UseFails, ConnectStep, CloserStep, BackgroundConnect, DialSucceeds,
         HandshakeSucceeds, ConnectFails, HandshakeErrorCheck, HandshakeErrorClear, CloserLoad,
         CloserWait, CloserCas, IdleDeadlinePasses, DeadlinePasses, Clear, vars,
         Count, CallKinds, Inv, BaseInv, TypeOK, DataType
<1>3. CallsKept /\ ClosedOnce'
  BY <1>1, <1>2, ClosedOnceKept DEF SizeInv, CallsKept
<1>4. Filling'
  BY <1>1 DEF SizeInv, Filling
<1> QED
  BY <1>1, <1>3, <1>4, LifeBack, SizeFrame

(* Release moves getters that are in neither count. *)
LEMMA SizeRelease ==
  ASSUME Inv, SizeInv, NEW g \in Getters, Release(g)
  PROVE  SizeInv'
<1>1. UNCHANGED <<idle, total, rpClosed, rpLock, calls>> /\ pc[g] = "release"
  BY DEF Release, rpVars, rpCtl
<1>2. pc' = [p \in Procs |-> IF p = g THEN "idle"
                             ELSE IF p \in {waiters[i] : i \in 1..Woken} THEN "loop"
                             ELSE pc[p]]
  BY DEF Release
<1>3. \A i \in 1..Woken : pc[waiters[i]] = "queued" /\ waiters[i] \in Getters
  <2>1. semCur \in Nat /\ MaxPoolSize \in Nat /\ Len(waiters) \in Nat
    BY SizesAssumption DEF Inv, BaseInv, TypeOK, DataType
  <2>2. \A i \in 1..Woken : i \in 1..Len(waiters)
    BY <2>1 DEF Woken
  <2> QED
    BY <2>2 DEF Inv, BaseInv, TypeOK, DataType, SemInv, QueueOK
<1>4. Getters \subseteq Procs /\ \A p \in Maintainers : p \in Procs /\ p \notin Getters
  BY ProcNames DEF Procs, Maintainers
<1>5. \A p \in Maintainers : pc'[p] = pc[p]
  BY <1>2, <1>3, <1>4
<1>6. \A h \in Getters : /\ pc'[h] \in CountedPCs <=> pc[h] \in CountedPCs
                         /\ pc'[h] \in PastPCs <=> pc[h] \in PastPCs
  BY <1>1, <1>2, <1>3, <1>4 DEF CountedPCs, PastPCs
<1>7. CallsKept /\ ClosedOnce'
  BY <1>1, <1>5, ClosedOnceKept DEF SizeInv, CallsKept, Maintainers
<1>8. Filling'
  BY <1>1, <1>5 DEF SizeInv, Filling
<1> QED
  BY <1>1, <1>6, <1>7, <1>8, LifeBack, SizeFrame

(* A maintainer moves: no getter does, and the counts stay. *)
LEMMA MaintainerStays ==
  ASSUME Inv, NEW p \in Maintainers, NEW label, Goto(p, label)
  PROVE  /\ pc'[p] = label /\ \A q \in Procs : q # p => pc'[q] = pc[q]
         /\ p \in Procs /\ Counted' = Counted /\ PastGet' = PastGet
         /\ \A h \in Getters : pc'[h] = pc[h]
<1>1. p \in Procs /\ p \notin Getters /\ Getters \subseteq Procs
  BY ProcNames DEF Procs, Maintainers
<1>2. pc'[p] = label /\ \A q \in Procs : q # p => pc'[q] = pc[q]
  BY <1>1, Moved
<1>3. \A h \in Getters : pc'[h] = pc[h]
  BY <1>1, <1>2
<1> QED
  BY <1>1, <1>2, <1>3 DEF Counted, PastGet

(* Maintain and Admin between the steps that change the list or totalSize.  *)
LEMMA SizeAdmin ==
  ASSUME Inv, SizeInv, NEW p \in Maintainers, NEW label, Goto(p, label),
         label \in DisconnectPCs => pc[p] \in DisconnectPCs,
         p = Admin => pc[p] # "dClose",
         label \in FillPCs => pc[p] \in FillPCs \/ total < MinPoolSize,
         UNCHANGED <<idle, total, rpClosed>>, calls'["disconnect"] = calls["disconnect"],
         rpLock' \in {rpLock, NoProc} \/ ~rpClosed
  PROVE  SizeInv'
<1>1. /\ pc'[p] = label /\ \A q \in Procs : q # p => pc'[q] = pc[q]
      /\ p \in Procs /\ \A h \in Getters : pc'[h] = pc[h]
  BY MaintainerStays
<1>2. CallsKept /\ (pc[Admin] = "dClose" => pc'[Admin] = "dClose")
  BY <1>1, KeptByMove
<1>3. ClosedOnce'
  BY <1>2, ClosedOnceKept DEF SizeInv
<1>4. Filling'
  BY <1>1 DEF SizeInv, Filling, Procs
<1> QED
  BY <1>1, <1>2, <1>3, <1>4, LifeBack, SizeFrame

(* Maintain's steps but the ones that add to or take from the list, connect *)
(* and disconnect but the ones that clear totalSize.                        *)
LEMMA SizeControl ==
  ASSUME Inv, SizeInv,
         \/ \E p \in Maintainers : MaintainStart(p) \/ MaintainPruned(p) \/ MaintainLoop(p)
         \/ TimerFires \/ Connect \/ Initialize \/ DisconnectGeneration \/ DisconnectWait
         \/ DisconnectCopy \/ (\E c \in ConnIds : DisconnectRemove(c)) \/ DisconnectLoad
         \/ DisconnectWaitConn \/ DisconnectCas \/ DisconnectState
  PROVE  SizeInv'
<1> USE DEF rpVars, rpCtl, allButPc, DisconnectPCs, FillPCs
<1>1. UNCHANGED <<idle, total, rpClosed>>
  BY DEF MaintainStart, MaintainPruned, MaintainLoop, TimerFires, Connect, Initialize,
         DisconnectGeneration, DisconnectWait, DisconnectCopy, DisconnectRemove, DisconnectLoad,
         DisconnectWaitConn, DisconnectCas, DisconnectState
<1>2. calls'["disconnect"] = calls["disconnect"]
  BY DEF MaintainStart, MaintainPruned, MaintainLoop, TimerFires, Connect, Initialize,
         DisconnectGeneration, DisconnectWait, DisconnectCopy, DisconnectRemove, DisconnectLoad,
         DisconnectWaitConn, DisconnectCas, DisconnectState, Count, CallKinds, Inv, BaseInv,
         TypeOK, DataType
<1>3. rpLock' \in {rpLock, NoProc} \/ ~rpClosed
  BY DEF MaintainStart, MaintainPruned, MaintainLoop, TimerFires, Connect, Initialize,
         DisconnectGeneration, DisconnectWait, DisconnectCopy, DisconnectRemove, DisconnectLoad,
         DisconnectWaitConn, DisconnectCas, DisconnectState
<1>4. \E p \in Maintainers : \E label :
        /\ Goto(p, label) /\ pc[p] # "dClose"
        /\ label \in DisconnectPCs => pc[p] \in DisconnectPCs
        /\ label \in FillPCs => pc[p] \in FillPCs \/ total < MinPoolSize
  <2>1. CASE \E p \in Maintainers : MaintainStart(p) \/ MaintainPruned(p) \/ MaintainLoop(p)
    BY <2>1 DEF MaintainStart, MaintainPruned, MaintainLoop
  <2>2. CASE TimerFires \/ Connect \/ Initialize
    BY <2>2 DEF TimerFires, Connect, Initialize, Maintainers
  <2>3. CASE \/ DisconnectGeneration \/ DisconnectWait \/ DisconnectCopy
             \/ (\E c \in ConnIds : DisconnectRemove(c)) \/ DisconnectLoad
             \/ DisconnectWaitConn \/ DisconnectCas \/ DisconnectState
    <3>1. pc[Admin] \in DisconnectPCs /\ pc[Admin] # "dClose"
      BY <2>3 DEF DisconnectGeneration, DisconnectWait, DisconnectCopy, DisconnectRemove,
                  DisconnectLoad, DisconnectWaitConn, DisconnectCas, DisconnectState
    <3>2. \E label \in DisconnectPCs : Goto(Admin, label)
      <4>1. CASE DisconnectGeneration \/ DisconnectWait \/ DisconnectCopy
        BY <4>1 DEF DisconnectGeneration, DisconnectWait, DisconnectCopy
      <4>2. CASE (\E c \in ConnIds : DisconnectRemove(c)) \/ DisconnectLoad
        BY <4>2 DEF DisconnectRemove, DisconnectLoad
      <4>3. CASE DisconnectWaitConn \/ DisconnectCas \/ DisconnectState
        BY <4>3 DEF DisconnectWaitConn, DisconnectCas, DisconnectState
      <4> QED
        BY <2>3, <4>1, <4>2, <4>3
    <3>3. DisconnectPCs \cap FillPCs = {} /\ Admin \in Maintainers
      BY DEF Maintainers
    <3> QED
      BY <3>1, <3>2, <3>3
  <2> QED
    BY <2>1, <2>2, <2>3
<1> QED
  BY <1>1, <1>2, <1>3, <1>4, SizeAdmin

(* The first call of disconnect begins the end of the first lifetime.       *)
LEMMA SizeDisconnect ==
  ASSUME Inv, OwnInv, SizeInv, Disconnect
  PROVE  SizeInv'
<1>1. /\ pc[Admin] = "idle" /\ Goto(Admin, "dClose") /\ Admin \in Maintainers
      /\ UNCHANGED <<idle, total, rpClosed, rpLock>>
  BY DEF Disconnect, rpVars, rpCtl, Maintainers
<1>2. calls["disconnect"] \in Nat /\ calls'["disconnect"] = calls["disconnect"] + 1
  BY DEF Disconnect, Count, Inv, BaseInv, TypeOK, DataType, CallKinds
<1>3. /\ pc'[Admin] = "dClose" /\ \A q \in Procs : q # Admin => pc'[q] = pc[q]
      /\ \A h \in Getters : pc'[h] = pc[h]
  BY <1>1, MaintainerStays
<1>4. ClosedOnce'
  BY <1>1, <1>2, <1>3 DEF SizeInv, ClosedOnce
<1>5. FirstLifetime' => FirstLifetime
  BY <1>2 DEF FirstLifetime
<1>6. Filling'
  BY <1>1, <1>3 DEF SizeInv, Filling, FillPCs, Procs
<1> QED
  BY <1>1, <1>3, <1>4, <1>5, <1>6, SizeFrame

(* resourcePool.Close empties the list; from here the permits bound it.     *)
LEMMA SizeRPClose ==
  ASSUME Inv, OwnInv, SizeInv, RPClose
  PROVE  SizeInv'
<1>1. /\ pc[Admin] = "dClose" /\ Goto(Admin, "dGen") /\ Admin \in Maintainers
      /\ rpLock = NoProc /\ UNCHANGED <<rpLock, calls>> /\ rpClosed' = TRUE
      /\ total' = Minus(total, Len(idle)) /\ idle' = <<>>
  BY DEF RPClose, Maintainers
<1>2. /\ pc'[Admin] = "dGen" /\ \A q \in Procs : q # Admin => pc'[q] = pc[q]
      /\ Counted' = Counted /\ PastGet' = PastGet
  BY <1>1, MaintainerStays
<1>3. ClosedOnce'
  BY <1>1 DEF ClosedOnce
<1>4. FirstLifetime' => FirstLifetime
  BY <1>1, <1>2 DEF FirstLifetime, DisconnectPCs
<1>5. Len(idle') = 0
  BY <1>1
<1>6. ASSUME FirstLifetime
      PROVE  total' = Len(idle') + Cardinality(Counted') /\ total' <= MaxPoolSize
  <2>1. total = Len(idle) + Cardinality(Counted) /\ total <= MaxPoolSize
    BY <1>6 DEF SizeInv, Exact
  <2>2. Len(idle) \in 0..total /\ total \in 0..MaxUint
    BY <2>1, SizeTypes
  <2>3. total' = total - Len(idle)
    BY <1>1, <2>2, MinusExact
  <2> QED
    BY <1>2, <1>5, <2>1, <2>3, SizeTypes
<1>7. Exact'
  BY <1>4, <1>6 DEF Exact
<1>8. \A p \in Maintainers : pc[p] \notin FillPCs
  BY <1>1, ProcNames DEF Inv, BaseInv, LockOK, LockedPCs, FillPCs, Procs
<1>9. Filling'
  BY <1>2, <1>8 DEF Filling, FillPCs, Procs
<1>10. BoundedByPermits'
  BY <1>2, <1>5, PastBound, SizeTypes DEF BoundedByPermits
<1> QED
  BY <1>3, <1>7, <1>9, <1>10 DEF SizeInv

(* clearTotal: the first lifetime is over. *)
LEMMA SizeClearTotal ==
  ASSUME Inv, OwnInv, SizeInv, ClearTotal
  PROVE  SizeInv'
<1>1. /\ pc[Admin] = "dClear" /\ Goto(Admin, "idle") /\ Admin \in Maintainers
      /\ rpLock = NoProc /\ UNCHANGED <<rpLock, calls, rpClosed, idle>>
  BY DEF ClearTotal, rpCtl, Maintainers
<1>2. /\ pc'[Admin] = "idle" /\ \A q \in Procs : q # Admin => pc'[q] = pc[q]
      /\ Counted' = Counted /\ PastGet' = PastGet
  BY <1>1, MaintainerStays
<1>3. calls["disconnect"] # 0 /\ rpClosed
  BY <1>1 DEF OwnInv, OpenUntilDisconnect, DisconnectPCs, SizeInv, ClosedOnce
<1>4. ClosedOnce'
  BY <1>1, <1>3 DEF ClosedOnce
<1>5. Exact'
  BY <1>1, <1>2, <1>3 DEF Exact, FirstLifetime, DisconnectPCs
<1>6. \A p \in Maintainers : pc[p] \notin FillPCs
  BY <1>1, ProcNames DEF Inv, BaseInv, LockOK, LockedPCs, FillPCs, Procs
<1>7. Filling'
  BY <1>2, <1>6 DEF Filling, FillPCs, Procs
<1>8. BoundedByPermits'
  BY <1>1, <1>2 DEF SizeInv, BoundedByPermits
<1> QED
  BY <1>4, <1>5, <1>7, <1>8 DEF SizeInv

(* Maintain, with the mutex of an open resource pool, changes the list and  *)
(* totalSize together.                                                      *)
LEMMA SizeMaintain ==
  ASSUME Inv, OwnInv, SizeInv, NEW p \in Maintainers, pc[p] \in LockedPCs,
         UNCHANGED <<rpClosed, rpLock, calls>>,
         (UNCHANGED pc /\ pc[p] \notin FillPCs) \/ Goto(p, "mLoop"),
         FirstLifetime => total' = Len(idle') + Cardinality(Counted) /\ total' <= MaxPoolSize
  PROVE  SizeInv'
<1>1. rpLock = p /\ p \in Procs /\ rpLock # NoProc /\ \A q \in Maintainers : q # p => pc[q] \notin FillPCs
  BY ProcNames DEF Inv, BaseInv, LockOK, LockedPCs, FillPCs, Procs
<1>2. ~rpClosed
  BY <1>1 DEF SizeInv, ClosedOnce
<1>3. /\ Counted' = Counted /\ CallsKept /\ (pc[Admin] = "dClose" => pc'[Admin] = "dClose")
      /\ \A q \in Maintainers : pc'[q] \notin FillPCs
  <2>1. CASE UNCHANGED pc /\ pc[p] \notin FillPCs
    BY <1>1, <2>1 DEF Counted, CallsKept
  <2>2. CASE Goto(p, "mLoop")
    <3>1. CallsKept /\ (pc[Admin] = "dClose" => pc'[Admin] = "dClose")
      BY <1>1, <2>2, KeptByMove DEF DisconnectPCs, LockedPCs
    <3>2. pc'[p] = "mLoop" /\ Counted' = Counted /\ \A q \in Procs : q # p => pc'[q] = pc[q]
      BY <2>2, MaintainerStays
    <3> QED
      BY <1>1, <3>1, <3>2 DEF FillPCs, Procs
  <2> QED
    BY <2>1, <2>2
<1>4. ClosedOnce'
  BY <1>3, ClosedOnceKept DEF SizeInv
<1>5. Exact'
  BY <1>3, LifeBack DEF Exact
<1>6. Filling' /\ BoundedByPermits'
  BY <1>2, <1>3 DEF Filling, BoundedByPermits
<1> QED
  BY <1>4, <1>5, <1>6 DEF SizeInv

(* The first loop of Maintain. *)
LEMMA SizePrune ==
  ASSUME Inv, OwnInv, SizeInv, NEW p \in Maintainers, MaintainPrune(p)
  PROVE  SizeInv'
<1>1. /\ UNCHANGED <<rpClosed, rpLock, calls, pc>> /\ pc[p] = "mPrune"
  BY DEF MaintainPrune, procVars
<1>2. pc[p] \in LockedPCs /\ pc[p] \notin FillPCs
  BY <1>1 DEF LockedPCs, FillPCs
<1>3. /\ idle \in Seq(ConnIds \cup {NilConn}) /\ cursor \in 1..Len(idle)
  <2>1. rpLock = p /\ rpLock # NoProc /\ pc[rpLock] = "mPrune"
    BY <1>1, ProcNames DEF Inv, BaseInv, LockOK, LockedPCs, Procs
  <2> QED
    BY <2>1 DEF MaintainPrune, Inv, BaseInv, LockOK, TypeOK, DataType
<1>4. ASSUME FirstLifetime
      PROVE  total' = Len(idle') + Cardinality(Counted) /\ total' <= MaxPoolSize
  <2>1. total = Len(idle) + Cardinality(Counted) /\ total <= MaxPoolSize
    BY <1>4 DEF SizeInv, Exact
  <2>2. CASE Expired(idle[cursor])
    <3>1. total' = Minus(total, 1) /\ idle' = Without(idle, cursor)
      BY <2>2 DEF MaintainPrune
    <3>2. Len(idle') = Len(idle) - 1
      BY <1>3, <3>1, WithoutType
    <3>3. 1 \in 0..total /\ total \in 0..MaxUint
      BY <1>3, <2>1, SizeTypes
    <3>4. total' = total - 1
      BY <3>1, <3>3, MinusExact
    <3> QED
      BY <2>1, <3>2, <3>4, SizeTypes
  <2>3. CASE ~Expired(idle[cursor])
    BY <2>1, <2>3 DEF MaintainPrune
  <2> QED
    BY <2>2, <2>3
<1> QED
  BY <1>1, <1>2, <1>4, SizeMaintain

(* makeNewConnection, for a getter that is counted already or for Maintain. *)
LEMMA SizeMake ==
  ASSUME Inv, OwnInv, SizeInv, NEW p \in Procs, MakeStep(p)
  PROVE  SizeInv'
<1> USE DEF rpVars, rpCtl, allButPc
<1>1. UNCHANGED <<rpClosed, rpLock, calls>> /\ pc[p] \in FillPCs
  BY DEF MakeStep, MakeConnection, MakeRefused, MakeChecked, MakeInsert, FillPCs
<1>2. CASE p \in Getters
  <2>1. p \notin Maintainers
    BY <1>2, ProcNames DEF Maintainers
  <2>2. UNCHANGED <<idle, total>>
    BY <2>1 DEF MakeStep, MakeConnection, MakeRefused, MakeChecked, MakeInsert
  <2>3. \E label \in {"makeCheck", "makeInsert", "decr", "connect"} : Goto(p, label)
    BY <2>1 DEF MakeStep, MakeConnection, MakeRefused, MakeChecked, MakeInsert
  <2> QED
    BY <1>1, <1>2, <2>2, <2>3, SizeQuiet DEF GetPCs, CountedPCs, PastPCs, FillPCs
<1>3. CASE p \in Maintainers
  <2>1. pc[p] \in LockedPCs /\ total < MinPoolSize
    BY <1>1, <1>3 DEF FillPCs, LockedPCs, SizeInv, Filling
  <2>2. CASE MakeConnection(p) \/ MakeChecked(p)
    <3>1. UNCHANGED <<idle, total>> /\ \E label \in FillPCs : Goto(p, label)
      BY <2>2 DEF MakeConnection, MakeChecked, FillPCs
    <3> QED
      BY <1>1, <1>3, <3>1, SizeAdmin DEF FillPCs, DisconnectPCs
  <2>3. CASE MakeRefused(p) \/ MakeInsert(p)
    <3>1. /\ total' = Plus1(total) /\ Goto(p, "mLoop")
          /\ \E c \in {NilConn, loc[p]} : idle' = <<c>> \o idle
      BY <1>3, <2>3 DEF MakeRefused, MakeInsert
    <3>2. total' = total + 1
      <4>1. total \in 0..MaxUint /\ total < MaxUint
        BY <2>1, SizeTypes
      <4> QED
        BY <3>1, <4>1, PlusExact
    <3>3. Len(idle') = Len(idle) + 1
      <4>1. loc[p] \in ConnIds \cup {NilConn} /\ DataType
        BY OwnTypes DEF Inv, BaseInv, TypeOK
      <4> QED
        BY <3>1, <4>1, PushType
    <3>4. FirstLifetime => total' = Len(idle') + Cardinality(Counted) /\ total' <= MaxPoolSize
      BY <2>1, <3>2, <3>3, SizeTypes DEF SizeInv, Exact
    <3> QED
      BY <1>1, <1>3, <2>1, <3>1, <3>4, SizeMaintain
  <2> QED
    BY <2>2, <2>3 DEF MakeStep
<1> QED
  BY <1>2, <1>3 DEF Procs

(* newPool is empty. *)
LEMMA SizeInit == Init => SizeInv
<1> SUFFICES ASSUME Init PROVE SizeInv
  OBVIOUS
<1>1. \A p \in Procs : pc[p] = "idle"
  BY DEF Init
<1>2. Counted = {}
  BY <1>1 DEF Counted, CountedPCs, Procs
<1>3. Exact
  BY <1>2, FS_EmptySet, SizesAssumption DEF Init, Exact
<1>4. ClosedOnce /\ Filling /\ BoundedByPermits
  BY <1>1 DEF Init, ClosedOnce, Filling, FillPCs, BoundedByPermits, Procs, CallKinds
<1> QED
  BY <1>3, <1>4 DEF SizeInv

(* Every step of every goroutine preserves SizeInv. *)
LEMMA SizeStep == Inv /\ Inv' /\ OwnInv /\ SizeInv /\ [Next]_vars => SizeInv'
<1> SUFFICES ASSUME Inv, Inv', OwnInv, SizeInv, [Next]_vars PROVE SizeInv'
  OBVIOUS
<1>1. ASSUME NEW g \in Getters, GetStart(g) \/ AcquireTimeout(g) \/ SelectTimeout(g)
                                \/ GetStep(g) \/ UserStep(g)
      PROVE  SizeInv'
  BY <1>1, SizeGet, SizeRelease, SizeRPGet, SizeIncrement, SizeDecrement, SizeRPPut, SizeStill
     DEF GetStep, UserStep
<1>2. ASSUME NEW p \in Procs, MakeStep(p) PROVE SizeInv'
  BY <1>2, SizeMake
<1>3. ASSUME NEW c \in ConnIds, ConnectStep(c) \/ CloserStep(c) \/ IdleDeadlinePasses(c)
      PROVE  SizeInv'
  BY <1>3, SizeStill
<1>4. ASSUME NEW p \in Maintainers, MaintainStep(p) PROVE SizeInv'
  BY <1>4, SizeControl, SizePrune DEF MaintainStep
<1>5. CASE Clear \/ TimerFires \/ Connect \/ Initialize \/ Disconnect \/ DeadlinePasses
  BY <1>5, SizeStill, SizeControl, SizeDisconnect
<1>6. CASE DisconnectStep
  BY <1>6, SizeControl, SizeRPClose, SizeClearTotal DEF DisconnectStep
<1>7. CASE UNCHANGED vars
  BY <1>7, SizeStill
<1> QED
  BY <1>1, <1>2, <1>3, <1>4, <1>5, <1>6, <1>7 DEF Next

(* A set covered by a list and the connections of some getters is no larger *)
(* than the list and the getters together.                                  *)
LEMMA CoverBound ==
  ASSUME Inv, NEW G \in SUBSET Getters,
         \A c \in opened : c \in Elements(idle) \/ \E g \in G : loc[g] = c
  PROVE  Cardinality(opened) <= Len(idle) + Cardinality(G)
<1> DEFINE E == Elements(idle)
           L == {loc[g] : g \in G}
           e == [i \in 1..Len(idle) |-> idle[i]]
           l == [g \in G |-> loc[g]]
<1>1. IsFiniteSet(G) /\ Cardinality(G) \in Nat
  BY FS_Subset, FS_CardinalityType, GettersAssumption
<1>2. Len(idle) \in Nat /\ IsFiniteSet(1..Len(idle)) /\ Cardinality(1..Len(idle)) = Len(idle)
  <2> DEFINE n == Len(idle)
  <2>1. n \in Nat
    BY SizeTypes
  <2> HIDE DEF n
  <2>2. n \in Int /\ 1 \in Int
    BY <2>1
  <2>3. /\ IsFiniteSet(1..n)
        /\ Cardinality(1..n) = IF 1 > n THEN 0 ELSE n - 1 + 1
    BY <2>2, FS_Interval
  <2>4. Cardinality(1..n) = n
    BY <2>1, <2>3
  <2> QED
    BY <2>1, <2>3, <2>4 DEF n
<1>3. e \in Surjection(1..Len(idle), E) /\ l \in Surjection(G, L)
  BY DEF Surjection, Elements
<1>4. IsFiniteSet(E) /\ Cardinality(E) <= Len(idle)
  BY <1>2, <1>3, FS_Surjection
<1>5. IsFiniteSet(L) /\ Cardinality(L) <= Cardinality(G)
  BY <1>1, <1>3, FS_Surjection
<1>6. opened \in SUBSET (E \cup L)
  OBVIOUS
<1> HIDE DEF E, L
<1>7. /\ IsFiniteSet(E \cup L)
      /\ Cardinality(E \cup L) = Cardinality(E) + Cardinality(L) - Cardinality(E \cap L)
  BY <1>4, <1>5, FS_Union
<1>8. Cardinality(opened) <= Cardinality(E \cup L) /\ IsFiniteSet(opened)
  BY <1>6, <1>7, FS_Subset
<1>9. IsFiniteSet(E \cap L)
  BY <1>4, FS_Subset
<1>10. /\ Cardinality(E) \in Nat /\ Cardinality(L) \in Nat /\ Cardinality(E \cap L) \in Nat
       /\ Cardinality(opened) \in Nat
  BY <1>4, <1>5, <1>8, <1>9, FS_CardinalityType
<1> QED
  BY <1>1, <1>2, <1>4, <1>5, <1>7, <1>8, <1>10

(* Only finitely many connections are open. *)
LEMMA FiniteOpened ==
  ASSUME Inv
  PROVE  Cardinality(opened) \in Nat
<1>1. MaxConnId \in Int
  BY SizesAssumption
<1>2. IsFiniteSet(1..MaxConnId)
  BY <1>1, FS_Interval
<1>3. opened \in SUBSET (1..MaxConnId)
  BY DEF Inv, BaseInv, TypeOK, DataType, ConnIds
<1>4. IsFiniteSet(opened)
  BY <1>2, <1>3, FS_Subset
<1> QED
  BY <1>4, FS_CardinalityType

(* What SizeInv says in the words of the property. *)
LEMMA SizeProperties ==
  ASSUME Inv, OwnInv, SizeInv
  PROVE  SizeIsRight
<1>1. TotalIsExact
  BY DEF SizeInv, Exact, TotalIsExact
<1>2. \A p \in Procs : pc[p] \in UsingPCs => p \in Getters
  BY DEF Inv, BaseInv, TypeOK, PcType, UsingPCs, MaintainPCs, DisconnectPCs, Procs, Maintainers
<1>3. CASE rpClosed
  <2>1. \A c \in opened : c \in Elements(idle) \/ \E g \in PastGet : loc[g] = c
    <3>1. \A p \in Procs : pc[p] \in UsingPCs => p \in PastGet
      BY <1>2 DEF UsingPCs, PastGet, PastPCs
    <3> QED
      BY <3>1 DEF OwnInv, OpenIsKept
  <2>2. PastGet \in SUBSET Getters
    BY DEF PastGet
  <2>3. Cardinality(opened) <= Len(idle) + Cardinality(PastGet)
    BY <2>1, <2>2, CoverBound
  <2>4. Len(idle) + Cardinality(PastGet) <= MaxPoolSize
    BY <1>3 DEF SizeInv, BoundedByPermits
  <2>5. Cardinality(opened) \in Nat
    BY FiniteOpened
  <2> QED
    BY <1>1, <2>3, <2>4, <2>5, SizeTypes DEF SizeIsRight, AtMostMaxPoolSize
<1>4. CASE ~rpClosed
  <2>1. \A c \in opened : c \in Elements(idle) \/ \E g \in Counted : loc[g] = c
    <3>1. \A p \in Procs : pc[p] \in UsingPCs => p \in Counted
      BY <1>2 DEF UsingPCs, Counted, CountedPCs
    <3> QED
      BY <3>1 DEF OwnInv, OpenIsKept
  <2>2. Counted \in SUBSET Getters
    BY DEF Counted
  <2>3. Cardinality(opened) <= Len(idle) + Cardinality(Counted)
    BY <2>1, <2>2, CoverBound
  <2>4. FirstLifetime
    BY <1>4 DEF SizeInv, ClosedOnce, FirstLifetime, DisconnectPCs
  <2>5. Len(idle) + Cardinality(Counted) <= MaxPoolSize
    BY <2>4 DEF SizeInv, Exact
  <2>6. Cardinality(opened) \in Nat
    BY FiniteOpened
  <2> QED
    BY <1>1, <2>3, <2>5, <2>6, SizeTypes DEF SizeIsRight, AtMostMaxPoolSize
<1> QED
  BY <1>3, <1>4
-----------------------------------------------------------------------------
(* The theorems *)

(* The four parts of the inductive invariant hold together in every         *)
(* reachable state of the pool.                                             *)
THEOREM OwnershipInvariant == Spec => [](Inv /\ OwnInv /\ FreshInv /\ SizeInv)
<1>1. Init => Inv /\ OwnInv /\ FreshInv /\ SizeInv
  <2>1. Init => FreshInv
    BY DEF Init, FreshInv, FreshPCs, Procs
  <2> QED
    BY <2>1, InitInv, OwnInit, SizeInit
<1>2. Inv /\ OwnInv /\ FreshInv /\ SizeInv /\ [Next]_vars => (Inv /\ OwnInv /\ FreshInv /\ SizeInv)'
  BY StepInv, OwnStep, FreshStep, SizeStep
<1> QED
  BY <1>1, <1>2, PTL DEF Spec

(* pool.get and resourcePool: whatever the getters, Maintain and disconnect *)
(* do, a connection has at most one user and is never idle meanwhile.       *)
THEOREM CheckoutExclusive == Spec => []ExclusiveCheckout
BY OwnershipInvariant, OwnProperties, PTL

(* removeConnection and makeNewConnection: one ConnectionClosed event for   *)
(* each connection that has left the pool, none for one that has not.       *)
THEOREM EventsAlwaysMatch == Spec => []ClosedEventsMatch
BY OwnershipInvariant, OwnProperties, PTL

(* pool.opened: no open connection is lost, and none is closed under its    *)
(* user before disconnect is called.                                        *)
THEOREM ConnectionsAlwaysKept == Spec => []ConnectionsKept
BY OwnershipInvariant, OwnProperties, PTL

(* pool.stale and pool.clear: a get never returns a connection older than   *)
(* the generation it started in.                                            *)
THEOREM CheckoutFresh == Spec => []FreshCheckout
<1>1. FreshInv => FreshCheckout
  BY DEF FreshInv, FreshCheckout, FreshPCs
<1> QED
  BY <1>1, OwnershipInvariant, PTL

(* resourcePool.totalSize: exact until the first disconnect has cleared it, *)
(* and never more than maxPoolSize connections open, in any lifetime.       *)
THEOREM SizeAlwaysRight == Spec => []SizeIsRight
BY OwnershipInvariant, SizeProperties, PTL
=============================================================================
