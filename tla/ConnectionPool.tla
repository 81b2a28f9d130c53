--------------------------- MODULE ConnectionPool ---------------------------
(***************************************************************************)
(* The connection pool of one server: pool (topology/pool.go) on top of    *)
(* resourcePool (topology/resource_pool.go), with the life of each         *)
(* connection (topology/connection.go) and the weighted semaphore the pool *)
(* bounds its checkouts with.                                              *)
(*                                                                         *)
(* Every goroutine is a process with a program counter; one action is one  *)
(* critical section or one access to a sync/atomic variable.               *)
(*   Getters  callers of pool.get, users of the connection, pool.put       *)
(*   Timer    the timer goroutine that runs resourcePool.Maintain          *)
(*   Admin    the Server goroutine that calls pool.connect / disconnect    *)
(* and each connection has two more: the one that runs connection.connect  *)
(* (its position is conn[c].phase) and the one connectionCloseFunc starts  *)
(* (conn[c].closer).                                                       *)
(***************************************************************************)
EXTENDS Integers, Sequences, FiniteSets

CONSTANTS
  Getters,         \* goroutines that check connections out
  MaxPoolSize,     \* size of the semaphore and resourcePool.maxSize
  MinPoolSize,     \* resourcePool.minSize
  HasIdleTimeout,  \* whether connection.idleTimeout > 0
  HasDeadline,     \* whether the context given to disconnect has a deadline
  MaxUint,         \* largest value of the unsigned counter totalSize
  MaxConnId,       \* bound: connections ever made (pool.nextid)
  MaxGets,         \* bound: calls of get
  MaxClears,       \* bound: calls of clear made by Server.ProcessError
  MaxMaintains,    \* bound: firings of the maintenance timer
  MaxDisconnects,  \* bound: calls of disconnect
  MaxConnects      \* bound: calls of connect

Timer == "timer"
Admin == "admin"
NoProc == "none"

ASSUME GettersAssumption ==
  IsFiniteSet(Getters) /\ Timer \notin Getters /\ Admin \notin Getters /\ NoProc \notin Getters
ASSUME SizesAssumption ==
  /\ MaxPoolSize \in Nat \ {0} /\ MinPoolSize \in 0..MaxPoolSize
  /\ MaxConnId \in Nat \ {0}
  /\ MaxUint \in Nat /\ MaxUint > MaxPoolSize + MaxConnId
ASSUME SwitchesAssumption == HasIdleTimeout \in BOOLEAN /\ HasDeadline \in BOOLEAN
ASSUME BoundsAssumption ==
  /\ MaxGets \in Nat /\ MaxClears \in Nat /\ MaxMaintains \in Nat
  /\ MaxDisconnects \in Nat /\ MaxConnects \in Nat

VARIABLES
  connected,    \* pool.connected
  generation,   \* pool.generation
  nextid,       \* pool.nextid
  opened,       \* keys of pool.opened
  semCur,       \* semaphore.Weighted.cur
  waiters,      \* semaphore.Weighted.waiters, in arrival order
  idle,         \* resourcePool's list, start first
  total,        \* resourcePool.totalSize
  rpClosed,     \* resourcePool.closed
  rpLock,       \* which Maintain holds resourcePool's mutex between its steps
  cursor,       \* the place of Maintain's first loop in the list, 0 at its end
  timerArmed,   \* whether resourcePool.maintainTimer will fire
  conn,         \* the connections ever made
  idleExpired,  \* connections whose idle deadline has passed
  pc, loc,      \* per process: program counter and local connection
  toClose,      \* the slice of that name in disconnect
  deadlinePassed, \* whether the deadline of disconnect's context has passed
  startGen,     \* history: the generation when a getter called get
  closedEvents, \* history: ConnectionClosed events published per connection
  calls         \* number of calls made so far, to bound them

poolVars == <<connected, generation, nextid, opened>>
semVars  == <<semCur, waiters>>
rpCtl    == <<rpClosed, rpLock, cursor, timerArmed>>
rpVars   == <<idle, total, rpCtl>>
connVars == <<conn, idleExpired>>
procVars == <<pc, loc>>
downVars == <<toClose, deadlinePassed>>
histVars == <<startGen, closedEvents>>
vars == <<poolVars, semVars, rpVars, connVars, procVars, downVars, histVars, calls>>

allButConn == <<poolVars, semVars, rpVars, idleExpired, procVars, downVars, histVars, calls>>
allButPc   == <<poolVars, semVars, rpVars, connVars, loc, downVars, histVars, calls>>

Maintainers == {Timer, Admin}
Procs == Getters \cup Maintainers
ConnIds == 1..MaxConnId
NilConn == 0        \* the nil value connectionInitFunc returns on an error
-----------------------------------------------------------------------------
(* Types *)

(* connection.connected; "none" is a connection not made yet. *)
ConnStates == {"none", "initialized", "connected", "disconnected"}

(* Where connection.connect is: "spawned" is a goroutine not yet running,   *)
(* "failed" and "clearing" are processInitializationError and the callback  *)
(* Server.ProcessHandshakeError it makes; connectDone is closed in "over".  *)
Phases == {"none", "spawned", "dial", "handshake", "failed", "clearing", "over"}

(* Where the goroutine that runs closeConnection is. *)
CloserStates == {"none", "load", "wait", "cas"}

ConnRecord == [state : ConnStates, gen : Nat, phase : Phases, err : BOOLEAN,
               net : BOOLEAN, closer : CloserStates]

GetPCs == {"idle", "acquire", "queued", "loop", "get", "connect", "wait", "select",
           "make", "makeCheck", "makeInsert", "remove", "decr", "release",
           "holding", "put"}
MaintainPCs == {"idle", "init", "mLock", "mPrune", "mLoop", "make", "makeCheck", "makeInsert"}
DisconnectPCs == {"dClose", "dGen", "dWait", "dCopy", "dNext", "dLoad",
                  "dWaitConn", "dCas", "dState", "dClear"}

CallKinds == {"get", "clear", "maintain", "disconnect", "connect"}

PcType ==
  /\ pc \in [Procs -> GetPCs \cup MaintainPCs \cup DisconnectPCs]
  /\ \A g \in Getters : pc[g] \in GetPCs
  /\ pc[Timer] \in MaintainPCs /\ pc[Admin] \in MaintainPCs \cup DisconnectPCs

DataType ==
  /\ connected \in {"disconnected", "connected", "disconnecting"}
  /\ generation \in Nat
  /\ nextid \in 0..MaxConnId
  /\ opened \subseteq ConnIds
  /\ semCur \in 0..MaxPoolSize
  /\ waiters \in Seq(Getters)
  /\ idle \in Seq(ConnIds \cup {NilConn})
  /\ total \in 0..MaxUint
  /\ rpClosed \in BOOLEAN
  /\ rpLock \in Maintainers \cup {NoProc}
  /\ cursor \in Nat
  /\ timerArmed \in BOOLEAN
  /\ conn \in [ConnIds -> ConnRecord]
  /\ idleExpired \subseteq ConnIds
  /\ loc \in [Procs -> ConnIds \cup {NilConn}]
  /\ toClose \subseteq ConnIds
  /\ deadlinePassed \in BOOLEAN
  /\ startGen \in [Getters -> Nat]
  /\ closedEvents \in [ConnIds -> Nat]
  /\ calls \in [CallKinds -> Nat]

TypeOK == PcType /\ DataType

Unmade == [state |-> "none", gen |-> 0, phase |-> "none", err |-> FALSE,
           net |-> FALSE, closer |-> "none"]

(* newPool: the pool starts disconnected and empty. *)
Init ==
  /\ connected = "disconnected" /\ generation = 0 /\ nextid = 0 /\ opened = {}
  /\ semCur = 0 /\ waiters = <<>>
  /\ idle = <<>> /\ total = 0 /\ rpClosed = FALSE /\ rpLock = NoProc /\ cursor = 0
  /\ timerArmed = FALSE
  /\ conn = [c \in ConnIds |-> Unmade]
  /\ idleExpired = {}
  /\ pc = [p \in Procs |-> "idle"] /\ loc = [p \in Procs |-> NilConn]
  /\ toClose = {} /\ deadlinePassed = FALSE
  /\ startGen = [g \in Getters |-> 0]
  /\ closedEvents = [c \in ConnIds |-> 0]
  /\ calls = [k \in CallKinds |-> 0]
-----------------------------------------------------------------------------
(* Helpers *)

Goto(p, label) == pc' = [pc EXCEPT ![p] = label]

(* A bounded call by the environment. *)
Count(kind, bound) == calls[kind] < bound /\ calls' = [calls EXCEPT ![kind] = @ + 1]

(* rp.totalSize -= k and rp.totalSize++ on an unsigned integer. *)
Minus(n, k) == (n - k) % (MaxUint + 1)
Plus1(n) == (n + 1) % (MaxUint + 1)

(* pool.stale *)
Stale(c) == conn[c].gen < generation

(* connectionExpiredFunc; a nil element of the list is always expired. *)
ExpiredNotStale(c) ==
  c # NilConn =>
    \/ connected # "connected"
    \/ conn[c].state = "disconnected"
    \/ c \in idleExpired

Expired(c) ==
  c # NilConn =>
    \/ connected # "connected"
    \/ conn[c].state = "disconnected"
    \/ c \in idleExpired
    \/ Stale(c)

(* removeConnection for each connection of S: a connection found in opened  *)
(* is deleted from it and its ConnectionClosed event is published.          *)
RemoveUnchecked(S) ==
  /\ opened' = opened \ S
  /\ closedEvents' = [c \in ConnIds |->
       IF c \in S THEN closedEvents[c] + 1 ELSE closedEvents[c]]

RemoveConnections(S) ==
  /\ opened' = opened \ S
  /\ closedEvents' = [c \in ConnIds |->
       IF c \in S \cap opened THEN closedEvents[c] + 1 ELSE closedEvents[c]]

(* connectionCloseFunc for each connection of S: remove it and start the    *)
(* goroutine that closes it.                                                *)
CloseConnections(S) ==
  /\ RemoveConnections(S)
  /\ conn' = [c \in ConnIds |->
       IF c \in S THEN [conn[c] EXCEPT !.closer = "load"] ELSE conn[c]]

(* connection.close, and the end of closeConnection: only the first close   *)
(* of a connected connection closes the socket.                             *)
Closed(r) == IF r.state = "connected"
             THEN [r EXCEPT !.state = "disconnected", !.net = FALSE]
             ELSE r

Elements(s) == {s[i] : i \in 1..Len(s)}

(* A linked list without its element i. *)
Without(s, i) == [j \in 1..(Len(s) - 1) |-> IF j < i THEN s[j] ELSE s[j + 1]]
-----------------------------------------------------------------------------
(* pool.get *)

(* The first check of pool.connected; a pool that is not connected fails.   *)
GetStart(g) ==
  /\ pc[g] = "idle"
  /\ Count("get", MaxGets)
  /\ connected = "connected"
  /\ startGen' = [startGen EXCEPT ![g] = generation]
  /\ Goto(g, "acquire")
  /\ UNCHANGED <<poolVars, semVars, rpVars, connVars, loc, downVars, closedEvents>>

(* semaphore.Weighted.Acquire takes a permit at once, or joins the queue.   *)
PermitFreeOffByOne == semCur <= MaxPoolSize /\ waiters = <<>>
PermitFree == semCur < MaxPoolSize /\ waiters = <<>>

Acquire(g) ==
  /\ pc[g] = "acquire"
  /\ IF PermitFree
     THEN semCur' = semCur + 1 /\ waiters' = waiters /\ Goto(g, "loop")
     ELSE semCur' = semCur /\ waiters' = Append(waiters, g) /\ Goto(g, "queued")
  /\ UNCHANGED <<poolVars, rpVars, connVars, loc, downVars, histVars, calls>>

(* The context of a waiting get ends: ErrWaitQueueTimeout, no permit taken. *)
AcquireTimeout(g) ==
  /\ pc[g] = "queued"
  /\ \E i \in 1..Len(waiters) : waiters[i] = g /\ waiters' = Without(waiters, i)
  /\ Goto(g, "idle")
  /\ UNCHANGED <<poolVars, semCur, rpVars, connVars, loc, downVars, histVars, calls>>

(* The top of the loop: a pool no longer connected gives the permit back.   *)
GetLoop(g) ==
  /\ pc[g] = "loop"
  /\ Goto(g, IF connected = "connected" THEN "get" ELSE "release")
  /\ UNCHANGED allButPc

(* resourcePool.Get: drops expired connections from the start of the list   *)
(* until one that is not expired can be returned, which leaves the list.    *)
FirstFresh(first) ==
  /\ \A i \in 1..(first - 1) : Expired(idle[i])
  /\ first <= Len(idle) => ~Expired(idle[first])
DropInclusive(first) == {idle[i] : i \in DOMAIN idle \cap (1..first)} \ {NilConn}
DropBefore(first) == {idle[i] : i \in 1..(first - 1)} \ {NilConn}
RestInclusive(first) == SubSeq(idle, first, Len(idle))
RestAfter(first) == SubSeq(idle, first + 1, Len(idle))

RPGet(g) ==
  /\ pc[g] = "get" /\ rpLock = NoProc
  /\ \E first \in 1..(Len(idle) + 1) :
       /\ FirstFresh(first)
       /\ CloseConnections(DropBefore(first))
       /\ total' = Minus(total, first - 1)
       /\ idle' = RestAfter(first)
       /\ IF first > Len(idle)
          THEN loc' = loc /\ Goto(g, "select")
          ELSE loc' = [loc EXCEPT ![g] = idle[first]] /\ Goto(g, "connect")
  /\ UNCHANGED <<connected, generation, nextid, semVars, rpCtl, idleExpired, downVars,
                 startGen, calls>>

(* select on ctx.Done: the context has ended. *)
SelectTimeoutKeeps(g) ==
  /\ pc[g] = "select"
  /\ Goto(g, "idle")
  /\ UNCHANGED allButPc

SelectTimeout(g) ==
  /\ pc[g] = "select"
  /\ Goto(g, "release")
  /\ UNCHANGED allButPc

(* incrementTotal: at the maximum the caller tries the list again.          *)
AtMaxOffByOne == total > MaxPoolSize
AtMax == total >= MaxPoolSize

IncrementTotal(g) ==
  /\ pc[g] = "select" /\ rpLock = NoProc
  /\ IF AtMax
     THEN total' = total /\ Goto(g, "loop")
     ELSE total' = total + 1 /\ Goto(g, "make")
  /\ UNCHANGED <<poolVars, semVars, idle, rpCtl, connVars, loc, downVars, histVars, calls>>

(* get calls connection.connect if the connection is still initialized.     *)
GetConnect(g) ==
  /\ pc[g] = "connect"
  /\ conn' = IF conn[loc[g]].state = "initialized"
             THEN [conn EXCEPT ![loc[g]] = [@ EXCEPT !.state = "connected", !.phase = "dial"]]
             ELSE conn
  /\ Goto(g, "wait")
  /\ UNCHANGED <<poolVars, semVars, rpVars, idleExpired, loc, downVars, histVars, calls>>

(* connection.wait: get returns the connection, or starts to give it up.    *)
GetWaitNoRemove(g) ==
  /\ pc[g] = "wait"
  /\ conn[loc[g]].phase = "over"
  /\ Goto(g, IF conn[loc[g]].err THEN "decr" ELSE "holding")
  /\ UNCHANGED allButPc

GetWait(g) ==
  /\ pc[g] = "wait"
  /\ conn[loc[g]].phase = "over"
  /\ Goto(g, IF conn[loc[g]].err THEN "remove" ELSE "holding")
  /\ UNCHANGED allButPc

GetRemoveUncounted(g) ==
  /\ pc[g] = "remove"
  /\ RemoveConnections({loc[g]})
  /\ Goto(g, "release")
  /\ UNCHANGED <<connected, generation, nextid, semVars, rpVars, connVars, loc, downVars,
                 startGen, calls>>

GetRemove(g) ==
  /\ pc[g] = "remove"
  /\ RemoveConnections({loc[g]})
  /\ Goto(g, "decr")
  /\ UNCHANGED <<connected, generation, nextid, semVars, rpVars, connVars, loc, downVars,
                 startGen, calls>>

DecrementTotal(g) ==
  /\ pc[g] = "decr" /\ rpLock = NoProc
  /\ total' = Minus(total, 1)
  /\ loc' = [loc EXCEPT ![g] = NilConn]
  /\ Goto(g, "release")
  /\ UNCHANGED <<poolVars, semVars, idle, rpCtl, connVars, downVars, histVars, calls>>

(* semaphore.Weighted.Release gives a permit back and hands the free ones   *)
(* to the first waiters.                                                    *)
WokenNone == 0
Woken == LET free == MaxPoolSize - (semCur - 1)
         IN  IF Len(waiters) < free THEN Len(waiters) ELSE free

Release(g) ==
  /\ pc[g] = "release"
  /\ semCur' = semCur - 1 + Woken
  /\ waiters' = SubSeq(waiters, Woken + 1, Len(waiters))
  /\ pc' = [p \in Procs |-> IF p = g THEN "idle"
                            ELSE IF p \in {waiters[i] : i \in 1..Woken} THEN "loop"
                            ELSE pc[p]]
  /\ UNCHANGED <<poolVars, rpVars, connVars, loc, downVars, histVars, calls>>
-----------------------------------------------------------------------------
(* makeNewConnection, called by get and, with resourcePool locked, by       *)
(* Maintain through connectionInitFunc.                                     *)

(* The identifier is taken and the generation is read. *)
MakeConnection(p) ==
  /\ pc[p] = "make"
  /\ nextid < MaxConnId
  /\ nextid' = nextid + 1
  /\ conn' = [conn EXCEPT ![nextid + 1] =
                [@ EXCEPT !.state = "initialized", !.gen = generation]]
  /\ loc' = [loc EXCEPT ![p] = nextid + 1]
  /\ Goto(p, "makeCheck")
  /\ UNCHANGED <<connected, generation, opened, semVars, rpVars, idleExpired, downVars,
                 histVars, calls>>

(* The pool is no longer connected: ConnectionClosed is published by hand,  *)
(* and closeConnection does nothing to an initialized connection. Maintain  *)
(* adds a nil element to the list.                                          *)
MakeRefused(p) ==
  /\ pc[p] = "makeCheck" /\ connected # "connected"
  /\ closedEvents' = [closedEvents EXCEPT ![loc[p]] = @ + 1]
  /\ loc' = [loc EXCEPT ![p] = NilConn]
  /\ IF p \in Maintainers
     THEN idle' = <<NilConn>> \o idle /\ total' = Plus1(total) /\ Goto(p, "mLoop")
     ELSE UNCHANGED <<idle, total>> /\ Goto(p, "decr")
  /\ UNCHANGED <<poolVars, semVars, rpCtl, connVars, downVars, startGen, calls>>

MakeChecked(p) ==
  /\ pc[p] = "makeCheck" /\ connected = "connected"
  /\ Goto(p, "makeInsert")
  /\ UNCHANGED allButPc

(* The connection enters opened. A getter goes on to connect it; Maintain   *)
(* starts a goroutine to connect it and adds it to the list.                *)
MakeInsert(p) ==
  /\ pc[p] = "makeInsert"
  /\ opened' = opened \cup {loc[p]}
  /\ IF p \in Maintainers
     THEN /\ conn' = [conn EXCEPT ![loc[p]].phase = "spawned"]
          /\ idle' = <<loc[p]>> \o idle
          /\ total' = Plus1(total)
          /\ loc' = [loc EXCEPT ![p] = NilConn]
          /\ Goto(p, "mLoop")
     ELSE /\ Goto(p, "connect")
          /\ UNCHANGED <<conn, idle, total, loc>>
  /\ UNCHANGED <<connected, generation, nextid, semVars, rpCtl, idleExpired, downVars,
                 histVars, calls>>
-----------------------------------------------------------------------------
(* The user of a checked-out connection, and pool.put. *)

(* A wire message is written or read: bumpIdleDeadline. *)
UseSucceeds(g) ==
  /\ pc[g] = "holding"
  /\ conn[loc[g]].state = "connected"
  /\ idleExpired' = idleExpired \ {loc[g]}
  /\ UNCHANGED <<poolVars, semVars, rpVars, conn, procVars, downVars, histVars, calls>>

(* A network error or a cancelled context during an operation closes the    *)
(* connection.                                                              *)
UseFails(g) ==
  /\ pc[g] = "holding"
  /\ conn[loc[g]].state = "connected"
  /\ conn' = [conn EXCEPT ![loc[g]] = Closed(@)]
  /\ UNCHANGED allButConn

(* Connection.Close *)
ReturnConnection(g) ==
  /\ pc[g] = "holding"
  /\ Goto(g, "put")
  /\ UNCHANGED allButPc

(* Connection.Expire *)
ExpireConnection(g) ==
  /\ pc[g] = "holding"
  /\ conn' = [conn EXCEPT ![loc[g]] = Closed(@)]
  /\ Goto(g, "put")
  /\ UNCHANGED <<poolVars, semVars, rpVars, idleExpired, loc, downVars, histVars, calls>>

(* resourcePool.Put: an expired connection is closed, another goes to the   *)
(* start of the list. Put's deferred Release follows.                       *)
RPPut(g) ==
  /\ pc[g] = "put" /\ rpLock = NoProc
  /\ IF Expired(loc[g])
     THEN CloseConnections({loc[g]}) /\ total' = Minus(total, 1) /\ idle' = idle
     ELSE idle' = <<loc[g]>> \o idle /\ UNCHANGED <<total, opened, closedEvents, conn>>
  /\ loc' = [loc EXCEPT ![g] = NilConn]
  /\ Goto(g, "release")
  /\ UNCHANGED <<connected, generation, nextid, semVars, rpCtl, idleExpired, downVars,
                 startGen, calls>>
-----------------------------------------------------------------------------
(* The goroutines of a connection. *)

(* go c.connect: the compare-and-swap of the state decides who connects.    *)
BackgroundConnect(c) ==
  /\ conn[c].phase = "spawned"
  /\ conn[c].state = "initialized"
  /\ conn' = [conn EXCEPT ![c] = [@ EXCEPT !.state = "connected", !.phase = "dial"]]
  /\ UNCHANGED allButConn

DialSucceeds(c) ==
  /\ conn[c].phase = "dial"
  /\ conn' = [conn EXCEPT ![c] = [@ EXCEPT !.phase = "handshake", !.net = TRUE]]
  /\ UNCHANGED allButConn

(* The handshake's messages are refused once the state is disconnected; a   *)
(* close that also closes the socket may still come after the last message. *)
HandshakeSucceeds(c) ==
  /\ conn[c].phase = "handshake"
  /\ conn[c].state = "connected" \/ ~conn[c].net
  /\ conn' = [conn EXCEPT ![c].phase = "over"]
  /\ UNCHANGED allButConn

(* processInitializationError, up to the callback. *)
ConnectFails(c) ==
  /\ conn[c].phase \in {"dial", "handshake"}
  /\ conn' = [conn EXCEPT ![c] = [@ EXCEPT !.phase = "failed", !.state = "disconnected",
                                           !.net = FALSE, !.err = TRUE]]
  /\ UNCHANGED allButConn

(* Server.ProcessHandshakeError ignores the error of a stale connection;    *)
(* connectDone is closed all the same.                                      *)
HandshakeErrorNotDone(c) ==
  /\ conn[c].phase = "failed" /\ ~Stale(c)
  /\ conn' = [conn EXCEPT ![c].phase = "clearing"]
  /\ UNCHANGED allButConn

HandshakeErrorCheck(c) ==
  /\ conn[c].phase = "failed"
  /\ conn' = [conn EXCEPT ![c].phase = IF Stale(c) THEN "over" ELSE "clearing"]
  /\ UNCHANGED allButConn

(* ... and clears the pool for any other. *)
HandshakeErrorClear(c) ==
  /\ conn[c].phase = "clearing"
  /\ generation' = generation + 1
  /\ conn' = [conn EXCEPT ![c].phase = "over"]
  /\ UNCHANGED <<connected, nextid, opened, semVars, rpVars, idleExpired, procVars,
                 downVars, histVars, calls>>

(* The idle deadline of a connection passes. connect sets one before the    *)
(* handshake, whose messages set it again as they are written and read: it  *)
(* is taken not to pass while they are on their way.                        *)
IdleDeadlinePasses(c) ==
  /\ HasIdleTimeout /\ conn[c].phase = "over" /\ conn[c].state = "connected"
  /\ c \notin idleExpired
  /\ idleExpired' = idleExpired \cup {c}
  /\ UNCHANGED <<poolVars, semVars, rpVars, conn, procVars, downVars, histVars, calls>>

(* closeConnection reads the state, cancels and awaits a connect in         *)
(* progress, and closes the connection if it is connected then.             *)
CloserLoad(c) ==
  /\ conn[c].closer = "load"
  /\ conn' = [conn EXCEPT ![c].closer = IF conn[c].state = "connected" THEN "wait" ELSE "cas"]
  /\ UNCHANGED allButConn

CloserWait(c) ==
  /\ conn[c].closer = "wait" /\ conn[c].phase = "over"
  /\ conn' = [conn EXCEPT ![c].closer = "cas"]
  /\ UNCHANGED allButConn

CloserCas(c) ==
  /\ conn[c].closer = "cas"
  /\ conn' = [conn EXCEPT ![c] = [Closed(@) EXCEPT !.closer = "none"]]
  /\ UNCHANGED allButConn
-----------------------------------------------------------------------------
(* pool.clear, called by Server.ProcessError. *)
Clear ==
  /\ Count("clear", MaxClears)
  /\ generation' = generation + 1
  /\ UNCHANGED <<connected, nextid, opened, semVars, rpVars, connVars, procVars, downVars,
                 histVars>>

(* The maintenance timer fires. *)
TimerFires ==
  /\ pc[Timer] = "idle" /\ timerArmed
  /\ Count("maintain", MaxMaintains)
  /\ timerArmed' = FALSE
  /\ Goto(Timer, "mLock")
  /\ UNCHANGED <<poolVars, semVars, idle, total, rpClosed, rpLock, cursor, connVars, loc, downVars,
                 histVars>>

(* Maintain does nothing once the resource pool is closed. *)
MaintainStart(p) ==
  /\ pc[p] = "mLock" /\ rpLock = NoProc
  /\ IF rpClosed
     THEN Goto(p, "idle") /\ UNCHANGED <<rpLock, cursor>>
     ELSE Goto(p, "mPrune") /\ rpLock' = p /\ cursor' = Len(idle)
  /\ UNCHANGED <<poolVars, semVars, idle, total, rpClosed, timerArmed, connVars, loc, downVars,
                 histVars, calls>>

(* Its first loop goes through the list from the end and removes what is    *)
(* expired; the pool may be cleared or disconnected meanwhile.              *)
MaintainPrune(p) ==
  /\ pc[p] = "mPrune" /\ cursor > 0
  /\ IF Expired(idle[cursor])
     THEN /\ CloseConnections({idle[cursor]} \ {NilConn})
          /\ idle' = Without(idle, cursor)
          /\ total' = Minus(total, 1)
     ELSE UNCHANGED <<idle, total, opened, closedEvents, conn>>
  /\ cursor' = cursor - 1
  /\ UNCHANGED <<connected, generation, nextid, semVars, rpClosed, rpLock, timerArmed,
                 idleExpired, procVars, downVars, startGen, calls>>

MaintainPruned(p) ==
  /\ pc[p] = "mPrune" /\ cursor = 0
  /\ Goto(p, "mLoop")
  /\ UNCHANGED allButPc

(* The second loop adds a resource while totalSize < minSize, then the      *)
(* timer is set again and the lock released.                                *)
MaintainLoop(p) ==
  /\ pc[p] = "mLoop"
  /\ IF total < MinPoolSize
     THEN Goto(p, "make") /\ UNCHANGED <<rpLock, timerArmed>>
     ELSE Goto(p, "idle") /\ rpLock' = NoProc /\ timerArmed' = TRUE
  /\ UNCHANGED <<poolVars, semVars, idle, total, rpClosed, cursor, connVars, loc, downVars,
                 histVars, calls>>
-----------------------------------------------------------------------------
(* pool.connect *)

Connect ==
  /\ pc[Admin] = "idle" /\ connected = "disconnected"
  /\ Count("connect", MaxConnects)
  /\ connected' = "connected"
  /\ Goto(Admin, "init")
  /\ UNCHANGED <<generation, nextid, opened, semVars, rpVars, connVars, loc, downVars,
                 histVars>>

(* resourcePool.initialize sets the timer and runs Maintain. *)
Initialize ==
  /\ pc[Admin] = "init" /\ rpLock = NoProc
  /\ timerArmed' = TRUE
  /\ Goto(Admin, "mLock")
  /\ UNCHANGED <<poolVars, semVars, idle, total, rpClosed, rpLock, cursor, connVars, loc, downVars,
                 histVars, calls>>
-----------------------------------------------------------------------------
(* pool.disconnect *)

Disconnect ==
  /\ pc[Admin] = "idle" /\ connected = "connected"
  /\ Count("disconnect", MaxDisconnects)
  /\ connected' = "disconnecting"
  /\ deadlinePassed' = FALSE
  /\ Goto(Admin, "dClose")
  /\ UNCHANGED <<generation, nextid, opened, semVars, rpVars, connVars, loc, toClose,
                 histVars>>

(* The deadline of disconnect's context passes. *)
DeadlinePasses ==
  /\ HasDeadline /\ connected = "disconnecting" /\ ~deadlinePassed
  /\ deadlinePassed' = TRUE
  /\ UNCHANGED <<poolVars, semVars, rpVars, connVars, procVars, toClose, histVars, calls>>

(* resourcePool.Close *)
RPClose ==
  /\ pc[Admin] = "dClose" /\ rpLock = NoProc
  /\ CloseConnections(Elements(idle) \ {NilConn})
  /\ total' = Minus(total, Len(idle))
  /\ idle' = <<>>
  /\ rpClosed' = TRUE /\ timerArmed' = FALSE
  /\ Goto(Admin, "dGen")
  /\ UNCHANGED <<connected, generation, nextid, semVars, rpLock, cursor, idleExpired, loc,
                 downVars, startGen, calls>>

DisconnectGeneration ==
  /\ pc[Admin] = "dGen"
  /\ generation' = generation + 1
  /\ Goto(Admin, IF HasDeadline THEN "dWait" ELSE "dCopy")
  /\ UNCHANGED <<connected, nextid, opened, semVars, rpVars, connVars, loc, downVars,
                 histVars, calls>>

(* The cases of the select in the wait for checked-out connections. The     *)
(* timer is set to now minus the deadline, a negative duration while the    *)
(* deadline is ahead, so it is ready at once; afterwards ctx.Done is.       *)
WaitTimerReady == ~deadlinePassed
WaitContextDone == deadlinePassed
WaitTickerEmpty == opened = {}

DisconnectWait ==
  /\ pc[Admin] = "dWait"
  /\ WaitTimerReady \/ WaitContextDone \/ WaitTickerEmpty
  /\ Goto(Admin, "dCopy")
  /\ UNCHANGED allButPc

DisconnectCopy ==
  /\ pc[Admin] = "dCopy"
  /\ toClose' = opened
  /\ Goto(Admin, "dNext")
  /\ UNCHANGED <<poolVars, semVars, rpVars, connVars, loc, deadlinePassed, histVars, calls>>

(* The next connection of toClose (in map order, so any) is removed ...     *)
DisconnectRemove(c) ==
  /\ pc[Admin] = "dNext" /\ c \in toClose
  /\ toClose' = toClose \ {c}
  /\ RemoveConnections({c})
  /\ loc' = [loc EXCEPT ![Admin] = c]
  /\ Goto(Admin, "dLoad")
  /\ UNCHANGED <<connected, generation, nextid, semVars, rpVars, connVars, deadlinePassed,
                 startGen, calls>>

(* ... and closed by closeConnection. *)
DisconnectLoad ==
  /\ pc[Admin] = "dLoad"
  /\ Goto(Admin, IF conn[loc[Admin]].state = "connected" THEN "dWaitConn" ELSE "dCas")
  /\ UNCHANGED allButPc

DisconnectWaitConn ==
  /\ pc[Admin] = "dWaitConn" /\ conn[loc[Admin]].phase = "over"
  /\ Goto(Admin, "dCas")
  /\ UNCHANGED allButPc

DisconnectCas ==
  /\ pc[Admin] = "dCas"
  /\ conn' = [conn EXCEPT ![loc[Admin]] = Closed(@)]
  /\ loc' = [loc EXCEPT ![Admin] = NilConn]
  /\ Goto(Admin, "dNext")
  /\ UNCHANGED <<poolVars, semVars, rpVars, idleExpired, downVars, histVars, calls>>

DisconnectState ==
  /\ pc[Admin] = "dNext" /\ toClose = {}
  /\ connected' = "disconnected"
  /\ Goto(Admin, "dClear")
  /\ UNCHANGED <<generation, nextid, opened, semVars, rpVars, connVars, loc, downVars,
                 histVars, calls>>

(* clearTotal *)
ClearTotal ==
  /\ pc[Admin] = "dClear" /\ rpLock = NoProc
  /\ total' = 0
  /\ Goto(Admin, "idle")
  /\ UNCHANGED <<poolVars, semVars, idle, rpCtl, connVars, loc, downVars, histVars, calls>>
-----------------------------------------------------------------------------
GetStep(g) ==
  \/ Acquire(g) \/ GetLoop(g) \/ RPGet(g) \/ IncrementTotal(g) \/ GetConnect(g) \/ GetWait(g)
  \/ GetRemove(g) \/ DecrementTotal(g) \/ Release(g) \/ RPPut(g)

MakeStep(p) == MakeConnection(p) \/ MakeRefused(p) \/ MakeChecked(p) \/ MakeInsert(p)

UserStep(g) ==
  \/ UseSucceeds(g) \/ UseFails(g) \/ ReturnConnection(g) \/ ExpireConnection(g)

ConnectStep(c) ==
  \/ BackgroundConnect(c) \/ DialSucceeds(c) \/ HandshakeSucceeds(c) \/ ConnectFails(c)
  \/ HandshakeErrorCheck(c) \/ HandshakeErrorClear(c)

CloserStep(c) == CloserLoad(c) \/ CloserWait(c) \/ CloserCas(c)

MaintainStep(p) ==
  MaintainStart(p) \/ MaintainPrune(p) \/ MaintainPruned(p) \/ MaintainLoop(p)

DisconnectStep ==
  \/ RPClose \/ DisconnectGeneration \/ DisconnectWait \/ DisconnectCopy
  \/ \E c \in ConnIds : DisconnectRemove(c)
  \/ DisconnectLoad \/ DisconnectWaitConn \/ DisconnectCas \/ DisconnectState \/ ClearTotal

Next ==
  \/ \E g \in Getters : GetStart(g) \/ AcquireTimeout(g) \/ SelectTimeout(g)
                        \/ GetStep(g) \/ UserStep(g)
  \/ \E p \in Procs : MakeStep(p)
  \/ \E c \in ConnIds : ConnectStep(c) \/ CloserStep(c) \/ IdleDeadlinePasses(c)
  \/ \E p \in Maintainers : MaintainStep(p)
  \/ Clear \/ TimerFires \/ Connect \/ Initialize \/ Disconnect \/ DeadlinePasses
  \/ DisconnectStep

Spec == Init /\ [][Next]_vars

(* Goroutines that can run do run; a dial ends (connectTimeout), a user      *)
(* returns its connection, and a blocked get has a context without end.     *)
Fairness ==
  /\ \A g \in Getters : WF_vars(GetStep(g)) /\ WF_vars(ReturnConnection(g))
  /\ \A p \in Procs : WF_vars(MakeStep(p))
  /\ \A c \in ConnIds : WF_vars(ConnectStep(c)) /\ WF_vars(CloserStep(c))
  /\ \A p \in Maintainers : WF_vars(MaintainStep(p))
  /\ WF_vars(Initialize) /\ WF_vars(DisconnectStep)

FairSpec == Spec /\ Fairness
-----------------------------------------------------------------------------
(* Properties *)

(* Positions of a getter that has acquired the semaphore. *)
PermitPCs == {"loop", "get", "connect", "wait", "select", "make", "makeCheck",
              "makeInsert", "remove", "decr", "release", "holding", "put"}

(* Positions of a getter whose connection totalSize counts. *)
CountedPCs == {"connect", "wait", "make", "makeCheck", "makeInsert", "remove", "decr",
               "holding", "put"}

(* Positions of a process that alone refers to the connection loc[p].       *)
OwningPCs == {"connect", "wait", "makeCheck", "makeInsert", "remove", "holding", "put"}

PermitHolders == {g \in Getters : pc[g] \in PermitPCs}
Counted == {g \in Getters : pc[g] \in CountedPCs}
Owners == {p \in Procs : pc[p] \in OwningPCs}

(* Every path through get and put that acquired the semaphore releases it   *)
(* exactly once: cur counts the getters between Acquire and Release.        *)
PermitsConserved == semCur = Cardinality(PermitHolders)

(* While any get waits for the semaphore all permits are out, so that the   *)
(* next Release wakes it: no get sleeps beside a free permit.               *)
NoLostWakeup == waiters # <<>> => semCur = MaxPoolSize

(* Until the first disconnect has cleared it, totalSize counts exactly the  *)
(* idle connections and those checked out or being made, on every error     *)
(* path of get, put and Maintain.                                           *)
FirstLifetime ==
  \/ calls["disconnect"] = 0
  \/ calls["disconnect"] = 1 /\ pc[Admin] \in DisconnectPCs
TotalIsExact == FirstLifetime => total = Len(idle) + Cardinality(Counted)

(* The loop in get and Maintain never open more than maxPoolSize            *)
(* connections between them.                                                *)
AtMostMaxPoolSize == Cardinality(opened) <= MaxPoolSize

(* The pool's size is what it counts and what it allows, on every path of   *)
(* get, put and Maintain (resource_pool.go, totalSize).                     *)
SizeIsRight == TotalIsExact /\ AtMostMaxPoolSize

(* A connection is owned by at most one goroutine and is never idle and     *)
(* checked out at once, nor twice in the list.                              *)
ExclusiveCheckout ==
  /\ \A p, q \in Owners : p # q => loc[p] # loc[q]
  /\ \A p \in Owners : loc[p] \notin Elements(idle)
  /\ \A i, j \in DOMAIN idle : i # j /\ idle[i] # NilConn => idle[i] # idle[j]

(* No open connection is lost: each one is in the list, or in the hands of  *)
(* a goroutine that will return or remove it.                               *)
NoLostConnection == opened \subseteq Elements(idle) \cup {loc[p] : p \in Owners}

(* Each ConnectionCreated event is matched by at most one ConnectionClosed  *)
(* event, published exactly when the connection has left the pool.          *)
ClosedEventsMatch ==
  \A c \in 1..nextid :
    LET beingMade == \E p \in Procs : loc[p] = c /\ pc[p] \in {"makeCheck", "makeInsert"}
    IN  closedEvents[c] = IF c \in opened \/ beingMade THEN 0 ELSE 1

(* A get that starts after a clear never returns a connection from before   *)
(* that clear, whether it came from the list or was made for it.            *)
FreshCheckout ==
  \A g \in Getters : pc[g] \in {"connect", "wait", "holding"} =>
    conn[loc[g]].gen >= startGen[g]

(* Without a disconnect, the user of a connection is the only one that can  *)
(* have it closed: no ConnectionClosed event for a checked-out connection.  *)
ClosedNotHeld ==
  calls["disconnect"] = 0 =>
    \A g \in Getters : pc[g] \in {"wait", "holding", "put"} => closedEvents[loc[g]] = 0

(* A connection is in good hands as long as it is open: somebody will close *)
(* it, and nobody does while it is in use (pool.go, closeConnection;        *)
(* resource_pool.go, Maintain).                                             *)
ConnectionsKept == NoLostConnection /\ ClosedNotHeld

(* Every call of get returns: neither the semaphore, nor the loop around    *)
(* incrementTotal, nor the wait for another goroutine's connect blocks it   *)
(* for ever.                                                                *)
GetReturns ==
  \A g \in Getters : pc[g] \notin {"idle", "holding"} ~> pc[g] \in {"idle", "holding"}

(* Every call of disconnect returns, although it waits for the connects in  *)
(* progress of the connections it closes.                                   *)
DisconnectReturns == pc[Admin] \in DisconnectPCs ~> pc[Admin] = "idle"

(* Neither get nor disconnect waits for ever, though each waits for the     *)
(* goroutines of the other (pool.go, get and disconnect).                   *)
CallsReturn == GetReturns /\ DisconnectReturns

(* The comment of Server.Disconnect: in-use connections are closed only if  *)
(* the context expires before they have been returned.                      *)
InUseClosedOnlyAfterDeadline ==
  pc[Admin] = "dCas" /\ ~deadlinePassed =>
    \A g \in Getters : pc[g] = "holding" => loc[g] # loc[Admin]

(* The comment of Server.Disconnect: once it has returned, and every        *)
(* goroutine has finished, all connections have been closed.                *)
Quiet ==
  /\ \A p \in Procs : pc[p] = "idle"
  /\ \A c \in ConnIds : conn[c].phase \in {"none", "over"} /\ conn[c].closer = "none"
AllClosedAfterDisconnect ==
  Quiet /\ connected = "disconnected" => \A c \in ConnIds : ~conn[c].net
=============================================================================
