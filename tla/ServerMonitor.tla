--------------------------- MODULE ServerMonitor ---------------------------
(***************************************************************************)
(* The monitoring of one server (topology/server.go, rtt_monitor.go and    *)
(* the parts of connection.go they use). Server.update runs a heartbeat    *)
(* after the other, rttMonitor.start measures round trips on a connection  *)
(* of its own, goroutines whose operation or handshake failed report it    *)
(* with ProcessError or ProcessHandshakeError, and Disconnect ends all of  *)
(* it. The Topology is the callback of updateDescription, the pool its     *)
(* generation: modules Topology and ConnectionPool model them.             *)
(*                                                                         *)
(* A step that holds a lock is one action. Dialing, writing and reading    *)
(* are steps of their own, in which the other goroutines may run.          *)
(***************************************************************************)
EXTENDS Integers, FiniteSets

CONSTANTS
  Workers,     \* goroutines that run one operation each
  Subscribers, \* goroutines that Subscribe and may Unsubscribe
  Failures,    \* how an operation may fail, a subset of OpFailures
  Versions,    \* topology versions, 0 for none
  Conns        \* connection objects of the two monitors, used again when garbage

None == 0
OpFailures ==
  {"notMaster", "shuttingDown", "network", "timeout", "other", "handshake", "handshakeOther"}

ASSUME MonitorAssumption ==
  /\ Failures \subseteq OpFailures /\ Failures # {}
  /\ Versions \subseteq Nat /\ Versions # {}
  /\ Conns \subseteq Nat \ {None} /\ IsFiniteSet(Conns)
ASSUME WorkersAssumption ==
  None \notin Workers /\ \A w \in Workers : w \notin {"update", "rtt", "disconnect"}

Monitors == {"update", "rtt"}
Cancellers == Workers \cup {"disconnect"}

VARIABLES
  pc,        \* position of every goroutine
  state,     \* Server.connectionstate
  callback,  \* whether updateTopologyCallback is set
  done,      \* whether the channel done is closed
  global,    \* whether globalCtx is cancelled
  rttCtx,    \* whether rttMonitor.ctx is cancelled
  conns,     \* the monitors' connections
  cur,       \* Server.conn and rttMonitor.conn
  held,      \* the connection a goroutine in cancelCheck or disconnect has read
  desc,      \* Server.desc
  topDesc,   \* the server's description in the Topology
  upd,       \* the argument, then the result, of the callback in updateDescription
  mdesc,     \* the description check returned
  prevKnown, \* previousDescription.Kind # Unknown
  checkNow,  \* whether the channel checkNow holds a request
  rttSet,    \* rttMonitor.averageRTTSet
  errLock,   \* the holder of processErrorLock
  fail,      \* the error of each worker's operation, with its topology version
             \* and the one of the connection it came over
  stale,     \* who has cleared the pool since each worker's connection was made:
             \* it is of an older generation if anyone has
  subs,      \* the subscriptions: registered, refused, closed
  chans,     \* the description in each subscription's channel
  replies    \* the topology versions this server reports: an old one has none

monVars == <<mdesc, prevKnown, rttSet>>
ctxVars == <<state, callback, done, global, rttCtx>>
connVars == <<conns, cur, held>>
descVars == <<desc, topDesc, upd>>
opVars == <<errLock, fail, stale>>
subVars == <<subs, chans>>
appVars == <<opVars, subVars, checkNow, replies>>
vars == <<pc, monVars, ctxVars, connVars, descVars, appVars>>

(* A connection: connected is the field of that name, step how far connect  *)
(* is, open its socket, cancelled the context it was made with, dropped     *)
(* whether closeConnectContext has cancelled the context of its connect,    *)
(* owner the monitor that made it.                                          *)
Connection ==
  [connected : {"initialized", "connected", "disconnected"},
   step : {"none", "dial", "hello", "done"},
   open : BOOLEAN, cancelled : BOOLEAN, dropped : BOOLEAN, streaming : BOOLEAN, owner : Monitors]
NewConnection(m) ==
  [connected |-> "initialized", step |-> "none", open |-> FALSE, cancelled |-> FALSE,
   dropped |-> FALSE, streaming |-> FALSE, owner |-> m]
Garbage == [NewConnection("rtt") EXCEPT !.connected = "disconnected", !.step = "done"]

Errors == {"none", "network", "command", "cancelled"}
Desc == [known : BOOLEAN, tv : Versions \cup {0}, err : Errors]
Known(tv) == [known |-> TRUE, tv |-> tv, err |-> "none"]
Unknown(err, tv) == [known |-> FALSE, tv |-> tv, err |-> err]   \* NewServerFromError
Default == Unknown("none", 0)                                   \* NewDefaultServer

UpdatePCs == {"loop", "check", "connect", "connecting", "read", "failed", "apply", "store",
              "next", "wait", "exited"}
RttPCs == {"loop", "check", "connect", "connecting", "read", "exited"}
WorkerPCs == {"idle", "op", "error", "apply", "store", "after", "cancel", "cancelDial",
              "cancelClose", "end"}
DisconnectPCs == {"idle", "global", "done", "cancel", "cancelDial", "cancelClose",
                  "rtt", "rttRead", "rttDial", "rttClose", "rttWait", "updateWait", "end"}

Clearers == {"error", "handshake", "heartbeat"}   \* the callers of pool.clear

PcType ==
  /\ pc \in [Monitors \cup Cancellers -> UpdatePCs \cup RttPCs \cup WorkerPCs \cup DisconnectPCs]
  /\ pc["update"] \in UpdatePCs /\ pc["rtt"] \in RttPCs /\ pc["disconnect"] \in DisconnectPCs
  /\ \A w \in Workers : pc[w] \in WorkerPCs

ConnType ==
  /\ conns \in [Conns -> Connection]
  /\ cur \in [Monitors -> Conns \cup {None}] /\ held \in [Cancellers -> Conns \cup {None}]

DataType ==
  /\ state \in {"connected", "disconnecting", "disconnected"}
  /\ callback \in BOOLEAN /\ done \in BOOLEAN /\ global \in BOOLEAN /\ rttCtx \in BOOLEAN
  /\ desc \in Desc /\ topDesc \in Desc /\ upd \in [Workers \cup {"update"} -> Desc]
  /\ mdesc \in Desc /\ prevKnown \in BOOLEAN /\ checkNow \in BOOLEAN /\ rttSet \in BOOLEAN
  /\ errLock \in Workers \cup {None}
  /\ fail \in [Workers -> [kind : OpFailures \cup {"none"}, tv : Versions \cup {0},
                           connTV : Versions \cup {0}]]
  /\ stale \in [Workers -> SUBSET Clearers]
  /\ subs \in [Subscribers -> {"idle", "loaded", "on", "refused", "closed"}]
  /\ chans \in [Subscribers -> Desc]
  /\ replies \subseteq Versions

TypeOK == PcType /\ ConnType /\ DataType

(* Server.Connect: both monitors have been started. *)
NoFailure == [kind |-> "none", tv |-> 0, connTV |-> 0]
Init ==
  /\ pc = [p \in Monitors \cup Cancellers |-> IF p \in Monitors THEN "loop" ELSE "idle"]
  /\ state = "connected" /\ callback = TRUE /\ done = FALSE /\ global = FALSE /\ rttCtx = FALSE
  /\ conns = [c \in Conns |-> Garbage]
  /\ cur = [m \in Monitors |-> None] /\ held = [p \in Cancellers |-> None]
  /\ desc = Default /\ topDesc = Default /\ upd = [p \in Workers \cup {"update"} |-> Default]
  /\ mdesc = Default /\ prevKnown = FALSE /\ checkNow = FALSE /\ rttSet = FALSE
  /\ errLock = None /\ fail = [w \in Workers |-> NoFailure]
  /\ stale = [w \in Workers |-> {}]
  /\ subs = [i \in Subscribers |-> "idle"] /\ chans = [i \in Subscribers |-> Default]
  /\ replies \in {r \in SUBSET Versions : r # {} /\ (0 \in r => r = {0})}

Goto(p, l) == pc' = [pc EXCEPT ![p] = l]
-----------------------------------------------------------------------------
(* Connections *)

ContextDone(m) == IF m = "update" THEN global \/ conns[cur[m]].cancelled ELSE rttCtx
ConnectContextDone(m) == ContextDone(m) \/ conns[cur[m]].dropped
Alive(c) == conns[c].connected = "connected"
Gone(m) == IF cur[m] = None THEN TRUE ELSE conns[cur[m]].connected = "disconnected"

(* connection.close: only the first call closes the socket. *)
Close(c) ==
  IF Alive(c) THEN [conns EXCEPT ![c].connected = "disconnected", ![c].open = FALSE] ELSE conns

(* The objects to make a connection of: nobody refers to them, but for the  *)
(* field that gets the new one, and their socket is closed.                 *)
Free(m) == {c \in Conns : /\ ~conns[c].open
                          /\ \A n \in Monitors \ {m} : cur[n] # c
                          /\ \A p \in Cancellers : held[p] # c}

(* setupHeartbeatConnection and setupRttConnection, up to the call of       *)
(* connect: the new connection replaces the old one under the lock.         *)
SetupConnection(m) ==
  /\ Free(m) # {}
  /\ LET c == CHOOSE d \in Free(m) : \A e \in Free(m) : d <= e
     IN  /\ conns' = [d \in Conns |-> IF d = c THEN NewConnection(m)
                                       ELSE IF d \in Free(m) THEN Garbage ELSE conns[d]]
         /\ cur' = [cur EXCEPT ![m] = c]
  /\ Goto(m, "connect")
  /\ UNCHANGED held

(* connection.connect makes its context known and dials.                    *)
StartConnect(m) ==
  /\ pc[m] = "connect"
  /\ conns' = [conns EXCEPT ![cur[m]].connected = "connected", ![cur[m]].step = "dial"]
  /\ Goto(m, "connecting")
  /\ UNCHANGED <<monVars, ctxVars, cur, held, descVars, appVars>>

(* The dial succeeds and the handshake has sent its isMaster: both ask the  *)
(* context first. The reply may still arrive after a cancellation, if the   *)
(* listener has not closed the connection.                                  *)
DialSucceeds(m) ==
  /\ pc[m] = "connecting" /\ conns[cur[m]].step = "dial" /\ ~ConnectContextDone(m)
  /\ conns' = [conns EXCEPT ![cur[m]].step = "hello", ![cur[m]].open = TRUE]
  /\ UNCHANGED <<pc, monVars, ctxVars, cur, held, descVars, appVars>>

(* The reply is read, and gives the round trip monitor a sample.            *)
Greeted(m) ==
  /\ pc[m] = "connecting" /\ conns[cur[m]].step = "hello" /\ Alive(cur[m])
  /\ conns' = [conns EXCEPT ![cur[m]].step = "done"]
  /\ rttSet' = TRUE

(* processInitializationError: the error is a cancellation if the context   *)
(* says so, a network error otherwise.                                      *)
ConnectFails(m) ==
  /\ pc[m] = "connecting"
  /\ conns' = [conns EXCEPT ![cur[m]].connected = "disconnected", ![cur[m]].open = FALSE,
                            ![cur[m]].step = "done"]
FailureOf(m) ==
  IF ConnectContextDone(m) \/ ~Alive(cur[m]) THEN "cancelled" ELSE "network"

(* The cancellation listener of a read or write closes the connection.      *)
ListenerCloses(m) ==
  /\ \/ pc[m] = "connecting" /\ conns[cur[m]].step = "hello" /\ ConnectContextDone(m)
     \/ pc[m] = "read" /\ ContextDone(m)
  /\ Alive(cur[m])
  /\ conns' = Close(cur[m])
  /\ UNCHANGED <<pc, monVars, ctxVars, cur, held, descVars, appVars>>

(* The reply to a heartbeat or ping on an existing connection.              *)
Replied(m) == pc[m] = "read" /\ Alive(cur[m])
-----------------------------------------------------------------------------
(* updateDescription, called by update and by the workers *)

(* The callback is Topology.apply: an older topology version is answered    *)
(* with the description at hand.                                            *)
Newer(d, e) == d.tv # 0 /\ e.tv # 0 /\ d.tv > e.tv
UpdateTopology(p) ==
  /\ pc[p] = "apply"
  /\ IF callback /\ ~Newer(topDesc, upd[p])
     THEN topDesc' = upd[p] /\ UNCHANGED upd
     ELSE /\ upd' = IF callback THEN [upd EXCEPT ![p] = topDesc] ELSE upd
          /\ UNCHANGED topDesc
  /\ Goto(p, "store")
  /\ UNCHANGED <<monVars, ctxVars, connVars, desc, appVars>>

(* Every subscriber's channel is drained and filled with what is stored.    *)
Notify(d) == chans' = [i \in Subscribers |-> IF subs[i] = "on" THEN d ELSE chans[i]]
StoreOnlyKnown(p) ==
  /\ pc[p] = "store"
  /\ desc' = IF upd[p].known THEN upd[p] ELSE desc
  /\ Notify(desc')
  /\ Goto(p, IF p = "update" THEN "next" ELSE "after")
  /\ UNCHANGED <<monVars, ctxVars, connVars, topDesc, upd, opVars, subs, checkNow, replies>>
StoreDescription(p) ==
  /\ pc[p] = "store"
  /\ desc' = upd[p]
  /\ Notify(desc')
  /\ Goto(p, IF p = "update" THEN "next" ELSE "after")
  /\ UNCHANGED <<monVars, ctxVars, connVars, topDesc, upd, opVars, subs, checkNow, replies>>

UpdateDescription(p) == UpdateTopology(p) \/ StoreDescription(p)

(* pool.clear raises the generation: the connection of every operation      *)
(* under way, until the operation's own error is dealt with, is stale.      *)
PoolCleared(by) ==
  [w \in Workers |->
     IF pc[w] \in {"op", "error", "apply", "store", "after"} THEN stale[w] \cup {by} ELSE stale[w]]
-----------------------------------------------------------------------------
(* Server.update *)

UpdateLoopDeaf ==
  /\ pc["update"] = "loop"
  /\ prevKnown' = desc.known
  /\ Goto("update", "check")
  /\ UNCHANGED <<mdesc, rttSet, ctxVars, connVars, descVars, appVars>>
UpdateLoop ==
  /\ pc["update"] = "loop" /\ ~done
  /\ prevKnown' = desc.known
  /\ Goto("update", "check")
  /\ UNCHANGED <<mdesc, rttSet, ctxVars, connVars, descVars, appVars>>

(* closeServer: subscriptions and the heartbeat connection are closed.      *)
CloseServer ==
  /\ pc["update"] = "loop" /\ done
  /\ subs' = [i \in Subscribers |-> IF subs[i] = "on" THEN "closed" ELSE subs[i]]
  /\ conns' = IF cur["update"] = None THEN conns ELSE Close(cur["update"])
  /\ Goto("update", "exited")
  /\ UNCHANGED <<monVars, ctxVars, cur, held, descVars, opVars, chans, checkNow, replies>>

(* check: a new connection for the first check, and after an error or a     *)
(* cancellation of the last one.                                            *)
NeedsConnection == IF Gone("update") THEN TRUE ELSE ContextDone("update")
CheckConnects ==
  /\ pc["update"] = "check" /\ NeedsConnection
  /\ SetupConnection("update")
  /\ UNCHANGED <<monVars, ctxVars, descVars, appVars>>
CheckAsks ==
  /\ pc["update"] = "check" /\ ~NeedsConnection
  /\ Goto("update", "read")
  /\ UNCHANGED <<monVars, ctxVars, connVars, descVars, appVars>>

CheckReturns(d) == mdesc' = d /\ upd' = [upd EXCEPT !["update"] = d] /\ Goto("update", "apply")
UpdateGreeted ==
  /\ Greeted("update")
  /\ \E v \in replies : CheckReturns(Known(v))
  /\ UNCHANGED <<prevKnown, ctxVars, cur, held, desc, topDesc, appVars>>

(* The reply of a heartbeat. A server whose topology version is known is    *)
(* asked to stream, and says with every reply whether more are to come.     *)
UpdateReplied ==
  /\ Replied("update")
  /\ \E v \in replies : CheckReturns(Known(v))
  /\ \E more \in BOOLEAN :
       /\ more => desc.tv # 0 \/ conns[cur["update"]].streaming
       /\ conns' = [conns EXCEPT ![cur["update"]].streaming = more]
  /\ UNCHANGED <<prevKnown, rttSet, ctxVars, cur, held, desc, topDesc, appVars>>

(* A failed heartbeat closes the connection. The server may also answer     *)
(* with an error of its own.                                                *)
FailCheck(err) == mdesc' = Unknown(err, 0) /\ Goto("update", "failed")
UpdateConnectFails ==
  /\ ConnectFails("update") /\ FailCheck(FailureOf("update"))
  /\ UNCHANGED <<prevKnown, rttSet, ctxVars, cur, held, descVars, appVars>>
UpdateReadFailsOpen ==
  /\ pc["update"] = "read"
  /\ FailCheck(FailureOf("update"))
  /\ UNCHANGED <<conns, prevKnown, rttSet, ctxVars, cur, held, descVars, appVars>>
UpdateReadFails ==
  /\ pc["update"] = "read"
  /\ conns' = Close(cur["update"])
  /\ \/ FailCheck(FailureOf("update"))
     \/ /\ Replied("update") /\ Goto("update", "failed")
        /\ \E v \in replies : mdesc' = Unknown("command", v)
  /\ UNCHANGED <<prevKnown, rttSet, ctxVars, cur, held, descVars, appVars>>

(* checkWasCancelled: a cancelled check reports nothing and update waits    *)
(* for the next one; any other failure resets the round trip time and is    *)
(* reported.                                                                *)
CancellationIgnored == FALSE
CheckWasCancelled == ContextDone("update")
CheckCancelled ==
  /\ pc["update"] = "failed" /\ CheckWasCancelled
  /\ Goto("update", IF state = "connected" THEN "wait" ELSE "loop")
  /\ mdesc' = Default /\ prevKnown' = FALSE
  /\ UNCHANGED <<rttSet, ctxVars, connVars, descVars, appVars>>
CheckFailed ==
  /\ pc["update"] = "failed" /\ ~CheckWasCancelled
  /\ rttSet' = FALSE
  /\ CheckReturns(mdesc)
  /\ UNCHANGED <<prevKnown, ctxVars, connVars, desc, topDesc, appVars>>

(* After updateDescription: the pool is cleared if the check failed, and    *)
(* the next check follows at once if the server streams or has just been    *)
(* lost.                                                                    *)
AtOnce ==
  \/ mdesc.known /\ mdesc.tv # 0
  \/ conns[cur["update"]].streaming
  \/ mdesc.err \in {"network", "cancelled"} /\ prevKnown
UpdateNext ==
  /\ pc["update"] = "next"
  /\ stale' = IF mdesc.err = "none" THEN stale ELSE PoolCleared("heartbeat")
  /\ Goto("update", IF AtOnce THEN "loop" ELSE "wait")
  /\ mdesc' = Default /\ prevKnown' = FALSE /\ upd' = [upd EXCEPT !["update"] = Default]
  /\ UNCHANGED <<rttSet, ctxVars, connVars, desc, topDesc, errLock, fail, subVars, checkNow, replies>>

(* waitUntilNextCheck: the heartbeat ticker, a request (which is used up)   *)
(* or the end of the server; the rate limiter that follows only takes time. *)
WaitForRequest ==
  /\ pc["update"] = "wait" /\ checkNow
  /\ Goto("update", "loop")
  /\ checkNow' = FALSE
  /\ UNCHANGED <<monVars, ctxVars, connVars, descVars, opVars, subVars, replies>>
WaitForCheck ==
  /\ pc["update"] = "wait"
  /\ Goto("update", "loop")
  /\ checkNow' \in {checkNow, FALSE}
  /\ UNCHANGED <<monVars, ctxVars, connVars, descVars, opVars, subVars, replies>>

Update ==
  \/ UpdateLoop \/ CloseServer \/ CheckConnects \/ CheckAsks \/ StartConnect("update")
  \/ DialSucceeds("update") \/ UpdateGreeted \/ UpdateConnectFails
  \/ UpdateReplied \/ UpdateReadFails \/ CheckCancelled \/ CheckFailed
  \/ UpdateDescription("update") \/ UpdateNext \/ WaitForCheck
-----------------------------------------------------------------------------
(* rttMonitor.start *)

(* The ticker, or the first iteration: the context is asked, then pinged.   *)
RttLoop ==
  /\ pc["rtt"] = "loop"
  /\ Goto("rtt", IF rttCtx THEN "exited" ELSE "check")
  /\ UNCHANGED <<monVars, ctxVars, connVars, descVars, appVars>>

(* pingServer *)
RttConnects ==
  /\ pc["rtt"] = "check" /\ Gone("rtt")
  /\ SetupConnection("rtt")
  /\ UNCHANGED <<monVars, ctxVars, descVars, appVars>>
RttAsks ==
  /\ pc["rtt"] = "check" /\ ~Gone("rtt")
  /\ Goto("rtt", "read")
  /\ UNCHANGED <<monVars, ctxVars, connVars, descVars, appVars>>
RttSample ==
  /\ \/ Greeted("rtt")
     \/ Replied("rtt") /\ rttSet' = TRUE /\ UNCHANGED conns
  /\ Goto("rtt", "loop")
  /\ UNCHANGED <<mdesc, prevKnown, ctxVars, cur, held, descVars, appVars>>
RttFails ==
  /\ \/ ConnectFails("rtt")
     \/ pc["rtt"] = "read" /\ conns' = Close(cur["rtt"])
  /\ Goto("rtt", "loop")
  /\ UNCHANGED <<monVars, ctxVars, cur, held, descVars, appVars>>
Rtt ==
  \/ RttLoop \/ RttConnects \/ RttAsks \/ StartConnect("rtt") \/ DialSucceeds("rtt")
  \/ RttSample \/ RttFails
-----------------------------------------------------------------------------
(* Operations that fail: ProcessError and ProcessHandshakeError *)

Checkout(w) ==
  /\ pc[w] = "idle"
  /\ Goto(w, "op")
  /\ UNCHANGED <<monVars, ctxVars, connVars, descVars, appVars>>

NotMasterFailures == {"notMaster", "shuttingDown"}
HandshakeFailures == {"handshake", "handshakeOther"}

OperationFails(w) ==
  /\ pc[w] = "op"
  /\ \E k \in Failures, v \in replies \cup {0}, cv \in replies \cup {0} :
       /\ k \notin NotMasterFailures => v = 0 /\ cv = 0
       /\ fail' = [fail EXCEPT ![w] = [kind |-> k, tv |-> v, connTV |-> cv]]
  /\ Goto(w, "error")
  /\ UNCHANGED <<monVars, ctxVars, connVars, descVars, errLock, stale, subVars, checkNow, replies>>

(* CompareTopologyVersion(conn, error) >= 0: equal or older is stale, and   *)
(* a missing version is older than any.                                     *)
StaleVersion(w) == fail[w].connTV # 0 /\ fail[w].tv # 0 /\ fail[w].connTV >= fail[w].tv
Ignored(w) ==
  \/ stale[w] # {}
  \/ fail[w].kind \in {"timeout", "other", "handshakeOther"}
  \/ fail[w].kind \in NotMasterFailures /\ StaleVersion(w)
ReportOf(w) ==
  IF fail[w].kind \in NotMasterFailures THEN Unknown("command", fail[w].tv)
                                                    ELSE Unknown("network", 0)

(* ProcessError takes processErrorLock, ProcessHandshakeError does not; a   *)
(* stale error, a timeout or an error that says nothing of the server ends  *)
(* here.                                                                    *)
TakeErrorUnlocked(w) ==
  errLock' = IF Ignored(w) \/ fail[w].kind \in HandshakeFailures THEN errLock ELSE w
TakeError(w) ==
  /\ fail[w].kind \notin HandshakeFailures => errLock = None
  /\ errLock' = IF Ignored(w) \/ fail[w].kind \in HandshakeFailures THEN errLock ELSE w
ProcessError(w) ==
  /\ pc[w] = "error"
  /\ TakeError(w)
  /\ IF Ignored(w)
     THEN /\ Goto(w, "end")
          /\ fail' = [fail EXCEPT ![w] = NoFailure] /\ stale' = [stale EXCEPT ![w] = {}]
          /\ UNCHANGED upd
     ELSE /\ Goto(w, "apply")
          /\ fail' = [fail EXCEPT ![w].tv = 0, ![w].connTV = 0]
          /\ upd' = [upd EXCEPT ![w] = ReportOf(w)]
          /\ UNCHANGED stale
  /\ UNCHANGED <<monVars, ctxVars, connVars, desc, topDesc, subVars, checkNow, replies>>

ReleasedNever(w) == errLock
Released(w) == IF errLock = w THEN None ELSE errLock

(* Whether the error of w clears the pool, and on whose behalf.             *)
Clears(w) == fail[w].kind \in {"network", "handshake", "shuttingDown"}
Clearer(w) == IF fail[w].kind = "handshake" THEN "handshake" ELSE "error"

(* After updateDescription: a server that is not master is checked at once, *)
(* and its pool cleared if it shuts down; after a network error the pool is *)
(* cleared and then the check in progress cancelled.                        *)
ProcessErrorEnds(w) ==
  /\ pc[w] = "after"
  /\ LET network == fail[w].kind \in {"network", "handshake"}
     IN  /\ checkNow' = (checkNow \/ ~network)
         /\ stale' = [(IF Clears(w) THEN PoolCleared(Clearer(w)) ELSE stale) EXCEPT ![w] = {}]
         /\ Goto(w, IF network THEN "cancel" ELSE "end")
         /\ errLock' = IF network THEN errLock ELSE Released(w)
  /\ fail' = [fail EXCEPT ![w] = NoFailure] /\ upd' = [upd EXCEPT ![w] = Default]
  /\ UNCHANGED <<monVars, ctxVars, connVars, desc, topDesc, subVars, replies>>

(* cancelCheck: under heartbeatLock the context is cancelled and the        *)
(* connection read; outside it the connection's connect is cancelled, waited *)
(* for, and the connection closed.                                          *)
AfterCancelRtt(p) == "rtt"
AfterCancel(p) == IF p = "disconnect" THEN "rtt" ELSE "end"
ReleaseAfterCancel(p) == errLock' = IF p \in Workers THEN Released(p) ELSE errLock

CancelCheck(p) ==
  /\ pc[p] = "cancel"
  /\ LET c == cur["update"]
     IN  IF c = None
         THEN Goto(p, AfterCancel(p)) /\ ReleaseAfterCancel(p) /\ UNCHANGED connVars
         ELSE /\ conns' = [conns EXCEPT ![c].cancelled = TRUE]
              /\ held' = [held EXCEPT ![p] = c]
              /\ Goto(p, "cancelDial")
              /\ UNCHANGED <<cur, errLock>>
  /\ UNCHANGED <<monVars, ctxVars, descVars, fail, stale, subVars, checkNow, replies>>

CancelDial(p, from, to) ==
  /\ pc[p] = from
  /\ conns[held[p]].step # "none"              \* <-connectContextMade
  /\ conns' = [conns EXCEPT ![held[p]].dropped = TRUE]
  /\ Goto(p, to)
  /\ UNCHANGED <<monVars, ctxVars, cur, held, descVars, appVars>>

CancelClose(p, from, to) ==
  /\ pc[p] = from
  /\ conns[held[p]].step = "done"              \* wait: <-connectDone
  /\ conns' = Close(held[p])
  /\ held' = [held EXCEPT ![p] = None]
  /\ ReleaseAfterCancel(p)
  /\ Goto(p, to)
  /\ UNCHANGED <<monVars, ctxVars, cur, descVars, fail, stale, subVars, checkNow, replies>>

Cancel(p) ==
  \/ CancelCheck(p)
  \/ CancelDial(p, "cancelDial", "cancelClose")
  \/ CancelClose(p, "cancelClose", AfterCancel(p))

Report(w) == ProcessError(w) \/ UpdateDescription(w) \/ ProcessErrorEnds(w) \/ Cancel(w)
Worker(w) == Checkout(w) \/ OperationFails(w) \/ Report(w)
-----------------------------------------------------------------------------
(* Disconnect *)

DisconnectStart ==
  /\ pc["disconnect"] = "idle"
  /\ state' = "disconnecting" /\ callback' = FALSE
  /\ Goto("disconnect", "global")
  /\ UNCHANGED <<monVars, done, global, rttCtx, connVars, descVars, appVars>>

(* globalCtxCancel, close(done) and, after cancelCheck, rttMonitor.cancelFn *)
DisconnectSignals ==
  /\ \/ /\ pc["disconnect"] = "global" /\ Goto("disconnect", "done")
        /\ global' = TRUE /\ UNCHANGED <<done, rttCtx>>
     \/ /\ pc["disconnect"] = "done" /\ Goto("disconnect", "cancel")
        /\ done' = TRUE /\ UNCHANGED <<global, rttCtx>>
     \/ /\ pc["disconnect"] = "rtt" /\ Goto("disconnect", "rttRead")
        /\ rttCtx' = TRUE /\ UNCHANGED <<global, done>>
  /\ UNCHANGED <<monVars, state, callback, connVars, descVars, appVars>>

(* rttMonitor.disconnect, after its context is cancelled.                   *)
RttReadNoClose ==
  /\ pc["disconnect"] = "rttRead"
  /\ Goto("disconnect", "rttWait")
  /\ UNCHANGED <<monVars, ctxVars, connVars, descVars, appVars>>
RttRead ==
  /\ pc["disconnect"] = "rttRead"
  /\ held' = [held EXCEPT !["disconnect"] = cur["rtt"]]
  /\ Goto("disconnect", IF cur["rtt"] = None THEN "rttWait" ELSE "rttDial")
  /\ UNCHANGED <<monVars, ctxVars, conns, cur, descVars, appVars>>

DisconnectWaits ==
  /\ pc["disconnect"] = "rttWait" /\ pc["rtt"] = "exited"
  /\ Goto("disconnect", "updateWait")          \* after pool.disconnect
  /\ UNCHANGED <<monVars, ctxVars, connVars, descVars, appVars>>

DisconnectEnds ==
  /\ pc["disconnect"] = "updateWait" /\ pc["update"] = "exited"
  /\ state' = "disconnected"
  /\ Goto("disconnect", "end")
  /\ UNCHANGED <<monVars, callback, done, global, rttCtx, connVars, descVars, appVars>>

Disconnect ==
  \/ DisconnectSignals \/ Cancel("disconnect") \/ RttRead
  \/ CancelDial("disconnect", "rttDial", "rttClose")
  \/ CancelClose("disconnect", "rttClose", "rttWait")
  \/ DisconnectWaits \/ DisconnectEnds
-----------------------------------------------------------------------------
(* Subscriptions *)

(* Subscribe loads the description, then registers unless the server closed *)
(* its subscriptions in between.                                            *)
SubscribeLoad(i) ==
  /\ subs[i] = "idle"
  /\ subs' = [subs EXCEPT ![i] = IF state = "connected" THEN "loaded" ELSE "refused"]
  /\ chans' = [chans EXCEPT ![i] = desc]
  /\ UNCHANGED <<pc, monVars, ctxVars, connVars, descVars, opVars, checkNow, replies>>
SubscribeRegisterLate(i) ==
  /\ subs[i] = "loaded"
  /\ subs' = [subs EXCEPT ![i] = "on"]
  /\ UNCHANGED <<pc, monVars, ctxVars, connVars, descVars, opVars, chans, checkNow, replies>>
SubscribeRegister(i) ==
  /\ subs[i] = "loaded"
  /\ subs' = [subs EXCEPT ![i] = IF pc["update"] = "exited" THEN "refused" ELSE "on"]
  /\ UNCHANGED <<pc, monVars, ctxVars, connVars, descVars, opVars, chans, checkNow, replies>>
Unsubscribe(i) ==
  /\ subs[i] = "on"
  /\ subs' = [subs EXCEPT ![i] = "closed"]
  /\ UNCHANGED <<pc, monVars, ctxVars, connVars, descVars, opVars, chans, checkNow, replies>>
Subscriber(i) == SubscribeLoad(i) \/ SubscribeRegister(i) \/ Unsubscribe(i)
-----------------------------------------------------------------------------
Next ==
  \/ Update \/ Rtt \/ Disconnect \/ DisconnectStart
  \/ \E m \in Monitors : ListenerCloses(m)
  \/ \E w \in Workers : Worker(w)
  \/ \E i \in Subscribers : Subscriber(i)

Spec == Init /\ [][Next]_vars

(* Every goroutine goes on: dialing and reading end by their timeouts.      *)
Fairness ==
  /\ WF_vars(Update) /\ WF_vars(Rtt) /\ WF_vars(Disconnect)
  /\ \A w \in Workers : WF_vars(Report(w))
FairSpec == Spec /\ Fairness
-----------------------------------------------------------------------------
(* When Disconnect has returned, no connection the round trip monitor ever  *)
(* made is open: cancelling its context before its connection is read       *)
(* covers the connection it is just about to make (rtt_monitor.go).         *)
RttSocketsClosed ==
  pc["disconnect"] = "end" => \A c \in Conns : conns[c].owner = "rtt" => ~conns[c].open

(* A heartbeat that failed only because cancelCheck ended it never reaches  *)
(* the description, the topology or the pool (server.go, check and          *)
(* checkWasCancelled): it would mark a server unknown that nothing is wrong *)
(* with and close its connections a second time.                            *)
NoCancelledReport ==
  /\ topDesc.err # "cancelled" /\ desc.err # "cancelled"
  /\ pc["update"] = "next" => mdesc.err # "cancelled"

(* A successful check always has a round trip time to put into its          *)
(* description: reset is followed by a new connection, whose handshake is a *)
(* sample (server.go, check; rtt_monitor.go, reset).                        *)
KnownHasRtt == pc["update"] \in {"apply", "store"} /\ mdesc.known => rttSet

(* What a description says comes from a check that was made: none from a    *)
(* heartbeat that was cancelled, and none of a known server without a round *)
(* trip time (server.go, check).                                            *)
DescriptionsHold == NoCancelledReport /\ KnownHasRtt

(* No subscriber is left with an open channel once the monitor has gone     *)
(* (server.go, closeServer, Subscribe and Unsubscribe).                     *)
SubscribersReleased == pc["update"] = "exited" => \A i \in Subscribers : subs[i] # "on"

(* Disconnect leaves neither a socket of the round trip monitor nor a       *)
(* waiting subscriber behind (server.go, Disconnect and closeServer).       *)
NothingLeftBehind == RttSocketsClosed /\ SubscribersReleased

(* ProcessError clears the pool once for all the operations that fail on    *)
(* connections of one generation: when it does, no other ProcessError has   *)
(* since the connection of its operation was checked out (server.go,        *)
(* ProcessError: the generation is asked under processErrorLock, which is   *)
(* kept until after the clear). A heartbeat that fails and                  *)
(* ProcessHandshakeError take no lock, and may have cleared it as well.     *)
OneClearPerGeneration ==
  [][\A w \in Workers :
       pc[w] = "after" /\ pc'[w] # "after" /\ Clears(w) /\ Clearer(w) = "error"
         => "error" \notin stale[w]]_vars

(* Disconnect returns, whatever connection attempt it meets (server.go).    *)
DisconnectReturns == (pc["disconnect"] # "idle") ~> (pc["disconnect"] = "end")

(* ProcessError and ProcessHandshakeError return: cancelCheck waits for a   *)
(* connection that is being made, never for one nobody makes.               *)
ReportReturns == \A w \in Workers : (pc[w] = "error") ~> (pc[w] = "end")

(* Nobody waits for ever: Disconnect and the reports of failed operations   *)
(* wait for the monitors' connections, and the monitors for nobody          *)
(* (server.go, Disconnect and cancelCheck).                                 *)
EveryoneReturns == DisconnectReturns /\ ReportReturns

(* The monitor of a connected server never stops checking (server.go,       *)
(* update): a cancelled check is followed by another.                       *)
MonitoringGoesOn == []<>(pc["update"] \in {"check", "exited"})

(* updateDescription calls the topology and stores the result outside of    *)
(* any lock, and Subscribe registers after it has read: the three views of  *)
(* the server may disagree, but a later heartbeat brings them together.     *)
ViewsMeetAgain ==
  []<>(callback => /\ desc = topDesc
                   /\ \A i \in Subscribers : subs[i] = "on" => chans[i] = desc)

(* Monitoring goes on after every cancelled check, and with it the views of *)
(* the server come together (server.go, update and updateDescription).      *)
MonitoringHeals == MonitoringGoesOn /\ ViewsMeetAgain
=============================================================================
