------------------------ MODULE ServerMonitorProofs -------------------------
(***************************************************************************)
(* Proofs about ServerMonitor: the monitors' connections and what a check  *)
(* that was cancelled can reach. Inv follows each connection object from   *)
(* the monitor that makes it to whoever closes it; the properties of       *)
(* ServerMonitor are parts of it, or follow.                               *)
(***************************************************************************)
EXTENDS ServerMonitor, WellFoundedInduction, TLAPS

RttDone == {"rttWait", "updateWait", "end"}
AfterRtt == {"rttRead", "rttDial", "rttClose"} \cup RttDone

(* Only a connection in use has a socket, and a dial is never closed.       *)
ConnShape ==
  \A c \in Conns :
    /\ conns[c].open => conns[c].connected = "connected"
    /\ conns[c].step = "dial" => conns[c].connected = "connected"

(* Each monitor's field has a connection that it made itself. *)
OwnerInv == \A m \in Monitors : cur[m] # None => conns[cur[m]].owner = m

(* Where a monitor is says how far the connect of its connection is. *)
StepInv ==
  \A m \in Monitors :
    /\ pc[m] \in {"connect", "connecting", "read", "failed"} => cur[m] # None
    /\ cur[m] # None =>
         /\ pc[m] = "connect" => conns[cur[m]].step = "none"
         /\ pc[m] = "connecting" => conns[cur[m]].step \in {"dial", "hello"}
         /\ pc[m] \notin {"connect", "connecting"} => conns[cur[m]].step = "done"

(* What a goroutine that cancels has in hand was cancelled by it, or is the *)
(* round trip monitor's.                                                    *)
HeldInv ==
  /\ \A p \in Cancellers :
       pc[p] \in {"cancelDial", "cancelClose"} => held[p] # None /\ conns[held[p]].cancelled
  /\ pc["disconnect"] \in {"rttDial", "rttClose"} =>
       held["disconnect"] # None /\ conns[held["disconnect"]].owner = "rtt"

(* The heartbeat connection: it was dropped or closed under update only if  *)
(* the context of the check is cancelled, a check that fails has closed it, *)
(* and one that was greeted gave a round trip time.                         *)
CancelInv ==
  cur["update"] # None =>
    LET c == conns[cur["update"]]
        over == global \/ c.cancelled
    IN  /\ c.dropped => over
        /\ pc["update"] \in {"connecting", "read"} /\ c.connected = "disconnected" => over
        /\ pc["update"] = "failed" =>
             c.connected # "connected" /\ ~mdesc.known /\ (mdesc.err = "cancelled" => over)
        /\ c.step = "done" /\ c.connected = "connected" => rttSet
        /\ c.step # "none" => c.connected # "initialized"

(* No description on its way says cancelled. *)
ReportInv ==
  /\ NoCancelledReport /\ KnownHasRtt
  /\ \A p \in Workers \cup {"update"} : upd[p].err # "cancelled"
  /\ pc["update"] \in {"apply", "store"} => mdesc.err # "cancelled"

(* The only open connection of the round trip monitor is its current one,   *)
(* and after rttRead the one Disconnect has in hand: no other is opened, as *)
(* the context is cancelled.                                                *)
OpenRtt(c) == conns[c].open /\ conns[c].owner = "rtt"
RttInv ==
  /\ pc["disconnect"] \in AfterRtt => rttCtx
  /\ \A c \in Conns : OpenRtt(c) =>
       /\ c = cur["rtt"]
       /\ pc["disconnect"] \in {"rttDial", "rttClose"} => c = held["disconnect"]
       /\ pc["disconnect"] \notin RttDone

(* processErrorLock is held through ProcessError. *)
ReportPCs == {"apply", "store", "after"}
LockInv ==
  \A w \in Workers :
    /\ errLock = w => pc[w] \in ReportPCs \cup {"cancel", "cancelDial", "cancelClose"}
    /\ pc[w] \in ReportPCs /\ fail[w].kind \notin HandshakeFailures => errLock = w

Inv ==
  /\ TypeOK /\ ConnShape /\ OwnerInv /\ StepInv /\ HeldInv /\ CancelInv /\ ReportInv /\ RttInv
  /\ SubscribersReleased /\ LockInv
-----------------------------------------------------------------------------
(* Names and moves *)

Routines == Monitors \cup Cancellers
LabelsOf(p) ==
  IF p = "update" THEN UpdatePCs
  ELSE IF p = "rtt" THEN RttPCs
  ELSE IF p = "disconnect" THEN DisconnectPCs ELSE WorkerPCs

(* No two goroutines share a name. *)
LEMMA Names ==
  /\ "update" \in Monitors /\ "rtt" \in Monitors
  /\ \A m \in Monitors : m = "update" \/ m = "rtt"
  /\ "disconnect" \in Cancellers /\ "disconnect" \notin Workers
  /\ \A w \in Workers : w \in Cancellers /\ w \notin Monitors /\ w # "disconnect" /\ w # None
  /\ \A p \in Cancellers : p \notin Monitors /\ (p = "disconnect" \/ p \in Workers)
BY WorkersAssumption DEF Monitors, Cancellers

(* Goto moves one goroutine, to one of its labels, and nobody else. *)
LEMMA Moved ==
  ASSUME PcType, NEW p \in Routines, NEW l, Goto(p, l)
  PROVE  /\ pc'[p] = l
         /\ \A q \in Routines : q # p => pc'[q] = pc[q]
         /\ l \in LabelsOf(p) => PcType'
<1>1. pc'[p] = l /\ \A q \in Routines : q # p => pc'[q] = pc[q]
  BY DEF PcType, Goto, Routines
<1>2. ASSUME l \in LabelsOf(p)
      PROVE  PcType'
  <2>1. l \in UpdatePCs \cup RttPCs \cup WorkerPCs \cup DisconnectPCs
    BY <1>2 DEF LabelsOf
  <2>2. pc' \in [Routines -> UpdatePCs \cup RttPCs \cup WorkerPCs \cup DisconnectPCs]
    BY <2>1 DEF PcType, Goto, Routines
  <2>3. \A q \in Routines : pc[q] \in LabelsOf(q)
    BY Names DEF PcType, Routines, LabelsOf
  <2>4. \A q \in Routines : pc'[q] \in LabelsOf(q)
    BY <1>1, <1>2, <2>3
  <2>5. /\ LabelsOf("update") = UpdatePCs /\ LabelsOf("rtt") = RttPCs
        /\ LabelsOf("disconnect") = DisconnectPCs /\ \A w \in Workers : LabelsOf(w) = WorkerPCs
    BY Names DEF LabelsOf, Monitors
  <2> QED
    BY <2>2, <2>4, <2>5, Names DEF PcType, Routines
<1> QED
  BY <1>1, <1>2

(* A set of naturals has a smallest element. *)
LEMMA Smallest ==
  ASSUME NEW T \in SUBSET Nat, T # {}
  PROVE  \E x \in T : \A y \in T : x <= y
<1> DEFINE R == {ss \in Nat \X Nat : ss[1] < ss[2]}
<1>1. IsWellFoundedOn(R, Nat)
  BY NatLessThanWellFounded DEF OpToRel
<1>2. \A x, y \in Nat : <<y, x>> \in R <=> y < x
  OBVIOUS
<1> HIDE DEF R
<1>3. \E x \in T : \A y \in T : ~(<<y, x>> \in R)
  BY <1>1, WFMin
<1>4. PICK x \in T : \A y \in T : ~(<<y, x>> \in R)
  BY <1>3
<1>5. x \in Nat /\ \A y \in T : y \in Nat /\ ~(y < x)
  BY <1>2, <1>4
<1> QED
  BY <1>5
-----------------------------------------------------------------------------
(* Connections *)

(* The values of connections are records with these fields. *)
LEMMA ConnFields ==
  ASSUME ConnType
  PROVE  /\ \A c \in Conns : conns[c] \in Connection
         /\ \A c \in Conns : c # None
         /\ \A m \in Monitors : cur[m] # None => cur[m] \in Conns
         /\ \A p \in Cancellers : held[p] # None => held[p] \in Conns
BY MonitorAssumption DEF ConnType

(* A step that changes one connection. *)
OneConn(c, r) ==
  /\ c \in Conns /\ r \in Connection
  /\ conns' \in [Conns -> Connection]
  /\ conns'[c] = r /\ \A d \in Conns : d # c => conns'[d] = conns[d]

(* An update of one entry of conns is such a step. *)
LEMMA Changed ==
  ASSUME ConnType, NEW c \in Conns, NEW r \in Connection, conns' = [conns EXCEPT ![c] = r]
  PROVE  OneConn(c, r)
BY DEF OneConn, ConnType

(* What closing a connection leaves of it. *)
ClosedConn(r) == [r EXCEPT !.connected = "disconnected", !.open = FALSE]

(* connection.close changes the one connection, and only if it is in use. *)
LEMMA CloseChanges ==
  ASSUME ConnType, NEW c \in Conns, conns' = Close(c)
  PROVE  OneConn(c, IF Alive(c) THEN ClosedConn(conns[c]) ELSE conns[c])
<1>1. conns[c] \in Connection /\ ClosedConn(conns[c]) \in Connection
  BY DEF ConnType, ClosedConn, Connection
<1>2. conns' = [conns EXCEPT ![c] = IF Alive(c) THEN ClosedConn(conns[c]) ELSE conns[c]]
  BY DEF Close, ClosedConn, ConnType, Connection
<1> QED
  BY <1>1, <1>2, Changed

(* The connection a monitor makes: a free object, nobody else's. *)
LEMMA SetupFacts ==
  ASSUME ConnType, NEW m \in Monitors, SetupConnection(m)
  PROVE  \E c \in Free(m) :
           /\ c \in Conns /\ cur'[m] = c /\ conns'[c] = NewConnection(m)
           /\ \A n \in Monitors : n # m => cur'[n] = cur[n]
           /\ \A d \in Conns : d # c => conns'[d] = (IF d \in Free(m) THEN Garbage ELSE conns[d])
           /\ ConnType' /\ held' = held
<1>1. Free(m) \in SUBSET Nat /\ Free(m) \in SUBSET Conns /\ Free(m) # {}
  BY MonitorAssumption DEF Free, SetupConnection
<1>2. \E c \in Free(m) : \A e \in Free(m) : c <= e
  BY <1>1, Smallest
<1> DEFINE c == CHOOSE d \in Free(m) : \A e \in Free(m) : d <= e
<1>3. c \in Free(m) /\ c \in Conns
  BY <1>1, <1>2
<1>4. /\ conns' = [d \in Conns |-> IF d = c THEN NewConnection(m)
                                   ELSE IF d \in Free(m) THEN Garbage ELSE conns[d]]
      /\ cur' = [cur EXCEPT ![m] = c]
      /\ held' = held
  BY DEF SetupConnection
<1> HIDE DEF c
<1>5. NewConnection(m) \in Connection /\ Garbage \in Connection
  BY Names DEF NewConnection, Garbage, Connection, Monitors
<1>6. conns' \in [Conns -> Connection]
  BY <1>4, <1>5 DEF ConnType
<1>7. cur' \in [Monitors -> Conns \cup {None}] /\ held' \in [Cancellers -> Conns \cup {None}]
  BY <1>3, <1>4 DEF ConnType
<1>8. cur'[m] = c /\ \A n \in Monitors : n # m => cur'[n] = cur[n]
  BY <1>3, <1>4 DEF ConnType
<1>9. conns'[c] = NewConnection(m)
  BY <1>3, <1>4
<1>10. \A d \in Conns : d # c => conns'[d] = (IF d \in Free(m) THEN Garbage ELSE conns[d])
  BY <1>4
<1> QED
  BY <1>3, <1>4, <1>6, <1>7, <1>8, <1>9, <1>10 DEF ConnType
-----------------------------------------------------------------------------
(* Frames of the invariants about connections *)

ConnInv == ConnShape /\ OwnerInv /\ StepInv /\ HeldInv /\ RttInv

(* The two monitors have connections of their own. *)
LEMMA Apart ==
  ASSUME Inv, cur["update"] # None
  PROVE  cur["update"] # cur["rtt"]
BY Names DEF Inv, OwnerInv

(* A goroutine moves and no connection changes. *)
LEMMA QuietStep ==
  ASSUME Inv, NEW p \in Routines, NEW l, Goto(p, l),
         UNCHANGED <<conns, cur, held, rttCtx>>, p # "disconnect",
         p \in Monitors => /\ {l, pc[p]} \cap {"connect", "connecting"} = {}
                           /\ l \in {"read", "failed"} => cur[p] # None,
         l \notin {"cancelDial", "cancelClose"}
  PROVE  ConnInv'
<1>1. pc'[p] = l /\ \A q \in Routines : q # p => pc'[q] = pc[q]
  BY Moved DEF Inv, TypeOK
<1>2. ConnShape' /\ OwnerInv'
  BY DEF Inv, ConnShape, OwnerInv
<1>3. StepInv'
  BY <1>1 DEF Inv, StepInv, Routines
<1>4. HeldInv'
  BY <1>1, Names DEF Inv, HeldInv, Routines
<1>5. RttInv'
  BY <1>1, Names DEF Inv, RttInv, Routines, OpenRtt
<1> QED
  BY <1>2, <1>3, <1>4, <1>5 DEF ConnInv

(* A monitor changes its own connection, or only it moves. *)
LEMMA MonitorStep ==
  ASSUME Inv, NEW m \in Monitors, cur[m] # None, NEW r, OneConn(cur[m], r),
         UNCHANGED <<cur, held, rttCtx>>,
         \A q \in Routines : q # m => pc'[q] = pc[q],
         r.owner = conns[cur[m]].owner, r.cancelled = conns[cur[m]].cancelled,
         r.open => r.connected = "connected", r.step = "dial" => r.connected = "connected",
         r.open => conns[cur[m]].open \/ (m = "rtt" => ~rttCtx),
         pc'[m] = "connect" => r.step = "none",
         pc'[m] = "connecting" => r.step \in {"dial", "hello"},
         pc'[m] \notin {"connect", "connecting"} => r.step = "done"
  PROVE  ConnInv'
<1> DEFINE c == cur[m]
<1>1. /\ c \in Conns /\ conns'[c] = r /\ \A d \in Conns : d # c => conns'[d] = conns[d]
      /\ c # None
  BY DEF OneConn
<1>2. \A n \in Monitors : n # m => cur[n] # c
  BY Apart, Names
<1>3. ConnType
  BY DEF Inv, TypeOK
<1>4. conns[c].owner = m
  BY DEF Inv, OwnerInv
<1>5. \A d \in Conns : conns'[d].owner = conns[d].owner /\ conns'[d].cancelled = conns[d].cancelled
  BY <1>1
<1>6. ConnShape'
  BY <1>1 DEF Inv, ConnShape
<1>7. OwnerInv'
  BY <1>3, <1>5, ConnFields DEF Inv, OwnerInv
<1>8. StepInv'
  <2> SUFFICES ASSUME NEW n \in Monitors
               PROVE  /\ pc'[n] \in {"connect", "connecting", "read", "failed"} => cur[n] # None
                      /\ cur[n] # None =>
                           /\ pc'[n] = "connect" => conns'[cur[n]].step = "none"
                           /\ pc'[n] = "connecting" => conns'[cur[n]].step \in {"dial", "hello"}
                           /\ pc'[n] \notin {"connect", "connecting"} =>
                                conns'[cur[n]].step = "done"
    BY DEF StepInv
  <2>1. CASE n = m
    BY <1>1, <2>1
  <2>2. CASE n # m
    <3>1. pc'[n] = pc[n]
      BY <2>2 DEF Routines
    <3>2. cur[n] # None => conns'[cur[n]] = conns[cur[n]]
      BY <1>1, <1>2, <1>3, <2>2, ConnFields
    <3> QED
      BY <3>1, <3>2 DEF Inv, StepInv
  <2> QED
    BY <2>1, <2>2
<1>9. \A p \in Cancellers : pc'[p] = pc[p]
  BY Names DEF Routines
<1>10. HeldInv'
  BY <1>3, <1>5, <1>9, ConnFields, Names DEF Inv, HeldInv
<1>11. RttInv'
  <2>1. pc'["disconnect"] \in AfterRtt => rttCtx
    BY <1>9, Names DEF Inv, RttInv
  <2> SUFFICES ASSUME NEW d \in Conns, conns'[d].open, conns'[d].owner = "rtt"
               PROVE  /\ d = cur["rtt"]
                      /\ pc["disconnect"] \in {"rttDial", "rttClose"} => d = held["disconnect"]
                      /\ pc["disconnect"] \notin RttDone
    BY <1>9, <2>1, Names DEF RttInv, OpenRtt
  <2>2. CASE conns[d].open
    BY <1>5, <2>2 DEF Inv, RttInv, OpenRtt
  <2>3. CASE ~conns[d].open
    <3>1. d = c /\ m = "rtt" /\ ~rttCtx
      BY <1>1, <1>4, <1>5, <2>3
    <3> QED
      BY <3>1 DEF Inv, RttInv, AfterRtt
  <2> QED
    BY <2>2, <2>3
<1> QED
  BY <1>6, <1>7, <1>8, <1>10, <1>11 DEF ConnInv

(* A monitor makes a new connection: its old one, if it had any, is closed. *)
LEMMA SetupStep ==
  ASSUME Inv, NEW m \in Monitors, SetupConnection(m), pc[m] = "check",
         m = "rtt" => Gone(m), rttCtx' = rttCtx
  PROVE  ConnType' /\ ConnInv'
<1>1. ConnType /\ PcType
  BY DEF Inv, TypeOK
<1>2. PICK c \in Free(m) :
           /\ c \in Conns /\ cur'[m] = c /\ conns'[c] = NewConnection(m)
           /\ \A n \in Monitors : n # m => cur'[n] = cur[n]
           /\ \A d \in Conns : d # c => conns'[d] = (IF d \in Free(m) THEN Garbage ELSE conns[d])
           /\ ConnType' /\ held' = held
  BY <1>1, SetupFacts
<1>3. pc'[m] = "connect" /\ \A q \in Routines : q # m => pc'[q] = pc[q]
  BY <1>1, Moved DEF SetupConnection, Routines
<1>4. /\ ~Garbage.open /\ Garbage.step = "done"
      /\ ~NewConnection(m).open /\ NewConnection(m).step = "none" /\ NewConnection(m).owner = m
  BY DEF Garbage, NewConnection
<1>5. \A d \in Conns : d \notin Free(m) => conns'[d] = conns[d]
  BY <1>2
<1>6. \A d \in Conns : conns'[d].open => conns'[d] = conns[d]
  BY <1>2, <1>4
<1>7. /\ \A n \in Monitors : n # m => cur[n] \notin Free(m)
      /\ \A p \in Cancellers : held[p] \notin Free(m)
  BY DEF Free
<1>8. ConnShape'
  BY <1>2, <1>4, <1>5, <1>6 DEF Inv, ConnShape
<1>9. \A n \in Monitors : n # m /\ cur[n] # None => conns'[cur[n]] = conns[cur[n]]
  BY <1>1, <1>5, <1>7, ConnFields
<1>10. OwnerInv'
  BY <1>2, <1>4, <1>9 DEF Inv, OwnerInv
<1>11. c # None
  BY <1>2, MonitorAssumption
<1>12. StepInv'
  BY <1>2, <1>3, <1>4, <1>9, <1>11 DEF Inv, StepInv, Routines
<1>13. \A p \in Cancellers : pc'[p] = pc[p] /\ (held[p] # None => conns'[held[p]] = conns[held[p]])
  BY <1>1, <1>3, <1>5, <1>7, ConnFields, Names DEF Routines
<1>14. HeldInv'
  BY <1>2, <1>13, Names DEF Inv, HeldInv
<1>15. RttInv'
  <2>1. pc'["disconnect"] \in AfterRtt => rttCtx
    BY <1>13, Names DEF Inv, RttInv
  <2> SUFFICES ASSUME NEW d \in Conns, conns'[d].open, conns'[d].owner = "rtt"
               PROVE  /\ d = cur'["rtt"]
                      /\ pc["disconnect"] \in {"rttDial", "rttClose"} => d = held["disconnect"]
                      /\ pc["disconnect"] \notin RttDone
    BY <1>2, <1>13, <2>1, Names DEF RttInv, OpenRtt
  <2>2. conns[d].open /\ conns[d].owner = "rtt" /\ conns[d].connected = "connected"
    BY <1>6 DEF Inv, ConnShape
  <2>3. /\ d = cur["rtt"]
        /\ pc["disconnect"] \in {"rttDial", "rttClose"} => d = held["disconnect"]
        /\ pc["disconnect"] \notin RttDone
    BY <2>2 DEF Inv, RttInv, OpenRtt
  <2>4. m # "rtt"
    BY <1>1, <2>2, <2>3, ConnFields DEF Gone
  <2> QED
    BY <1>2, <2>3, <2>4, Names
<1> QED
  BY <1>2, <1>8, <1>10, <1>12, <1>14, <1>15 DEF ConnInv

(* A goroutine that cancels or closes a connection it may not have made.    *)
LEMMA CancellerStep ==
  ASSUME Inv, NEW p \in Cancellers, NEW c \in Conns, NEW r, OneConn(c, r),
         UNCHANGED <<cur, rttCtx>>,
         \A q \in Routines : q # p => pc'[q] = pc[q],
         \A q \in Cancellers : q # p => held'[q] = held[q],
         held'[p] \in Conns \cup {None},
         r.owner = conns[c].owner, r.step = conns[c].step, conns[c].cancelled => r.cancelled,
         r.open => conns[c].open /\ r.connected = "connected",
         r.step = "dial" => r.connected = conns[c].connected,
         pc'[p] \in {"cancelDial", "cancelClose"} => held'[p] # None /\ conns'[held'[p]].cancelled,
         pc'[p] \in {"rttDial", "rttClose"} /\ p = "disconnect" =>
           held'[p] # None /\ conns[held'[p]].owner = "rtt"
  PROVE  /\ ConnShape' /\ OwnerInv' /\ StepInv' /\ HeldInv'
         /\ p # "disconnect" => RttInv'
         /\ \A d \in Conns : conns'[d].open /\ conns'[d].owner = "rtt" => OpenRtt(d)
<1>1. /\ conns'[c] = r /\ \A d \in Conns : d # c => conns'[d] = conns[d]
      /\ \A d \in Conns : d # None
  BY MonitorAssumption DEF OneConn
<1>2. ConnType
  BY DEF Inv, TypeOK
<1>3. \A d \in Conns :
        /\ conns'[d].owner = conns[d].owner /\ conns'[d].step = conns[d].step
        /\ conns[d].cancelled => conns'[d].cancelled
        /\ conns'[d].open => conns[d].open
  BY <1>1
<1>4. ConnShape'
  BY <1>1 DEF Inv, ConnShape
<1>5. OwnerInv'
  BY <1>2, <1>3, ConnFields DEF Inv, OwnerInv
<1>6. StepInv'
  <2>1. \A m \in Monitors : pc'[m] = pc[m]
    BY Names DEF Routines
  <2>2. \A m \in Monitors : cur[m] # None => conns'[cur[m]].step = conns[cur[m]].step
    BY <1>2, <1>3, ConnFields
  <2> QED
    BY <2>1, <2>2 DEF Inv, StepInv
<1>7. HeldInv'
  <2>1. \A q \in Cancellers : q # p =>
          /\ pc'[q] = pc[q] /\ held'[q] = held[q]
          /\ held[q] # None => /\ conns[held[q]].cancelled => conns'[held[q]].cancelled
                               /\ conns'[held[q]].owner = conns[held[q]].owner
    BY <1>2, <1>3, ConnFields DEF Routines
  <2>2. held'[p] # None => conns'[held'[p]].owner = conns[held'[p]].owner
    BY <1>3
  <2>3. \A q \in Cancellers : pc'[q] \in {"cancelDial", "cancelClose"} =>
           held'[q] # None /\ conns'[held'[q]].cancelled
    BY <2>1 DEF Inv, HeldInv
  <2>4. pc'["disconnect"] \in {"rttDial", "rttClose"} =>
          held'["disconnect"] # None /\ conns'[held'["disconnect"]].owner = "rtt"
    BY <2>1, <2>2, Names DEF Inv, HeldInv
  <2> QED
    BY <2>3, <2>4 DEF HeldInv
<1>8. \A d \in Conns : conns'[d].open /\ conns'[d].owner = "rtt" => OpenRtt(d)
  BY <1>3 DEF OpenRtt
<1>9. p # "disconnect" => RttInv'
  <2>1. p # "disconnect" => pc'["disconnect"] = pc["disconnect"] /\ held'["disconnect"] = held["disconnect"]
    BY Names DEF Routines
  <2> QED
    BY <1>8, <2>1 DEF Inv, RttInv, OpenRtt
<1> QED
  BY <1>4, <1>5, <1>6, <1>7, <1>8, <1>9
-----------------------------------------------------------------------------
(* What a monitor does with its connection *)

(* A monitor at work on a connection has one. *)
LEMMA CurFacts ==
  ASSUME Inv, NEW m \in Monitors, pc[m] \in {"connect", "connecting", "read", "failed"}
  PROVE  /\ cur[m] # None /\ cur[m] \in Conns /\ conns[cur[m]] \in Connection
         /\ ConnType /\ PcType
BY ConnFields DEF Inv, TypeOK, StepInv

(* connect begins to dial. *)
LEMMA StartFacts ==
  ASSUME Inv, NEW m \in Monitors, StartConnect(m)
  PROVE  /\ ConnType' /\ ConnInv'
         /\ OneConn(cur[m], [conns[cur[m]] EXCEPT !.connected = "connected", !.step = "dial"])
<1> DEFINE r == [conns[cur[m]] EXCEPT !.connected = "connected", !.step = "dial"]
<1>1. pc[m] = "connect" /\ Goto(m, "connecting") /\ UNCHANGED <<cur, held, rttCtx>>
  BY DEF StartConnect, ctxVars
<1>2. cur[m] # None /\ cur[m] \in Conns /\ conns[cur[m]] \in Connection /\ ConnType /\ PcType
  BY <1>1, CurFacts
<1>3. r \in Connection
  BY <1>2 DEF Connection
<1>4. conns' = [conns EXCEPT ![cur[m]] = r]
  BY <1>2 DEF StartConnect, ConnType
<1>5. OneConn(cur[m], r)
  BY <1>2, <1>3, <1>4, Changed
<1>6. /\ r.owner = conns[cur[m]].owner /\ r.cancelled = conns[cur[m]].cancelled
      /\ r.open = conns[cur[m]].open /\ r.connected = "connected" /\ r.step = "dial"
  BY <1>2 DEF Connection
<1>7. pc'[m] = "connecting" /\ \A q \in Routines : q # m => pc'[q] = pc[q]
  BY <1>1, <1>2, Moved DEF Routines
<1> HIDE DEF r
<1>8. ConnInv'
  BY <1>1, <1>2, <1>5, <1>6, <1>7, MonitorStep
<1>9. ConnType'
  BY <1>1, <1>2, <1>5 DEF ConnType, OneConn
<1> QED
  BY <1>5, <1>8, <1>9 DEF r

(* The dial succeeds: the connection has a socket now. *)
LEMMA DialFacts ==
  ASSUME Inv, NEW m \in Monitors, DialSucceeds(m)
  PROVE  /\ ConnType' /\ ConnInv'
         /\ OneConn(cur[m], [conns[cur[m]] EXCEPT !.step = "hello", !.open = TRUE])
<1> DEFINE r == [conns[cur[m]] EXCEPT !.step = "hello", !.open = TRUE]
<1>1. /\ pc[m] = "connecting" /\ UNCHANGED <<pc, cur, held, rttCtx>>
      /\ conns[cur[m]].step = "dial" /\ ~ConnectContextDone(m)
  BY DEF DialSucceeds, ctxVars
<1>2. cur[m] # None /\ cur[m] \in Conns /\ conns[cur[m]] \in Connection /\ ConnType /\ PcType
  BY <1>1, CurFacts
<1>3. r \in Connection
  BY <1>2 DEF Connection
<1>4. conns' = [conns EXCEPT ![cur[m]] = r]
  BY <1>2 DEF DialSucceeds, ConnType
<1>5. OneConn(cur[m], r)
  BY <1>2, <1>3, <1>4, Changed
<1>6. /\ r.owner = conns[cur[m]].owner /\ r.cancelled = conns[cur[m]].cancelled
      /\ r.connected = conns[cur[m]].connected /\ r.step = "hello"
  BY <1>2 DEF Connection
<1>7. conns[cur[m]].connected = "connected"
  BY <1>1, <1>2 DEF Inv, ConnShape
<1>8. m = "rtt" => ~rttCtx
  BY <1>1 DEF ConnectContextDone, ContextDone
<1> HIDE DEF r
<1>9. ConnInv'
  BY <1>1, <1>2, <1>5, <1>6, <1>7, <1>8, MonitorStep
<1>10. ConnType'
  BY <1>1, <1>2, <1>5 DEF ConnType, OneConn
<1> QED
  BY <1>5, <1>9, <1>10 DEF r

(* A connection attempt ends, with a greeting or a failure. *)
LEMMA GreetedFacts ==
  ASSUME Inv, NEW m \in Monitors, Greeted(m), NEW l, Goto(m, l),
         l \notin {"connect", "connecting"}, UNCHANGED <<cur, held, rttCtx>>
  PROVE  ConnType' /\ ConnInv' /\ OneConn(cur[m], [conns[cur[m]] EXCEPT !.step = "done"])
<1> DEFINE r == [conns[cur[m]] EXCEPT !.step = "done"]
<1>1. pc[m] = "connecting"
  BY DEF Greeted
<1>2. cur[m] # None /\ cur[m] \in Conns /\ conns[cur[m]] \in Connection /\ ConnType /\ PcType
  BY <1>1, CurFacts
<1>3. r \in Connection
  BY <1>2 DEF Connection
<1>4. conns' = [conns EXCEPT ![cur[m]] = r]
  BY <1>2 DEF Greeted, ConnType
<1>5. OneConn(cur[m], r)
  BY <1>2, <1>3, <1>4, Changed
<1>6. /\ r.owner = conns[cur[m]].owner /\ r.cancelled = conns[cur[m]].cancelled
      /\ r.connected = conns[cur[m]].connected /\ r.step = "done" /\ r.open = conns[cur[m]].open
  BY <1>2 DEF Connection
<1>7. r.open => r.connected = "connected"
  BY <1>2, <1>6 DEF Inv, ConnShape
<1>8. pc'[m] = l /\ \A q \in Routines : q # m => pc'[q] = pc[q]
  BY <1>2, Moved DEF Routines
<1> HIDE DEF r
<1>9. ConnInv'
  BY <1>1, <1>2, <1>5, <1>6, <1>7, <1>8, MonitorStep
<1>10. ConnType'
  BY <1>1, <1>2, <1>5 DEF ConnType, OneConn
<1> QED
  BY <1>5, <1>9, <1>10 DEF r

(* The attempt fails and the connection is closed for good. *)
LEMMA FailFacts ==
  ASSUME Inv, NEW m \in Monitors, ConnectFails(m), NEW l, Goto(m, l),
         l \notin {"connect", "connecting"}, UNCHANGED <<cur, held, rttCtx>>
  PROVE  /\ ConnType' /\ ConnInv'
         /\ OneConn(cur[m], [conns[cur[m]] EXCEPT !.connected = "disconnected", !.open = FALSE,
                                                  !.step = "done"])
<1> DEFINE r == [conns[cur[m]] EXCEPT !.connected = "disconnected", !.open = FALSE, !.step = "done"]
<1>1. pc[m] = "connecting"
  BY DEF ConnectFails
<1>2. cur[m] # None /\ cur[m] \in Conns /\ conns[cur[m]] \in Connection /\ ConnType /\ PcType
  BY <1>1, CurFacts
<1>3. r \in Connection
  BY <1>2 DEF Connection
<1>4. conns' = [conns EXCEPT ![cur[m]] = r]
  BY <1>2 DEF ConnectFails, ConnType
<1>5. OneConn(cur[m], r)
  BY <1>2, <1>3, <1>4, Changed
<1>6. /\ r.owner = conns[cur[m]].owner /\ r.cancelled = conns[cur[m]].cancelled
      /\ r.step = "done" /\ ~r.open
  BY <1>2 DEF Connection
<1>7. pc'[m] = l /\ \A q \in Routines : q # m => pc'[q] = pc[q]
  BY <1>2, Moved DEF Routines
<1> HIDE DEF r
<1>8. ConnInv'
  BY <1>1, <1>2, <1>5, <1>6, <1>7, MonitorStep
<1>9. ConnType'
  BY <1>1, <1>2, <1>5 DEF ConnType, OneConn
<1> QED
  BY <1>5, <1>8, <1>9 DEF r

(* A monitor, or the listener of its read, closes its connection. *)
LEMMA CloseFacts ==
  ASSUME Inv, NEW m \in Monitors, cur[m] # None, conns' = Close(cur[m]),
         UNCHANGED <<cur, held, rttCtx>>,
         \A q \in Routines : q # m => pc'[q] = pc[q], pc'[m] # "connect",
         IF pc'[m] = "connecting" THEN conns[cur[m]].step = "hello"
                                  ELSE pc[m] \notin {"connect", "connecting"}
  PROVE  /\ ConnType' /\ ConnInv'
         /\ OneConn(cur[m], IF Alive(cur[m]) THEN ClosedConn(conns[cur[m]]) ELSE conns[cur[m]])
<1> DEFINE c == cur[m]
           r == IF Alive(c) THEN ClosedConn(conns[c]) ELSE conns[c]
<1>1. ConnType
  BY DEF Inv, TypeOK
<1>2. c \in Conns /\ conns[c] \in Connection
  BY <1>1, ConnFields
<1>3. OneConn(c, r)
  BY <1>1, <1>2, CloseChanges
<1>4. pc'[m] # "connecting" => conns[c].step = "done"
  BY DEF Inv, StepInv
<1>5. /\ r.owner = conns[c].owner /\ r.cancelled = conns[c].cancelled /\ r.step = conns[c].step
      /\ r.open => r.connected = "connected" /\ conns[c].open
  <2>1. conns[c].open => conns[c].connected = "connected"
    BY <1>2 DEF Inv, ConnShape
  <2>2. CASE Alive(c)
    BY <1>2, <2>2 DEF ClosedConn, Connection
  <2>3. CASE ~Alive(c)
    BY <2>1, <2>3
  <2> QED
    BY <2>2, <2>3
<1> HIDE DEF r
<1>6. r.step \in {"hello", "done"} /\ (pc'[m] = "connecting" => r.step = "hello")
      /\ (pc'[m] # "connecting" => r.step = "done")
  BY <1>4, <1>5
<1>7. ConnInv'
  BY <1>3, <1>5, <1>6, MonitorStep
<1>8. ConnType'
  BY <1>1, <1>3 DEF ConnType, OneConn
<1> QED
  BY <1>3, <1>7, <1>8 DEF r
-----------------------------------------------------------------------------
(* The invariant, put together *)

(* The parts in which the lemmas below show Inv to be preserved. *)
LEMMA InvParts ==
  /\ Inv <=> /\ PcType /\ ConnType /\ DataType /\ ConnInv /\ CancelInv /\ ReportInv
             /\ SubscribersReleased /\ LockInv
  /\ Inv' <=> /\ PcType' /\ ConnType' /\ DataType' /\ ConnInv' /\ CancelInv' /\ ReportInv'
              /\ SubscribersReleased' /\ LockInv'
BY DEF Inv, TypeOK, ConnInv

(* A step of the round trip monitor, or of the listener of its connection.  *)
LEMMA RttFrame ==
  ASSUME Inv, ConnType', ConnInv', PcType',
         \A q \in Routines : q # "rtt" => pc'[q] = pc[q],
         UNCHANGED <<mdesc, prevKnown, ctxVars, descVars, appVars>>, rttSet' \in {rttSet, TRUE},
         cur'["update"] = cur["update"],
         cur["update"] # None => conns'[cur["update"]] = conns[cur["update"]]
  PROVE  Inv'
<1>1. UNCHANGED <<state, callback, done, global, rttCtx, desc, topDesc, upd, errLock, fail, stale,
                  subs, chans, checkNow, replies, mdesc, prevKnown>>
  BY DEF ctxVars, descVars, appVars, opVars, subVars
<1>2. pc'["update"] = pc["update"] /\ \A w \in Workers : pc'[w] = pc[w]
  BY Names DEF Routines
<1>3. DataType'
  BY <1>1 DEF Inv, TypeOK, DataType
<1>4. rttSet => rttSet'
  BY DEF Inv, TypeOK, DataType
<1>5. CancelInv'
  BY <1>1, <1>2, <1>4 DEF Inv, CancelInv
<1>6. ReportInv'
  BY <1>1, <1>2, <1>4 DEF Inv, ReportInv, NoCancelledReport, KnownHasRtt
<1>7. SubscribersReleased' /\ LockInv'
  BY <1>1, <1>2 DEF Inv, SubscribersReleased, LockInv
<1> QED
  BY <1>3, <1>5, <1>6, <1>7, InvParts

(* Its connection is not the heartbeats'. *)
LEMMA NotUpdates ==
  ASSUME Inv, NEW r, OneConn(cur["rtt"], r), cur["update"] # None
  PROVE  conns'[cur["update"]] = conns[cur["update"]]
BY Apart, ConnFields, Names DEF OneConn, Inv, TypeOK

(* Every step of rttMonitor.start. *)
LEMMA RttSteps ==
  ASSUME Inv, Rtt
  PROVE  Inv'
<1> USE DEF ctxVars, connVars
<1>1. PcType /\ ConnType /\ "rtt" \in Monitors /\ "rtt" \in Routines
  BY Names DEF Inv, TypeOK, Routines
<1>2. \A l : Goto("rtt", l) /\ l \in RttPCs =>
        PcType' /\ pc'["rtt"] = l /\ \A q \in Routines : q # "rtt" => pc'[q] = pc[q]
  BY <1>1, Moved DEF LabelsOf
<1>3. CASE RttLoop \/ RttAsks
  <2>1. PICK l \in {"exited", "check", "read"} :
          /\ Goto("rtt", l) /\ pc["rtt"] \in {"loop", "check"}
          /\ l = "read" => cur["rtt"] # None
          /\ UNCHANGED <<monVars, ctxVars, connVars, descVars, appVars>>
    BY <1>3 DEF RttLoop, RttAsks, Gone
  <2>2. ConnInv'
    BY <1>1, <2>1, QuietStep
  <2>3. ConnType'
    BY <1>1, <2>1 DEF ConnType
  <2> QED
    BY <1>2, <2>1, <2>2, <2>3, RttFrame DEF monVars, RttPCs
<1>4. CASE RttConnects
  <2>1. /\ pc["rtt"] = "check" /\ Gone("rtt") /\ SetupConnection("rtt") /\ Goto("rtt", "connect")
        /\ UNCHANGED <<monVars, ctxVars, descVars, appVars>>
    BY <1>4 DEF RttConnects, SetupConnection
  <2>2. ConnType' /\ ConnInv'
    BY <1>1, <2>1, SetupStep
  <2>3. /\ cur'["update"] = cur["update"]
        /\ cur["update"] # None => conns'[cur["update"]] = conns[cur["update"]]
    <3>1. cur["update"] \notin Free("rtt")
      BY Names DEF Free
    <3> QED
      BY <1>1, <2>1, <3>1, SetupFacts, ConnFields, Names
  <2> QED
    BY <1>2, <2>1, <2>2, <2>3, RttFrame DEF monVars, RttPCs
<1>5. CASE StartConnect("rtt")
  <2>1. Goto("rtt", "connecting") /\ UNCHANGED <<monVars, ctxVars, cur, descVars, appVars>>
    BY <1>5 DEF StartConnect
  <2>2. ConnType' /\ ConnInv' /\ (cur["update"] # None => conns'[cur["update"]] = conns[cur["update"]])
    BY <1>1, <1>5, StartFacts, NotUpdates
  <2> QED
    BY <1>2, <2>1, <2>2, RttFrame DEF monVars, RttPCs
<1>6. CASE DialSucceeds("rtt")
  <2>1. UNCHANGED <<pc, monVars, ctxVars, cur, descVars, appVars>>
    BY <1>6 DEF DialSucceeds
  <2>2. ConnType' /\ ConnInv' /\ (cur["update"] # None => conns'[cur["update"]] = conns[cur["update"]])
    BY <1>1, <1>6, DialFacts, NotUpdates
  <2>3. PcType'
    BY <1>1, <2>1 DEF PcType
  <2> QED
    BY <2>1, <2>2, <2>3, RttFrame DEF monVars
<1>7. CASE RttSample
  <2>1. /\ Goto("rtt", "loop") /\ rttSet' = TRUE
        /\ UNCHANGED <<mdesc, prevKnown, ctxVars, cur, held, descVars, appVars>>
    BY <1>7 DEF RttSample, Greeted
  <2>2. CASE Greeted("rtt")
    <3>1. ConnType' /\ ConnInv' /\ (cur["update"] # None => conns'[cur["update"]] = conns[cur["update"]])
      BY <1>1, <2>1, <2>2, GreetedFacts, NotUpdates
    <3> QED
      BY <1>2, <2>1, <3>1, RttFrame DEF RttPCs
  <2>3. CASE Replied("rtt") /\ UNCHANGED conns
    <3>1. pc["rtt"] = "read"
      BY <2>3 DEF Replied
    <3>2. ConnInv'
      BY <1>1, <2>1, <2>3, <3>1, QuietStep
    <3>3. ConnType'
      BY <1>1, <2>1, <2>3 DEF ConnType
    <3> QED
      BY <1>2, <2>1, <2>3, <3>2, <3>3, RttFrame DEF RttPCs
  <2> QED
    BY <1>7, <2>2, <2>3 DEF RttSample
<1>8. CASE RttFails
  <2>1. /\ Goto("rtt", "loop")
        /\ UNCHANGED <<monVars, ctxVars, cur, held, descVars, appVars>>
    BY <1>8 DEF RttFails
  <2>2. CASE ConnectFails("rtt")
    <3>1. ConnType' /\ ConnInv' /\ (cur["update"] # None => conns'[cur["update"]] = conns[cur["update"]])
      BY <1>1, <2>1, <2>2, FailFacts, NotUpdates
    <3> QED
      BY <1>2, <2>1, <3>1, RttFrame DEF RttPCs, monVars
  <2>3. CASE pc["rtt"] = "read" /\ conns' = Close(cur["rtt"])
    <3>1. cur["rtt"] # None
      BY <1>1, <2>3, CurFacts
    <3>2. pc'["rtt"] = "loop" /\ \A q \in Routines : q # "rtt" => pc'[q] = pc[q]
      BY <1>2, <2>1 DEF RttPCs
    <3>3. ConnType' /\ ConnInv' /\ (cur["update"] # None => conns'[cur["update"]] = conns[cur["update"]])
      BY <1>1, <2>1, <2>3, <3>1, <3>2, CloseFacts, NotUpdates
    <3> QED
      BY <1>2, <2>1, <3>3, RttFrame DEF RttPCs, monVars
  <2> QED
    BY <1>8, <2>2, <2>3 DEF RttFails
<1> QED
  BY <1>3, <1>4, <1>5, <1>6, <1>7, <1>8 DEF Rtt
-----------------------------------------------------------------------------
(* Heartbeats *)

(* The descriptions that checks and errors make. *)
LEMMA DescFacts ==
  /\ \A v \in Versions \cup {0} :
       /\ Known(v) \in Desc /\ Known(v).err = "none"
       /\ \A e \in Errors : /\ Unknown(e, v) \in Desc /\ Unknown(e, v).err = e
                            /\ ~Unknown(e, v).known
  /\ Default \in Desc /\ Default.err = "none" /\ ~Default.known
  /\ {"none", "network", "command", "cancelled"} = Errors
BY DEF Known, Unknown, Default, Desc, Errors

(* A step of update leaves the locks and the workers alone.                 *)
LEMMA UpdateFrame ==
  ASSUME Inv, ConnType', ConnInv', PcType', DataType', CancelInv', ReportInv',
         \A q \in Routines : q # "update" => pc'[q] = pc[q], UNCHANGED <<errLock, fail>>,
         pc'["update"] = "exited" => \A i \in Subscribers : subs'[i] # "on"
  PROVE  Inv'
<1>1. LockInv'
  BY Names DEF Inv, LockInv, Routines
<1> QED
  BY <1>1, InvParts DEF SubscribersReleased

(* What a change of update's connection may do. *)
Milder(r, c) ==
  /\ r.cancelled = c.cancelled /\ r.dropped = c.dropped /\ r.step = c.step
  /\ r.connected = c.connected \/ r.connected = "disconnected"

(* Steps of update that make no description. *)
LEMMA UpdateQuiet ==
  ASSUME Inv, UNCHANGED <<cur, global, rttSet, desc, topDesc>>,
         cur["update"] # None => Milder(conns'[cur["update"]], conns[cur["update"]]),
         upd' = upd \/ upd' = [upd EXCEPT !["update"] = Default],
         pc'["update"] \notin {"connecting", "read", "failed", "apply", "store", "next"}
  PROVE  CancelInv' /\ ReportInv'
<1>1. CancelInv'
  BY DEF Inv, CancelInv, Milder
<1>2. \A p \in Workers \cup {"update"} : upd'[p].err # "cancelled"
  BY DescFacts DEF Inv, ReportInv, TypeOK, DataType
<1>3. ReportInv'
  BY <1>2 DEF Inv, ReportInv, NoCancelledReport, KnownHasRtt
<1> QED
  BY <1>1, <1>3

(* The loop, the end, the decision to ask, and the waits. *)
LEMMA UpdateWaits ==
  ASSUME Inv, UpdateLoop \/ WaitForCheck \/ UpdateNext \/ CheckCancelled
  PROVE  Inv'
<1> DEFINE l == pc'["update"]
<1>1. PcType /\ ConnType /\ "update" \in Monitors /\ "update" \in Routines
  BY Names DEF Inv, TypeOK, Routines
<1>2. /\ Goto("update", l) /\ l \in {"check", "loop", "wait"}
      /\ pc["update"] \in {"loop", "wait", "next", "failed"}
      /\ UNCHANGED <<conns, cur, held, state, callback, done, global, rttCtx, rttSet, desc,
                     topDesc, errLock, fail, subs, chans, replies>>
  <2> USE DEF ctxVars, connVars, descVars, appVars, opVars, subVars
  <2>1. \A k : Goto("update", k) => l = k
    BY <1>1, Moved
  <2>2. CASE UpdateLoop
    BY <2>1, <2>2 DEF UpdateLoop
  <2>3. CASE WaitForCheck
    <3>1. pc["update"] = "wait" /\ Goto("update", "loop")
      BY <2>3 DEF WaitForCheck
    <3>2. UNCHANGED <<ctxVars, connVars, rttSet, desc, topDesc, opVars, subVars, replies>>
      BY <2>3 DEF WaitForCheck, monVars
    <3> QED
      BY <2>1, <3>1, <3>2
  <2>4. CASE UpdateNext
    BY <2>1, <2>4 DEF UpdateNext
  <2>5. CASE CheckCancelled
    BY <2>1, <2>5 DEF CheckCancelled
  <2> QED
    BY <2>2, <2>3, <2>4, <2>5
<1>3. upd' = upd \/ upd' = [upd EXCEPT !["update"] = Default]
  BY DEF UpdateLoop, WaitForCheck, UpdateNext, CheckCancelled, descVars
<1>4. /\ mdesc' \in {mdesc, Default} /\ prevKnown' \in BOOLEAN /\ checkNow' \in BOOLEAN
      /\ stale' \in [Workers -> SUBSET Clearers]
  <2> USE DEF Inv, TypeOK, DataType, monVars, appVars, opVars
  <2>1. CASE UpdateLoop
    BY <2>1 DEF UpdateLoop, Desc
  <2>2. CASE WaitForCheck
    BY <2>2 DEF WaitForCheck
  <2>3. CASE UpdateNext
    BY <2>3 DEF UpdateNext, PoolCleared, Clearers
  <2>4. CASE CheckCancelled
    BY <2>4 DEF CheckCancelled
  <2> QED
    BY <2>1, <2>2, <2>3, <2>4
<1>5. DataType'
  BY <1>2, <1>3, <1>4, DescFacts DEF Inv, TypeOK, DataType
<1>6. PcType' /\ \A q \in Routines : q # "update" => pc'[q] = pc[q]
  BY <1>1, <1>2, Moved DEF LabelsOf, UpdatePCs
<1>7. ConnInv'
  BY <1>1, <1>2, QuietStep
<1>8. ConnType'
  BY <1>1, <1>2 DEF ConnType
<1>9. CancelInv' /\ ReportInv'
  BY <1>2, <1>3, UpdateQuiet DEF Milder
<1> QED
  BY <1>2, <1>5, <1>6, <1>7, <1>8, <1>9, UpdateFrame

(* closeServer, and the listener of a read that was cancelled. *)
LEMMA UpdateCloses ==
  ASSUME Inv, CloseServer
  PROVE  Inv'
<1>1. PcType /\ ConnType /\ "update" \in Monitors /\ "update" \in Routines
  BY Names DEF Inv, TypeOK, Routines
<1>2. /\ pc["update"] = "loop" /\ Goto("update", "exited")
      /\ UNCHANGED <<cur, held, state, callback, done, global, rttCtx, rttSet, mdesc, prevKnown,
                     desc, topDesc, upd, errLock, fail, stale, chans, checkNow, replies>>
  BY DEF CloseServer, monVars, ctxVars, descVars, opVars
<1>3. subs' = [i \in Subscribers |-> IF subs[i] = "on" THEN "closed" ELSE subs[i]]
  BY DEF CloseServer
<1>4. PcType' /\ pc'["update"] = "exited" /\ \A q \in Routines : q # "update" => pc'[q] = pc[q]
  BY <1>1, <1>2, Moved DEF LabelsOf, UpdatePCs
<1>5. DataType'
  BY <1>2, <1>3 DEF Inv, TypeOK, DataType
<1>6. /\ ConnType' /\ ConnInv'
      /\ cur["update"] # None => Milder(conns'[cur["update"]], conns[cur["update"]])
  <2>1. CASE cur["update"] = None
    <3>1. conns' = conns
      BY <2>1 DEF CloseServer
    <3>2. ConnInv'
      BY <1>1, <1>2, <3>1, QuietStep
    <3> QED
      BY <1>1, <1>2, <2>1, <3>1, <3>2 DEF ConnType
  <2>2. CASE cur["update"] # None
    <3> DEFINE c == cur["update"]
    <3>1. conns' = Close(c)
      BY <2>2 DEF CloseServer
    <3>2. /\ ConnType' /\ ConnInv'
          /\ OneConn(c, IF Alive(c) THEN ClosedConn(conns[c]) ELSE conns[c])
      BY <1>1, <1>2, <1>4, <2>2, <3>1, CloseFacts
    <3>3. Milder(conns'[c], conns[c])
      <4>1. conns[c] \in Connection
        BY <1>1, <2>2, ConnFields
      <4> QED
        BY <3>2, <4>1 DEF OneConn, ClosedConn, Milder, Connection, Alive
    <3> QED
      BY <3>2, <3>3
  <2> QED
    BY <2>1, <2>2
<1>7. CancelInv' /\ ReportInv'
  BY <1>2, <1>4, <1>6, UpdateQuiet
<1>8. \A i \in Subscribers : subs'[i] # "on"
  BY <1>3
<1> QED
  BY <1>2, <1>4, <1>5, <1>6, <1>7, <1>8, UpdateFrame

(* A new connection for the heartbeats. *)
LEMMA UpdateConnects ==
  ASSUME Inv, CheckConnects
  PROVE  Inv'
<1>1. PcType /\ ConnType /\ "update" \in Monitors /\ "update" \in Routines
  BY Names DEF Inv, TypeOK, Routines
<1>2. /\ pc["update"] = "check" /\ SetupConnection("update") /\ Goto("update", "connect")
      /\ UNCHANGED <<state, callback, done, global, rttCtx, rttSet, mdesc, prevKnown,
                     desc, topDesc, upd, errLock, fail, stale, subs, chans, checkNow, replies>>
  BY DEF CheckConnects, SetupConnection, monVars, ctxVars, descVars, appVars, opVars, subVars
<1>3. PcType' /\ pc'["update"] = "connect" /\ \A q \in Routines : q # "update" => pc'[q] = pc[q]
  BY <1>1, <1>2, Moved DEF LabelsOf, UpdatePCs
<1>4. DataType'
  BY <1>2 DEF Inv, TypeOK, DataType
<1>5. ConnType' /\ ConnInv'
  BY <1>1, <1>2, SetupStep
<1>6. conns'[cur'["update"]] = NewConnection("update")
  BY <1>1, <1>2, SetupFacts
<1>7. CancelInv'
  BY <1>3, <1>6 DEF CancelInv, NewConnection
<1>8. ReportInv'
  BY <1>2, <1>3 DEF Inv, ReportInv, NoCancelledReport, KnownHasRtt
<1> QED
  BY <1>2, <1>3, <1>4, <1>5, <1>7, <1>8, UpdateFrame

(* The connection is asked again, dialed, greeted or closed under a read.   *)
LEMMA UpdateDials ==
  ASSUME Inv, CheckAsks \/ StartConnect("update") \/ DialSucceeds("update") \/ ListenerCloses("update")
  PROVE  Inv'
<1> DEFINE c == cur["update"]
<1>1. PcType /\ ConnType /\ "update" \in Monitors /\ "update" \in Routines
  BY Names DEF Inv, TypeOK, Routines
<1>2. UNCHANGED <<cur, held, state, callback, done, global, rttCtx, rttSet, mdesc, prevKnown,
                  desc, topDesc, upd, errLock, fail, stale, subs, chans, checkNow, replies>>
  BY DEF CheckAsks, StartConnect, DialSucceeds, ListenerCloses, connVars,
         monVars, ctxVars, descVars, appVars, opVars, subVars
<1>3. /\ PcType' /\ pc'["update"] \in {"read", "connecting"}
      /\ \A q \in Routines : q # "update" => pc'[q] = pc[q]
  <2>1. CASE CheckAsks
    BY <1>1, <2>1, Moved DEF CheckAsks, LabelsOf, UpdatePCs
  <2>2. CASE StartConnect("update")
    BY <1>1, <2>2, Moved DEF StartConnect, LabelsOf, UpdatePCs
  <2>3. CASE DialSucceeds("update") \/ ListenerCloses("update")
    <3>1. pc' = pc /\ pc["update"] \in {"read", "connecting"}
      BY <2>3 DEF DialSucceeds, ListenerCloses
    <3> QED
      BY <1>1, <3>1 DEF PcType
  <2> QED
    BY <2>1, <2>2, <2>3
<1>4. DataType'
  BY <1>2 DEF Inv, TypeOK, DataType
<1>5. ReportInv'
  BY <1>2, <1>3 DEF Inv, ReportInv, NoCancelledReport, KnownHasRtt
<1>6. /\ ConnType' /\ ConnInv' /\ CancelInv'
  <2>1. CASE CheckAsks
    <3>1. /\ pc["update"] = "check" /\ Goto("update", "read") /\ conns' = conns
          /\ c # None /\ conns[c].connected # "disconnected"
      BY <2>1 DEF CheckAsks, connVars, NeedsConnection, Gone
    <3>2. ConnInv'
      BY <1>1, <1>2, <3>1, QuietStep
    <3>3. pc'["update"] = "read"
      BY <1>1, <3>1, Moved
    <3>4. CancelInv'
      BY <1>2, <3>1, <3>3 DEF Inv, CancelInv
    <3> QED
      BY <1>1, <1>2, <3>1, <3>2, <3>4 DEF ConnType
  <2>2. CASE StartConnect("update")
    <3>1. /\ ConnType' /\ ConnInv'
          /\ OneConn(c, [conns[c] EXCEPT !.connected = "connected", !.step = "dial"])
      BY <1>1, <2>2, StartFacts
    <3>2. conns[c] \in Connection /\ c # None /\ pc'["update"] = "connecting"
      BY <1>1, <2>2, CurFacts, Moved DEF StartConnect
    <3>3. /\ conns'[c].connected = "connected" /\ conns'[c].step = "dial"
          /\ conns'[c].dropped = conns[c].dropped /\ conns'[c].cancelled = conns[c].cancelled
      BY <3>1, <3>2 DEF OneConn, Connection
    <3>4. CancelInv'
      BY <1>2, <3>2, <3>3 DEF Inv, CancelInv
    <3> QED
      BY <3>1, <3>4
  <2>3. CASE DialSucceeds("update")
    <3>1. /\ ConnType' /\ ConnInv'
          /\ OneConn(c, [conns[c] EXCEPT !.step = "hello", !.open = TRUE])
      BY <1>1, <2>3, DialFacts
    <3>2. /\ conns[c] \in Connection /\ c # None /\ c \in Conns /\ conns[c].step = "dial"
          /\ pc' = pc /\ pc["update"] = "connecting"
      BY <1>1, <2>3, CurFacts DEF DialSucceeds
    <3>3. /\ conns'[c].connected = conns[c].connected /\ conns'[c].step = "hello"
          /\ conns'[c].dropped = conns[c].dropped /\ conns'[c].cancelled = conns[c].cancelled
      BY <3>1, <3>2 DEF OneConn, Connection
    <3>4. CancelInv'
      BY <1>2, <3>2, <3>3 DEF Inv, CancelInv
    <3> QED
      BY <3>1, <3>4
  <2>4. CASE ListenerCloses("update")
    <3>1. /\ pc' = pc /\ conns' = Close(c) /\ pc["update"] \in {"read", "connecting"}
          /\ pc["update"] = "connecting" => conns[c].step = "hello"
          /\ ConnectContextDone("update")
      BY <2>4 DEF ListenerCloses, ConnectContextDone
    <3>2. conns[c] \in Connection /\ c # None
      BY <1>1, <3>1, CurFacts
    <3>3. /\ ConnType' /\ ConnInv'
          /\ OneConn(c, IF Alive(c) THEN ClosedConn(conns[c]) ELSE conns[c])
      BY <1>1, <1>2, <3>1, <3>2, CloseFacts
    <3>4. Milder(conns'[c], conns[c])
      BY <3>2, <3>3 DEF OneConn, ClosedConn, Milder, Connection, Alive
    <3>5. global \/ conns[c].cancelled
      BY <3>1, <3>2 DEF ConnectContextDone, ContextDone, Inv, CancelInv
    <3>6. CancelInv'
      BY <1>2, <3>1, <3>2, <3>4, <3>5 DEF Inv, CancelInv, Milder
    <3> QED
      BY <3>3, <3>6
  <2> QED
    BY <2>1, <2>2, <2>3, <2>4
<1>7. pc'["update"] # "exited"
  BY <1>3
<1> QED
  BY <1>2, <1>3, <1>4, <1>5, <1>6, <1>7, UpdateFrame

(* What CheckReturns stores. *)
LEMMA ReturnFacts ==
  ASSUME Inv, NEW d \in Desc, CheckReturns(d), d.err # "cancelled",
         UNCHANGED <<desc, topDesc>>, d.known => rttSet'
  PROVE  /\ mdesc' \in Desc /\ upd' \in [Workers \cup {"update"} -> Desc]
         /\ PcType' /\ pc'["update"] = "apply" /\ ReportInv'
         /\ \A q \in Routines : q # "update" => pc'[q] = pc[q]
<1>1. /\ mdesc' = d /\ upd' = [upd EXCEPT !["update"] = d] /\ Goto("update", "apply")
      /\ upd \in [Workers \cup {"update"} -> Desc] /\ PcType /\ "update" \in Routines
  BY Names DEF CheckReturns, Inv, TypeOK, DataType, Routines
<1>2. PcType' /\ pc'["update"] = "apply" /\ \A q \in Routines : q # "update" => pc'[q] = pc[q]
  BY <1>1, Moved DEF LabelsOf, UpdatePCs
<1>3. /\ upd' \in [Workers \cup {"update"} -> Desc]
      /\ upd'["update"] = d /\ \A p \in Workers : upd'[p] = upd[p] \/ p = "update"
  BY <1>1
<1>4. \A p \in Workers \cup {"update"} : upd'[p].err # "cancelled"
  BY <1>3 DEF Inv, ReportInv
<1>5. ReportInv'
  BY <1>1, <1>2, <1>4 DEF Inv, ReportInv, NoCancelledReport, KnownHasRtt
<1> QED
  BY <1>1, <1>2, <1>3, <1>5

(* A check succeeds: on a new connection, or on one that was greeted before. *)
LEMMA UpdateSucceeds ==
  ASSUME Inv, UpdateGreeted \/ UpdateReplied
  PROVE  Inv'
<1> DEFINE c == cur["update"]
<1>1. PcType /\ ConnType /\ "update" \in Monitors /\ "update" \in Routines
  BY Names DEF Inv, TypeOK, Routines
<1>2. /\ UNCHANGED <<cur, held, state, callback, done, global, rttCtx, prevKnown,
                     desc, topDesc, errLock, fail, stale, subs, chans, checkNow, replies>>
      /\ \E v \in replies : CheckReturns(Known(v))
  BY DEF UpdateGreeted, UpdateReplied, ctxVars, descVars, appVars, opVars, subVars
<1>3. PICK v \in replies : CheckReturns(Known(v))
  BY <1>2
<1>4. Known(v) \in Desc /\ Known(v).err = "none"
  BY DescFacts DEF Inv, TypeOK, DataType
<1>5. Goto("update", "apply")
  BY <1>3 DEF CheckReturns
<1>6. pc["update"] \in {"connecting", "read"} /\ Alive(c)
  BY DEF UpdateGreeted, Greeted, UpdateReplied, Replied
<1>7. c # None /\ c \in Conns /\ conns[c] \in Connection
  BY <1>1, <1>6, CurFacts
<1>8. rttSet' = TRUE /\ ConnType' /\ ConnInv' /\ conns'[c].connected = "connected"
      /\ conns'[c].dropped = conns[c].dropped /\ conns'[c].cancelled = conns[c].cancelled
  <2>1. CASE UpdateGreeted
    <3>1. /\ Greeted("update") /\ rttSet' = TRUE
      BY <2>1 DEF UpdateGreeted, Greeted
    <3>2. ConnType' /\ ConnInv' /\ OneConn(c, [conns[c] EXCEPT !.step = "done"])
      BY <1>1, <1>2, <1>5, <3>1, GreetedFacts
    <3> QED
      BY <1>6, <1>7, <3>1, <3>2 DEF OneConn, Connection, Alive
  <2>2. CASE UpdateReplied
    <3>1. pc["update"] = "read" /\ rttSet' = rttSet
      BY <2>2 DEF UpdateReplied, Replied
    <3>2. PICK more \in BOOLEAN : conns' = [conns EXCEPT ![c].streaming = more]
      BY <2>2 DEF UpdateReplied
    <3> DEFINE r == [conns[c] EXCEPT !.streaming = more]
    <3>3. r \in Connection /\ conns' = [conns EXCEPT ![c] = r]
      BY <1>1, <1>7, <3>2 DEF Connection, ConnType
    <3>4. OneConn(c, r)
      BY <1>1, <1>7, <3>3, Changed
    <3>5. /\ r.owner = conns[c].owner /\ r.cancelled = conns[c].cancelled
          /\ r.dropped = conns[c].dropped /\ r.open = conns[c].open
          /\ r.connected = conns[c].connected /\ r.step = conns[c].step
      BY <1>7 DEF Connection
    <3>6. conns[c].step = "done" /\ conns[c].connected = "connected"
      BY <1>1, <1>6, <1>7, <3>1 DEF Inv, StepInv, Alive
    <3>7. rttSet
      BY <1>7, <3>6 DEF Inv, CancelInv
    <3>8. pc'["update"] = "apply" /\ \A q \in Routines : q # "update" => pc'[q] = pc[q]
      BY <1>1, <1>5, Moved
    <3> HIDE DEF r
    <3>9. ConnInv'
      BY <1>1, <1>2, <1>7, <3>4, <3>5, <3>6, <3>8, MonitorStep
    <3>10. ConnType'
      BY <1>1, <1>2, <3>4 DEF ConnType, OneConn
    <3>11. rttSet' = TRUE
      BY <3>1, <3>7 DEF Inv, TypeOK, DataType
    <3> QED
      BY <3>4, <3>5, <3>6, <3>9, <3>10, <3>11 DEF OneConn
  <2> QED
    BY <2>1, <2>2
<1>9. /\ mdesc' \in Desc /\ upd' \in [Workers \cup {"update"} -> Desc]
      /\ PcType' /\ pc'["update"] = "apply" /\ ReportInv'
      /\ \A q \in Routines : q # "update" => pc'[q] = pc[q]
  BY <1>2, <1>3, <1>4, <1>8, ReturnFacts
<1>10. DataType'
  BY <1>2, <1>8, <1>9 DEF Inv, TypeOK, DataType
<1>11. CancelInv'
  BY <1>2, <1>7, <1>8, <1>9 DEF Inv, CancelInv
<1> QED
  BY <1>2, <1>8, <1>9, <1>10, <1>11, UpdateFrame

(* A check fails: as a cancellation only if the context was cancelled.      *)
LEMMA UpdateFails ==
  ASSUME Inv, UpdateConnectFails \/ UpdateReadFails
  PROVE  Inv'
<1> DEFINE c == cur["update"]
<1>1. PcType /\ ConnType /\ "update" \in Monitors /\ "update" \in Routines
  BY Names DEF Inv, TypeOK, Routines
<1>2. /\ UNCHANGED <<cur, held, state, callback, done, global, rttCtx, rttSet, prevKnown,
                     desc, topDesc, upd, errLock, fail, stale, subs, chans, checkNow, replies>>
      /\ Goto("update", "failed") /\ pc["update"] \in {"connecting", "read"}
  BY DEF UpdateConnectFails, UpdateReadFails, ConnectFails, FailCheck,
         ctxVars, descVars, appVars, opVars, subVars
<1>3. c # None /\ c \in Conns /\ conns[c] \in Connection
  BY <1>1, <1>2, CurFacts
<1>4. PcType' /\ pc'["update"] = "failed" /\ \A q \in Routines : q # "update" => pc'[q] = pc[q]
  BY <1>1, <1>2, Moved DEF LabelsOf, UpdatePCs
<1>5. /\ conns[c].connected # "connected" => conns[c].connected = "disconnected"
      /\ FailureOf("update") \in Errors
      /\ FailureOf("update") = "cancelled" => global \/ conns[c].cancelled
  <2>1. conns[c].step # "none"
    BY <1>1, <1>2, <1>3 DEF Inv, StepInv
  <2>2. conns[c].connected # "connected" => conns[c].connected = "disconnected"
    BY <1>3, <2>1 DEF Connection, Inv, CancelInv
  <2>3. /\ conns[c].dropped => global \/ conns[c].cancelled
        /\ conns[c].connected = "disconnected" => global \/ conns[c].cancelled
    BY <1>2, <1>3 DEF Inv, CancelInv
  <2> QED
    BY <2>2, <2>3 DEF FailureOf, Errors, ConnectContextDone, ContextDone, Alive
<1>6. mdesc' \in Desc /\ ~mdesc'.known
      /\ (mdesc'.err = "cancelled" => global \/ conns[c].cancelled)
  <2>1. CASE mdesc' = Unknown(FailureOf("update"), 0)
    BY <1>5, <2>1, DescFacts
  <2>2. CASE \E v \in replies : mdesc' = Unknown("command", v)
    BY <2>2, DescFacts DEF Inv, TypeOK, DataType
  <2> QED
    BY <2>1, <2>2 DEF UpdateConnectFails, UpdateReadFails, FailCheck
<1>7. /\ ConnType' /\ ConnInv' /\ conns'[c].connected = "disconnected"
      /\ conns'[c].dropped = conns[c].dropped /\ conns'[c].cancelled = conns[c].cancelled
  <2>1. CASE UpdateConnectFails
    <3>1. ConnectFails("update")
      BY <2>1 DEF UpdateConnectFails
    <3>2. /\ ConnType' /\ ConnInv'
          /\ OneConn(c, [conns[c] EXCEPT !.connected = "disconnected", !.open = FALSE,
                                         !.step = "done"])
      BY <1>1, <1>2, <3>1, FailFacts
    <3> QED
      BY <1>3, <3>2 DEF OneConn, Connection
  <2>2. CASE UpdateReadFails
    <3>1. pc["update"] = "read" /\ conns' = Close(c)
      BY <2>2 DEF UpdateReadFails
    <3>2. /\ ConnType' /\ ConnInv'
          /\ OneConn(c, IF Alive(c) THEN ClosedConn(conns[c]) ELSE conns[c])
      BY <1>1, <1>2, <1>3, <1>4, <3>1, CloseFacts
    <3> QED
      BY <1>3, <1>5, <3>2 DEF OneConn, ClosedConn, Connection, Alive
  <2> QED
    BY <2>1, <2>2
<1>8. DataType'
  BY <1>2, <1>6 DEF Inv, TypeOK, DataType
<1>9. CancelInv'
  BY <1>2, <1>3, <1>4, <1>6, <1>7 DEF Inv, CancelInv
<1>10. ReportInv'
  BY <1>2, <1>4 DEF Inv, ReportInv, NoCancelledReport, KnownHasRtt
<1> QED
  BY <1>2, <1>4, <1>7, <1>8, <1>9, <1>10, UpdateFrame

(* A failure that was no cancellation is reported. *)
LEMMA UpdateReports ==
  ASSUME Inv, CheckFailed
  PROVE  Inv'
<1> DEFINE c == cur["update"]
<1>1. PcType /\ ConnType /\ "update" \in Monitors /\ "update" \in Routines
  BY Names DEF Inv, TypeOK, Routines
<1>2. /\ UNCHANGED <<conns, cur, held, state, callback, done, global, rttCtx, prevKnown,
                     desc, topDesc, errLock, fail, stale, subs, chans, checkNow, replies>>
      /\ CheckReturns(mdesc) /\ Goto("update", "apply") /\ pc["update"] = "failed"
      /\ rttSet' = FALSE /\ ~(global \/ conns[c].cancelled)
  BY DEF CheckFailed, CheckReturns, CheckWasCancelled, ContextDone, ctxVars, connVars, descVars,
         appVars, opVars, subVars
<1>3. c # None
  BY <1>1, <1>2, CurFacts
<1>4. conns[c].connected # "connected" /\ ~mdesc.known /\ mdesc.err # "cancelled"
  BY <1>2, <1>3 DEF Inv, CancelInv
<1>5. mdesc \in Desc
  BY DEF Inv, TypeOK, DataType
<1>6. /\ mdesc' \in Desc /\ upd' \in [Workers \cup {"update"} -> Desc]
      /\ PcType' /\ pc'["update"] = "apply" /\ ReportInv'
      /\ \A q \in Routines : q # "update" => pc'[q] = pc[q]
  BY <1>2, <1>4, <1>5, ReturnFacts
<1>7. DataType'
  BY <1>2, <1>6 DEF Inv, TypeOK, DataType
<1>8. CancelInv'
  BY <1>2, <1>3, <1>4, <1>6 DEF Inv, CancelInv
<1>9. ConnInv'
  BY <1>1, <1>2, QuietStep
<1>10. ConnType'
  BY <1>1, <1>2 DEF ConnType
<1> QED
  BY <1>2, <1>6, <1>7, <1>8, <1>9, <1>10, UpdateFrame
-----------------------------------------------------------------------------
(* Descriptions *)

(* A step that changes no connection nor context, of a goroutine that has   *)
(* what CancelInv needs.                                                    *)
LEMMA CancelFrame ==
  ASSUME Inv, UNCHANGED <<conns, cur, global, rttSet, mdesc>>,
         pc'["update"] = pc["update"] \/ pc'["update"] \notin {"connecting", "read", "failed"}
  PROVE  CancelInv'
BY DEF Inv, CancelInv

(* updateDescription: the answer of the topology is stored. *)
LEMMA DescriptionSteps ==
  ASSUME Inv, NEW p \in Workers \cup {"update"}, UpdateDescription(p)
  PROVE  Inv'
<1> DEFINE l == pc'[p]
<1>1. PcType /\ ConnType /\ p \in Routines /\ p # "disconnect" /\ "update" \in Routines
      /\ p # "rtt" /\ (p = "update" \/ p \in Workers)
  BY Names DEF Inv, TypeOK, Routines
<1>2. /\ Goto(p, l) /\ UNCHANGED <<conns, cur, held, state, callback, done, global, rttCtx, rttSet,
                     mdesc, prevKnown, errLock, fail, stale, subs, checkNow, replies>>
      /\ \/ pc[p] = "apply" /\ l = "store"
         \/ pc[p] = "store" /\ l = IF p = "update" THEN "next" ELSE "after"
  <2>1. \A k : Goto(p, k) => l = k
    BY <1>1, Moved
  <2> QED
    BY <2>1 DEF UpdateDescription, UpdateTopology, StoreDescription, ctxVars, connVars, monVars,
                appVars, opVars, subVars
<1>3. /\ desc' \in {desc, upd[p]} /\ topDesc' \in {topDesc, upd[p]}
      /\ upd' = upd \/ upd' = [upd EXCEPT ![p] = topDesc]
  BY DEF UpdateDescription, UpdateTopology, StoreDescription, descVars
<1>4. chans' \in [Subscribers -> Desc]
  BY <1>3 DEF UpdateDescription, UpdateTopology, StoreDescription, appVars, subVars, Notify, Inv,
              TypeOK, DataType
<1>5. /\ upd \in [Workers \cup {"update"} -> Desc] /\ topDesc \in Desc /\ desc \in Desc
      /\ upd[p].err # "cancelled" /\ topDesc.err # "cancelled" /\ desc.err # "cancelled"
  BY DEF Inv, TypeOK, DataType, ReportInv, NoCancelledReport
<1>6. /\ desc' \in Desc /\ topDesc' \in Desc /\ upd' \in [Workers \cup {"update"} -> Desc]
      /\ desc'.err # "cancelled" /\ topDesc'.err # "cancelled"
  BY <1>3, <1>5
<1>7. \A q \in Workers \cup {"update"} : upd'[q].err # "cancelled"
  BY <1>3, <1>5 DEF Inv, ReportInv
<1>8. DataType'
  BY <1>2, <1>4, <1>6 DEF Inv, TypeOK, DataType
<1>9. PcType' /\ \A q \in Routines : q # p => pc'[q] = pc[q]
  BY <1>1, <1>2, Moved DEF LabelsOf, UpdatePCs, WorkerPCs
<1>10. ConnInv'
  BY <1>1, <1>2, QuietStep
<1>11. ConnType'
  BY <1>1, <1>2 DEF ConnType
<1>12. /\ pc'["update"] = pc["update"] \/ pc'["update"] \in {"store", "next"}
       /\ pc'["update"] \in {"store", "next"} => pc["update"] \in {"apply", "store", "next"}
       /\ pc'["update"] \in {"apply", "store"} => pc["update"] \in {"apply", "store"}
  BY <1>1, <1>2, <1>9
<1>13. CancelInv'
  BY <1>2, <1>12, CancelFrame
<1>14. ReportInv'
  <2>1. pc'["update"] \in {"apply", "store", "next"} => mdesc.err # "cancelled"
    BY <1>12 DEF Inv, ReportInv, NoCancelledReport
  <2>2. pc'["update"] \in {"apply", "store"} /\ mdesc.known => rttSet
    BY <1>12 DEF Inv, ReportInv, KnownHasRtt
  <2> QED
    BY <1>2, <1>6, <1>7, <2>1, <2>2 DEF ReportInv, NoCancelledReport, KnownHasRtt
<1>15. SubscribersReleased'
  BY <1>2, <1>12 DEF Inv, SubscribersReleased
<1>16. LockInv'
  <2>1. \A w \in Workers : w # p => pc'[w] = pc[w]
    BY <1>9, Names DEF Routines
  <2>2. p \in Workers => pc[p] \in ReportPCs /\ pc'[p] \in ReportPCs
    BY <1>2, Names DEF ReportPCs, Monitors
  <2> QED
    BY <1>2, <2>1, <2>2 DEF Inv, LockInv
<1> QED
  BY <1>8, <1>9, <1>10, <1>11, <1>13, <1>14, <1>15, <1>16, InvParts
-----------------------------------------------------------------------------
(* Operations *)

(* A worker's step that touches no connection. *)
LEMMA WorkerFrame ==
  ASSUME Inv, NEW w \in Workers, NEW l \in WorkerPCs, Goto(w, l),
         l \notin {"cancelDial", "cancelClose"},
         UNCHANGED <<conns, cur, held, state, callback, done, global, rttCtx, rttSet, mdesc,
                     prevKnown, desc, topDesc, subs, chans, replies>>,
         upd' \in [Workers \cup {"update"} -> Desc], upd'[w].err # "cancelled",
         \A p \in Workers \cup {"update"} : p # w => upd'[p] = upd[p],
         checkNow' \in BOOLEAN, errLock' \in Workers \cup {None},
         fail' \in [Workers -> [kind : OpFailures \cup {"none"}, tv : Versions \cup {0},
                                connTV : Versions \cup {0}]],
         stale' \in [Workers -> SUBSET Clearers],
         \A v \in Workers : v # w => /\ fail'[v] = fail[v]
                                     /\ errLock' = v => errLock = v
                                     /\ errLock = v => errLock' = v,
         errLock' = w => l \in ReportPCs \cup {"cancel"},
         l \in ReportPCs /\ fail'[w].kind \notin HandshakeFailures => errLock' = w
  PROVE  Inv'
<1>1. PcType /\ ConnType /\ w \in Routines /\ w # "disconnect" /\ w \notin Monitors
      /\ "update" \in Routines /\ w # "update"
  BY Names DEF Inv, TypeOK, Routines
<1>2. /\ PcType' /\ pc'[w] = l /\ pc'["update"] = pc["update"]
      /\ \A q \in Routines : q # w => pc'[q] = pc[q]
  BY <1>1, Moved, Names DEF LabelsOf, Monitors
<1>3. DataType'
  BY DEF Inv, TypeOK, DataType
<1>4. ConnInv'
  BY <1>1, QuietStep
<1>5. ConnType'
  BY <1>1 DEF ConnType
<1>6. CancelInv'
  BY <1>2, CancelFrame
<1>7. ReportInv'
  BY <1>2 DEF Inv, ReportInv, NoCancelledReport, KnownHasRtt
<1>8. SubscribersReleased'
  BY <1>2 DEF Inv, SubscribersReleased
<1>9. LockInv'
  <2>1. \A v \in Workers : v # w => pc'[v] = pc[v]
    BY <1>2, Names DEF Routines
  <2> QED
    BY <1>2, <2>1 DEF Inv, LockInv
<1> QED
  BY <1>2, <1>3, <1>4, <1>5, <1>6, <1>7, <1>8, <1>9, InvParts

(* A worker takes a connection, and its operation fails. *)
LEMMA CheckoutSteps ==
  ASSUME Inv, NEW w \in Workers, Checkout(w) \/ OperationFails(w)
  PROVE  Inv'
<1> DEFINE Failure == [kind : OpFailures \cup {"none"}, tv : Versions \cup {0},
                       connTV : Versions \cup {0}]
<1>1. /\ fail \in [Workers -> Failure] /\ errLock \in Workers \cup {None} /\ checkNow \in BOOLEAN
      /\ stale \in [Workers -> SUBSET Clearers] /\ upd \in [Workers \cup {"update"} -> Desc]
      /\ upd[w].err # "cancelled" /\ replies \subseteq Versions
  BY DEF Inv, TypeOK, DataType, ReportInv
<1>2. PICK l \in {"op", "error"} : Goto(w, l) /\ pc[w] \in {"idle", "op"}
  BY DEF Checkout, OperationFails
<1>3. UNCHANGED <<conns, cur, held, state, callback, done, global, rttCtx, rttSet, mdesc,
                  prevKnown, desc, topDesc, upd, subs, chans, replies, checkNow, errLock, stale>>
  BY DEF Checkout, OperationFails, connVars, ctxVars, monVars, descVars, appVars, opVars, subVars
<1>4. fail' \in [Workers -> Failure] /\ \A v \in Workers : v # w => fail'[v] = fail[v]
  <2>1. CASE Checkout(w)
    BY <1>1, <2>1 DEF Checkout, appVars, opVars
  <2>2. CASE OperationFails(w)
    <3>1. PICK k \in Failures, v \in replies \cup {0}, cv \in replies \cup {0} :
            fail' = [fail EXCEPT ![w] = [kind |-> k, tv |-> v, connTV |-> cv]]
      BY <2>2 DEF OperationFails
    <3>2. [kind |-> k, tv |-> v, connTV |-> cv] \in Failure
      BY <1>1, MonitorAssumption
    <3> HIDE DEF Failure
    <3> QED
      BY <1>1, <3>1, <3>2
  <2> QED
    BY <2>1, <2>2
<1>5. errLock # w
  BY <1>2 DEF Inv, LockInv, ReportPCs
<1>6. l \in WorkerPCs /\ l \notin ReportPCs
  BY DEF WorkerPCs, ReportPCs
<1> QED
  BY <1>1, <1>2, <1>3, <1>4, <1>5, <1>6, WorkerFrame

(* ProcessError and ProcessHandshakeError, up to updateDescription. *)
LEMMA ProcessErrorStep ==
  ASSUME Inv, NEW w \in Workers, ProcessError(w)
  PROVE  Inv'
<1> DEFINE Failure == [kind : OpFailures \cup {"none"}, tv : Versions \cup {0},
                       connTV : Versions \cup {0}]
<1>1. /\ fail \in [Workers -> Failure] /\ errLock \in Workers \cup {None} /\ checkNow \in BOOLEAN
      /\ stale \in [Workers -> SUBSET Clearers] /\ upd \in [Workers \cup {"update"} -> Desc]
      /\ upd[w].err # "cancelled"
  BY DEF Inv, TypeOK, DataType, ReportInv
<1>2. /\ UNCHANGED <<conns, cur, held, state, callback, done, global, rttCtx, rttSet, mdesc,
                     prevKnown, desc, topDesc, subs, chans, replies, checkNow>>
      /\ pc[w] = "error" /\ stale' \in {stale, [stale EXCEPT ![w] = {}]}
  BY DEF ProcessError, connVars, ctxVars, monVars, subVars
<1>3. errLock # w /\ w # None
  BY <1>2, Names DEF Inv, LockInv, ReportPCs
<1>4. stale' \in [Workers -> SUBSET Clearers]
  BY <1>1, <1>2
<1>5. CASE Ignored(w)
  <2>1. /\ Goto(w, "end") /\ fail' = [fail EXCEPT ![w] = NoFailure] /\ UNCHANGED <<errLock, upd>>
    BY <1>5 DEF ProcessError, TakeError
  <2>2. NoFailure \in Failure
    BY DEF NoFailure
  <2> HIDE DEF Failure
  <2>3. fail' \in [Workers -> Failure] /\ \A v \in Workers : v # w => fail'[v] = fail[v]
    BY <1>1, <2>1, <2>2
  <2> USE DEF Failure
  <2>4. "end" \in WorkerPCs /\ "end" \notin ReportPCs
    BY DEF WorkerPCs, ReportPCs
  <2>5. errLock' \in Workers \cup {None} /\ errLock' # w /\ checkNow' \in BOOLEAN
    BY <1>1, <1>2, <1>3, <2>1
  <2>6. /\ upd' \in [Workers \cup {"update"} -> Desc] /\ upd'[w].err # "cancelled"
        /\ \A p \in Workers \cup {"update"} : p # w => upd'[p] = upd[p]
        /\ \A v \in Workers : (errLock' = v => errLock = v) /\ (errLock = v => errLock' = v)
    BY <1>1, <2>1
  <2> QED
    BY <1>2, <1>4, <2>1, <2>3, <2>4, <2>5, <2>6, WorkerFrame
<1>6. CASE ~Ignored(w)
  <2>1. /\ Goto(w, "apply") /\ fail' = [fail EXCEPT ![w].tv = 0, ![w].connTV = 0]
        /\ upd' = [upd EXCEPT ![w] = ReportOf(w)]
        /\ errLock' = IF fail[w].kind \in HandshakeFailures THEN errLock ELSE w
        /\ fail[w].kind \notin HandshakeFailures => errLock = None
    BY <1>6 DEF ProcessError, TakeError
  <2>2. /\ fail' \in [Workers -> Failure] /\ fail'[w].kind = fail[w].kind
        /\ \A v \in Workers : v # w => fail'[v] = fail[v]
    <3> DEFINE f == [fail[w] EXCEPT !.tv = 0, !.connTV = 0]
    <3>1. fail[w] \in Failure
      BY <1>1
    <3>2. f \in Failure /\ f.kind = fail[w].kind
      BY <3>1
    <3>3. fail' = [fail EXCEPT ![w] = f]
      BY <1>1, <2>1
    <3> HIDE DEF f, Failure
    <3> QED
      BY <1>1, <3>2, <3>3
  <2>3. ReportOf(w) \in Desc /\ ReportOf(w).err # "cancelled"
    <3>1. fail[w].tv \in Versions \cup {0}
      BY <1>1
    <3> QED
      BY <3>1, DescFacts DEF ReportOf
  <2>4. /\ upd' \in [Workers \cup {"update"} -> Desc] /\ upd'[w].err # "cancelled"
        /\ \A p \in Workers \cup {"update"} : p # w => upd'[p] = upd[p]
    BY <1>1, <2>1, <2>3
  <2>5. /\ errLock' \in Workers \cup {None}
        /\ fail'[w].kind \notin HandshakeFailures => errLock' = w
        /\ \A v \in Workers : v # w => (errLock' = v => errLock = v) /\ (errLock = v => errLock' = v)
    BY <1>1, <2>1, <2>2, Names
  <2>6. "apply" \in WorkerPCs /\ "apply" \in ReportPCs
    BY DEF WorkerPCs, ReportPCs
  <2> QED
    BY <1>1, <1>2, <1>4, <2>1, <2>2, <2>4, <2>5, <2>6, WorkerFrame
<1> QED
  BY <1>5, <1>6

(* What follows updateDescription. *)
LEMMA ProcessErrorEndStep ==
  ASSUME Inv, NEW w \in Workers, ProcessErrorEnds(w)
  PROVE  Inv'
<1> DEFINE Failure == [kind : OpFailures \cup {"none"}, tv : Versions \cup {0},
                       connTV : Versions \cup {0}]
           network == fail[w].kind \in {"network", "handshake"}
<1>1. /\ fail \in [Workers -> Failure] /\ errLock \in Workers \cup {None} /\ checkNow \in BOOLEAN
      /\ stale \in [Workers -> SUBSET Clearers] /\ upd \in [Workers \cup {"update"} -> Desc]
  BY DEF Inv, TypeOK, DataType
<1>2. /\ UNCHANGED <<conns, cur, held, state, callback, done, global, rttCtx, rttSet, mdesc,
                     prevKnown, desc, topDesc, subs, chans, replies>>
      /\ fail' = [fail EXCEPT ![w] = NoFailure] /\ upd' = [upd EXCEPT ![w] = Default]
  BY DEF ProcessErrorEnds, connVars, ctxVars, monVars, subVars
<1>3. /\ checkNow' = (checkNow \/ ~network)
      /\ stale' = [(IF Clears(w) THEN PoolCleared(Clearer(w)) ELSE stale) EXCEPT ![w] = {}]
  BY DEF ProcessErrorEnds
<1>4. /\ Goto(w, IF network THEN "cancel" ELSE "end")
      /\ errLock' = IF network THEN errLock ELSE Released(w)
  BY DEF ProcessErrorEnds
<1>5. checkNow' \in BOOLEAN
  BY <1>3
<1>6. stale' \in [Workers -> SUBSET Clearers]
  <2>1. Clearer(w) \in Clearers
    BY DEF Clearer, Clearers
  <2>2. PoolCleared(Clearer(w)) \in [Workers -> SUBSET Clearers]
    BY <1>1, <2>1 DEF PoolCleared
  <2> QED
    BY <1>1, <1>3, <2>2
<1>7. NoFailure \in Failure
  BY DEF NoFailure
<1> HIDE DEF Failure
<1>8. fail' \in [Workers -> Failure] /\ \A v \in Workers : v # w => fail'[v] = fail[v]
  BY <1>1, <1>2, <1>7
<1>9. /\ upd' \in [Workers \cup {"update"} -> Desc] /\ upd'[w].err # "cancelled"
      /\ \A p \in Workers \cup {"update"} : p # w => upd'[p] = upd[p]
  BY <1>1, <1>2, DescFacts
<1> HIDE DEF network
<1>10. /\ errLock' \in Workers \cup {None} /\ (errLock' = w => network)
       /\ \A v \in Workers : v # w => (errLock' = v => errLock = v) /\ (errLock = v => errLock' = v)
  BY <1>1, <1>4, Names DEF Released
<1> DEFINE l == IF network THEN "cancel" ELSE "end"
<1>11. l \in WorkerPCs /\ l \notin ReportPCs /\ l \notin {"cancelDial", "cancelClose"}
       /\ (network => l = "cancel")
  BY DEF WorkerPCs, ReportPCs
<1> HIDE DEF l
<1>12. Goto(w, l)
  BY <1>4 DEF l
<1> USE DEF Failure
<1> QED
  BY <1>2, <1>5, <1>6, <1>8, <1>9, <1>10, <1>11, <1>12, WorkerFrame
-----------------------------------------------------------------------------
(* cancelCheck, and the end of the round trip monitor's connection *)

(* A step of cancelCheck: it cancels or closes, and never greets. *)
LEMMA CancellerFrame ==
  ASSUME Inv, NEW p \in Cancellers, NEW l \in LabelsOf(p), Goto(p, l), ConnType', ConnInv',
         UNCHANGED <<state, callback, done, global, rttCtx, rttSet, mdesc, prevKnown, cur,
                     desc, topDesc, upd, fail, stale, subs, chans, checkNow, replies>>,
         cur["update"] # None =>
           \/ conns'[cur["update"]] = conns[cur["update"]]
           \/ /\ conns'[cur["update"]].cancelled
              /\ conns'[cur["update"]].step = conns[cur["update"]].step
              /\ conns'[cur["update"]].connected \in {conns[cur["update"]].connected, "disconnected"},
         errLock' = errLock \/ (p \in Workers /\ errLock' = Released(p)),
         p \in Workers => /\ l \notin ReportPCs
                          /\ errLock' = p => l \in {"cancelDial", "cancelClose"}
  PROVE  Inv'
<1>1. PcType /\ p \in Routines /\ "update" \in Routines /\ p # "update"
  BY Names DEF Inv, TypeOK, Routines
<1>2. /\ PcType' /\ pc'[p] = l /\ pc'["update"] = pc["update"]
      /\ \A q \in Routines : q # p => pc'[q] = pc[q]
  BY <1>1, Moved
<1>3. errLock' \in Workers \cup {None}
  BY DEF Inv, TypeOK, DataType, Released
<1>4. DataType'
  BY <1>3 DEF Inv, TypeOK, DataType
<1>5. CancelInv'
  BY <1>2 DEF Inv, CancelInv
<1>6. ReportInv'
  BY <1>2 DEF Inv, ReportInv, NoCancelledReport, KnownHasRtt
<1>7. SubscribersReleased'
  BY <1>2 DEF Inv, SubscribersReleased
<1>8. LockInv'
  <2>1. \A w \in Workers : w # p => pc'[w] = pc[w] /\ (errLock' = w <=> errLock = w)
    BY <1>2, Names DEF Routines, Released
  <2> QED
    BY <1>2, <2>1 DEF Inv, LockInv
<1> QED
  BY <1>2, <1>4, <1>5, <1>6, <1>7, <1>8, InvParts

(* The context of the check is cancelled and its connection read. *)
LEMMA CancelCheckStep ==
  ASSUME Inv, NEW p \in Cancellers, CancelCheck(p)
  PROVE  Inv'
<1> DEFINE c == cur["update"]
<1>1. PcType /\ ConnType /\ p \in Routines /\ p \notin Monitors /\ p # "update"
      /\ "update" \in Monitors
  BY Names DEF Inv, TypeOK, Routines
<1>2. UNCHANGED <<state, callback, done, global, rttCtx, rttSet, mdesc, prevKnown, cur,
                  desc, topDesc, upd, fail, stale, subs, chans, checkNow, replies>>
      /\ pc[p] = "cancel"
  BY DEF CancelCheck, ctxVars, monVars, descVars, subVars, connVars
<1>3. AfterCancel(p) \in LabelsOf(p) /\ "cancelDial" \in LabelsOf(p)
      /\ AfterCancel(p) \in {"rtt", "end"} /\ (p = "disconnect" => AfterCancel(p) = "rtt")
      /\ (p \in Workers => AfterCancel(p) = "end")
  BY Names DEF AfterCancel, LabelsOf, WorkerPCs, DisconnectPCs, Monitors
<1>4. CASE c = None
  <2> DEFINE l == AfterCancel(p)
  <2>1. Goto(p, l) /\ ReleaseAfterCancel(p) /\ UNCHANGED <<conns, held>>
    BY <1>4 DEF CancelCheck, connVars
  <2>2. ConnType'
    BY <1>1, <1>2, <2>1 DEF ConnType
  <2>3. pc'[p] = l /\ \A q \in Routines : q # p => pc'[q] = pc[q]
    BY <1>1, <2>1, Moved
  <2> HIDE DEF l
  <2>4. ConnInv'
    <3>1. ConnShape' /\ OwnerInv'
      BY <1>2, <2>1 DEF Inv, ConnShape, OwnerInv
    <3>2. StepInv'
      BY <1>1, <1>2, <2>1, <2>3 DEF Inv, StepInv, Routines
    <3>3. HeldInv'
      BY <1>3, <2>1, <2>3, Names DEF Inv, HeldInv, Routines, l
    <3>4. RttInv'
      <4>1. pc'["disconnect"] = pc["disconnect"] \/ pc'["disconnect"] = "rtt"
        BY <1>3, <2>3, Names DEF Routines, l
      <4> QED
        BY <1>2, <2>1, <4>1 DEF Inv, RttInv, OpenRtt, AfterRtt, RttDone
    <3> QED
      BY <3>1, <3>2, <3>3, <3>4 DEF ConnInv
  <2>5. errLock' = IF p \in Workers THEN Released(p) ELSE errLock
    BY <2>1 DEF ReleaseAfterCancel
  <2>6. p \in Workers => errLock' # p
    BY <2>5, Names DEF Released
  <2>7. l \in LabelsOf(p) /\ (p \in Workers => l \notin ReportPCs)
    BY <1>3 DEF l, ReportPCs
  <2> QED
    BY <1>2, <1>4, <2>1, <2>2, <2>4, <2>5, <2>6, <2>7, CancellerFrame
<1>5. CASE c # None
  <2> DEFINE r == [conns[c] EXCEPT !.cancelled = TRUE]
  <2>1. /\ conns' = [conns EXCEPT ![c].cancelled = TRUE]
        /\ held' = [held EXCEPT ![p] = c] /\ Goto(p, "cancelDial") /\ errLock' = errLock
    BY <1>5 DEF CancelCheck
  <2>2. c \in Conns /\ conns[c] \in Connection
    BY <1>1, <1>5, ConnFields
  <2>3. r \in Connection /\ conns' = [conns EXCEPT ![c] = r]
    BY <1>1, <2>1, <2>2 DEF Connection, ConnType
  <2>4. OneConn(c, r)
    BY <1>1, <2>2, <2>3, Changed
  <2>5. /\ r.owner = conns[c].owner /\ r.step = conns[c].step /\ r.cancelled
        /\ r.open = conns[c].open /\ r.connected = conns[c].connected
    BY <2>2 DEF Connection
  <2>6. r.open => r.connected = "connected"
    BY <2>2, <2>5 DEF Inv, ConnShape
  <2>7. pc'[p] = "cancelDial" /\ \A q \in Routines : q # p => pc'[q] = pc[q]
    BY <1>1, <2>1, Moved
  <2>8. /\ held'[p] = c /\ \A q \in Cancellers : q # p => held'[q] = held[q]
        /\ held' \in [Cancellers -> Conns \cup {None}]
    BY <1>1, <2>1, <2>2 DEF ConnType
  <2> HIDE DEF r
  <2>9. conns'[c] = r /\ conns' \in [Conns -> Connection]
    BY <2>4 DEF OneConn
  <2>10. /\ ConnShape' /\ OwnerInv' /\ StepInv' /\ HeldInv'
         /\ p # "disconnect" => RttInv'
         /\ \A d \in Conns : conns'[d].open /\ conns'[d].owner = "rtt" => OpenRtt(d)
    BY <1>2, <1>5, <2>2, <2>4, <2>5, <2>6, <2>7, <2>8, <2>9, CancellerStep
  <2>11. RttInv'
    <3>1. CASE p = "disconnect"
      <4>1. pc'["disconnect"] = "cancelDial"
        BY <2>7, <3>1
      <4> QED
        BY <1>2, <2>10, <4>1 DEF Inv, RttInv, OpenRtt, AfterRtt, RttDone
    <3> QED
      BY <2>10, <3>1
  <2>12. ConnInv' /\ ConnType'
    BY <1>1, <1>2, <2>8, <2>9, <2>10, <2>11 DEF ConnInv, ConnType
  <2>13. "cancelDial" \notin ReportPCs
    BY DEF ReportPCs
  <2> QED
    BY <1>2, <1>3, <1>5, <2>1, <2>5, <2>9, <2>12, <2>13, CancellerFrame
<1> QED
  BY <1>4, <1>5

(* A goroutine in cancelCheck has a connection in hand that was cancelled,  *)
(* or, in rttMonitor.disconnect, one that is not the heartbeats'.           *)
LEMMA InHand ==
  ASSUME Inv, NEW p \in Cancellers,
         \/ pc[p] \in {"cancelDial", "cancelClose"}
         \/ p = "disconnect" /\ pc[p] \in {"rttDial", "rttClose"}
  PROVE  /\ held[p] # None /\ held[p] \in Conns /\ conns[held[p]] \in Connection
         /\ cur["update"] = held[p] /\ cur["update"] # None => conns[held[p]].cancelled
<1>1. ConnType /\ "update" \in Monitors
  BY Names DEF Inv, TypeOK
<1>2. held[p] # None /\ (conns[held[p]].cancelled \/ conns[held[p]].owner = "rtt")
  BY DEF Inv, HeldInv
<1>3. held[p] \in Conns /\ conns[held[p]] \in Connection
  BY <1>1, <1>2, ConnFields
<1>4. cur["update"] # None => conns[cur["update"]].owner = "update"
  BY <1>1 DEF Inv, OwnerInv
<1> QED
  BY <1>2, <1>3, <1>4

(* closeConnectContext cancels the connect of the connection in hand. *)
LEMMA CancelDialStep ==
  ASSUME Inv, NEW p \in Cancellers,
         \/ CancelDial(p, "cancelDial", "cancelClose")
         \/ p = "disconnect" /\ CancelDial(p, "rttDial", "rttClose")
  PROVE  Inv'
<1> DEFINE c == held[p]
           r == [conns[c] EXCEPT !.dropped = TRUE]
           l == pc'[p]
<1>1. PcType /\ ConnType /\ p \in Routines
  BY Names DEF Inv, TypeOK, Routines
<1>2. /\ UNCHANGED <<state, callback, done, global, rttCtx, rttSet, mdesc, prevKnown, cur, held,
                     desc, topDesc, upd, errLock, fail, stale, subs, chans, checkNow, replies>>
      /\ conns' = [conns EXCEPT ![c].dropped = TRUE]
  BY DEF CancelDial, ctxVars, monVars, descVars, appVars, opVars, subVars
<1>3. /\ Goto(p, l)
      /\ \/ pc[p] = "cancelDial" /\ l = "cancelClose"
         \/ p = "disconnect" /\ pc[p] = "rttDial" /\ l = "rttClose"
  <2>1. \A k : Goto(p, k) => l = k
    BY <1>1, Moved
  <2> QED
    BY <2>1 DEF CancelDial
<1>4. \A q \in Routines : q # p => pc'[q] = pc[q]
  BY <1>1, <1>3, Moved
<1>5. /\ c # None /\ c \in Conns /\ conns[c] \in Connection
      /\ cur["update"] = c /\ cur["update"] # None => conns[c].cancelled
  BY <1>3, InHand
<1>6. r \in Connection /\ conns' = [conns EXCEPT ![c] = r]
  BY <1>1, <1>2, <1>5 DEF Connection, ConnType
<1>7. OneConn(c, r)
  BY <1>1, <1>5, <1>6, Changed
<1>8. /\ r.owner = conns[c].owner /\ r.step = conns[c].step /\ r.cancelled = conns[c].cancelled
      /\ r.open = conns[c].open /\ r.connected = conns[c].connected
  BY <1>5 DEF Connection
<1>9. r.open => r.connected = "connected"
  BY <1>5, <1>8 DEF Inv, ConnShape
<1> HIDE DEF r
<1>10. conns'[c] = r /\ conns' \in [Conns -> Connection] /\ \A d \in Conns : d # c => conns'[d] = conns[d]
  BY <1>7 DEF OneConn
<1>11. /\ l \in {"cancelDial", "cancelClose"} => held'[p] # None /\ conns'[held'[p]].cancelled
       /\ l \in {"rttDial", "rttClose"} /\ p = "disconnect" =>
            held'[p] # None /\ conns[held'[p]].owner = "rtt"
  BY <1>2, <1>3, <1>5, <1>8, <1>10 DEF Inv, HeldInv
<1>12. /\ ConnShape' /\ OwnerInv' /\ StepInv' /\ HeldInv'
       /\ p # "disconnect" => RttInv'
       /\ \A d \in Conns : conns'[d].open /\ conns'[d].owner = "rtt" => OpenRtt(d)
  BY <1>2, <1>4, <1>5, <1>7, <1>8, <1>9, <1>11, CancellerStep
<1>13. RttInv'
  <2>1. CASE p = "disconnect"
    <3>1. /\ l \in AfterRtt => pc[p] \in AfterRtt /\ pc[p] \in {"rttDial", "rttClose"}
          /\ l \notin RttDone
          /\ l \in {"rttDial", "rttClose"} => pc[p] \in {"rttDial", "rttClose"}
      BY <1>3 DEF AfterRtt, RttDone
    <3> QED
      BY <1>2, <1>12, <2>1, <3>1 DEF Inv, RttInv, OpenRtt
  <2> QED
    BY <1>12, <2>1
<1>14. ConnInv' /\ ConnType'
  BY <1>1, <1>2, <1>10, <1>12, <1>13 DEF ConnInv, ConnType
<1>15. l \in LabelsOf(p) /\ (p \in Workers => l = "cancelClose") /\ "cancelClose" \notin ReportPCs
  BY <1>3, Names DEF LabelsOf, WorkerPCs, DisconnectPCs, ReportPCs, Monitors
<1>16. cur["update"] # None =>
           \/ conns'[cur["update"]] = conns[cur["update"]]
           \/ /\ conns'[cur["update"]].cancelled
              /\ conns'[cur["update"]].step = conns[cur["update"]].step
              /\ conns'[cur["update"]].connected \in {conns[cur["update"]].connected, "disconnected"}
  BY <1>1, <1>5, <1>8, <1>10, ConnFields, Names
<1> QED
  BY <1>2, <1>3, <1>14, <1>15, <1>16, CancellerFrame

(* The connection in hand is waited for and closed. *)
LEMMA CancelCloseStep ==
  ASSUME Inv, NEW p \in Cancellers,
         \/ CancelClose(p, "cancelClose", AfterCancel(p))
         \/ p = "disconnect" /\ CancelClose(p, "rttClose", "rttWait")
  PROVE  Inv'
<1> DEFINE c == held[p]
           r == IF Alive(c) THEN ClosedConn(conns[c]) ELSE conns[c]
           l == pc'[p]
<1>1. PcType /\ ConnType /\ p \in Routines
  BY Names DEF Inv, TypeOK, Routines
<1>2. /\ UNCHANGED <<state, callback, done, global, rttCtx, rttSet, mdesc, prevKnown, cur,
                     desc, topDesc, upd, fail, stale, subs, chans, checkNow, replies>>
      /\ conns' = Close(c) /\ held' = [held EXCEPT ![p] = None] /\ conns[c].step = "done"
      /\ ReleaseAfterCancel(p)
  BY DEF CancelClose, ctxVars, monVars, descVars, subVars
<1>3. /\ Goto(p, l)
      /\ \/ pc[p] = "cancelClose" /\ l = AfterCancel(p)
         \/ p = "disconnect" /\ pc[p] = "rttClose" /\ l = "rttWait"
  <2>1. \A k : Goto(p, k) => l = k
    BY <1>1, Moved
  <2> QED
    BY <2>1 DEF CancelClose
<1>4. \A q \in Routines : q # p => pc'[q] = pc[q]
  BY <1>1, <1>3, Moved
<1>5. /\ c # None /\ c \in Conns /\ conns[c] \in Connection
      /\ cur["update"] = c /\ cur["update"] # None => conns[c].cancelled
  BY <1>3, InHand
<1>6. OneConn(c, r)
  BY <1>1, <1>2, <1>5, CloseChanges
<1>7. /\ r.owner = conns[c].owner /\ r.step = "done" /\ r.cancelled = conns[c].cancelled
      /\ ~r.open /\ r.connected \in {conns[c].connected, "disconnected"}
  <2>1. conns[c].open => conns[c].connected = "connected"
    BY <1>5 DEF Inv, ConnShape
  <2>2. CASE Alive(c)
    BY <1>2, <1>5, <2>2 DEF ClosedConn, Connection
  <2>3. CASE ~Alive(c)
    <3>1. ~conns[c].open
      BY <2>1, <2>3 DEF Alive
    <3> QED
      BY <1>2, <2>3, <3>1
  <2> QED
    BY <2>2, <2>3
<1> HIDE DEF r
<1>8. conns'[c] = r /\ conns' \in [Conns -> Connection] /\ \A d \in Conns : d # c => conns'[d] = conns[d]
  BY <1>6 DEF OneConn
<1>9. /\ held'[p] = None /\ \A q \in Cancellers : q # p => held'[q] = held[q]
      /\ held' \in [Cancellers -> Conns \cup {None}]
  BY <1>1, <1>2 DEF ConnType
<1>10. /\ AfterCancel(p) \in {"rtt", "end"}
       /\ l \in {"rtt", "end", "rttWait"} /\ (p \in Workers => l = "end") /\ l \in LabelsOf(p)
       /\ (p = "disconnect" => l \in {"rtt", "rttWait"} /\ (l = "rttWait" => pc[p] = "rttClose"))
  BY <1>3, Names DEF AfterCancel, LabelsOf, WorkerPCs, DisconnectPCs, Monitors
<1>11. /\ ConnShape' /\ OwnerInv' /\ StepInv' /\ HeldInv'
       /\ p # "disconnect" => RttInv'
       /\ \A d \in Conns : conns'[d].open /\ conns'[d].owner = "rtt" => OpenRtt(d)
  BY <1>2, <1>4, <1>5, <1>6, <1>7, <1>9, <1>10, CancellerStep
<1>12. RttInv'
  <2>1. CASE p = "disconnect" /\ l = "rtt"
    BY <1>2, <1>11, <2>1 DEF Inv, RttInv, OpenRtt, AfterRtt, RttDone
  <2>2. CASE p = "disconnect" /\ l = "rttWait"
    <3>1. pc["disconnect"] = "rttClose" /\ rttCtx
      BY <1>10, <2>2 DEF Inv, RttInv, AfterRtt
    <3>2. \A d \in Conns : ~(conns'[d].open /\ conns'[d].owner = "rtt")
      <4>1. \A d \in Conns : conns'[d].open /\ conns'[d].owner = "rtt" => d = c
        BY <1>11, <2>2, <3>1 DEF Inv, RttInv, OpenRtt
      <4> QED
        BY <1>7, <1>8, <4>1
    <3> QED
      BY <1>2, <3>1, <3>2 DEF RttInv, OpenRtt
  <2> QED
    BY <1>10, <1>11, <2>1, <2>2
<1>13. ConnInv' /\ ConnType'
  BY <1>1, <1>2, <1>8, <1>9, <1>11, <1>12 DEF ConnInv, ConnType
<1>14. cur["update"] # None =>
           \/ conns'[cur["update"]] = conns[cur["update"]]
           \/ /\ conns'[cur["update"]].cancelled
              /\ conns'[cur["update"]].step = conns[cur["update"]].step
              /\ conns'[cur["update"]].connected \in {conns[cur["update"]].connected, "disconnected"}
  BY <1>1, <1>2, <1>5, <1>7, <1>8, ConnFields, Names
<1>15. errLock' = IF p \in Workers THEN Released(p) ELSE errLock
  BY <1>2 DEF ReleaseAfterCancel
<1>16. p \in Workers => errLock' # p /\ l \notin ReportPCs
  BY <1>10, <1>15, Names DEF Released, ReportPCs
<1> QED
  BY <1>2, <1>3, <1>10, <1>13, <1>14, <1>15, <1>16, CancellerFrame
-----------------------------------------------------------------------------
(* Disconnect and the subscribers *)

(* A step of Disconnect that changes no connection. *)
LEMMA DisconnectFrame ==
  ASSUME Inv, NEW l \in DisconnectPCs, Goto("disconnect", l),
         UNCHANGED <<conns, cur, rttSet, mdesc, prevKnown, desc, topDesc, upd, appVars>>,
         state' \in {"connected", "disconnecting", "disconnected"}, callback' \in BOOLEAN,
         done' \in BOOLEAN, global' \in BOOLEAN, rttCtx' \in BOOLEAN, global => global',
         held' \in [Cancellers -> Conns \cup {None}],
         \A q \in Cancellers : q # "disconnect" => held'[q] = held[q],
         l \notin {"cancelDial", "cancelClose"},
         l \in {"rttDial", "rttClose"} =>
           held'["disconnect"] # None /\ conns[held'["disconnect"]].owner = "rtt",
         RttInv'
  PROVE  Inv'
<1>1. PcType /\ ConnType /\ "disconnect" \in Routines /\ "update" \in Routines
  BY Names DEF Inv, TypeOK, Routines
<1>2. PcType' /\ pc'["disconnect"] = l /\ \A q \in Routines : q # "disconnect" => pc'[q] = pc[q]
  BY <1>1, Moved DEF LabelsOf
<1>3. UNCHANGED <<errLock, fail, stale, subs, chans, checkNow, replies>>
  BY DEF appVars, opVars, subVars
<1>4. /\ pc'["update"] = pc["update"] /\ \A w \in Workers : pc'[w] = pc[w]
      /\ \A m \in Monitors : pc'[m] = pc[m]
  BY <1>1, <1>2, Names DEF Routines
<1>5. DataType'
  BY <1>3 DEF Inv, TypeOK, DataType
<1>6. ConnType'
  BY <1>1 DEF ConnType
<1>7. ConnInv'
  <2>1. ConnShape' /\ OwnerInv'
    BY DEF Inv, ConnShape, OwnerInv
  <2>2. StepInv'
    BY <1>4 DEF Inv, StepInv
  <2>3. HeldInv'
    BY <1>2, Names DEF Inv, HeldInv, Routines
  <2> QED
    BY <2>1, <2>2, <2>3 DEF ConnInv
<1>8. CancelInv'
  BY <1>4 DEF Inv, CancelInv
<1>9. ReportInv'
  BY <1>4 DEF Inv, ReportInv, NoCancelledReport, KnownHasRtt
<1>10. SubscribersReleased' /\ LockInv'
  BY <1>3, <1>4 DEF Inv, SubscribersReleased, LockInv
<1> QED
  BY <1>2, <1>5, <1>6, <1>7, <1>8, <1>9, <1>10, InvParts

(* Disconnect up to the round trip monitor, and its waits. *)
LEMMA DisconnectSteps ==
  ASSUME Inv, DisconnectStart \/ DisconnectSignals \/ DisconnectWaits \/ DisconnectEnds
  PROVE  Inv'
<1> DEFINE l == pc'["disconnect"]
<1>1. PcType /\ ConnType /\ "disconnect" \in Routines
  BY Names DEF Inv, TypeOK, Routines
<1>2. \A k : Goto("disconnect", k) => l = k
  BY <1>1, Moved
<1>3. UNCHANGED <<conns, cur, held, rttSet, mdesc, prevKnown, desc, topDesc, upd, appVars>>
  BY DEF DisconnectStart, DisconnectSignals, DisconnectWaits, DisconnectEnds, monVars, connVars,
         descVars
<1>4. /\ state' \in {"connected", "disconnecting", "disconnected"} /\ callback' \in BOOLEAN
      /\ done' \in BOOLEAN /\ global' \in BOOLEAN /\ rttCtx' \in BOOLEAN
      /\ (global => global') /\ (rttCtx => rttCtx')
  <2>1. /\ state \in {"connected", "disconnecting", "disconnected"} /\ callback \in BOOLEAN
        /\ done \in BOOLEAN /\ global \in BOOLEAN /\ rttCtx \in BOOLEAN
    BY DEF Inv, TypeOK, DataType
  <2>2. CASE DisconnectStart
    BY <2>1, <2>2 DEF DisconnectStart
  <2>3. CASE DisconnectSignals
    BY <2>1, <2>3 DEF DisconnectSignals
  <2>4. CASE DisconnectWaits \/ DisconnectEnds
    BY <2>1, <2>4 DEF DisconnectWaits, DisconnectEnds, ctxVars
  <2> QED
    BY <2>2, <2>3, <2>4
<1>5. /\ Goto("disconnect", l)
      /\ \/ l \in {"global", "done", "cancel"}
         \/ l = "rttRead" /\ rttCtx' = TRUE
         \/ pc["disconnect"] \in RttDone /\ l \in RttDone
  BY <1>2 DEF DisconnectStart, DisconnectSignals, DisconnectWaits, DisconnectEnds, RttDone
<1>6. RttInv'
  <2>1. l \in AfterRtt => rttCtx'
    BY <1>4, <1>5 DEF Inv, RttInv, AfterRtt, RttDone
  <2>2. l \in RttDone => pc["disconnect"] \in RttDone
    BY <1>5 DEF RttDone
  <2>3. l \notin {"rttDial", "rttClose"}
    BY <1>5 DEF RttDone
  <2> QED
    BY <1>3, <2>1, <2>2, <2>3 DEF Inv, RttInv, OpenRtt
<1>7. l \in DisconnectPCs /\ l \notin {"cancelDial", "cancelClose", "rttDial", "rttClose"}
  BY <1>5 DEF DisconnectPCs, RttDone
<1>8. held' \in [Cancellers -> Conns \cup {None}]
  BY <1>1, <1>3 DEF ConnType
<1> QED
  BY <1>3, <1>4, <1>5, <1>6, <1>7, <1>8, DisconnectFrame

(* rttMonitor.disconnect reads the connection after it has cancelled the    *)
(* context: whatever is open is in its hand.                                *)
LEMMA RttReadStep ==
  ASSUME Inv, RttRead
  PROVE  Inv'
<1> DEFINE l == IF cur["rtt"] = None THEN "rttWait" ELSE "rttDial"
<1>1. PcType /\ ConnType /\ "disconnect" \in Routines /\ "rtt" \in Monitors
      /\ "disconnect" \in Cancellers
  BY Names DEF Inv, TypeOK, Routines
<1>2. /\ pc["disconnect"] = "rttRead" /\ Goto("disconnect", l)
      /\ held' = [held EXCEPT !["disconnect"] = cur["rtt"]]
      /\ UNCHANGED <<state, callback, done, global, rttCtx, conns, cur, rttSet, mdesc, prevKnown,
                     desc, topDesc, upd, appVars>>
  BY DEF RttRead, monVars, ctxVars, descVars
<1>3. /\ held' \in [Cancellers -> Conns \cup {None}] /\ held'["disconnect"] = cur["rtt"]
      /\ \A q \in Cancellers : q # "disconnect" => held'[q] = held[q]
  BY <1>1, <1>2 DEF ConnType
<1>4. cur["rtt"] # None => conns[cur["rtt"]].owner = "rtt"
  BY <1>1 DEF Inv, OwnerInv
<1>5. pc'["disconnect"] = l
  BY <1>1, <1>2, Moved
<1>6. rttCtx
  BY <1>2 DEF Inv, RttInv, AfterRtt
<1>7. RttInv'
  <2>1. \A d \in Conns : OpenRtt(d) => d = cur["rtt"] /\ d # None
    BY MonitorAssumption DEF Inv, RttInv
  <2>2. \A d \in Conns : OpenRtt(d) => l = "rttDial"
    BY <2>1
  <2> QED
    BY <1>2, <1>3, <1>5, <1>6, <2>1, <2>2 DEF RttInv, OpenRtt, RttDone
<1>8. l \in DisconnectPCs /\ l \notin {"cancelDial", "cancelClose", "rttClose"}
      /\ (l = "rttDial" => cur["rtt"] # None)
  BY DEF DisconnectPCs
<1>9. /\ state \in {"connected", "disconnecting", "disconnected"} /\ callback \in BOOLEAN
      /\ done \in BOOLEAN /\ global \in BOOLEAN /\ rttCtx \in BOOLEAN
  BY DEF Inv, TypeOK, DataType
<1> HIDE DEF l
<1> QED
  BY <1>2, <1>3, <1>4, <1>7, <1>8, <1>9, DisconnectFrame

(* The listener of the round trip monitor's read. *)
LEMMA RttListener ==
  ASSUME Inv, ListenerCloses("rtt")
  PROVE  Inv'
<1>1. PcType /\ ConnType /\ "rtt" \in Monitors
  BY Names DEF Inv, TypeOK
<1>2. /\ pc' = pc /\ conns' = Close(cur["rtt"]) /\ pc["rtt"] \in {"read", "connecting"}
      /\ pc["rtt"] = "connecting" => conns[cur["rtt"]].step = "hello"
      /\ UNCHANGED <<monVars, ctxVars, cur, held, descVars, appVars>>
  BY DEF ListenerCloses
<1>3. cur["rtt"] # None
  BY <1>1, <1>2, CurFacts
<1>4. /\ ConnType' /\ ConnInv'
      /\ cur["update"] # None => conns'[cur["update"]] = conns[cur["update"]]
  BY <1>1, <1>2, <1>3, CloseFacts, NotUpdates DEF ctxVars
<1>5. PcType'
  BY <1>1, <1>2 DEF PcType
<1> QED
  BY <1>2, <1>4, <1>5, RttFrame DEF monVars

(* Subscribers read the description and have their channels closed. *)
LEMMA SubscriberSteps ==
  ASSUME Inv, NEW i \in Subscribers, Subscriber(i)
  PROVE  Inv'
<1>1. UNCHANGED <<pc, monVars, ctxVars, connVars, descVars, opVars, checkNow, replies>>
  BY DEF Subscriber, SubscribeLoad, SubscribeRegister, Unsubscribe
<1>2. UNCHANGED <<pc, state, callback, done, global, rttCtx, conns, cur, held, desc, topDesc, upd,
                  mdesc, prevKnown, rttSet, errLock, fail, stale, checkNow, replies>>
  BY <1>1 DEF monVars, ctxVars, connVars, descVars, opVars
<1>3. /\ subs' \in [Subscribers -> {"idle", "loaded", "on", "refused", "closed"}]
      /\ chans' \in [Subscribers -> Desc]
  BY DEF Subscriber, SubscribeLoad, SubscribeRegister, Unsubscribe, Inv, TypeOK, DataType
<1>4. DataType'
  BY <1>2, <1>3 DEF Inv, TypeOK, DataType
<1>5. PcType' /\ ConnType'
  BY <1>2 DEF Inv, TypeOK, PcType, ConnType
<1>6. ConnInv'
  BY <1>2 DEF Inv, ConnInv, ConnShape, OwnerInv, StepInv, HeldInv, RttInv, OpenRtt
<1>7. CancelInv'
  BY <1>2, CancelFrame
<1>8. ReportInv' /\ LockInv'
  BY <1>2 DEF Inv, ReportInv, NoCancelledReport, KnownHasRtt, LockInv
<1>9. SubscribersReleased'
  BY <1>2 DEF Subscriber, SubscribeLoad, SubscribeRegister, Unsubscribe, Inv, TypeOK, DataType,
              SubscribersReleased
<1> QED
  BY <1>4, <1>5, <1>6, <1>7, <1>8, <1>9, InvParts
-----------------------------------------------------------------------------
(* The theorems *)

(* Server.Connect leaves a state in which Inv holds. *)
LEMMA MonitorInit ==
  ASSUME Init
  PROVE  Inv
<1>1. PcType
  BY Names DEF Init, PcType, UpdatePCs, RttPCs, WorkerPCs, DisconnectPCs, Monitors
<1>2. ConnType
  BY DEF Init, ConnType, Garbage, NewConnection, Connection, Monitors
<1>3. DataType
  BY DescFacts DEF Init, DataType, NoFailure
<1>4. ConnShape
  BY DEF Init, ConnShape, Garbage, NewConnection
<1>5. OwnerInv /\ StepInv
  BY DEF Init, OwnerInv, StepInv
<1>6. HeldInv
  BY Names DEF Init, HeldInv
<1>7. CancelInv
  BY DEF Init, CancelInv, Monitors
<1>8. ReportInv
  BY DescFacts, Names DEF Init, ReportInv, NoCancelledReport, KnownHasRtt
<1>9. RttInv
  BY Names DEF Init, RttInv, OpenRtt, Garbage, NewConnection, AfterRtt, RttDone
<1>10. SubscribersReleased
  BY DEF Init, SubscribersReleased
<1>11. LockInv
  BY Names DEF Init, LockInv, ReportPCs
<1> QED
  BY <1>1, <1>2, <1>3, <1>4, <1>5, <1>6, <1>7, <1>8, <1>9, <1>10, <1>11 DEF Inv, TypeOK

(* Every step preserves Inv, one action after the other. *)
LEMMA MonitorNext ==
  ASSUME Inv, [Next]_vars
  PROVE  Inv'
<1>1. CASE Update
  <2>1. CASE UpdateDescription("update")
    BY <2>1, DescriptionSteps
  <2> QED
    BY <1>1, <2>1, UpdateWaits, UpdateCloses, UpdateConnects, UpdateDials, UpdateSucceeds, UpdateFails,
       UpdateReports DEF Update
<1>2. CASE Rtt
  BY <1>2, RttSteps
<1>3. CASE Disconnect \/ DisconnectStart
  <2>1. "disconnect" \in Cancellers
    BY Names
  <2> QED
    BY <1>3, <2>1, DisconnectSteps, RttReadStep, CancelCheckStep, CancelDialStep, CancelCloseStep
       DEF Disconnect, Cancel
<1>4. CASE \E m \in Monitors : ListenerCloses(m)
  BY <1>4, RttListener, UpdateDials, Names
<1>5. CASE \E w \in Workers : Worker(w)
  <2>1. PICK w \in Workers : Worker(w)
    BY <1>5
  <2>2. w \in Cancellers
    BY Names
  <2> QED
    BY <2>1, <2>2, CheckoutSteps, ProcessErrorStep, DescriptionSteps, ProcessErrorEndStep,
       CancelCheckStep, CancelDialStep, CancelCloseStep DEF Worker, Report, Cancel
<1>6. CASE \E i \in Subscribers : Subscriber(i)
  BY <1>6, SubscriberSteps
<1>7. CASE UNCHANGED vars
  <2>1. UNCHANGED <<pc, state, callback, done, global, rttCtx, conns, cur, held, desc, topDesc, upd,
                    mdesc, prevKnown, rttSet, errLock, fail, stale, subs, chans, checkNow, replies>>
    BY <1>7 DEF vars, monVars, ctxVars, connVars, descVars, appVars, opVars, subVars
  <2>2. PcType' /\ ConnType' /\ DataType'
    BY <2>1 DEF Inv, TypeOK, PcType, ConnType, DataType
  <2>3. ConnInv'
    BY <2>1 DEF Inv, ConnInv, ConnShape, OwnerInv, StepInv, HeldInv, RttInv, OpenRtt
  <2>4. CancelInv'
    BY <2>1, CancelFrame
  <2>5. ReportInv' /\ LockInv' /\ SubscribersReleased'
    BY <2>1 DEF Inv, ReportInv, NoCancelledReport, KnownHasRtt, LockInv, SubscribersReleased
  <2> QED
    BY <2>2, <2>3, <2>4, <2>5, InvParts
<1> QED
  BY <1>1, <1>2, <1>3, <1>4, <1>5, <1>6, <1>7 DEF Next

(* Inv holds in every reachable state, for any number of workers,           *)
(* subscribers, topology versions and connection objects (server.go,        *)
(* rtt_monitor.go).                                                         *)
THEOREM MonitorInvariant == Spec => []Inv
BY MonitorInit, MonitorNext, PTL DEF Spec

(* Every variable keeps its type: no goroutine leaves its own code, and the *)
(* monitors' fields only ever hold connections or nil (server.go).          *)
THEOREM TypeCorrect == Spec => []TypeOK
<1>1. Inv => TypeOK
  BY DEF Inv
<1> QED
  BY <1>1, MonitorInvariant, PTL

(* Once Disconnect has returned no connection of the round trip monitor is  *)
(* open, and once update has returned no subscriber waits (rtt_monitor.go,  *)
(* disconnect; server.go, closeServer).                                     *)
THEOREM NothingEverLeftBehind == Spec => []NothingLeftBehind
<1>1. Inv => NothingLeftBehind
  BY DEF Inv, NothingLeftBehind, RttSocketsClosed, RttInv, RttDone, OpenRtt
<1> QED
  BY <1>1, MonitorInvariant, PTL

(* A cancelled check reaches neither the descriptions nor the pool, and a   *)
(* known server has a round trip time (server.go, check).                   *)
THEOREM DescriptionsAlwaysHold == Spec => []DescriptionsHold
<1>1. Inv => DescriptionsHold
  BY DEF Inv, DescriptionsHold, ReportInv
<1> QED
  BY <1>1, MonitorInvariant, PTL

(* Two operations whose error takes processErrorLock are never both between *)
(* updateDescription and what follows it (server.go, ProcessError).         *)
OneErrorAtATime ==
  \A v, w \in Workers :
    /\ pc[v] \in ReportPCs /\ fail[v].kind \notin HandshakeFailures
    /\ pc[w] \in ReportPCs /\ fail[w].kind \notin HandshakeFailures
    => v = w

(* ProcessError is a critical section, for any number of operations: the    *)
(* second to come in sees what the first one did (server.go, ProcessError). *)
THEOREM ErrorsOneAtATime == Spec => []OneErrorAtATime
<1>1. Inv => OneErrorAtATime
  BY DEF Inv, LockInv, OneErrorAtATime
<1> QED
  BY <1>1, MonitorInvariant, PTL

(* Only a worker's own step moves it. *)
LEMMA WorkersMoveThemselves ==
  ASSUME Inv, Next, NEW v \in Workers, pc'[v] # pc[v]
  PROVE  Worker(v)
<1>1. /\ PcType /\ v \in Routines /\ v # "update" /\ v # "rtt" /\ v # "disconnect"
      /\ "update" \in Routines /\ "rtt" \in Routines /\ "disconnect" \in Routines
      /\ \A w \in Workers : w \in Routines
  BY Names DEF Inv, TypeOK, Routines, Monitors
<1>2. \A p \in Routines : \A l : Goto(p, l) => p = v
  BY <1>1, Moved
<1>3. ~Update
  <2>1. ~UpdateDescription("update")
    BY <1>1, <1>2 DEF UpdateDescription, UpdateTopology, StoreDescription
  <2>2. ~(UpdateLoop \/ CloseServer \/ CheckConnects \/ CheckAsks \/ StartConnect("update"))
    BY <1>1, <1>2 DEF UpdateLoop, CloseServer, CheckConnects, CheckAsks, StartConnect,
                      SetupConnection
  <2>3. ~(DialSucceeds("update") \/ UpdateGreeted \/ UpdateConnectFails \/ UpdateReplied)
    BY <1>1, <1>2 DEF DialSucceeds, UpdateGreeted, UpdateConnectFails, UpdateReplied, CheckReturns,
                      FailCheck
  <2>4. ~(UpdateReadFails \/ CheckCancelled \/ CheckFailed \/ UpdateNext \/ WaitForCheck)
    BY <1>1, <1>2 DEF UpdateReadFails, CheckCancelled, CheckFailed, UpdateNext, WaitForCheck,
                      CheckReturns, FailCheck
  <2> QED
    BY <2>1, <2>2, <2>3, <2>4 DEF Update
<1>4. ~Rtt
  BY <1>1, <1>2 DEF Rtt, RttLoop, RttConnects, RttAsks, StartConnect, DialSucceeds, RttSample, RttFails,
                    SetupConnection
<1>5. ~Disconnect /\ ~DisconnectStart
  BY <1>1, <1>2 DEF Disconnect, DisconnectStart, DisconnectSignals, Cancel, RttRead, CancelCheck,
                    CancelDial, CancelClose, DisconnectWaits, DisconnectEnds
<1>6. ~(\E m \in Monitors : ListenerCloses(m)) /\ ~(\E i \in Subscribers : Subscriber(i))
  BY DEF ListenerCloses, Subscriber, SubscribeLoad, SubscribeRegister, Unsubscribe
<1>7. PICK w \in Workers : Worker(w)
  BY <1>3, <1>4, <1>5, <1>6 DEF Next
<1>8. w = v
  <2>1. CASE Checkout(w) \/ OperationFails(w) \/ ProcessError(w) \/ ProcessErrorEnds(w)
    BY <1>1, <1>2, <2>1 DEF Checkout, OperationFails, ProcessError, ProcessErrorEnds
  <2>2. CASE UpdateDescription(w)
    BY <1>1, <1>2, <2>2 DEF UpdateDescription, UpdateTopology, StoreDescription
  <2>3. CASE Cancel(w)
    BY <1>1, <1>2, <2>3 DEF Cancel, CancelCheck, CancelDial, CancelClose
  <2> QED
    BY <1>7, <2>1, <2>2, <2>3 DEF Worker, Report
<1> QED
  BY <1>7, <1>8

(* An operation inside ProcessError, past the question whether its          *)
(* connection is stale, finds no other ProcessError to have cleared the     *)
(* pool: the one that could would have to hold processErrorLock.            *)
Clearing(v) == pc[v] \in ReportPCs /\ fail[v].kind \notin HandshakeFailures
GenerationInv == \A v \in Workers : Clearing(v) => "error" \notin stale[v]

(* Only a failed heartbeat and the two error handlers touch the generation  *)
(* or forget an error.                                                      *)
LEMMA GenerationMoves ==
  ASSUME Next, stale' # stale \/ fail' # fail
  PROVE  \/ UpdateNext /\ UNCHANGED fail
         \/ \E w \in Workers : OperationFails(w) \/ ProcessError(w) \/ ProcessErrorEnds(w)
<1> USE DEF appVars, opVars
<1>1. CASE Update
  <2>1. UpdateNext => UNCHANGED fail
    BY DEF UpdateNext
  <2>2. ~UpdateDescription("update")
    BY DEF UpdateDescription, UpdateTopology, StoreDescription
  <2>3. ~(UpdateLoop \/ CloseServer \/ CheckConnects \/ CheckAsks \/ StartConnect("update"))
    BY DEF UpdateLoop, CloseServer, CheckConnects, CheckAsks, StartConnect
  <2>4. ~(DialSucceeds("update") \/ UpdateGreeted \/ UpdateConnectFails \/ UpdateReplied)
    BY DEF DialSucceeds, UpdateGreeted, UpdateConnectFails, UpdateReplied, CheckReturns, FailCheck
  <2>5. ~(UpdateReadFails \/ CheckCancelled \/ CheckFailed \/ WaitForCheck)
    BY DEF UpdateReadFails, CheckCancelled, CheckFailed, WaitForCheck, CheckReturns, FailCheck
  <2> QED
    BY <1>1, <2>1, <2>2, <2>3, <2>4, <2>5 DEF Update
<1>2. ~Rtt
  BY DEF Rtt, RttLoop, RttConnects, RttAsks, StartConnect, DialSucceeds, RttSample, RttFails
<1>3. \A p : ~Cancel(p)
  BY DEF Cancel, CancelCheck, CancelDial, CancelClose
<1>4. ~Disconnect /\ ~DisconnectStart
  BY <1>3 DEF Disconnect, DisconnectStart, DisconnectSignals, RttRead, CancelDial, CancelClose,
              DisconnectWaits, DisconnectEnds
<1>5. ~(\E m \in Monitors : ListenerCloses(m)) /\ ~(\E i \in Subscribers : Subscriber(i))
  BY DEF ListenerCloses, Subscriber, SubscribeLoad, SubscribeRegister, Unsubscribe
<1>6. ASSUME NEW w \in Workers, Worker(w)
      PROVE  OperationFails(w) \/ ProcessError(w) \/ ProcessErrorEnds(w)
  <2>1. ~UpdateDescription(w) /\ ~Checkout(w)
    BY DEF UpdateDescription, UpdateTopology, StoreDescription, Checkout
  <2> QED
    BY <1>3, <1>6, <2>1 DEF Worker, Report
<1> QED
  BY <1>1, <1>2, <1>4, <1>5, <1>6 DEF Next

(* Where the steps that touch the generation leave it. *)
LEMMA GenerationStep ==
  ASSUME Inv, GenerationInv, Next, NEW v \in Workers, Clearing(v)'
  PROVE  "error" \notin stale'[v]
<1> USE DEF GenerationInv, Clearing
<1>1. /\ stale \in [Workers -> SUBSET Clearers] /\ LockInv /\ PcType /\ v \in Routines
      /\ fail \in [Workers -> [kind : OpFailures \cup {"none"}, tv : Versions \cup {0},
                               connTV : Versions \cup {0}]]
  BY Names DEF Inv, TypeOK, DataType, Routines
<1>2. ASSUME pc[v] \notin ReportPCs
      PROVE  ProcessError(v) /\ ~Ignored(v)
  <2>1. Worker(v)
    BY <1>2, WorkersMoveThemselves
  <2>2. \A l : Goto(v, l) => l \in ReportPCs
    BY <1>1, Moved
  <2>3. ~Checkout(v) /\ ~OperationFails(v) /\ ~ProcessErrorEnds(v)
    BY <1>2, <2>2 DEF Checkout, OperationFails, ProcessErrorEnds, ReportPCs
  <2>4. ~UpdateDescription(v)
    BY <1>2 DEF UpdateDescription, UpdateTopology, StoreDescription, ReportPCs
  <2>5. ~Cancel(v)
    BY <2>2, Names DEF Cancel, CancelCheck, CancelDial, CancelClose, ReportPCs, AfterCancel
  <2>6. ProcessError(v)
    BY <2>1, <2>3, <2>4, <2>5 DEF Worker, Report
  <2> QED
    BY <2>2, <2>6 DEF ProcessError, ReportPCs
<1>3. CASE pc[v] \notin ReportPCs
  BY <1>2, <1>3 DEF ProcessError, Ignored
<1>4. CASE pc[v] \in ReportPCs /\ UNCHANGED <<stale, fail>>
  BY <1>4
<1>5. ASSUME pc[v] \in ReportPCs, UpdateNext, UNCHANGED fail
      PROVE  "error" \notin stale'[v]
  BY <1>1, <1>5 DEF UpdateNext, PoolCleared
<1>6. ASSUME pc[v] \in ReportPCs, NEW w \in Workers,
             OperationFails(w) \/ ProcessError(w) \/ ProcessErrorEnds(w)
      PROVE  "error" \notin stale'[v]
  <2>1. w # v
    <3>1. ~ProcessErrorEnds(v)
      BY <1>1, Moved DEF ProcessErrorEnds, ReportPCs
    <3> QED
      BY <1>6, <3>1 DEF OperationFails, ProcessError, ReportPCs
  <2>2. fail'[v] = fail[v]
    BY <1>1, <1>6, <2>1 DEF OperationFails, ProcessError, ProcessErrorEnds
  <2>3. "error" \notin stale[v] /\ errLock = v
    BY <1>1, <1>6, <2>2 DEF LockInv
  <2>4. CASE OperationFails(w) \/ ProcessError(w)
    BY <1>1, <2>1, <2>3, <2>4 DEF OperationFails, ProcessError
  <2>5. CASE ProcessErrorEnds(w)
    <3>1. fail[w].kind \in HandshakeFailures
      BY <1>1, <2>1, <2>3, <2>5 DEF LockInv, ProcessErrorEnds, ReportPCs
    <3>2. Clears(w) => Clearer(w) # "error"
      BY <3>1 DEF Clears, Clearer, HandshakeFailures
    <3>3. stale' = [(IF Clears(w) THEN PoolCleared(Clearer(w)) ELSE stale) EXCEPT ![w] = {}]
      BY <2>5 DEF ProcessErrorEnds
    <3>4. Clears(w) => "error" \notin PoolCleared(Clearer(w))[v]
      BY <2>3, <3>2 DEF PoolCleared
    <3> QED
      BY <1>1, <2>1, <2>3, <3>3, <3>4 DEF PoolCleared
  <2> QED
    BY <1>6, <2>4, <2>5
<1> QED
  BY <1>3, <1>4, <1>5, <1>6, GenerationMoves

(* ProcessError clears the pool once for the operations that fail on        *)
(* connections of one generation, for any number of operations: it is what  *)
(* processErrorLock is for (server.go, ProcessError).                       *)
THEOREM OneClear == Spec => OneClearPerGeneration
<1> DEFINE A == \A w \in Workers :
                  pc[w] = "after" /\ pc'[w] # "after" /\ Clears(w) /\ Clearer(w) = "error"
                    => "error" \notin stale[w]
<1>1. Init => GenerationInv
  BY DEF Init, GenerationInv, Clearing
<1>2. Inv /\ GenerationInv /\ [Next]_vars => GenerationInv'
  <2>1. ASSUME Inv, GenerationInv, Next
        PROVE  GenerationInv'
    BY <2>1, GenerationStep DEF GenerationInv, Clearing
  <2>2. ASSUME GenerationInv, UNCHANGED vars
        PROVE  GenerationInv'
    BY <2>2 DEF GenerationInv, Clearing, vars, appVars, opVars
  <2> QED
    BY <2>1, <2>2
<1>3. GenerationInv /\ [Next]_vars => [A]_vars
  BY DEF GenerationInv, Clearing, Clears, Clearer, ReportPCs, HandshakeFailures
<1> QED
  BY <1>1, <1>2, <1>3, MonitorInvariant, PTL DEF Spec, OneClearPerGeneration
=============================================================================
