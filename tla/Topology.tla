------------------------------ MODULE Topology ------------------------------
(***************************************************************************)
(* The driver's Topology (topology/topology.go): the state machine of      *)
(* TopologyFSM driven by the reports of the servers' monitors, the map of  *)
(* Server objects kept in step with it, the published description, the     *)
(* subscriptions of goroutines in SelectServer, the SRV polling goroutine, *)
(* and Connect and Disconnect.                                             *)
(*                                                                         *)
(* apply and processSRVResults run under serversLock and are one action    *)
(* each. A server's monitor may report any description of Reports.         *)
(***************************************************************************)
EXTENDS TopologyFSM, Sequences, SequencesExt

CONSTANTS
  Seeds,           \* cfg.seedList
  ReplicaSetName,  \* cfg.replicaSetName, or NoName
  SingleMode,      \* whether cfg.mode is SingleMode
  PollingRequired, \* whether the URI is mongodb+srv
  Reports,         \* the descriptions monitors may report
  Truth,           \* those that are true of the deployment in the end
  HostLists,       \* the answers of the SRV lookup
  Selectors,       \* goroutines in SelectServer
  MayDisconnect,   \* whether Disconnect is called
  MaxConnects      \* bound: calls of Connect

ASSUME SeedsAssumption == Seeds \in Seq(Addrs) \ {<<>>} /\ IsInjective(Seeds)
ASSUME ConfigAssumption ==
  /\ ReplicaSetName \in SetNames \cup {NoName}
  /\ SingleMode \in BOOLEAN /\ PollingRequired \in BOOLEAN /\ MayDisconnect \in BOOLEAN
ASSUME EnvironmentAssumption ==
  /\ Reports \subseteq Description /\ Truth \subseteq Reports
  /\ \A s \in Reports : s.kind \in RSKinds => s.setName # NoName
  /\ HostLists \subseteq SUBSET Addrs \ {{}}
  /\ MaxConnects \in Nat

VARIABLES
  state,         \* Topology.connectionstate
  fsm,           \* Topology.fsm
  order,         \* the addresses of fsm.Servers in slice order
  servers,       \* keys of Topology.servers
  monitoring,    \* addresses of servers in Topology.servers whose monitor runs
  zombies,       \* addresses of removed servers whose monitor still runs
  serversClosed, \* Topology.serversClosed
  desc,          \* Topology.desc, the published description
  announced,     \* history: NewDescription of the last TopologyDescriptionChangedEvent
  sel,           \* position of each goroutine in SelectServer
  chosen,        \* the address it has selected
  ch,            \* the channel of its subscription: empty or one description
  subs,          \* keys of Topology.subscribers, by goroutine
  subsClosed,    \* Topology.subscriptionsClosed
  poll,          \* position of pollSRVRecords
  hosts,         \* the answer of its last lookup
  down,          \* position of Disconnect
  connects       \* calls of Connect so far, to bound them

fsmVars == <<fsm, order, servers, monitoring, zombies, desc, announced>>
selVars == <<sel, chosen, ch, subs>>
ctlVars == <<state, serversClosed, subsClosed, down>>
pollVars == <<poll, hosts>>
vars == <<fsmVars, selVars, ctlVars, pollVars, connects>>

(* What description.Topology publishes of the state machine. *)
Published(f) == [kind |-> f.kind, servers |-> f.servers, compatible |-> f.compatible]
SameTopology(d, e) == d.kind = e.kind /\ d.servers = e.servers   \* description.Topology.Equal
EmptyDesc == [kind |-> "Unknown", servers |-> [a \in {} |-> DefaultServer(a)], compatible |-> TRUE]

SelPCs == {"idle", "first", "find", "subscribe", "register", "wait", "findAgain"}

IsDesc(d) ==
  /\ d \in [kind : TopologyKinds, servers : {d.servers}, compatible : BOOLEAN]
  /\ IsServerMap(d.servers)

StateType ==
  /\ state \in {"disconnected", "connecting", "connected", "disconnecting"}
  /\ IsFSM(fsm)
  /\ servers \subseteq Addrs /\ monitoring \subseteq servers /\ zombies \subseteq Addrs
  /\ serversClosed \in BOOLEAN /\ subsClosed \in BOOLEAN
  /\ IsDesc(desc) /\ IsDesc(announced)
  /\ sel \in [Selectors -> SelPCs]
  /\ chosen \in [Selectors -> Addrs]
  /\ subs \subseteq Selectors
  /\ poll \in {"off", "tick", "lookup", "results", "done"}
  /\ hosts \subseteq Addrs
  /\ down \in {"off", "servers", "subs", "polling", "end"}
  /\ connects \in 0..MaxConnects

TypeOK == StateType /\ order \in Seq(Addrs)

(* New *)
Init ==
  /\ state = "disconnected"
  /\ fsm = [kind |-> "Unknown", setName |-> NoName, servers |-> EmptyDesc.servers,
            maxElectionID |-> 0, maxSetVersion |-> 0, timeout |-> 0, compatible |-> TRUE]
  /\ order = <<>> /\ servers = {} /\ monitoring = {} /\ zombies = {}
  /\ serversClosed = FALSE /\ subsClosed = FALSE
  /\ desc = EmptyDesc /\ announced = EmptyDesc
  /\ sel = [i \in Selectors |-> "idle"] /\ ch = [i \in Selectors |-> <<>>] /\ subs = {}
  /\ chosen = [i \in Selectors |-> Head(Seeds)]
  /\ poll = "off" /\ hosts = {} /\ down = "off"
  /\ connects = 0
-----------------------------------------------------------------------------
(* Publishing a description *)

NotifyNone(d) == UNCHANGED ch
(* Every subscriber's channel is drained and gets the new description.      *)
Notify(d) == ch' = [i \in Selectors |-> IF i \in subs THEN <<d>> ELSE ch[i]]

(* The slice after a step of the state machine: removals keep the order of  *)
(* the rest, additions go to the end.                                       *)
Reorder(f) ==
  SelectSeq(order, LAMBDA a : Has(f, a)) \o SetToSeq(DOMAIN f.servers \ ToSet(order))

(* addServer and Server.Disconnect for the differences between the state    *)
(* machine and the map of servers. A removed server is disconnected by a    *)
(* goroutine, so its monitor may report once more.                          *)
SyncServersAddOnly(f) ==
  LET added == DOMAIN f.servers \ DOMAIN fsm.servers
  IN  /\ servers' = servers \cup added
      /\ monitoring' = monitoring \cup (added \ servers)
      /\ UNCHANGED zombies
SyncServersMonitorsStay(f) ==
  LET added == DOMAIN f.servers \ DOMAIN fsm.servers
  IN  /\ servers' = DOMAIN f.servers
      /\ monitoring' = monitoring \cup added
      /\ UNCHANGED zombies
SyncServers(f) ==
  LET removed == (DOMAIN fsm.servers \ DOMAIN f.servers) \cap servers
      added == DOMAIN f.servers \ DOMAIN fsm.servers
      kept == servers \ removed
  IN  /\ servers' = kept \cup added
      /\ monitoring' = (monitoring \ removed) \cup (added \ kept)
      /\ zombies' = zombies \cup (monitoring \cap removed)
-----------------------------------------------------------------------------
(* Connect *)

Connect ==
  /\ state = "disconnected" /\ down = "off"
  /\ connects < MaxConnects /\ connects' = connects + 1
  /\ state' = "connecting"
  /\ LET named == IF ReplicaSetName = NoName THEN fsm
                  ELSE [fsm EXCEPT !.setName = ReplicaSetName, !.kind = "ReplicaSetNoPrimary"]
         f == IF SingleMode THEN SetKind(named, "Single") ELSE named
         g == AddServers(f, ToSet(Seeds))
     IN  /\ fsm' = g
         /\ desc' = [Published(g) EXCEPT !.compatible = TRUE]
         /\ announced' = Published(g)
  /\ order' = order \o Seeds
  /\ servers' = servers \cup ToSet(Seeds)
  /\ monitoring' = monitoring \cup (ToSet(Seeds) \ servers)
  /\ UNCHANGED <<zombies, serversClosed, subsClosed, down, selVars, pollVars>>

(* Connect starts polling, lets subscriptions in and reports success.       *)
ConnectEnd ==
  /\ state = "connecting"
  /\ poll' = IF PollingRequired THEN "tick" ELSE poll
  /\ subsClosed' = FALSE
  /\ state' = "connected"
  /\ UNCHANGED <<fsmVars, selVars, serversClosed, down, hosts, connects>>
-----------------------------------------------------------------------------
(* Topology.apply, the callback of a server's monitor: nothing changes if   *)
(* Disconnect has begun, if the server has left the topology, or if the     *)
(* report is older than the description at hand.                            *)

Outdated(s) == NewerTopologyVersion(fsm.servers[s.addr].tv, s.tv)

ApplyReport(s) ==
  /\ s.addr \in monitoring \cup zombies
  /\ ~serversClosed /\ Has(fsm, s.addr) /\ ~Outdated(s)
  /\ fsm' = Apply(fsm, s)
  /\ order' = Reorder(fsm')
  /\ SyncServers(fsm')
  /\ desc' = Published(fsm')
  /\ announced' = IF SameTopology(Published(fsm), desc') THEN announced ELSE desc'
  /\ Notify(desc')
  /\ UNCHANGED <<sel, chosen, subs, ctlVars, pollVars, connects>>

(* The goroutine that disconnects a removed server finishes. *)
ZombieStops(a) ==
  /\ a \in zombies
  /\ zombies' = zombies \ {a}
  /\ UNCHANGED <<fsm, order, servers, monitoring, desc, announced, selVars, ctlVars, pollVars,
                 connects>>
-----------------------------------------------------------------------------
(* pollSRVRecords *)

(* The ticker fires; only an unknown or sharded topology is polled.         *)
PollTick ==
  /\ poll = "tick"
  /\ poll' = IF desc.kind \in {"Unknown", "Sharded"} THEN "lookup" ELSE "done"
  /\ UNCHANGED <<fsmVars, selVars, ctlVars, hosts, connects>>

LookupSucceeds ==
  /\ poll = "lookup"
  /\ hosts' \in HostLists
  /\ poll' = "results"
  /\ UNCHANGED <<fsmVars, selVars, ctlVars, connects>>

LookupFails ==
  /\ poll = "lookup"
  /\ poll' = "tick"
  /\ UNCHANGED <<fsmVars, selVars, ctlVars, hosts, connects>>

(* prev := t.fsm.Topology shares the array of fsm.Servers. Removing in      *)
(* place, one server of gone after the other, and appending overwrite what  *)
(* it shows; past the end of the new slice it shows what was last in the    *)
(* slice before each removal.                                               *)
PrevAddrs(slice, gone) ==
  LET left(j) == SelectSeq(order, LAMBDA a : a \notin ToSet(SubSeq(gone, 1, j - 1)))
  IN  {slice[k] : k \in DOMAIN slice \cap DOMAIN order} \cup
        {Last(left(j)) : j \in 1..(Len(order) - Len(slice))}

ProcessSRVResults ==
  /\ poll = "results" /\ ~serversClosed
  /\ LET removed == DOMAIN fsm.servers \ hosts
         f == AddServers(KeepServers(fsm, hosts), hosts)
         slice == Reorder(f)
     IN  IF DOMAIN fsm.servers = hosts
         THEN UNCHANGED <<fsmVars, ch>>
         ELSE /\ fsm' = f /\ order' = slice
              /\ SyncServers(f)
              /\ desc' = [Published(f) EXCEPT !.compatible = TRUE]
              /\ \E gone \in SetToSeqs(removed) :
                   announced' = IF PrevAddrs(slice, gone) = hosts THEN announced ELSE desc'
              /\ Notify(desc')
  /\ poll' = "tick"
  /\ UNCHANGED <<sel, chosen, subs, ctlVars, hosts, connects>>

(* Disconnect has begun: the loop ends, and waits for pollingDone.          *)
PollClosedReturns ==
  /\ poll = "results" /\ serversClosed
  /\ poll' = "off"
  /\ UNCHANGED <<fsmVars, selVars, ctlVars, hosts, connects>>
PollClosed ==
  /\ poll = "results" /\ serversClosed
  /\ poll' = "done"
  /\ UNCHANGED <<fsmVars, selVars, ctlVars, hosts, connects>>
-----------------------------------------------------------------------------
(* SelectServer with WriteSelector *)

Suitable(d) ==
  {a \in DOMAIN d.servers :
     /\ d.servers[a].kind # "Unknown"
     /\ d.kind = "Single" \/ d.servers[a].kind \in {"Mongos", "RSPrimary", "Standalone"}}

(* SelectServer returns: the deferred Unsubscribe removes the subscription. *)
(* Its early return, once the subscriptions are closed, changes nothing:    *)
(* Disconnect has emptied the map by then, and Subscribe adds to it no more. *)
ReturnSubscribed(i) ==
  /\ sel' = [sel EXCEPT ![i] = "idle"]
  /\ ch' = [ch EXCEPT ![i] = <<>>]
  /\ UNCHANGED subs
Return(i) ==
  /\ sel' = [sel EXCEPT ![i] = "idle"]
  /\ subs' = subs \ {i}
  /\ ch' = [ch EXCEPT ![i] = <<>>]

(* Selecting from description d: an incompatible deployment is an error, no *)
(* suitable server sends the goroutine to none, a suitable one to some.     *)
SelectFrom(i, d, none, some) ==
  \/ ~d.compatible /\ Return(i) /\ UNCHANGED chosen
  \/ /\ d.compatible /\ Suitable(d) = {}
     /\ sel' = [sel EXCEPT ![i] = none]
     /\ ch' = [ch EXCEPT ![i] = <<>>]
     /\ UNCHANGED <<chosen, subs>>
  \/ /\ d.compatible /\ \E a \in Suitable(d) : chosen' = [chosen EXCEPT ![i] = a]
     /\ sel' = [sel EXCEPT ![i] = some]
     /\ ch' = [ch EXCEPT ![i] = <<>>]
     /\ UNCHANGED subs

SelectStart(i) ==
  /\ sel[i] = "idle" /\ state = "connected"
  /\ sel' = [sel EXCEPT ![i] = "first"]
  /\ UNCHANGED <<chosen, ch, subs, fsmVars, ctlVars, pollVars, connects>>

(* SelectServerLegacy subscribes at once. *)
SelectLegacyStart(i) ==
  /\ sel[i] = "idle" /\ state = "connected"
  /\ sel' = [sel EXCEPT ![i] = "subscribe"]
  /\ UNCHANGED <<chosen, ch, subs, fsmVars, ctlVars, pollVars, connects>>

SelectFirst(i) ==
  /\ sel[i] = "first"
  /\ SelectFrom(i, desc, "subscribe", "find")
  /\ UNCHANGED <<fsmVars, ctlVars, pollVars, connects>>

(* Subscribe reads the description for the new channel ... *)
SubscribeLoad(i) ==
  /\ sel[i] = "subscribe"
  /\ IF state = "connected"
     THEN /\ ch' = [ch EXCEPT ![i] = <<desc>>]
          /\ sel' = [sel EXCEPT ![i] = "register"]
          /\ UNCHANGED subs
     ELSE Return(i)
  /\ UNCHANGED <<chosen, fsmVars, ctlVars, pollVars, connects>>

(* ... and registers the channel. *)
SubscribeRegister(i) ==
  /\ sel[i] = "register"
  /\ IF subsClosed THEN Return(i)
     ELSE /\ subs' = subs \cup {i}
          /\ sel' = [sel EXCEPT ![i] = "wait"]
          /\ UNCHANGED ch
  /\ UNCHANGED <<chosen, fsmVars, ctlVars, pollVars, connects>>

(* selectServerFromSubscription receives a description. A channel closed by *)
(* Disconnect yields empty descriptions, which select nothing.              *)
SelectReceive(i) ==
  /\ sel[i] = "wait" /\ ch[i] # <<>>
  /\ SelectFrom(i, Head(ch[i]), "wait", "findAgain")
  /\ UNCHANGED <<fsmVars, ctlVars, pollVars, connects>>

(* The server selection timeout or the end of the context. *)
SelectTimeout(i) ==
  /\ sel[i] = "wait"
  /\ Return(i)
  /\ UNCHANGED <<chosen, fsmVars, ctlVars, pollVars, connects>>

(* FindServer: a server no longer in the topology is selected again.        *)
FindServer(i) ==
  /\ sel[i] \in {"find", "findAgain"}
  /\ IF state # "connected" \/ chosen[i] \in servers THEN Return(i)
     ELSE /\ sel' = [sel EXCEPT ![i] = IF @ = "find" THEN "subscribe" ELSE "wait"]
          /\ UNCHANGED <<ch, subs>>
  /\ UNCHANGED <<chosen, fsmVars, ctlVars, pollVars, connects>>
-----------------------------------------------------------------------------
(* Disconnect *)

Disconnect ==
  /\ MayDisconnect /\ state = "connected" /\ down = "off"
  /\ state' = "disconnecting"
  /\ down' = "servers"
  /\ UNCHANGED <<fsmVars, selVars, serversClosed, subsClosed, pollVars, connects>>

(* serversClosed is set, and each server's Disconnect stops its monitor.    *)
DisconnectServers ==
  /\ down = "servers"
  /\ serversClosed' = TRUE
  /\ monitoring' = {}
  /\ down' = "subs"
  /\ UNCHANGED <<fsm, order, servers, zombies, desc, announced, selVars, state,
                 subsClosed, pollVars, connects>>

DisconnectSubscribers ==
  /\ down = "subs"
  /\ subs' = {} /\ subsClosed' = TRUE
  /\ down' = IF PollingRequired THEN "polling" ELSE "end"
  /\ UNCHANGED <<fsmVars, sel, chosen, ch, state, serversClosed, pollVars, connects>>

(* The unbuffered send on pollingDone meets pollSRVRecords at its select or *)
(* after its loop.                                                          *)
DisconnectPolling ==
  /\ down = "polling" /\ poll \in {"tick", "done"}
  /\ poll' = "off"
  /\ down' = "end"
  /\ UNCHANGED <<fsmVars, selVars, state, serversClosed, subsClosed, hosts, connects>>

DisconnectEnd ==
  /\ down = "end"
  /\ desc' = EmptyDesc
  /\ state' = "disconnected"
  /\ down' = "off"
  /\ UNCHANGED <<fsm, order, servers, monitoring, zombies, announced, selVars,
                 serversClosed, subsClosed, pollVars, connects>>
-----------------------------------------------------------------------------
SelectStep(i) ==
  \/ SelectFirst(i) \/ SubscribeLoad(i) \/ SubscribeRegister(i) \/ SelectReceive(i) \/ FindServer(i)

PollStep == LookupSucceeds \/ LookupFails \/ ProcessSRVResults \/ PollClosed

DisconnectStep ==
  DisconnectServers \/ DisconnectSubscribers \/ DisconnectPolling \/ DisconnectEnd

Next ==
  \/ Connect \/ ConnectEnd
  \/ \E s \in Reports : ApplyReport(s)
  \/ \E a \in Addrs : ZombieStops(a)
  \/ PollTick \/ PollStep
  \/ \E i \in Selectors : SelectStart(i) \/ SelectLegacyStart(i) \/ SelectTimeout(i) \/ SelectStep(i)
  \/ Disconnect \/ DisconnectStep

Spec == Init /\ [][Next]_vars

(* Goroutines that can run do run. At its select pollSRVRecords chooses at  *)
(* random between the ticker and pollingDone when both are ready, so it     *)
(* does not pass Disconnect over for ever.                                  *)
Fairness ==
  /\ SF_vars(DisconnectPolling)
  /\ WF_vars(ConnectEnd) /\ WF_vars(DisconnectStep) /\ WF_vars(PollStep)
  /\ \A i \in Selectors : WF_vars(SelectStep(i))

FairSpec == Spec /\ Fairness

(* Every monitored server is checked again and again and each report is     *)
(* published, changed or not: when the state machine no longer changes, the *)
(* servers' reports still come, and are those that do not change it.        *)
SameReport(a) == \E s \in Reports : s.addr = a /\ Apply(fsm, s) = fsm /\ ApplyReport(s)
HeartbeatSpec ==
  FairSpec /\ (<>[][FALSE]_fsm => \A a \in Addrs : WF_vars(SameReport(a)))

(* The servers keep reporting what is true of them. *)
TrueReport(a) == \E s \in Truth : s.addr = a /\ ApplyReport(s)
TruthSpec == FairSpec /\ \A a \in Addrs : WF_vars(TrueReport(a))
-----------------------------------------------------------------------------
(* Properties *)

(* OnePrimary: the driver never believes in two primaries of a replica set, *)
(* and ReplicaSetWithPrimary is claimed exactly while it believes in one,   *)
(* whatever order the monitors' reports are applied in (fsm.apply).         *)
PrimaryIsUnique == OnePrimary(fsm)

(* PrimaryIsNewest: a primary from before a failover, whose report comes    *)
(* late, never displaces one with a newer election (updateRSFromPrimary).   *)
NewestPrimary == PrimaryIsNewest(fsm)

(* MembersBelong: reports of servers of another kind of deployment, or of   *)
(* another replica set, never leave one in the topology (fsm.apply).        *)
ServersBelong == MembersBelong(fsm)

(* PrimaryListsMembers: servers the primary does not list are gone, and no  *)
(* later report of a member brings one back (updateRSFromPrimary).          *)
PrimaryRules == PrimaryListsMembers(fsm)

(* The primary the driver believes in is the only one, the newest, and the  *)
(* one whose list of members the topology follows, in whatever order        *)
(* reports of several elections come in (fsm.go, updateRSFromPrimary).      *)
PrimaryIsRight == PrimaryIsUnique /\ NewestPrimary /\ PrimaryRules

(* TimeoutIsSafe: the session timeout covers every data bearing server      *)
(* however servers come and go (fsm.apply).                                 *)
SessionTimeoutSafe == TimeoutIsSafe(fsm)

(* The set version and election id a primary is compared with never go      *)
(* back, so a primary once superseded stays superseded                      *)
(* (updateRSFromPrimary).                                                   *)
NeverForgetsElection ==
  [][fsm'.maxElectionID >= fsm.maxElectionID /\ fsm'.maxSetVersion >= fsm.maxSetVersion]_vars

(* While the topology is open it has exactly one Server for every address   *)
(* of the state machine, with its monitor running: no address is left       *)
(* without a monitor and no Server is leaked (apply, processSRVResults).    *)
EveryServerMonitored ==
  ~serversClosed => servers = DOMAIN fsm.servers /\ monitoring = servers

(* Every subscription is that of a goroutine still in SelectServer: it is   *)
(* given up on every way out (SelectServer, Unsubscribe).                   *)
NoLeakedSubscription == \A i \in subs : sel[i] \in {"wait", "findAgain"}

(* A goroutine in SelectServer does not miss the server it waits for: while *)
(* the topology stays connected with a suitable server, it returns, though  *)
(* it may have read its description just before that server was found.      *)
SelectionReturns ==
  \A i \in Selectors :
    sel[i] # "idle" ~> (sel[i] = "idle" \/ Suitable(desc) = {} \/ state # "connected")

(* Disconnect returns: pollSRVRecords always comes to receive pollingDone,  *)
(* in whichever step of a poll Disconnect finds it.                         *)
DisconnectReturns == down # "off" ~> down = "off"

(* Discovery heals: once every server reports only what is true of it, the  *)
(* topology comes to hold exactly the members of the replica set, each with *)
(* its true description, whatever was reported during the failovers and     *)
(* reconfigurations before (fsm.apply).                                     *)
Converges ==
  <>(state = "connected") /\ <>[][\E s \in Truth : ApplyReport(s)]_fsm =>
    <>[](fsm.servers = [a \in {s.addr : s \in Truth} |-> CHOOSE s \in Truth : s.addr = a])

(* The test "Not unknown or sharded topology" of pollSRVRecords: polling    *)
(* leaves the hosts of any other topology alone.                            *)
PollingLeavesOthers ==
  [][poll = "results" /\ poll' = "tick" /\ fsm.kind \notin {"Unknown", "Sharded"} =>
       DOMAIN fsm'.servers = DOMAIN fsm.servers]_vars
=============================================================================
