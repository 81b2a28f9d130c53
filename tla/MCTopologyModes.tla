-------------------------- MODULE MCTopologyModes --------------------------
(***************************************************************************)
(* Topology for TLC, in four modes of one run:                             *)
(*   replica  two seeds and any report; nobody selects or disconnects      *)
(*   direct   one seed and a set name in single mode, with Disconnect and  *)
(*            a goroutine that selects                                     *)
(*   settle   two seeds of a named set through failovers, whose servers    *)
(*            then report only what is true                                *)
(*   srv      two seeds of a sharded cluster whose SRV record is polled,   *)
(*            with Disconnect                                              *)
(***************************************************************************)
EXTENDS MCTopology

VARIABLE mode

Direct == INSTANCE Topology WITH SingleMode <- TRUE, Seeds <- OneSeed, ReplicaSetName <- rs
Settle == INSTANCE Topology WITH ReplicaSetName <- rs, Reports <- FailoverReports,
                                   Truth <- SettledReports
Srv == INSTANCE Topology WITH PollingRequired <- TRUE, Reports <- ShardedReports,
                                HostLists <- SomeHostLists

mcVars == <<vars, mode>>
Quiet == sel' = sel /\ down' = down
ModesInit ==
  \/ mode = "replica" /\ Init
  \/ mode = "direct" /\ Direct!Init
  \/ mode = "settle" /\ Settle!Init
  \/ mode = "srv" /\ Srv!Init
ModesNext ==
  /\ mode' = mode
  /\ \/ mode = "replica" /\ Next /\ Quiet
     \/ mode = "direct" /\ Direct!Next
     \/ mode = "settle" /\ Settle!Next /\ Quiet
     \/ mode = "srv" /\ Srv!Next /\ sel' = sel
Settling(A) == mode = "settle" /\ A /\ mode' = mode
Polling(A) == mode = "srv" /\ A /\ mode' = mode
ModesSpec ==
  /\ ModesInit /\ [][ModesNext]_mcVars
  /\ WF_mcVars(Settling(Settle!ConnectEnd))
  /\ \A a \in Addrs : WF_mcVars(Settling(Settle!TrueReport(a)))
  /\ SF_mcVars(Polling(Srv!DisconnectPolling)) /\ WF_mcVars(Polling(Srv!ConnectEnd))
  /\ WF_mcVars(Polling(Srv!DisconnectStep)) /\ WF_mcVars(Polling(Srv!PollStep))

(* Discovery heals: once every server reports only what is true of it, the *)
(* topology comes to hold exactly the members of the replica set, each     *)
(* with its true description, whatever was reported during the failovers   *)
(* and reconfigurations before (Converges of Topology, fsm.apply).         *)
SettledConverges == mode = "settle" => Settle!Converges

(* Disconnect returns, also when the goroutine that polls the SRV record   *)
(* is busy or goes first again and again (DisconnectReturns of Topology,   *)
(* topology.go, Disconnect and pollSRVRecords).                            *)
PolledDisconnectReturns == mode = "srv" => Srv!DisconnectReturns
=============================================================================
