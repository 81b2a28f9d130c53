---------------------------- MODULE TopologyFSM ----------------------------
(***************************************************************************)
(* The state machine of server discovery (topology/fsm.go): what a server  *)
(* description, reported by a server's monitor, does to the driver's view  *)
(* of the deployment. The machine is the record f of the Go struct fsm and *)
(* apply a function on it; module Topology holds it as a variable.         *)
(*                                                                         *)
(* f.servers is keyed by address: apply looks an address up before it adds *)
(* it, so the slice fsm.Servers holds none twice (a second Connect appends *)
(* the seeds again, but no apply follows it; see Topology). The order of   *)
(* the slice matters only to processSRVResults (see Topology).             *)
(***************************************************************************)
EXTENDS Integers, FiniteSets

CONSTANTS
  Addrs,       \* server addresses, in canonical form
  SetNames,    \* replica set names
  NoName,      \* the empty set name
  MaxVersion,  \* set versions are 0..MaxVersion, 0 for none
  MaxElection, \* election ids are 0..MaxElection, 0 for NilObjectID
  MaxCounter,  \* topology versions are 0..MaxCounter, 0 for nil
  Timeouts     \* values of SessionTimeoutMinutes, 0 for none

ASSUME NamesAssumption == NoName \notin SetNames
ASSUME VersionsAssumption ==
  /\ MaxVersion \in Nat /\ MaxElection \in Nat /\ MaxCounter \in Nat
  /\ Timeouts \subseteq Nat /\ 0 \in Timeouts

MemberKinds == {"RSSecondary", "RSArbiter", "RSMember"}
RSKinds == MemberKinds \cup {"RSPrimary"}
ServerKinds == RSKinds \cup {"RSGhost", "Unknown", "Standalone", "Mongos"}

(* description.Server. me is CanonicalAddr; compatible says whether the     *)
(* wire version range, if any, meets supportedWireVersions.                 *)
Description ==
  [addr : Addrs, kind : ServerKinds, setName : SetNames \cup {NoName},
   setVersion : 0..MaxVersion, electionID : 0..MaxElection, members : SUBSET Addrs,
   me : Addrs, timeout : Timeouts, compatible : BOOLEAN, tv : 0..MaxCounter]

TopologyKinds == {"Unknown", "Single", "Sharded", "ReplicaSetNoPrimary", "ReplicaSetWithPrimary"}
ReplicaSetKinds == {"ReplicaSetNoPrimary", "ReplicaSetWithPrimary"}

(* description.Server{Addr: a}, NewDefaultServer and NewServerFromError.    *)
DefaultServer(a) ==
  [addr |-> a, kind |-> "Unknown", setName |-> NoName, setVersion |-> 0, electionID |-> 0,
   members |-> {}, me |-> a, timeout |-> 0, compatible |-> TRUE, tv |-> 0]

DataBearing(s) == s.kind \in {"RSPrimary", "RSSecondary", "Mongos", "Standalone"}

(* CompareTopologyVersion(current, response) > 0, within one server process *)
NewerTopologyVersion(current, response) ==
  current # 0 /\ response # 0 /\ current > response

IsServerMap(m) == DOMAIN m \subseteq Addrs /\ m \in [DOMAIN m -> Description]

(* f is a record fsm; compatible says whether its CompatibilityErr is nil.  *)
IsFSM(f) ==
  /\ f \in [kind : TopologyKinds, setName : SetNames \cup {NoName}, servers : {f.servers},
            maxElectionID : 0..MaxElection, maxSetVersion : 0..MaxVersion,
            timeout : Timeouts, compatible : BOOLEAN]
  /\ IsServerMap(f.servers)
  /\ \A a \in DOMAIN f.servers : f.servers[a].addr = a
-----------------------------------------------------------------------------
(* The helpers at the end of fsm.go *)

Has(f, a) == a \in DOMAIN f.servers
HasPrimary(f) == \E a \in DOMAIN f.servers : f.servers[a].kind = "RSPrimary"
SetKind(f, k) == [f EXCEPT !.kind = k]

KeepServers(f, A) == [f EXCEPT !.servers = [a \in DOMAIN f.servers \cap A |-> f.servers[a]]]
RemoveServerByAddr(f, a) == KeepServers(f, Addrs \ {a})

(* addServer for every member that findServer does not find. *)
AddServers(f, A) ==
  [f EXCEPT !.servers = [a \in DOMAIN f.servers \cup A |->
     IF Has(f, a) THEN f.servers[a] ELSE DefaultServer(a)]]

ReplaceServer(f, s) ==
  IF Has(f, s.addr) THEN [f EXCEPT !.servers[s.addr] = s] ELSE f

CheckIfHasPrimary(f) ==
  SetKind(f, IF HasPrimary(f) THEN "ReplicaSetWithPrimary" ELSE "ReplicaSetNoPrimary")
-----------------------------------------------------------------------------
(* updateRSFromPrimary *)

(* Only a primary that reports both a set version and an election id is     *)
(* compared with the highest seen.                                          *)
Comparable(s) == s.setVersion # 0 /\ s.electionID # 0
StalePrimaryByVersion(f, s) == Comparable(s) /\ f.maxSetVersion > s.setVersion
StaleOrEqual(f, s) ==
  Comparable(s) /\ (f.maxSetVersion > s.setVersion \/ f.maxElectionID >= s.electionID)
StalePrimary(f, s) ==
  Comparable(s) /\ (f.maxSetVersion > s.setVersion \/ f.maxElectionID > s.electionID)

RecordVersionOnly(f, s) ==
  [f EXCEPT !.maxSetVersion = IF s.setVersion > @ THEN s.setVersion ELSE @]
RecordPrimary(f, s) ==
  [f EXCEPT !.maxElectionID = IF Comparable(s) THEN s.electionID ELSE @,
            !.maxSetVersion = IF s.setVersion > @ THEN s.setVersion ELSE @]

(* setServer(j, ...) for the primary that findPrimary finds: there is at    *)
(* most one (OnePrimary).                                                   *)
DemoteKeeps(f) == f
DemotePrimary(f) ==
  [f EXCEPT !.servers = [a \in DOMAIN f.servers |->
     IF f.servers[a].kind = "RSPrimary" THEN DefaultServer(a) ELSE f.servers[a]]]

NameSet(f, s) == IF f.setName = NoName THEN [f EXCEPT !.setName = s.setName] ELSE f

InstallKeepsUnlisted(f, s) ==
  AddServers(ReplaceServer(DemotePrimary(RecordPrimary(f, s)), s), s.members)
InstallPrimary(f, s) ==
  LET g == ReplaceServer(DemotePrimary(RecordPrimary(f, s)), s)
  IN  AddServers(KeepServers(g, s.members), s.members)

UpdateRSFromPrimary(f, s) ==
  LET g == NameSet(f, s)
  IN  CheckIfHasPrimary(
        IF g.setName # s.setName THEN RemoveServerByAddr(g, s.addr)
        ELSE IF StalePrimary(g, s) THEN ReplaceServer(g, DefaultServer(s.addr))
        ELSE InstallPrimary(g, s))

UpdateRSWithPrimaryFromMember(f, s) ==
  IF f.setName # s.setName \/ s.addr # s.me
  THEN CheckIfHasPrimary(RemoveServerByAddr(f, s.addr))
  ELSE LET g == ReplaceServer(f, s)
       IN  IF HasPrimary(g) THEN g ELSE SetKind(g, "ReplicaSetNoPrimary")

UpdateRSNameUnchecked(f, s) ==
  LET h == AddServers(NameSet(f, s), s.members)
  IN  IF s.addr # s.me THEN RemoveServerByAddr(h, s.addr) ELSE ReplaceServer(h, s)
UpdateRSWithoutPrimary(f, s) ==
  LET g == NameSet(f, s)
      h == AddServers(g, s.members)
  IN  IF g.setName # s.setName THEN RemoveServerByAddr(g, s.addr)
      ELSE IF s.addr # s.me THEN RemoveServerByAddr(h, s.addr)
      ELSE ReplaceServer(h, s)

UpdateUnknownWithStandalone(f, s) ==
  IF Cardinality(DOMAIN f.servers) > 1
  THEN RemoveServerByAddr(f, s.addr)
  ELSE ReplaceServer(SetKind(f, "Single"), s)
-----------------------------------------------------------------------------
(* applyTo...: one per topology kind *)

ApplyToUnknown(f, s) ==
  CASE s.kind = "Mongos"       -> ReplaceServer(SetKind(f, "Sharded"), s)
    [] s.kind = "RSPrimary"    -> UpdateRSFromPrimary(f, s)
    [] s.kind \in MemberKinds  -> UpdateRSWithoutPrimary(SetKind(f, "ReplicaSetNoPrimary"), s)
    [] s.kind = "Standalone"   -> UpdateUnknownWithStandalone(f, s)
    [] OTHER                   -> ReplaceServer(f, s)

ApplyToSharded(f, s) ==
  IF s.kind \in {"Mongos", "Unknown"} THEN ReplaceServer(f, s) ELSE RemoveServerByAddr(f, s.addr)

ApplyToReplicaSetNoPrimary(f, s) ==
  CASE s.kind \in {"Standalone", "Mongos"} -> RemoveServerByAddr(f, s.addr)
    [] s.kind = "RSPrimary"                -> UpdateRSFromPrimary(f, s)
    [] s.kind \in MemberKinds              -> UpdateRSWithoutPrimary(f, s)
    [] OTHER                               -> ReplaceServer(f, s)

ReplaceChecked(f, s) == CheckIfHasPrimary(ReplaceServer(f, s))

ApplyToReplicaSetWithPrimary(f, s) ==
  CASE s.kind \in {"Standalone", "Mongos"} -> CheckIfHasPrimary(RemoveServerByAddr(f, s.addr))
    [] s.kind = "RSPrimary"                -> UpdateRSFromPrimary(f, s)
    [] s.kind \in MemberKinds              -> UpdateRSWithPrimaryFromMember(f, s)
    [] OTHER                               -> ReplaceChecked(f, s)

(* In a direct connection, a member of another set than the configured one  *)
(* is stored as an unknown server.                                          *)
WrongSetGhostOnly(f, s) == f.kind = "Single" /\ s.kind = "RSGhost" /\ f.setName # NoName
WrongSet(f, s) ==
  f.kind = "Single" /\ s.kind \in RSKinds \cup {"RSGhost"} /\ f.setName \notin {NoName, s.setName}

ApplyToSingle(f, s) ==
  IF s.kind \in {"Standalone", "Mongos"} /\ f.setName # NoName THEN RemoveServerByAddr(f, s.addr)
  ELSE IF WrongSet(f, s) THEN ReplaceServer(f, DefaultServer(s.addr))
  ELSE ReplaceServer(f, s)

ApplyToKind(f, s) ==
  CASE f.kind = "Unknown"               -> ApplyToUnknown(f, s)
    [] f.kind = "Sharded"               -> ApplyToSharded(f, s)
    [] f.kind = "ReplicaSetNoPrimary"   -> ApplyToReplicaSetNoPrimary(f, s)
    [] f.kind = "ReplicaSetWithPrimary" -> ApplyToReplicaSetWithPrimary(f, s)
    [] f.kind = "Single"                -> ApplyToSingle(f, s)

(* SessionTimeoutMinutes: with no timeout yet, the lowest of s and the data *)
(* bearing servers; later only lowered.                                     *)
Lower(m, n) == IF m < n THEN m ELSE n
LowestOf(f, s) ==
  LET all == {s.timeout} \cup {f.servers[a].timeout :
                                 a \in {b \in DOMAIN f.servers : DataBearing(f.servers[b])}}
  IN  CHOOSE t \in all : \A u \in all : t <= u
UpdateTimeoutToLatest(f, s) ==
  [f EXCEPT !.timeout = IF DataBearing(s) THEN s.timeout ELSE @]
UpdateTimeout(f, s) ==
  [f EXCEPT !.timeout = IF @ = 0 THEN LowestOf(f, s)
                        ELSE IF DataBearing(s) THEN Lower(@, s.timeout) ELSE @]

CheckCompatible(f) ==
  [f EXCEPT !.compatible = \A a \in DOMAIN f.servers : f.servers[a].compatible]

(* fsm.apply *)
Apply(f, s) ==
  LET g == UpdateTimeout(f, s)
  IN  IF Has(f, s.addr) THEN CheckCompatible(ApplyToKind(g, s))
      ELSE [g EXCEPT !.compatible = TRUE]
-----------------------------------------------------------------------------
(* What is true of every reachable f *)

(* In a replica set at most one server is believed to be the primary, and   *)
(* the topology kind says whether there is one: operations are never sent   *)
(* to two primaries, and are sent to one as soon as it is known.            *)
OnePrimary(f) ==
  f.kind # "Single" =>
    /\ \A a, b \in DOMAIN f.servers :
         f.servers[a].kind = "RSPrimary" /\ f.servers[b].kind = "RSPrimary" => a = b
    /\ (f.kind = "ReplicaSetWithPrimary") <=> HasPrimary(f)

(* The primary is the newest ever accepted: if it reports a set version and *)
(* an election id, no primary with a higher one was accepted before it.     *)
PrimaryIsNewest(f) ==
  f.kind \in ReplicaSetKinds =>
    \A a \in DOMAIN f.servers :
      LET p == f.servers[a]
      IN  p.kind = "RSPrimary" /\ Comparable(p) =>
            p.electionID = f.maxElectionID /\ p.setVersion = f.maxSetVersion

(* A topology holds no server of a foreign kind: the members of a replica   *)
(* set carry its name, a sharded cluster has only mongos and servers with   *)
(* no known role, an unknown topology only the latter, and a direct         *)
(* connection made with a set name serves only a member of that set.        *)
MembersBelong(f) ==
  \A a \in DOMAIN f.servers :
    LET s == f.servers[a]
    IN  CASE f.kind \in ReplicaSetKinds ->
               /\ s.kind \notin {"Standalone", "Mongos"}
               /\ s.kind \in RSKinds => s.setName = f.setName
          [] f.kind = "Sharded" -> s.kind \in {"Mongos", "Unknown", "RSGhost"}
          [] f.kind = "Unknown" -> s.kind \in {"Unknown", "RSGhost"}
          [] f.kind = "Single" /\ f.setName # NoName ->
               /\ s.kind \notin {"Standalone", "Mongos"}
               /\ s.kind \in RSKinds => s.setName = f.setName
          [] OTHER -> TRUE

(* With a primary, the topology holds only hosts the primary lists.         *)
PrimaryListsMembers(f) ==
  f.kind = "ReplicaSetWithPrimary" =>
    \A a \in DOMAIN f.servers :
      f.servers[a].kind = "RSPrimary" => DOMAIN f.servers \subseteq f.servers[a].members

(* The session timeout is never longer than that of a data bearing server,  *)
(* so that a session the pool believes alive is alive on each of them.      *)
TimeoutIsSafe(f) ==
  \A a \in DOMAIN f.servers :
    DataBearing(f.servers[a]) => f.timeout <= f.servers[a].timeout
=============================================================================
