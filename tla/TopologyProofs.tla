--------------------------- MODULE TopologyProofs ---------------------------
(***************************************************************************)
(* Proofs about the discovery state machine (TopologyFSM) and Topology.    *)
(*                                                                         *)
(* First what each helper of fsm.go does to the record of the machine;     *)
(* then that every applyTo... keeps Promise: Good, the part that holds of  *)
(* any topology, RightPrimary, the part about the primary, and that the    *)
(* highest election seen is not forgotten. In a replica set the two are    *)
(* carried as RSLike and PrimaryFacts, which do not mention the kind, for  *)
(* the steps between a change of the servers and checkIfHasPrimary. Last,  *)
(* that every step of Topology keeps the invariants built on these.        *)
(***************************************************************************)
EXTENDS Topology, WellFoundedInduction, TLAPS

(* description.NewDefaultServer yields a description.                       *)
LEMMA DefaultServerType ==
  ASSUME NEW a \in Addrs
  PROVE  DefaultServer(a) \in Description
BY VersionsAssumption DEF DefaultServer, Description, ServerKinds, RSKinds, MemberKinds

(* g and f differ at most in their servers and in their kind.               *)
SameFields(g, f) ==
  /\ g.setName = f.setName /\ g.timeout = f.timeout /\ g.compatible = f.compatible
  /\ g.maxElectionID = f.maxElectionID /\ g.maxSetVersion = f.maxSetVersion

(* Assigning fsm.Kind changes nothing else.                                 *)
LEMMA SetKindFSM ==
  ASSUME NEW f, IsFSM(f), NEW k \in TopologyKinds
  PROVE  /\ IsFSM(SetKind(f, k)) /\ SameFields(SetKind(f, k), f)
         /\ SetKind(f, k).kind = k /\ SetKind(f, k).servers = f.servers
BY DEF SetKind, IsFSM, SameFields

(* Assigning fsm.Servers changes nothing else.                              *)
LEMMA SetServersFSM ==
  ASSUME NEW f, IsFSM(f), NEW m, IsServerMap(m), \A a \in DOMAIN m : m[a].addr = a
  PROVE  LET g == [f EXCEPT !.servers = m]
         IN  IsFSM(g) /\ SameFields(g, f) /\ g.kind = f.kind /\ g.servers = m
BY DEF IsFSM, SameFields

(* Dropping the servers outside A (updateRSFromPrimary, processSRVResults)  *)
(* leaves the others as they were.                                          *)
LEMMA KeepServersFSM ==
  ASSUME NEW f, IsFSM(f), NEW A
  PROVE  LET g == KeepServers(f, A)
         IN  /\ IsFSM(g) /\ SameFields(g, f) /\ g.kind = f.kind
             /\ DOMAIN g.servers = DOMAIN f.servers \cap A
             /\ \A a \in DOMAIN g.servers : g.servers[a] = f.servers[a]
<1> DEFINE m == [a \in DOMAIN f.servers \cap A |-> f.servers[a]]
<1>1. IsServerMap(m) /\ \A a \in DOMAIN m : m[a].addr = a
  BY DEF IsFSM, IsServerMap
<1> QED
  BY <1>1, SetServersFSM DEF KeepServers

(* removeServerByAddr drops one server and leaves the others as they were.  *)
LEMMA RemoveServerFSM ==
  ASSUME NEW f, IsFSM(f), NEW x
  PROVE  LET g == RemoveServerByAddr(f, x)
         IN  /\ IsFSM(g) /\ SameFields(g, f) /\ g.kind = f.kind
             /\ DOMAIN g.servers = DOMAIN f.servers \ {x}
             /\ \A a \in DOMAIN g.servers : g.servers[a] = f.servers[a]
<1>1. DOMAIN f.servers \subseteq Addrs
  BY DEF IsFSM, IsServerMap
<1> QED
  BY <1>1, KeepServersFSM DEF RemoveServerByAddr

(* addServer, for each address of A that is not there, adds an unknown      *)
(* server and touches no other.                                             *)
LEMMA AddServersFSM ==
  ASSUME NEW f, IsFSM(f), NEW A \in SUBSET Addrs
  PROVE  LET g == AddServers(f, A)
         IN  /\ IsFSM(g) /\ SameFields(g, f) /\ g.kind = f.kind
             /\ DOMAIN g.servers = DOMAIN f.servers \cup A
             /\ \A a \in DOMAIN f.servers : g.servers[a] = f.servers[a]
             /\ \A a \in A \ DOMAIN f.servers : g.servers[a] = DefaultServer(a)
<1> DEFINE m == [a \in DOMAIN f.servers \cup A |-> IF Has(f, a) THEN f.servers[a] ELSE DefaultServer(a)]
<1>1. \A a \in A : DefaultServer(a) \in Description /\ DefaultServer(a).addr = a
  BY DefaultServerType DEF DefaultServer
<1>2. IsServerMap(m) /\ \A a \in DOMAIN m : m[a].addr = a
  BY <1>1 DEF IsFSM, IsServerMap, Has
<1> QED
  BY <1>2, SetServersFSM DEF AddServers, Has

(* replaceServer overwrites the server of that address, if there is one,    *)
(* and touches no other.                                                    *)
LEMMA ReplaceServerFSM ==
  ASSUME NEW f, IsFSM(f), NEW s \in Description
  PROVE  LET g == ReplaceServer(f, s)
         IN  /\ IsFSM(g) /\ SameFields(g, f) /\ g.kind = f.kind
             /\ DOMAIN g.servers = DOMAIN f.servers
             /\ \A a \in DOMAIN f.servers : g.servers[a] = IF a = s.addr THEN s ELSE f.servers[a]
<1>1. CASE Has(f, s.addr)
  <2> DEFINE m == [f.servers EXCEPT ![s.addr] = s]
  <2>1. IsServerMap(m) /\ \A a \in DOMAIN m : m[a].addr = a
    BY <1>1 DEF IsFSM, IsServerMap, Has
  <2>2. ReplaceServer(f, s) = [f EXCEPT !.servers = m]
    BY <1>1 DEF ReplaceServer, IsFSM
  <2>3. m = [a \in DOMAIN f.servers |-> IF a = s.addr THEN s ELSE f.servers[a]]
    BY DEF IsFSM, IsServerMap
  <2> HIDE DEF m
  <2> QED
    BY <2>1, <2>2, <2>3, SetServersFSM
<1>2. CASE ~Has(f, s.addr)
  BY <1>2 DEF ReplaceServer, Has, SameFields
<1> QED
  BY <1>1, <1>2

(* Demoting puts an unknown server in the place of a primary and touches no *)
(* other (updateRSFromPrimary).                                             *)
LEMMA DemotePrimaryFSM ==
  ASSUME NEW f, IsFSM(f)
  PROVE  LET g == DemotePrimary(f)
         IN  /\ IsFSM(g) /\ SameFields(g, f) /\ g.kind = f.kind
             /\ DOMAIN g.servers = DOMAIN f.servers
             /\ \A a \in DOMAIN f.servers :
                  g.servers[a] = IF f.servers[a].kind = "RSPrimary" THEN DefaultServer(a)
                                                                    ELSE f.servers[a]
<1> DEFINE m == [a \in DOMAIN f.servers |->
                   IF f.servers[a].kind = "RSPrimary" THEN DefaultServer(a) ELSE f.servers[a]]
<1>1. \A a \in DOMAIN f.servers : DefaultServer(a) \in Description /\ DefaultServer(a).addr = a
  BY DefaultServerType DEF DefaultServer, IsFSM, IsServerMap
<1>2. IsServerMap(m) /\ \A a \in DOMAIN m : m[a].addr = a
  BY <1>1 DEF IsFSM, IsServerMap
<1> QED
  BY <1>2, SetServersFSM DEF DemotePrimary

(* What an accepted primary leaves in maxElectionID and maxSetVersion       *)
(* (updateRSFromPrimary).                                                   *)
LEMMA RecordPrimaryFSM ==
  ASSUME NEW f, IsFSM(f), NEW s \in Description
  PROVE  LET g == RecordPrimary(f, s)
         IN  /\ IsFSM(g) /\ g.kind = f.kind /\ g.servers = f.servers
             /\ g.setName = f.setName /\ g.timeout = f.timeout
             /\ g.maxElectionID = IF Comparable(s) THEN s.electionID ELSE f.maxElectionID
             /\ g.maxSetVersion = IF s.setVersion > f.maxSetVersion THEN s.setVersion
                                                                    ELSE f.maxSetVersion
<1>1. s.electionID \in 0..MaxElection /\ s.setVersion \in 0..MaxVersion
  BY DEF Description
<1> QED
  BY <1>1 DEF IsFSM, RecordPrimary

(* The first member that reports names the set; later ones do not rename it *)
(* (updateRSFromPrimary, updateRSWithoutPrimary).                           *)
LEMMA NameSetFSM ==
  ASSUME NEW f, IsFSM(f), NEW s \in Description
  PROVE  LET g == NameSet(f, s)
         IN  /\ IsFSM(g) /\ g.kind = f.kind /\ g.servers = f.servers /\ g.timeout = f.timeout
             /\ g.maxElectionID = f.maxElectionID /\ g.maxSetVersion = f.maxSetVersion
             /\ g.setName = IF f.setName = NoName THEN s.setName ELSE f.setName
<1>1. s.setName \in SetNames \cup {NoName}
  BY DEF Description
<1> QED
  BY <1>1 DEF IsFSM, NameSet

(* checkIfHasPrimary sets the kind to what the servers say.                 *)
LEMMA CheckIfHasPrimaryFSM ==
  ASSUME NEW f, IsFSM(f)
  PROVE  LET g == CheckIfHasPrimary(f)
         IN  /\ IsFSM(g) /\ SameFields(g, f) /\ g.servers = f.servers
             /\ g.kind = IF HasPrimary(f) THEN "ReplicaSetWithPrimary" ELSE "ReplicaSetNoPrimary"
BY SetKindFSM DEF CheckIfHasPrimary, TopologyKinds
-----------------------------------------------------------------------------
(* What one server of kind and name must be in a topology. *)
Belongs(k, n, s) ==
  /\ k \in ReplicaSetKinds \/ (k = "Single" /\ n # NoName) =>
       s.kind \notin {"Standalone", "Mongos"} /\ (s.kind \in RSKinds => s.setName = n)
  /\ k = "Sharded" => s.kind \in {"Mongos", "Unknown", "RSGhost"}
  /\ k = "Unknown" => s.kind \in {"Unknown", "RSGhost"}

(* MembersBelong, one server at a time.                                     *)
LEMMA MembersBelongEach ==
  ASSUME NEW f, IsFSM(f)
  PROVE  MembersBelong(f) <=> \A a \in DOMAIN f.servers : Belongs(f.kind, f.setName, f.servers[a])
<1>1. f.kind \in TopologyKinds
  BY DEF IsFSM
<1> QED
  BY <1>1 DEF MembersBelong, Belongs, TopologyKinds, ReplicaSetKinds

(* An unknown server belongs everywhere and bears no data.                  *)
LEMMA DefaultBelongs ==
  ASSUME NEW k, NEW n, NEW a
  PROVE  Belongs(k, n, DefaultServer(a)) /\ ~DataBearing(DefaultServer(a))
BY DEF Belongs, DefaultServer, DataBearing, RSKinds, MemberKinds

(* A set of naturals has a smallest element. *)
LEMMA Smallest ==
  ASSUME NEW T \in SUBSET Nat, T # {}
  PROVE  \E x \in T : \A y \in T : x <= y
<1> DEFINE R == {ss \in Nat \X Nat : ss[1] < ss[2]}
<1>1. IsWellFoundedOn(R, Nat)
  BY NatLessThanWellFounded DEF OpToRel
<1>2. \A x, y \in Nat : <<y, x>> \in R <=> y < x
  OBVIOUS
<1> HIDE DEF R
<1>3. \E x \in T : \A y \in T : ~(<<y, x>> \in R)
  BY <1>1, WFMin
<1>4. PICK x \in T : \A y \in T : ~(<<y, x>> \in R)
  BY <1>3
<1>5. x \in Nat /\ \A y \in T : y \in Nat /\ ~(y < x)
  BY <1>2, <1>4
<1> QED
  BY <1>5

(* The name of a replica set is known, and that of an unknown topology not. *)
NameKnown(f) ==
  /\ f.kind \in ReplicaSetKinds => f.setName # NoName
  /\ f.kind = "Unknown" => f.setName = NoName

Good(f) == IsFSM(f) /\ MembersBelong(f) /\ TimeoutIsSafe(f) /\ NameKnown(f)

RightPrimary(f) == OnePrimary(f) /\ PrimaryIsNewest(f) /\ PrimaryListsMembers(f)

(* s may be applied to f: monitors name the set of a member, and the        *)
(* session timeout already takes s into account.                            *)
Acceptable(f, s) ==
  /\ s \in Description
  /\ s.kind \in RSKinds => s.setName # NoName
  /\ DataBearing(s) => f.timeout <= s.timeout

(* What every step of the state machine promises. *)
Promise(f, g) ==
  /\ Good(g)
  /\ g.maxElectionID >= f.maxElectionID /\ g.maxSetVersion >= f.maxSetVersion
  /\ RightPrimary(f) => RightPrimary(g)

(* apply first takes the report into the session timeout: afterwards it     *)
(* covers the report and, as before, every data bearing server.             *)
LEMMA UpdateTimeoutFSM ==
  ASSUME NEW f, Good(f), NEW s \in Description, s.kind \in RSKinds => s.setName # NoName
  PROVE  LET g == UpdateTimeout(f, s)
         IN  /\ Good(g) /\ Acceptable(g, s)
             /\ g.kind = f.kind /\ g.servers = f.servers /\ g.setName = f.setName
             /\ g.maxElectionID = f.maxElectionID /\ g.maxSetVersion = f.maxSetVersion
<1> DEFINE t == IF f.timeout = 0 THEN LowestOf(f, s)
                ELSE IF DataBearing(s) THEN Lower(f.timeout, s.timeout) ELSE f.timeout
           g == UpdateTimeout(f, s)
<1>a. /\ IsFSM(f) /\ f.timeout \in Timeouts /\ s.timeout \in Timeouts /\ Timeouts \subseteq Nat
      /\ \A a \in DOMAIN f.servers : f.servers[a].timeout \in Timeouts
  BY VersionsAssumption DEF Good, IsFSM, IsServerMap, Description
<1>1. /\ t \in Timeouts
      /\ DataBearing(s) => t <= s.timeout
      /\ \A a \in DOMAIN f.servers : DataBearing(f.servers[a]) => t <= f.servers[a].timeout
  <2>1. CASE f.timeout = 0
    <3> DEFINE all == {s.timeout} \cup {f.servers[a].timeout :
                         a \in {b \in DOMAIN f.servers : DataBearing(f.servers[b])}}
    <3>1. all \in SUBSET Nat /\ all \subseteq Timeouts /\ all # {}
      BY <1>a
    <3>2. \E x \in all : \A y \in all : x <= y
      BY <3>1, Smallest
    <3>3. LowestOf(f, s) \in all /\ \A y \in all : LowestOf(f, s) <= y
      BY <3>2 DEF LowestOf
    <3>4. s.timeout \in all
      OBVIOUS
    <3>5. \A a \in DOMAIN f.servers : DataBearing(f.servers[a]) => f.servers[a].timeout \in all
      OBVIOUS
    <3> HIDE DEF all
    <3> QED
      BY <2>1, <3>1, <3>3, <3>4, <3>5
  <2>2. CASE f.timeout # 0
    <3>1. \A a \in DOMAIN f.servers : DataBearing(f.servers[a]) => f.timeout <= f.servers[a].timeout
      BY DEF Good, TimeoutIsSafe
    <3>2. f.timeout \in Nat /\ s.timeout \in Nat
      BY <1>a
    <3>3. Lower(f.timeout, s.timeout) \in {f.timeout, s.timeout}
      BY DEF Lower
    <3>4. Lower(f.timeout, s.timeout) <= f.timeout /\ Lower(f.timeout, s.timeout) <= s.timeout
      BY <3>2 DEF Lower
    <3>5. t \in Timeouts /\ t <= f.timeout /\ (DataBearing(s) => t <= s.timeout)
      BY <1>a, <2>2, <3>2, <3>3, <3>4
    <3> HIDE DEF t
    <3>6. ASSUME NEW a \in DOMAIN f.servers, DataBearing(f.servers[a])
          PROVE  t <= f.servers[a].timeout
      <4>1. f.timeout <= f.servers[a].timeout /\ f.servers[a].timeout \in Nat /\ t \in Nat
        BY <1>a, <3>1, <3>5, <3>6
      <4> QED
        BY <3>2, <3>5, <4>1
    <3> QED
      BY <3>5, <3>6
  <2> QED
    BY <2>1, <2>2
<1> HIDE DEF t
<1>2. UpdateTimeout(f, s) = [f EXCEPT !.timeout = t]
  BY <1>a DEF UpdateTimeout, t, IsFSM
<1>3. /\ IsFSM(g) /\ g.kind = f.kind /\ g.servers = f.servers /\ g.setName = f.setName
      /\ g.maxElectionID = f.maxElectionID /\ g.maxSetVersion = f.maxSetVersion /\ g.timeout = t
  BY <1>a, <1>1, <1>2 DEF IsFSM
<1> HIDE DEF g
<1>4. MembersBelong(g) /\ NameKnown(g)
  BY <1>3 DEF Good, MembersBelong, NameKnown
<1>5. TimeoutIsSafe(g) /\ Acceptable(g, s)
  BY <1>1, <1>3 DEF TimeoutIsSafe, Acceptable
<1> QED
  BY <1>3, <1>4, <1>5 DEF Good, g
-----------------------------------------------------------------------------
(* A machine whose servers are those of the replica set it names. *)
RSLike(f) ==
  /\ IsFSM(f) /\ f.setName # NoName /\ TimeoutIsSafe(f)
  /\ \A a \in DOMAIN f.servers : Belongs("ReplicaSetNoPrimary", f.setName, f.servers[a])

(* What RightPrimary says of the primary itself, whatever the kind. *)
PrimaryFacts(f) ==
  \A a \in DOMAIN f.servers :
    LET p == f.servers[a]
    IN  p.kind = "RSPrimary" =>
          /\ \A b \in DOMAIN f.servers : f.servers[b].kind = "RSPrimary" => b = a
          /\ Comparable(p) => p.electionID = f.maxElectionID /\ p.setVersion = f.maxSetVersion
          /\ DOMAIN f.servers \subseteq p.members

Later(f, g) == g.maxElectionID >= f.maxElectionID /\ g.maxSetVersion >= f.maxSetVersion

(* Nothing is forgotten where nothing is recorded.                          *)
LEMMA LaterRefl ==
  ASSUME NEW f, IsFSM(f), NEW g, g.maxElectionID = f.maxElectionID,
         g.maxSetVersion = f.maxSetVersion
  PROVE  Later(f, g)
BY VersionsAssumption DEF Later, IsFSM

(* In a replica set, RSLike is all that Good asks ...                       *)
LEMMA RSLikeIsGood ==
  ASSUME NEW f, RSLike(f), f.kind \in ReplicaSetKinds
  PROVE  Good(f)
<1>1. MembersBelong(f)
  BY MembersBelongEach DEF RSLike, Belongs, ReplicaSetKinds
<1> QED
  BY <1>1 DEF RSLike, Good, NameKnown, ReplicaSetKinds

(* ... and follows from it.                                                 *)
LEMMA GoodIsRSLike ==
  ASSUME NEW f, Good(f), f.kind \in ReplicaSetKinds
  PROVE  RSLike(f)
<1>1. \A a \in DOMAIN f.servers : Belongs(f.kind, f.setName, f.servers[a])
  BY MembersBelongEach DEF Good
<1> QED
  BY <1>1 DEF RSLike, Good, NameKnown, ReplicaSetKinds, Belongs

(* Naming the set after its first member makes the servers of an unknown    *)
(* topology, which have no role yet, servers of that set.                   *)
LEMMA NamedIsRSLike ==
  ASSUME NEW f, Good(f), f.kind \in {"Unknown"} \cup ReplicaSetKinds,
         NEW s, Acceptable(f, s), s.kind \in RSKinds
  PROVE  /\ RSLike(NameSet(f, s))
         /\ PrimaryFacts(f) => PrimaryFacts(NameSet(f, s))
<1> DEFINE g == NameSet(f, s)
<1>1. /\ IsFSM(g) /\ g.kind = f.kind /\ g.servers = f.servers /\ g.timeout = f.timeout
      /\ g.maxElectionID = f.maxElectionID /\ g.maxSetVersion = f.maxSetVersion
      /\ g.setName = IF f.setName = NoName THEN s.setName ELSE f.setName
  BY NameSetFSM DEF Good, Acceptable
<1>2. PrimaryFacts(f) => PrimaryFacts(g)
  BY <1>1 DEF PrimaryFacts
<1>3. \A a \in DOMAIN f.servers : Belongs(f.kind, f.setName, f.servers[a])
  BY MembersBelongEach DEF Good
<1> HIDE DEF g
<1>4. g.setName # NoName /\ TimeoutIsSafe(g)
  BY <1>1 DEF Acceptable, TimeoutIsSafe, Good
<1>5. CASE f.kind = "Unknown"
  <2>1. \A a \in DOMAIN f.servers : f.servers[a].kind \in {"Unknown", "RSGhost"}
    BY <1>3, <1>5 DEF Belongs
  <2>2. \A a \in DOMAIN f.servers : Belongs("ReplicaSetNoPrimary", g.setName, f.servers[a])
    BY <2>1 DEF Belongs, RSKinds, MemberKinds
  <2> QED
    BY <1>1, <1>2, <1>4, <2>2 DEF RSLike, g
<1>6. CASE f.kind \in ReplicaSetKinds
  <2>1. g.setName = f.setName
    BY <1>1, <1>6 DEF Good, NameKnown
  <2>2. \A a \in DOMAIN f.servers : Belongs("ReplicaSetNoPrimary", g.setName, f.servers[a])
    BY <1>3, <1>6, <2>1 DEF Belongs, ReplicaSetKinds
  <2> QED
    BY <1>1, <1>2, <1>4, <2>2 DEF RSLike, g
<1> QED
  BY <1>5, <1>6

(* Before a primary is found there is none to be wrong about, so            *)
(* PrimaryFacts follows from RightPrimary.                                  *)
LEMMA RightPrimaryFacts ==
  ASSUME NEW f, Good(f), f.kind \in {"Unknown"} \cup ReplicaSetKinds, RightPrimary(f)
  PROVE  PrimaryFacts(f)
<1>1. \A a \in DOMAIN f.servers : Belongs(f.kind, f.setName, f.servers[a])
  BY MembersBelongEach DEF Good
<1>2. CASE f.kind = "Unknown"
  BY <1>1, <1>2 DEF Belongs, PrimaryFacts
<1>3. CASE f.kind \in ReplicaSetKinds
  <2>1. ASSUME NEW a \in DOMAIN f.servers, f.servers[a].kind = "RSPrimary"
        PROVE  f.kind = "ReplicaSetWithPrimary"
    BY <1>3, <2>1 DEF RightPrimary, OnePrimary, HasPrimary, ReplicaSetKinds
  <2> QED
    BY <1>3, <2>1 DEF RightPrimary, OnePrimary, PrimaryIsNewest, PrimaryListsMembers,
                      PrimaryFacts, ReplicaSetKinds
<1> QED
  BY <1>2, <1>3

(* PrimaryFacts gives RightPrimary back once the kind agrees with the       *)
(* servers.                                                                 *)
LEMMA FactsRightPrimary ==
  ASSUME NEW f, PrimaryFacts(f), f.kind \in ReplicaSetKinds,
         f.kind = "ReplicaSetWithPrimary" <=> HasPrimary(f)
  PROVE  RightPrimary(f)
BY DEF PrimaryFacts, RightPrimary, OnePrimary, PrimaryIsNewest, PrimaryListsMembers, HasPrimary,
       ReplicaSetKinds

(* checkIfHasPrimary makes the kind agree with the servers, and so restores *)
(* RightPrimary from PrimaryFacts.                                          *)
LEMMA CheckedIsGood ==
  ASSUME NEW f, RSLike(f)
  PROVE  LET g == CheckIfHasPrimary(f)
         IN  Good(g) /\ Later(f, g) /\ (PrimaryFacts(f) => RightPrimary(g))
<1> DEFINE g == CheckIfHasPrimary(f)
<1>1. /\ IsFSM(g) /\ SameFields(g, f) /\ g.servers = f.servers
      /\ g.kind = IF HasPrimary(f) THEN "ReplicaSetWithPrimary" ELSE "ReplicaSetNoPrimary"
  BY CheckIfHasPrimaryFSM DEF RSLike
<1>2. Later(f, g)
  BY <1>1, LaterRefl DEF RSLike, SameFields
<1> HIDE DEF g
<1>3. RSLike(g) /\ g.kind \in ReplicaSetKinds
  BY <1>1 DEF RSLike, SameFields, ReplicaSetKinds, TimeoutIsSafe
<1>4. PrimaryFacts(f) => PrimaryFacts(g)
  BY <1>1 DEF PrimaryFacts, SameFields
<1>5. g.kind = "ReplicaSetWithPrimary" <=> HasPrimary(g)
  BY <1>1 DEF HasPrimary
<1> QED
  BY <1>2, <1>3, <1>4, <1>5, RSLikeIsGood, FactsRightPrimary DEF g

(* removeServerByAddr in a replica set.                                     *)
LEMMA RemovedIsRSLike ==
  ASSUME NEW f, RSLike(f), NEW x
  PROVE  LET g == RemoveServerByAddr(f, x)
         IN  RSLike(g) /\ Later(f, g) /\ (PrimaryFacts(f) => PrimaryFacts(g))
<1> DEFINE g == RemoveServerByAddr(f, x)
<1>1. /\ IsFSM(g) /\ SameFields(g, f) /\ g.kind = f.kind
      /\ DOMAIN g.servers = DOMAIN f.servers \ {x}
      /\ \A a \in DOMAIN g.servers : g.servers[a] = f.servers[a]
  BY RemoveServerFSM DEF RSLike
<1>2. Later(f, g)
  BY <1>1, LaterRefl DEF RSLike, SameFields
<1> HIDE DEF g
<1>3. RSLike(g)
  BY <1>1 DEF RSLike, SameFields, TimeoutIsSafe
<1>4. PrimaryFacts(f) => PrimaryFacts(g)
  BY <1>1 DEF PrimaryFacts, SameFields
<1> QED
  BY <1>2, <1>3, <1>4 DEF g

(* replaceServer in a replica set, by a server other than a primary.        *)
LEMMA ReplacedIsRSLike ==
  ASSUME NEW f, RSLike(f), NEW s, Acceptable(f, s), s.kind # "RSPrimary",
         Belongs("ReplicaSetNoPrimary", f.setName, s)
  PROVE  LET g == ReplaceServer(f, s)
         IN  RSLike(g) /\ Later(f, g) /\ (PrimaryFacts(f) => PrimaryFacts(g))
<1> DEFINE g == ReplaceServer(f, s)
<1>1. /\ IsFSM(g) /\ SameFields(g, f) /\ g.kind = f.kind
      /\ DOMAIN g.servers = DOMAIN f.servers
      /\ \A a \in DOMAIN f.servers : g.servers[a] = IF a = s.addr THEN s ELSE f.servers[a]
  BY ReplaceServerFSM DEF RSLike, Acceptable
<1>2. Later(f, g)
  BY <1>1, LaterRefl DEF RSLike, SameFields
<1> HIDE DEF g
<1>3. RSLike(g)
  <2>1. TimeoutIsSafe(g)
    BY <1>1 DEF RSLike, SameFields, TimeoutIsSafe, Acceptable
  <2>2. \A a \in DOMAIN g.servers : Belongs("ReplicaSetNoPrimary", g.setName, g.servers[a])
    BY <1>1 DEF RSLike, SameFields
  <2> QED
    BY <1>1, <2>1, <2>2 DEF RSLike, SameFields
<1>4. PrimaryFacts(f) => PrimaryFacts(g)
  BY <1>1 DEF PrimaryFacts, SameFields
<1> QED
  BY <1>2, <1>3, <1>4 DEF g

(* addServer in a replica set: no added server is a primary.                *)
LEMMA AddedIsRSLike ==
  ASSUME NEW f, RSLike(f), NEW A \in SUBSET Addrs
  PROVE  LET g == AddServers(f, A)
         IN  RSLike(g) /\ Later(f, g) /\ (HasPrimary(g) <=> HasPrimary(f))
<1> DEFINE g == AddServers(f, A)
<1>1. /\ IsFSM(g) /\ SameFields(g, f) /\ g.kind = f.kind
      /\ DOMAIN g.servers = DOMAIN f.servers \cup A
      /\ \A a \in DOMAIN f.servers : g.servers[a] = f.servers[a]
      /\ \A a \in A \ DOMAIN f.servers : g.servers[a] = DefaultServer(a)
  BY AddServersFSM DEF RSLike
<1>2. Later(f, g)
  BY <1>1, LaterRefl DEF RSLike, SameFields
<1>3. \A a : DefaultServer(a).kind = "Unknown"
  BY DEF DefaultServer
<1> HIDE DEF g
<1>4. HasPrimary(g) <=> HasPrimary(f)
  BY <1>1, <1>3 DEF HasPrimary
<1>5. \A a \in DOMAIN g.servers : Belongs("ReplicaSetNoPrimary", g.setName, g.servers[a])
  BY <1>1, DefaultBelongs DEF RSLike, SameFields
<1>6. TimeoutIsSafe(g)
  BY <1>1, DefaultBelongs DEF RSLike, SameFields, TimeoutIsSafe
<1> QED
  BY <1>1, <1>2, <1>4, <1>5, <1>6 DEF RSLike, SameFields, g
-----------------------------------------------------------------------------
(* updateRSFromPrimary, past its checks: the old primary is demoted, the    *)
(* new one is the only one, is as new as any accepted before and lists      *)
(* every server there is, whatever held before.                             *)
LEMMA InstalledIsRSLike ==
  ASSUME NEW f, RSLike(f), NEW s, Acceptable(f, s), s.kind = "RSPrimary",
         f.setName = s.setName, ~StalePrimary(f, s)
  PROVE  LET g == InstallPrimary(f, s)
         IN  RSLike(g) /\ Later(f, g) /\ PrimaryFacts(g)
<1> DEFINE r == RecordPrimary(f, s)
           d == DemotePrimary(r)
           p == ReplaceServer(d, s)
           k == KeepServers(p, s.members)
           g == AddServers(k, s.members)
<1>a. IsFSM(f) /\ s \in Description
  BY DEF RSLike, Acceptable
<1>b. s.members \in SUBSET Addrs /\ s.electionID \in Nat /\ s.setVersion \in Nat
  BY <1>a, VersionsAssumption DEF Description
<1>c. f.maxElectionID \in Nat /\ f.maxSetVersion \in Nat
  BY <1>a, VersionsAssumption DEF IsFSM
<1>1. /\ IsFSM(r) /\ r.servers = f.servers /\ r.setName = f.setName /\ r.timeout = f.timeout
      /\ r.maxElectionID = IF Comparable(s) THEN s.electionID ELSE f.maxElectionID
      /\ r.maxSetVersion = IF s.setVersion > f.maxSetVersion THEN s.setVersion
                                                             ELSE f.maxSetVersion
  BY <1>a, RecordPrimaryFSM
<1> HIDE DEF r
<1>2. /\ IsFSM(d) /\ SameFields(d, r) /\ DOMAIN d.servers = DOMAIN r.servers
      /\ \A a \in DOMAIN r.servers :
           d.servers[a] = IF r.servers[a].kind = "RSPrimary" THEN DefaultServer(a)
                                                             ELSE r.servers[a]
  BY <1>1, DemotePrimaryFSM
<1> HIDE DEF d
<1>3. /\ IsFSM(p) /\ SameFields(p, d) /\ DOMAIN p.servers = DOMAIN d.servers
      /\ \A a \in DOMAIN d.servers : p.servers[a] = IF a = s.addr THEN s ELSE d.servers[a]
  BY <1>a, <1>2, ReplaceServerFSM
<1> HIDE DEF p
<1>4. /\ IsFSM(k) /\ SameFields(k, p) /\ DOMAIN k.servers = DOMAIN p.servers \cap s.members
      /\ \A a \in DOMAIN k.servers : k.servers[a] = p.servers[a]
  BY <1>3, KeepServersFSM
<1> HIDE DEF k
<1>5. /\ IsFSM(g) /\ SameFields(g, k) /\ DOMAIN g.servers = DOMAIN k.servers \cup s.members
      /\ \A a \in DOMAIN k.servers : g.servers[a] = k.servers[a]
      /\ \A a \in s.members \ DOMAIN k.servers : g.servers[a] = DefaultServer(a)
  BY <1>b, <1>4, AddServersFSM
<1>6. InstallPrimary(f, s) = g
  BY DEF InstallPrimary, r, d, p, k
<1> HIDE DEF g
<1>7. /\ g.setName = f.setName /\ g.timeout = f.timeout
      /\ g.maxElectionID = r.maxElectionID /\ g.maxSetVersion = r.maxSetVersion
  BY <1>1, <1>2, <1>3, <1>4, <1>5 DEF SameFields
<1>8. DOMAIN g.servers = s.members
  BY <1>4, <1>5
<1>9. ASSUME NEW a \in DOMAIN g.servers
      PROVE  \/ g.servers[a] = DefaultServer(a)
             \/ g.servers[a] = s /\ a = s.addr
             \/ /\ a \in DOMAIN f.servers /\ g.servers[a] = f.servers[a]
                /\ f.servers[a].kind # "RSPrimary"
  BY <1>1, <1>2, <1>3, <1>4, <1>5, <1>9
<1>10. RSLike(g)
  <2>1. Belongs("ReplicaSetNoPrimary", f.setName, s)
    BY DEF Belongs
  <2>2. \A a \in DOMAIN g.servers : Belongs("ReplicaSetNoPrimary", g.setName, g.servers[a])
    BY <1>7, <1>9, <2>1, DefaultBelongs DEF RSLike
  <2>3. TimeoutIsSafe(g)
    BY <1>7, <1>9, DefaultBelongs DEF RSLike, TimeoutIsSafe, Acceptable
  <2> QED
    BY <1>5, <1>7, <2>2, <2>3 DEF RSLike
<1>11. Later(f, g)
  BY <1>1, <1>7, <1>b, <1>c DEF Later, StalePrimary
<1>12. PrimaryFacts(g)
  <2>1. \A a : DefaultServer(a).kind = "Unknown"
    BY DEF DefaultServer
  <2>2. \A a \in DOMAIN g.servers : g.servers[a].kind = "RSPrimary" => g.servers[a] = s /\ a = s.addr
    BY <1>9, <2>1
  <2>3. Comparable(s) => s.electionID = g.maxElectionID /\ s.setVersion = g.maxSetVersion
    BY <1>1, <1>7, <1>b, <1>c DEF StalePrimary
  <2> QED
    BY <1>8, <2>2, <2>3 DEF PrimaryFacts
<1> QED
  BY <1>6, <1>10, <1>11, <1>12

(* Not forgetting composes.                                                 *)
LEMMA LaterTrans ==
  ASSUME NEW f, IsFSM(f), NEW g, IsFSM(g), NEW h, IsFSM(h), Later(f, g), Later(g, h)
  PROVE  Later(f, h)
BY VersionsAssumption DEF Later, IsFSM

(* An unknown server may be applied to any machine.                         *)
LEMMA DefaultAcceptable ==
  ASSUME NEW f, NEW a \in Addrs
  PROVE  /\ Acceptable(f, DefaultServer(a))
         /\ DefaultServer(a).kind = "Unknown" /\ DefaultServer(a).addr = a
BY DefaultServerType, DefaultBelongs DEF Acceptable, DefaultServer, RSKinds, MemberKinds

(* updateRSFromPrimary: a primary of another set is removed, a stale one    *)
(* becomes unknown, any other one is installed.                             *)
LEMMA UpdateRSFromPrimaryKeeps ==
  ASSUME NEW f, Good(f), f.kind \in {"Unknown"} \cup ReplicaSetKinds,
         NEW s, Acceptable(f, s), s.kind = "RSPrimary"
  PROVE  Promise(f, UpdateRSFromPrimary(f, s))
<1> DEFINE g == NameSet(f, s)
           h == IF g.setName # s.setName THEN RemoveServerByAddr(g, s.addr)
                ELSE IF StalePrimary(g, s) THEN ReplaceServer(g, DefaultServer(s.addr))
                ELSE InstallPrimary(g, s)
<1>a. s.kind \in RSKinds /\ s.addr \in Addrs /\ IsFSM(f)
  BY DEF RSKinds, Acceptable, Description, Good
<1>1. RSLike(g) /\ (PrimaryFacts(f) => PrimaryFacts(g))
  BY <1>a, NamedIsRSLike
<1>2. Later(f, g) /\ g.timeout = f.timeout
  BY NameSetFSM, LaterRefl DEF Good, Acceptable
<1>3. Acceptable(g, s)
  BY <1>2 DEF Acceptable
<1> HIDE DEF g
<1>4. RSLike(h) /\ Later(g, h) /\ (PrimaryFacts(g) => PrimaryFacts(h))
  <2>1. CASE g.setName # s.setName
    BY <1>1, <2>1, RemovedIsRSLike
  <2>2. CASE g.setName = s.setName /\ StalePrimary(g, s)
    <3>1. /\ Acceptable(g, DefaultServer(s.addr)) /\ DefaultServer(s.addr).kind # "RSPrimary"
          /\ Belongs("ReplicaSetNoPrimary", g.setName, DefaultServer(s.addr))
      BY <1>a, DefaultAcceptable, DefaultBelongs
    <3> QED
      BY <1>1, <2>2, <3>1, ReplacedIsRSLike
  <2>3. CASE g.setName = s.setName /\ ~StalePrimary(g, s)
    BY <1>1, <1>3, <2>3, InstalledIsRSLike
  <2> QED
    BY <2>1, <2>2, <2>3
<1>5. UpdateRSFromPrimary(f, s) = CheckIfHasPrimary(h)
  BY DEF UpdateRSFromPrimary, g
<1> HIDE DEF h
<1> DEFINE u == CheckIfHasPrimary(h)
<1>6. Good(u) /\ Later(h, u) /\ (PrimaryFacts(h) => RightPrimary(u))
  BY <1>4, CheckedIsGood
<1> HIDE DEF u
<1>7. Later(f, u)
  BY <1>a, <1>1, <1>2, <1>4, <1>6, LaterTrans DEF RSLike, Good
<1> QED
  BY <1>1, <1>4, <1>5, <1>6, <1>7, RightPrimaryFacts DEF Promise, Later, u

(* updateRSWithPrimaryFromMember: a member removes itself or replaces what  *)
(* was known of it, possibly the primary.                                   *)
LEMMA UpdateRSWithPrimaryFromMemberKeeps ==
  ASSUME NEW f, Good(f), f.kind = "ReplicaSetWithPrimary",
         NEW s, Acceptable(f, s), s.kind \in MemberKinds
  PROVE  Promise(f, UpdateRSWithPrimaryFromMember(f, s))
<1>1. RSLike(f) /\ IsFSM(f) /\ (RightPrimary(f) => PrimaryFacts(f))
  BY GoodIsRSLike, RightPrimaryFacts DEF ReplicaSetKinds, Good
<1>2. CASE f.setName # s.setName \/ s.addr # s.me
  <2> DEFINE h == RemoveServerByAddr(f, s.addr)
             u == CheckIfHasPrimary(h)
  <2>1. RSLike(h) /\ Later(f, h) /\ (PrimaryFacts(f) => PrimaryFacts(h))
    BY <1>1, RemovedIsRSLike
  <2>2. UpdateRSWithPrimaryFromMember(f, s) = u
    BY <1>2 DEF UpdateRSWithPrimaryFromMember
  <2> HIDE DEF h
  <2>3. Good(u) /\ Later(h, u) /\ (PrimaryFacts(h) => RightPrimary(u))
    BY <2>1, CheckedIsGood
  <2> HIDE DEF u
  <2>4. Later(f, u)
    BY <1>1, <2>1, <2>3, LaterTrans DEF RSLike, Good
  <2> QED
    BY <1>1, <2>1, <2>2, <2>3, <2>4 DEF Promise, Later
<1>3. CASE f.setName = s.setName /\ s.addr = s.me
  <2> DEFINE g == ReplaceServer(f, s)
             u == SetKind(g, "ReplicaSetNoPrimary")
  <2>1. s.kind # "RSPrimary" /\ Belongs("ReplicaSetNoPrimary", f.setName, s)
    BY <1>3 DEF MemberKinds, Belongs
  <2>2. RSLike(g) /\ Later(f, g) /\ (PrimaryFacts(f) => PrimaryFacts(g))
    BY <1>1, <2>1, ReplacedIsRSLike
  <2>3. g.kind = "ReplicaSetWithPrimary"
    BY <1>1, ReplaceServerFSM DEF Acceptable
  <2>4. UpdateRSWithPrimaryFromMember(f, s) = IF HasPrimary(g) THEN g ELSE u
    BY <1>3 DEF UpdateRSWithPrimaryFromMember
  <2> HIDE DEF g
  <2>5. CASE HasPrimary(g)
    BY <1>1, <2>2, <2>3, <2>4, <2>5, RSLikeIsGood, FactsRightPrimary
       DEF Promise, Later, ReplicaSetKinds
  <2>6. CASE ~HasPrimary(g)
    <3>1. u = CheckIfHasPrimary(g)
      BY <2>6 DEF CheckIfHasPrimary
    <3>2. Good(u) /\ Later(g, u) /\ (PrimaryFacts(g) => RightPrimary(u))
      BY <2>2, <3>1, CheckedIsGood
    <3> HIDE DEF u
    <3>3. Later(f, u)
      BY <1>1, <2>2, <3>2, LaterTrans DEF RSLike, Good
    <3> QED
      BY <1>1, <2>2, <2>4, <2>6, <3>2, <3>3 DEF Promise, Later
  <2> QED
    BY <2>5, <2>6
<1> QED
  BY <1>2, <1>3
-----------------------------------------------------------------------------
(* Where no primary is claimed and none is there, RightPrimary holds.       *)
LEMMA NoPrimaryIsRight ==
  ASSUME NEW f, f.kind # "ReplicaSetWithPrimary", f.kind = "Single" \/ ~HasPrimary(f)
  PROVE  RightPrimary(f)
BY DEF RightPrimary, OnePrimary, PrimaryIsNewest, PrimaryListsMembers, HasPrimary, ReplicaSetKinds

(* Where no primary is claimed there is none.                               *)
LEMMA RightWithoutPrimary ==
  ASSUME NEW f, f.kind # "ReplicaSetWithPrimary", RightPrimary(f)
  PROVE  f.kind = "Single" \/ ~HasPrimary(f)
BY DEF RightPrimary, OnePrimary

(* Outside a replica set with a primary, removing a server keeps every      *)
(* promise ...                                                              *)
LEMMA RemovedKeeps ==
  ASSUME NEW f, Good(f), f.kind # "ReplicaSetWithPrimary", NEW x
  PROVE  Promise(f, RemoveServerByAddr(f, x))
<1> DEFINE g == RemoveServerByAddr(f, x)
<1>a. IsFSM(f)
  BY DEF Good
<1>1. /\ IsFSM(g) /\ SameFields(g, f) /\ g.kind = f.kind
      /\ DOMAIN g.servers = DOMAIN f.servers \ {x}
      /\ \A a \in DOMAIN g.servers : g.servers[a] = f.servers[a]
  BY <1>a, RemoveServerFSM
<1>2. Later(f, g)
  BY <1>a, <1>1, LaterRefl DEF SameFields
<1> HIDE DEF g
<1>3. MembersBelong(g)
  <2>1. \A a \in DOMAIN f.servers : Belongs(f.kind, f.setName, f.servers[a])
    BY <1>a, MembersBelongEach DEF Good
  <2> QED
    BY <1>1, <2>1, MembersBelongEach DEF SameFields
<1>4. TimeoutIsSafe(g) /\ NameKnown(g)
  BY <1>1 DEF Good, TimeoutIsSafe, NameKnown, SameFields
<1>5. ~HasPrimary(f) => ~HasPrimary(g)
  BY <1>1 DEF HasPrimary
<1>6. RightPrimary(f) => RightPrimary(g)
  BY <1>1, <1>5, NoPrimaryIsRight, RightWithoutPrimary
<1> QED
  BY <1>1, <1>2, <1>3, <1>4, <1>6 DEF Promise, Good, Later, g

(* ... and so does replacing it by one that belongs.                        *)
LEMMA ReplacedKeeps ==
  ASSUME NEW f, Good(f), f.kind # "ReplicaSetWithPrimary", NEW s, Acceptable(f, s),
         Belongs(f.kind, f.setName, s), f.kind = "Single" \/ s.kind # "RSPrimary"
  PROVE  Promise(f, ReplaceServer(f, s))
<1> DEFINE g == ReplaceServer(f, s)
<1>a. IsFSM(f)
  BY DEF Good
<1>1. /\ IsFSM(g) /\ SameFields(g, f) /\ g.kind = f.kind
      /\ DOMAIN g.servers = DOMAIN f.servers
      /\ \A a \in DOMAIN f.servers : g.servers[a] = IF a = s.addr THEN s ELSE f.servers[a]
  BY <1>a, ReplaceServerFSM DEF Acceptable
<1>2. Later(f, g)
  BY <1>a, <1>1, LaterRefl DEF SameFields
<1> HIDE DEF g
<1>3. MembersBelong(g)
  <2>1. \A a \in DOMAIN f.servers : Belongs(f.kind, f.setName, f.servers[a])
    BY <1>a, MembersBelongEach DEF Good
  <2>2. \A a \in DOMAIN g.servers : Belongs(g.kind, g.setName, g.servers[a])
    BY <1>1, <2>1 DEF SameFields
  <2> QED
    BY <1>1, <2>2, MembersBelongEach
<1>4. TimeoutIsSafe(g) /\ NameKnown(g)
  BY <1>1 DEF Good, TimeoutIsSafe, NameKnown, SameFields, Acceptable
<1>5. f.kind = "Single" \/ (~HasPrimary(f) => ~HasPrimary(g))
  BY <1>1 DEF HasPrimary
<1>6. RightPrimary(f) => RightPrimary(g)
  BY <1>1, <1>5, NoPrimaryIsRight, RightWithoutPrimary
<1> QED
  BY <1>1, <1>2, <1>3, <1>4, <1>6 DEF Promise, Good, Later, g

(* updateRSWithoutPrimary: a member of the set brings in the members it     *)
(* knows of, all unknown.                                                   *)
LEMMA UpdateRSWithoutPrimaryKeeps ==
  ASSUME NEW f, IsFSM(f), f.kind = "ReplicaSetNoPrimary", NEW s, Acceptable(f, s),
         s.kind \in MemberKinds, RSLike(NameSet(f, s))
  PROVE  LET u == UpdateRSWithoutPrimary(f, s)
         IN  Good(u) /\ Later(f, u) /\ (~HasPrimary(f) => RightPrimary(u))
<1> DEFINE g == NameSet(f, s)
           h == AddServers(g, s.members)
           u == UpdateRSWithoutPrimary(f, s)
<1>a. s \in Description /\ s.members \in SUBSET Addrs
  BY DEF Acceptable, Description
<1>1. Later(f, g) /\ g.timeout = f.timeout /\ g.kind = f.kind /\ g.servers = f.servers
  BY <1>a, NameSetFSM, LaterRefl
<1>b. RSLike(g)
  OBVIOUS
<1>2. u = IF g.setName # s.setName THEN RemoveServerByAddr(g, s.addr)
          ELSE IF s.addr # s.me THEN RemoveServerByAddr(h, s.addr) ELSE ReplaceServer(h, s)
  BY DEF UpdateRSWithoutPrimary
<1> HIDE DEF g
<1>3. RSLike(h) /\ Later(g, h) /\ (HasPrimary(h) <=> HasPrimary(g))
  BY <1>a, <1>b, AddedIsRSLike
<1>4. h.kind = g.kind /\ h.timeout = g.timeout /\ h.setName = g.setName
  BY <1>a, <1>b, AddServersFSM DEF RSLike, SameFields
<1> HIDE DEF h, u
<1>c. Good(g) /\ Good(h) /\ (HasPrimary(g) <=> HasPrimary(f))
  BY <1>1, <1>b, <1>3, <1>4, RSLikeIsGood DEF HasPrimary, ReplicaSetKinds
<1>5. \/ Promise(g, u) /\ RSLike(g)
      \/ Promise(h, u)
  <2>1. CASE g.setName # s.setName
    BY <1>1, <1>2, <1>b, <1>c, <2>1, RemovedKeeps
  <2>2. CASE g.setName = s.setName /\ s.addr # s.me
    BY <1>1, <1>2, <1>4, <1>c, <2>2, RemovedKeeps
  <2>3. CASE g.setName = s.setName /\ s.addr = s.me
    <3>1. Acceptable(h, s) /\ s.kind # "RSPrimary"
      BY <1>1, <1>4 DEF Acceptable, MemberKinds
    <3>2. Belongs(h.kind, h.setName, s)
      BY <1>1, <1>4, <2>3 DEF Belongs, MemberKinds
    <3> QED
      BY <1>1, <1>2, <1>4, <1>c, <2>3, <3>1, <3>2, ReplacedKeeps
  <2> QED
    BY <2>1, <2>2, <2>3
<1>6. IsFSM(g) /\ IsFSM(h) /\ IsFSM(u) /\ Good(u)
  BY <1>5, <1>b, <1>3 DEF RSLike, Promise, Good
<1>7. Later(f, u)
  BY <1>1, <1>3, <1>5, <1>6, LaterTrans DEF Promise, Later
<1>8. ~HasPrimary(f) => RightPrimary(g) /\ RightPrimary(h)
  BY <1>1, <1>3, <1>4, <1>c, NoPrimaryIsRight
<1> QED
  BY <1>5, <1>6, <1>7, <1>8 DEF Promise, u

(* Promises compose.                                                        *)
LEMMA PromiseTrans ==
  ASSUME NEW f, Good(f), NEW g, NEW h, Promise(f, g), Promise(g, h)
  PROVE  Promise(f, h)
BY LaterTrans DEF Promise, Good, Later

(* applyToUnknown: the first server that knows its role gives the topology  *)
(* its kind.                                                                *)
LEMMA ApplyToUnknownKeeps ==
  ASSUME NEW f, Good(f), f.kind = "Unknown", NEW s, Acceptable(f, s)
  PROVE  Promise(f, ApplyToUnknown(f, s))
<1>a. IsFSM(f) /\ f.setName = NoName /\ s \in Description
  BY DEF Good, NameKnown, Acceptable
<1>b. s.kind \in ServerKinds
  BY <1>a DEF Description
<1>c. \A a \in DOMAIN f.servers : f.servers[a].kind \in {"Unknown", "RSGhost"}
  BY <1>a, MembersBelongEach DEF Good, Belongs
<1>d. ~HasPrimary(f)
  BY <1>c DEF HasPrimary
<1>1. ASSUME NEW k \in {"Sharded", "Single"}
      PROVE  Promise(f, SetKind(f, k)) /\ Acceptable(SetKind(f, k), s)
             /\ SetKind(f, k).kind = k /\ SetKind(f, k).setName = NoName
  <2> DEFINE g == SetKind(f, k)
  <2>1. IsFSM(g) /\ SameFields(g, f) /\ g.kind = k /\ g.servers = f.servers
    BY <1>a, SetKindFSM DEF TopologyKinds
  <2>2. Later(f, g)
    BY <1>a, <2>1, LaterRefl DEF SameFields
  <2> HIDE DEF g
  <2>3. MembersBelong(g)
    BY <1>a, <1>c, <2>1, MembersBelongEach DEF Belongs, SameFields, ReplicaSetKinds
  <2>4. TimeoutIsSafe(g) /\ NameKnown(g) /\ Acceptable(g, s)
    BY <2>1 DEF Good, TimeoutIsSafe, NameKnown, SameFields, Acceptable, ReplicaSetKinds
  <2>5. RightPrimary(g)
    BY <1>d, <2>1, NoPrimaryIsRight DEF HasPrimary
  <2> QED
    BY <1>a, <2>1, <2>2, <2>3, <2>4, <2>5 DEF Promise, Good, Later, SameFields, g
<1>2. CASE s.kind = "Mongos"
  <2> DEFINE g == SetKind(f, "Sharded")
  <2>1. Promise(f, g) /\ Acceptable(g, s) /\ g.kind = "Sharded"
    BY <1>1
  <2>2. ApplyToUnknown(f, s) = ReplaceServer(g, s)
    BY <1>2 DEF ApplyToUnknown, MemberKinds
  <2> HIDE DEF g
  <2>3. Belongs(g.kind, g.setName, s)
    BY <1>2, <2>1 DEF Belongs, ReplicaSetKinds
  <2>4. Promise(g, ReplaceServer(g, s))
    BY <1>2, <2>1, <2>3, ReplacedKeeps DEF Promise
  <2> QED
    BY <2>1, <2>2, <2>4, PromiseTrans
<1>3. CASE s.kind = "RSPrimary"
  <2>1. ApplyToUnknown(f, s) = UpdateRSFromPrimary(f, s)
    BY <1>3 DEF ApplyToUnknown, MemberKinds
  <2> QED
    BY <1>3, <2>1, UpdateRSFromPrimaryKeeps
<1>4. CASE s.kind \in MemberKinds
  <2> DEFINE g == SetKind(f, "ReplicaSetNoPrimary")
             u == UpdateRSWithoutPrimary(g, s)
  <2>1. IsFSM(g) /\ SameFields(g, f) /\ g.kind = "ReplicaSetNoPrimary" /\ g.servers = f.servers
    BY <1>a, SetKindFSM DEF TopologyKinds
  <2>2. Acceptable(g, s) /\ Later(f, g)
    BY <1>a, <2>1, LaterRefl DEF Acceptable, SameFields
  <2>3. ApplyToUnknown(f, s) = u
    BY <1>4 DEF ApplyToUnknown, MemberKinds
  <2> HIDE DEF g
  <2>4. RSLike(NameSet(g, s))
    <3> DEFINE n == NameSet(g, s)
    <3>1. IsFSM(n) /\ n.servers = g.servers /\ n.timeout = g.timeout /\ n.setName = s.setName
      BY <1>a, <2>1, NameSetFSM DEF SameFields
    <3> HIDE DEF n
    <3>2. TimeoutIsSafe(n) /\ n.setName # NoName
      BY <1>4, <2>1, <3>1 DEF TimeoutIsSafe, Good, SameFields, Acceptable, RSKinds
    <3>3. \A a \in DOMAIN n.servers : Belongs("ReplicaSetNoPrimary", n.setName, n.servers[a])
      BY <1>c, <2>1, <3>1 DEF Belongs, RSKinds, MemberKinds
    <3> QED
      BY <3>1, <3>2, <3>3 DEF RSLike, n
  <2>5. Good(u) /\ Later(g, u) /\ (~HasPrimary(g) => RightPrimary(u))
    BY <1>4, <2>1, <2>2, <2>4, UpdateRSWithoutPrimaryKeeps
  <2> HIDE DEF u
  <2>6. RightPrimary(u)
    BY <1>d, <2>1, <2>5 DEF HasPrimary
  <2>7. Later(f, u)
    BY <1>a, <2>1, <2>2, <2>5, LaterTrans DEF Good
  <2> QED
    BY <2>3, <2>5, <2>6, <2>7 DEF Promise, Later
<1>5. CASE s.kind = "Standalone"
  <2>1. ApplyToUnknown(f, s) = UpdateUnknownWithStandalone(f, s)
    BY <1>5 DEF ApplyToUnknown, MemberKinds
  <2>2. CASE Cardinality(DOMAIN f.servers) > 1
    BY <2>1, <2>2, RemovedKeeps DEF UpdateUnknownWithStandalone
  <2>3. CASE ~(Cardinality(DOMAIN f.servers) > 1)
    <3> DEFINE g == SetKind(f, "Single")
    <3>1. Promise(f, g) /\ Acceptable(g, s) /\ g.kind = "Single" /\ g.setName = NoName
      BY <1>1
    <3>2. ApplyToUnknown(f, s) = ReplaceServer(g, s)
      BY <2>1, <2>3 DEF UpdateUnknownWithStandalone
    <3> HIDE DEF g
    <3>3. Belongs(g.kind, g.setName, s)
      BY <3>1 DEF Belongs, ReplicaSetKinds
    <3>4. Promise(g, ReplaceServer(g, s))
      BY <3>1, <3>3, ReplacedKeeps DEF Promise
    <3> QED
      BY <3>1, <3>2, <3>4, PromiseTrans
  <2> QED
    BY <2>2, <2>3
<1>6. CASE s.kind \in {"Unknown", "RSGhost"}
  <2>1. ApplyToUnknown(f, s) = ReplaceServer(f, s)
    BY <1>6 DEF ApplyToUnknown, MemberKinds
  <2>2. Belongs(f.kind, f.setName, s)
    BY <1>6 DEF Belongs, ReplicaSetKinds
  <2> QED
    BY <1>6, <2>1, <2>2, ReplacedKeeps
<1> QED
  BY <1>b, <1>2, <1>3, <1>4, <1>5, <1>6 DEF ServerKinds, RSKinds

(* applyToSharded.                                                          *)
LEMMA ApplyToShardedKeeps ==
  ASSUME NEW f, Good(f), f.kind = "Sharded", NEW s, Acceptable(f, s)
  PROVE  Promise(f, ApplyToSharded(f, s))
<1>1. CASE s.kind \in {"Mongos", "Unknown"}
  <2>1. Belongs(f.kind, f.setName, s) /\ s.kind # "RSPrimary"
    BY <1>1 DEF Belongs, ReplicaSetKinds
  <2> QED
    BY <1>1, <2>1, ReplacedKeeps DEF ApplyToSharded
<1>2. CASE s.kind \notin {"Mongos", "Unknown"}
  BY <1>2, RemovedKeeps DEF ApplyToSharded
<1> QED
  BY <1>1, <1>2

(* applyToReplicaSetNoPrimary.                                              *)
LEMMA ApplyToReplicaSetNoPrimaryKeeps ==
  ASSUME NEW f, Good(f), f.kind = "ReplicaSetNoPrimary", NEW s, Acceptable(f, s)
  PROVE  Promise(f, ApplyToReplicaSetNoPrimary(f, s))
<1>a. s.kind \in ServerKinds /\ IsFSM(f)
  BY DEF Acceptable, Description, Good
<1>1. CASE s.kind \in {"Standalone", "Mongos"}
  BY <1>1, RemovedKeeps DEF ApplyToReplicaSetNoPrimary, MemberKinds
<1>2. CASE s.kind = "RSPrimary"
  <2>1. ApplyToReplicaSetNoPrimary(f, s) = UpdateRSFromPrimary(f, s)
    BY <1>2 DEF ApplyToReplicaSetNoPrimary, MemberKinds
  <2> QED
    BY <1>2, <2>1, UpdateRSFromPrimaryKeeps DEF ReplicaSetKinds
<1>3. CASE s.kind \in MemberKinds
  <2> DEFINE u == UpdateRSWithoutPrimary(f, s)
  <2>1. ApplyToReplicaSetNoPrimary(f, s) = u
    BY <1>3 DEF ApplyToReplicaSetNoPrimary, MemberKinds
  <2>2. RSLike(NameSet(f, s))
    BY <1>3, NamedIsRSLike DEF ReplicaSetKinds, RSKinds
  <2>3. Good(u) /\ Later(f, u) /\ (~HasPrimary(f) => RightPrimary(u))
    BY <1>a, <1>3, <2>2, UpdateRSWithoutPrimaryKeeps
  <2> HIDE DEF u
  <2> QED
    BY <2>1, <2>3, RightWithoutPrimary DEF Promise, Later
<1>4. CASE s.kind \in {"Unknown", "RSGhost"}
  <2>1. ApplyToReplicaSetNoPrimary(f, s) = ReplaceServer(f, s)
    BY <1>4 DEF ApplyToReplicaSetNoPrimary, MemberKinds
  <2>2. Belongs(f.kind, f.setName, s)
    BY <1>4 DEF Belongs, RSKinds, MemberKinds
  <2> QED
    BY <1>4, <2>1, <2>2, ReplacedKeeps
<1> QED
  BY <1>a, <1>1, <1>2, <1>3, <1>4 DEF ServerKinds, RSKinds

(* applyToReplicaSetWithPrimary.                                            *)
LEMMA ApplyToReplicaSetWithPrimaryKeeps ==
  ASSUME NEW f, Good(f), f.kind = "ReplicaSetWithPrimary", NEW s, Acceptable(f, s)
  PROVE  Promise(f, ApplyToReplicaSetWithPrimary(f, s))
<1>a. s.kind \in ServerKinds /\ IsFSM(f)
  BY DEF Acceptable, Description, Good
<1>b. RSLike(f) /\ (RightPrimary(f) => PrimaryFacts(f))
  BY GoodIsRSLike, RightPrimaryFacts DEF ReplicaSetKinds
<1>c. ASSUME NEW h, RSLike(h), Later(f, h), PrimaryFacts(f) => PrimaryFacts(h)
      PROVE  Promise(f, CheckIfHasPrimary(h))
  <2> DEFINE u == CheckIfHasPrimary(h)
  <2>1. Good(u) /\ Later(h, u) /\ (PrimaryFacts(h) => RightPrimary(u))
    BY <1>c, CheckedIsGood
  <2> HIDE DEF u
  <2>2. Later(f, u)
    BY <1>a, <1>c, <2>1, LaterTrans DEF RSLike, Good
  <2> QED
    BY <1>b, <1>c, <2>1, <2>2 DEF Promise, Later, u
<1>1. CASE s.kind \in {"Standalone", "Mongos"}
  <2>1. ApplyToReplicaSetWithPrimary(f, s) = CheckIfHasPrimary(RemoveServerByAddr(f, s.addr))
    BY <1>1 DEF ApplyToReplicaSetWithPrimary, MemberKinds
  <2> QED
    BY <1>b, <1>c, <2>1, RemovedIsRSLike
<1>2. CASE s.kind = "RSPrimary"
  <2>1. ApplyToReplicaSetWithPrimary(f, s) = UpdateRSFromPrimary(f, s)
    BY <1>2 DEF ApplyToReplicaSetWithPrimary, MemberKinds
  <2> QED
    BY <1>2, <2>1, UpdateRSFromPrimaryKeeps DEF ReplicaSetKinds
<1>3. CASE s.kind \in MemberKinds
  <2>1. ApplyToReplicaSetWithPrimary(f, s) = UpdateRSWithPrimaryFromMember(f, s)
    BY <1>3 DEF ApplyToReplicaSetWithPrimary, MemberKinds
  <2> QED
    BY <1>3, <2>1, UpdateRSWithPrimaryFromMemberKeeps
<1>4. CASE s.kind \in {"Unknown", "RSGhost"}
  <2>1. ApplyToReplicaSetWithPrimary(f, s) = CheckIfHasPrimary(ReplaceServer(f, s))
    BY <1>4 DEF ApplyToReplicaSetWithPrimary, ReplaceChecked, MemberKinds
  <2>2. Belongs("ReplicaSetNoPrimary", f.setName, s) /\ s.kind # "RSPrimary"
    BY <1>4 DEF Belongs, RSKinds, MemberKinds
  <2> QED
    BY <1>b, <1>c, <2>1, <2>2, ReplacedIsRSLike
<1> QED
  BY <1>a, <1>1, <1>2, <1>3, <1>4 DEF ServerKinds, RSKinds

(* applyToSingle: a server of another set than the configured one is        *)
(* removed or stored as unknown.                                            *)
LEMMA ApplyToSingleKeeps ==
  ASSUME NEW f, Good(f), f.kind = "Single", NEW s, Acceptable(f, s)
  PROVE  Promise(f, ApplyToSingle(f, s))
<1>a. s.kind \in ServerKinds /\ s.addr \in Addrs
  BY DEF Acceptable, Description
<1>1. CASE s.kind \in {"Standalone", "Mongos"} /\ f.setName # NoName
  BY <1>1, RemovedKeeps DEF ApplyToSingle
<1>2. CASE ~(s.kind \in {"Standalone", "Mongos"} /\ f.setName # NoName) /\ WrongSet(f, s)
  <2>1. ApplyToSingle(f, s) = ReplaceServer(f, DefaultServer(s.addr))
    BY <1>2 DEF ApplyToSingle
  <2> QED
    BY <1>a, <2>1, DefaultAcceptable, DefaultBelongs, ReplacedKeeps
<1>3. CASE ~(s.kind \in {"Standalone", "Mongos"} /\ f.setName # NoName) /\ ~WrongSet(f, s)
  <2>1. ApplyToSingle(f, s) = ReplaceServer(f, s)
    BY <1>3 DEF ApplyToSingle
  <2>2. Belongs(f.kind, f.setName, s)
    BY <1>3 DEF Belongs, WrongSet, ReplicaSetKinds
  <2> QED
    BY <2>1, <2>2, ReplacedKeeps
<1> QED
  BY <1>1, <1>2, <1>3

(* The switch on fsm.Kind in apply.                                         *)
LEMMA ApplyToKindKeeps ==
  ASSUME NEW f, Good(f), NEW s, Acceptable(f, s)
  PROVE  Promise(f, ApplyToKind(f, s))
<1>a. f.kind \in TopologyKinds
  BY DEF Good, IsFSM
<1>1. CASE f.kind = "Unknown"
  BY <1>1, ApplyToUnknownKeeps DEF ApplyToKind
<1>2. CASE f.kind = "Sharded"
  BY <1>2, ApplyToShardedKeeps DEF ApplyToKind
<1>3. CASE f.kind = "ReplicaSetNoPrimary"
  BY <1>3, ApplyToReplicaSetNoPrimaryKeeps DEF ApplyToKind
<1>4. CASE f.kind = "ReplicaSetWithPrimary"
  BY <1>4, ApplyToReplicaSetWithPrimaryKeeps DEF ApplyToKind
<1>5. CASE f.kind = "Single"
  BY <1>5, ApplyToSingleKeeps DEF ApplyToKind
<1> QED
  BY <1>a, <1>1, <1>2, <1>3, <1>4, <1>5 DEF TopologyKinds

(* fsm.apply keeps every promise.                                           *)
LEMMA ApplyKeeps ==
  ASSUME NEW f, Good(f), NEW s \in Description, s.kind \in RSKinds => s.setName # NoName,
         Has(f, s.addr)
  PROVE  Promise(f, Apply(f, s))
<1> DEFINE g == UpdateTimeout(f, s)
           h == ApplyToKind(g, s)
           u == CheckCompatible(h)
<1>1. /\ Good(g) /\ Acceptable(g, s)
      /\ g.kind = f.kind /\ g.servers = f.servers /\ g.setName = f.setName
      /\ g.maxElectionID = f.maxElectionID /\ g.maxSetVersion = f.maxSetVersion
  BY UpdateTimeoutFSM
<1>2. Apply(f, s) = u
  BY DEF Apply
<1> HIDE DEF g
<1>a. f.kind \in TopologyKinds /\ IsFSM(f)
  BY DEF Good, IsFSM
<1>3. Promise(f, g)
  <2>1. RightPrimary(f) => RightPrimary(g)
    BY <1>1 DEF RightPrimary, OnePrimary, PrimaryIsNewest, PrimaryListsMembers, HasPrimary
  <2> QED
    BY <1>1, <1>a, <2>1, LaterRefl DEF Promise, Later
<1>4. Promise(g, h)
  BY <1>1, ApplyToKindKeeps
<1> HIDE DEF h
<1>5. Promise(h, u)
  <2>a. Good(h) /\ IsFSM(h)
    BY <1>4 DEF Promise, Good
  <2>b. \A a \in DOMAIN h.servers : h.servers[a].compatible \in BOOLEAN
    BY <2>a DEF IsFSM, IsServerMap, Description
  <2>1. /\ IsFSM(u) /\ u.kind = h.kind /\ u.servers = h.servers /\ u.setName = h.setName
        /\ u.timeout = h.timeout
        /\ u.maxElectionID = h.maxElectionID /\ u.maxSetVersion = h.maxSetVersion
    <3> DEFINE ok == \A a \in DOMAIN h.servers : h.servers[a].compatible
    <3>1. ok \in BOOLEAN
      OBVIOUS
    <3> HIDE DEF ok
    <3>2. u = [h EXCEPT !.compatible = ok]
      BY DEF CheckCompatible, ok
    <3> HIDE DEF u
    <3> QED
      BY <2>a, <3>1, <3>2 DEF IsFSM
  <2> HIDE DEF u
  <2>2. Good(u)
    BY <2>a, <2>1 DEF Good, MembersBelong, TimeoutIsSafe, NameKnown
  <2>3. RightPrimary(h) => RightPrimary(u)
    BY <2>1 DEF RightPrimary, OnePrimary, PrimaryIsNewest, PrimaryListsMembers, HasPrimary
  <2> QED
    BY <2>a, <2>1, <2>2, <2>3, LaterRefl DEF Promise, Later
<1> HIDE DEF u
<1>6. Promise(f, h)
  BY <1>1, <1>3, <1>4, PromiseTrans
<1> QED
  BY <1>2, <1>5, <1>6, PromiseTrans
-----------------------------------------------------------------------------
(* A named set keeps its name, a replica set does not turn into anything    *)
(* else and neither does a direct connection.                               *)
Steady(f, g) ==
  /\ f.setName # NoName => g.setName = f.setName
  /\ f.kind \in ReplicaSetKinds => g.kind \in ReplicaSetKinds
  /\ f.kind = "Single" => g.kind = "Single"

(* updateRSFromPrimary keeps the name and a replica set kind.               *)
LEMMA UpdateRSFromPrimarySteady ==
  ASSUME NEW f, IsFSM(f), f.kind # "Single", NEW s \in Description
  PROVE  Steady(f, UpdateRSFromPrimary(f, s))
<1> DEFINE g == NameSet(f, s)
           h == IF g.setName # s.setName THEN RemoveServerByAddr(g, s.addr)
                ELSE IF StalePrimary(g, s) THEN ReplaceServer(g, DefaultServer(s.addr))
                ELSE InstallPrimary(g, s)
<1>a. s.addr \in Addrs /\ s.members \in SUBSET Addrs
  BY DEF Description
<1>1. IsFSM(g) /\ g.setName = IF f.setName = NoName THEN s.setName ELSE f.setName
  BY NameSetFSM
<1> HIDE DEF g
<1>2. IsFSM(InstallPrimary(g, s)) /\ InstallPrimary(g, s).setName = g.setName
  <2> DEFINE r == RecordPrimary(g, s)
             d == DemotePrimary(r)
             p == ReplaceServer(d, s)
             k == KeepServers(p, s.members)
  <2>1. IsFSM(r) /\ r.setName = g.setName
    BY <1>1, RecordPrimaryFSM
  <2> HIDE DEF r
  <2>2. IsFSM(d) /\ d.setName = g.setName
    BY <2>1, DemotePrimaryFSM DEF SameFields
  <2> HIDE DEF d
  <2>3. IsFSM(p) /\ p.setName = g.setName
    BY <2>2, ReplaceServerFSM DEF SameFields
  <2> HIDE DEF p
  <2>4. IsFSM(k) /\ k.setName = g.setName
    BY <2>3, KeepServersFSM DEF SameFields
  <2>5. InstallPrimary(g, s) = AddServers(k, s.members)
    BY DEF InstallPrimary, r, d, p
  <2> HIDE DEF k
  <2> QED
    BY <1>a, <2>4, <2>5, AddServersFSM DEF SameFields
<1>3. IsFSM(h) /\ h.setName = g.setName
  <2>1. CASE g.setName # s.setName
    BY <1>1, <2>1, RemoveServerFSM DEF SameFields
  <2>2. CASE g.setName = s.setName /\ StalePrimary(g, s)
    BY <1>1, <1>a, <2>2, DefaultServerType, ReplaceServerFSM DEF SameFields
  <2>3. CASE g.setName = s.setName /\ ~StalePrimary(g, s)
    BY <1>2, <2>3
  <2> QED
    BY <2>1, <2>2, <2>3
<1>4. UpdateRSFromPrimary(f, s) = CheckIfHasPrimary(h)
  BY DEF UpdateRSFromPrimary, g
<1> HIDE DEF h
<1> QED
  BY <1>1, <1>3, <1>4, CheckIfHasPrimaryFSM DEF Steady, SameFields, ReplicaSetKinds

(* removeServerByAddr and replaceServer keep the name and the kind, with or *)
(* without checkIfHasPrimary.                                               *)
LEMMA SteadyBasics ==
  ASSUME NEW f, IsFSM(f), NEW s \in Description
  PROVE  /\ Steady(f, RemoveServerByAddr(f, s.addr)) /\ Steady(f, ReplaceServer(f, s))
         /\ Steady(f, ReplaceServer(f, DefaultServer(s.addr)))
         /\ f.kind # "Single" => /\ Steady(f, CheckIfHasPrimary(RemoveServerByAddr(f, s.addr)))
                                 /\ Steady(f, CheckIfHasPrimary(ReplaceServer(f, s)))
<1>a. DefaultServer(s.addr) \in Description
  BY DefaultServerType DEF Description
<1>1. Steady(f, RemoveServerByAddr(f, s.addr))
  BY RemoveServerFSM DEF Steady, SameFields
<1>2. Steady(f, ReplaceServer(f, s)) /\ Steady(f, ReplaceServer(f, DefaultServer(s.addr)))
  BY <1>a, ReplaceServerFSM DEF Steady, SameFields
<1>3. ASSUME f.kind # "Single", NEW h, IsFSM(h), SameFields(h, f)
      PROVE  Steady(f, CheckIfHasPrimary(h))
  BY <1>3, CheckIfHasPrimaryFSM DEF Steady, SameFields, ReplicaSetKinds
<1> QED
  BY <1>1, <1>2, <1>3, RemoveServerFSM, ReplaceServerFSM

(* updateRSWithoutPrimary keeps the name and the kind.                      *)
LEMMA UpdateRSWithoutPrimarySteady ==
  ASSUME NEW f, IsFSM(f), f.kind = "ReplicaSetNoPrimary", NEW s \in Description
  PROVE  Steady(f, UpdateRSWithoutPrimary(f, s))
<1> DEFINE g == NameSet(f, s)
           h == AddServers(g, s.members)
<1>a. s.members \in SUBSET Addrs
  BY DEF Description
<1>1. /\ IsFSM(g) /\ g.setName = IF f.setName = NoName THEN s.setName ELSE f.setName
      /\ g.kind = f.kind
  BY NameSetFSM
<1>2. UpdateRSWithoutPrimary(f, s) =
        IF g.setName # s.setName THEN RemoveServerByAddr(g, s.addr)
        ELSE IF s.addr # s.me THEN RemoveServerByAddr(h, s.addr) ELSE ReplaceServer(h, s)
  BY DEF UpdateRSWithoutPrimary
<1> HIDE DEF g
<1>3. IsFSM(h) /\ h.setName = g.setName /\ h.kind = g.kind
  BY <1>1, <1>a, AddServersFSM DEF SameFields
<1> HIDE DEF h
<1> QED
  BY <1>1, <1>2, <1>3, RemoveServerFSM, ReplaceServerFSM DEF Steady, SameFields, ReplicaSetKinds

(* fsm.apply keeps the name of a named set, and what is a replica set or a  *)
(* direct connection remains one.                                           *)
LEMMA ApplySteady ==
  ASSUME NEW f, Good(f), NEW s \in Description, s.kind \in RSKinds => s.setName # NoName,
         Has(f, s.addr)
  PROVE  Steady(f, Apply(f, s))
<1> DEFINE g == UpdateTimeout(f, s)
           h == ApplyToKind(g, s)
           u == CheckCompatible(h)
<1>1. Apply(f, s) = u
  BY DEF Apply
<1>2. /\ Good(g) /\ Acceptable(g, s) /\ IsFSM(g)
      /\ g.kind = f.kind /\ g.setName = f.setName
  BY UpdateTimeoutFSM DEF Good
<1>a. f.kind \in TopologyKinds /\ s.kind \in ServerKinds
  BY DEF Good, IsFSM, Description
<1> HIDE DEF g
<1>3. Steady(g, h)
  <2>1. CASE f.kind = "Unknown"
    BY <1>2, <2>1 DEF Steady, Good, NameKnown, ReplicaSetKinds
  <2>2. CASE f.kind = "Sharded"
    BY <1>2, <2>2, SteadyBasics DEF ApplyToKind, ApplyToSharded
  <2>3. CASE f.kind = "ReplicaSetNoPrimary"
    <3>1. h = ApplyToReplicaSetNoPrimary(g, s)
      BY <1>2, <2>3 DEF ApplyToKind
    <3> QED
      BY <1>2, <1>a, <2>3, <3>1, SteadyBasics, UpdateRSFromPrimarySteady,
         UpdateRSWithoutPrimarySteady
         DEF ApplyToReplicaSetNoPrimary, ServerKinds, RSKinds, MemberKinds
  <2>4. CASE f.kind = "ReplicaSetWithPrimary"
    <3>1. h = ApplyToReplicaSetWithPrimary(g, s)
      BY <1>2, <2>4 DEF ApplyToKind
    <3>2. Steady(g, UpdateRSWithPrimaryFromMember(g, s))
      <4> DEFINE r == ReplaceServer(g, s)
      <4>1. IsFSM(r) /\ SameFields(r, g) /\ r.kind = g.kind
        BY <1>2, ReplaceServerFSM
      <4>2. UpdateRSWithPrimaryFromMember(g, s) =
              IF g.setName # s.setName \/ s.addr # s.me
              THEN CheckIfHasPrimary(RemoveServerByAddr(g, s.addr))
              ELSE IF HasPrimary(r) THEN r ELSE SetKind(r, "ReplicaSetNoPrimary")
        BY DEF UpdateRSWithPrimaryFromMember
      <4> HIDE DEF r
      <4>3. Steady(g, SetKind(r, "ReplicaSetNoPrimary"))
        BY <1>2, <2>4, <4>1, SetKindFSM DEF Steady, SameFields, ReplicaSetKinds, TopologyKinds
      <4>4. Steady(g, r)
        BY <4>1 DEF Steady, SameFields
      <4> QED
        BY <1>2, <2>4, <4>2, <4>3, <4>4, SteadyBasics
    <3> QED
      BY <1>2, <1>a, <2>4, <3>1, <3>2, SteadyBasics, UpdateRSFromPrimarySteady
         DEF ApplyToReplicaSetWithPrimary, ReplaceChecked, ServerKinds, RSKinds, MemberKinds
  <2>5. CASE f.kind = "Single"
    BY <1>2, <2>5, SteadyBasics DEF ApplyToKind, ApplyToSingle
  <2> QED
    BY <1>a, <2>1, <2>2, <2>3, <2>4, <2>5 DEF TopologyKinds
<1> HIDE DEF h
<1>4. IsFSM(h)
  BY <1>2, ApplyToKindKeeps DEF Promise, Good, h
<1>5. u.kind = h.kind /\ u.setName = h.setName
  BY <1>4 DEF CheckCompatible, IsFSM
<1> QED
  BY <1>1, <1>2, <1>3, <1>5 DEF Steady
-----------------------------------------------------------------------------
(* processSRVResults removes hosts: no stranger comes in ...                *)
LEMMA KeptIsGood ==
  ASSUME NEW f, Good(f), NEW A
  PROVE  LET g == KeepServers(f, A) IN Good(g) /\ SameFields(g, f) /\ g.kind = f.kind
<1> DEFINE g == KeepServers(f, A)
<1>a. IsFSM(f) /\ \A a \in DOMAIN f.servers : Belongs(f.kind, f.setName, f.servers[a])
  BY MembersBelongEach DEF Good
<1>1. /\ IsFSM(g) /\ SameFields(g, f) /\ g.kind = f.kind
      /\ DOMAIN g.servers = DOMAIN f.servers \cap A
      /\ \A a \in DOMAIN g.servers : g.servers[a] = f.servers[a]
  BY <1>a, KeepServersFSM
<1> HIDE DEF g
<1>2. MembersBelong(g)
  BY <1>a, <1>1, MembersBelongEach DEF SameFields
<1>3. TimeoutIsSafe(g) /\ NameKnown(g)
  BY <1>1 DEF Good, TimeoutIsSafe, NameKnown, SameFields
<1> QED
  BY <1>1, <1>2, <1>3 DEF Good, g

(* ... nor when Connect or processSRVResults adds some: they are unknown    *)
(* servers, none a primary.                                                 *)
LEMMA AddedIsGood ==
  ASSUME NEW f, Good(f), NEW A \in SUBSET Addrs
  PROVE  LET g == AddServers(f, A)
         IN  /\ Good(g) /\ SameFields(g, f) /\ g.kind = f.kind
             /\ DOMAIN g.servers = DOMAIN f.servers \cup A
             /\ HasPrimary(g) => HasPrimary(f)
<1> DEFINE g == AddServers(f, A)
<1>a. IsFSM(f) /\ \A a \in DOMAIN f.servers : Belongs(f.kind, f.setName, f.servers[a])
  BY MembersBelongEach DEF Good
<1>1. /\ IsFSM(g) /\ SameFields(g, f) /\ g.kind = f.kind
      /\ DOMAIN g.servers = DOMAIN f.servers \cup A
      /\ \A a \in DOMAIN f.servers : g.servers[a] = f.servers[a]
      /\ \A a \in A \ DOMAIN f.servers : g.servers[a] = DefaultServer(a)
  BY <1>a, AddServersFSM
<1> HIDE DEF g
<1>2. \A a \in DOMAIN g.servers : Belongs(g.kind, g.setName, g.servers[a])
  BY <1>a, <1>1, DefaultBelongs DEF SameFields
<1>3. MembersBelong(g)
  BY <1>1, <1>2, MembersBelongEach
<1>4. TimeoutIsSafe(g) /\ NameKnown(g)
  BY <1>1, DefaultBelongs DEF Good, TimeoutIsSafe, NameKnown, SameFields
<1>5. \A a : DefaultServer(a).kind = "Unknown"
  BY DEF DefaultServer
<1>6. HasPrimary(g) => HasPrimary(f)
  BY <1>1, <1>5 DEF HasPrimary
<1> QED
  BY <1>1, <1>3, <1>4, <1>6 DEF Good, g

(* The seeds are addresses.                                                 *)
LEMMA SeedsAreAddrs == ToSet(Seeds) \in SUBSET Addrs
BY SeedsAssumption DEF ToSet

-----------------------------------------------------------------------------
(* The state machine before Connect, and what the configuration fixes.      *)
Untouched ==
  /\ state = "disconnected" /\ down = "off" /\ poll = "off"
  /\ fsm.kind = "Unknown" /\ DOMAIN fsm.servers = {}

Configured ==
  /\ ReplicaSetName # NoName => fsm.setName = ReplicaSetName
  /\ SingleMode => fsm.kind = "Single"
  /\ ReplicaSetName # NoName /\ ~SingleMode => fsm.kind \in ReplicaSetKinds

CoreInv ==
  /\ Good(fsm) /\ connects \in 0..MaxConnects /\ hosts \subseteq Addrs
  /\ connects = 0 => Untouched
  /\ connects # 0 => Configured

(* Without SRV polling, and before a second Connect adds the seeds to what  *)
(* Disconnect has left, the primary is right.                               *)
PrimaryInv ==
  /\ ~PollingRequired => poll = "off"
  /\ ~PollingRequired /\ connects <= 1 => RightPrimary(fsm)

ConnectedFSM ==
  LET named == IF ReplicaSetName = NoName THEN fsm
               ELSE [fsm EXCEPT !.setName = ReplicaSetName, !.kind = "ReplicaSetNoPrimary"]
  IN  IF SingleMode THEN SetKind(named, "Single") ELSE named

(* Connect, before it adds the seeds: setting the configured name and kind  *)
(* again, on a topology used before, makes a stranger of no server.         *)
LEMMA ConnectedIsGood ==
  ASSUME CoreInv
  PROVE  LET f == ConnectedFSM
         IN  /\ Good(f) /\ f.servers = fsm.servers
             /\ f.maxElectionID = fsm.maxElectionID /\ f.maxSetVersion = fsm.maxSetVersion
             /\ ReplicaSetName # NoName => f.setName = ReplicaSetName
             /\ SingleMode => f.kind = "Single"
             /\ ReplicaSetName # NoName /\ ~SingleMode => f.kind \in ReplicaSetKinds
             /\ connects = 0 => f.kind # "ReplicaSetWithPrimary"
<1> DEFINE named == IF ReplicaSetName = NoName THEN fsm
                    ELSE [fsm EXCEPT !.setName = ReplicaSetName, !.kind = "ReplicaSetNoPrimary"]
           f == ConnectedFSM
<1>a. Good(fsm) /\ IsFSM(fsm) /\ ReplicaSetName \in SetNames \cup {NoName} /\ SingleMode \in BOOLEAN
  BY ConfigAssumption DEF CoreInv, Good
<1>b. \A a \in DOMAIN fsm.servers : Belongs(fsm.kind, fsm.setName, fsm.servers[a])
  BY <1>a, MembersBelongEach DEF Good
<1>1. /\ IsFSM(named) /\ named.servers = fsm.servers /\ named.timeout = fsm.timeout
      /\ named.maxElectionID = fsm.maxElectionID /\ named.maxSetVersion = fsm.maxSetVersion
      /\ named.setName = IF ReplicaSetName = NoName THEN fsm.setName ELSE ReplicaSetName
      /\ named.kind = IF ReplicaSetName = NoName THEN fsm.kind ELSE "ReplicaSetNoPrimary"
  BY <1>a DEF IsFSM, TopologyKinds
<1>2. f = IF SingleMode THEN SetKind(named, "Single") ELSE named
  BY DEF ConnectedFSM
<1> HIDE DEF named
<1>3. /\ IsFSM(f) /\ f.servers = fsm.servers /\ f.timeout = fsm.timeout
      /\ f.maxElectionID = fsm.maxElectionID /\ f.maxSetVersion = fsm.maxSetVersion
      /\ f.setName = IF ReplicaSetName = NoName THEN fsm.setName ELSE ReplicaSetName
      /\ f.kind = IF SingleMode THEN "Single"
                  ELSE IF ReplicaSetName = NoName THEN fsm.kind ELSE "ReplicaSetNoPrimary"
  BY <1>a, <1>1, <1>2, SetKindFSM DEF SameFields, TopologyKinds
<1> HIDE DEF f
<1>4. TimeoutIsSafe(f)
  BY <1>a, <1>3 DEF Good, TimeoutIsSafe
<1>5. NameKnown(f)
  BY <1>a, <1>3 DEF Good, NameKnown, ReplicaSetKinds
<1>6. MembersBelong(f)
  <2>1. CASE connects = 0
    <3>1. DOMAIN fsm.servers = {}
      BY <2>1 DEF CoreInv, Untouched
    <3> QED
      BY <1>3, <3>1 DEF MembersBelong
  <2>2. CASE connects # 0
    <3>1. Configured
      BY <2>2 DEF CoreInv
    <3>2. \A a \in DOMAIN f.servers : Belongs(f.kind, f.setName, f.servers[a])
      BY <1>a, <1>b, <1>3, <3>1 DEF Configured, Belongs, ReplicaSetKinds
    <3> QED
      BY <1>3, <3>2, MembersBelongEach
  <2> QED
    BY <2>1, <2>2
<1>7. connects = 0 => f.kind # "ReplicaSetWithPrimary"
  BY <1>3 DEF CoreInv, Untouched
<1> QED
  BY <1>3, <1>4, <1>5, <1>6, <1>7 DEF Good, ReplicaSetKinds, f

(* What the steps prove of an action: CoreInv and PrimaryInv go on to hold, *)
(* and no election is forgotten.                                            *)
Kept == CoreInv' /\ Later(fsm, fsm') /\ (PrimaryInv => PrimaryInv')

(* New.                                                                     *)
LEMMA InitCore == Init => CoreInv /\ PrimaryInv
<1> SUFFICES ASSUME Init PROVE CoreInv /\ PrimaryInv
  OBVIOUS
<1> DEFINE none == [a \in {} |-> DefaultServer(a)]
<1>1. fsm = [kind |-> "Unknown", setName |-> NoName, servers |-> none,
             maxElectionID |-> 0, maxSetVersion |-> 0, timeout |-> 0, compatible |-> TRUE]
  BY DEF Init, EmptyDesc
<1>2. DOMAIN none = {}
  OBVIOUS
<1>3. IsServerMap(none)
  BY DEF IsServerMap
<1> HIDE DEF none
<1>4. IsFSM(fsm)
  BY <1>1, <1>2, <1>3, VersionsAssumption DEF IsFSM, TopologyKinds
<1>5. Good(fsm)
  BY <1>1, <1>2, <1>4 DEF Good, MembersBelong, TimeoutIsSafe, NameKnown, ReplicaSetKinds
<1>6. RightPrimary(fsm)
  BY <1>1, <1>2, NoPrimaryIsRight DEF HasPrimary
<1> QED
  BY <1>1, <1>2, <1>5, <1>6, EnvironmentAssumption DEF Init, CoreInv, Untouched, PrimaryInv

(* Steps that leave the state machine alone.                                *)
LEMMA UntouchedFSMKeeps ==
  ASSUME CoreInv, UNCHANGED <<fsm, connects>>, hosts' \subseteq Addrs,
         connects = 0 => UNCHANGED <<state, down, poll>>,
         ~PollingRequired /\ poll = "off" => poll' = "off"
  PROVE  Kept
<1>1. CoreInv'
  BY DEF CoreInv, Untouched, Configured
<1>2. Later(fsm, fsm')
  BY LaterRefl DEF CoreInv, Good
<1>3. PrimaryInv => PrimaryInv'
  BY DEF PrimaryInv
<1> QED
  BY <1>1, <1>2, <1>3 DEF Kept

(* Connect.                                                                 *)
LEMMA ConnectKeeps == CoreInv /\ Connect => Kept
<1> SUFFICES ASSUME CoreInv, Connect PROVE Kept
  OBVIOUS
<1> DEFINE f == ConnectedFSM
           g == AddServers(f, ToSet(Seeds))
<1>1. fsm' = g
  BY DEF Connect, ConnectedFSM
<1>2. /\ Good(f) /\ f.servers = fsm.servers
      /\ f.maxElectionID = fsm.maxElectionID /\ f.maxSetVersion = fsm.maxSetVersion
      /\ ReplicaSetName # NoName => f.setName = ReplicaSetName
      /\ SingleMode => f.kind = "Single"
      /\ ReplicaSetName # NoName /\ ~SingleMode => f.kind \in ReplicaSetKinds
      /\ connects = 0 => f.kind # "ReplicaSetWithPrimary"
  BY ConnectedIsGood
<1> HIDE DEF f
<1>3. Good(g) /\ SameFields(g, f) /\ g.kind = f.kind /\ (HasPrimary(g) => HasPrimary(f))
  BY <1>2, SeedsAreAddrs, AddedIsGood
<1> HIDE DEF g
<1>4. connects' \in 0..MaxConnects /\ connects' # 0 /\ hosts' = hosts /\ poll' = poll
  BY EnvironmentAssumption DEF CoreInv, Connect, pollVars
<1>5. CoreInv'
  BY <1>1, <1>2, <1>3, <1>4 DEF CoreInv, Configured, SameFields
<1>6. Later(fsm, fsm')
  BY <1>1, <1>2, <1>3, LaterRefl DEF SameFields, CoreInv, Good
<1>7. connects' <= 1 => RightPrimary(fsm')
  <2>1. SUFFICES ASSUME connects' <= 1 PROVE RightPrimary(g)
    BY <1>1
  <2>2. connects = 0
    BY <2>1, EnvironmentAssumption DEF CoreInv, Connect
  <2>3. ~HasPrimary(f)
    BY <1>2, <2>2 DEF CoreInv, Untouched, HasPrimary
  <2> QED
    BY <1>2, <1>3, <2>2, <2>3, NoPrimaryIsRight
<1> QED
  BY <1>4, <1>5, <1>6, <1>7 DEF Kept, PrimaryInv

(* Topology.apply.                                                          *)
LEMMA ApplyReportKeeps ==
  ASSUME CoreInv, NEW s \in Reports, ApplyReport(s)
  PROVE  Kept
<1>1. Good(fsm) /\ s \in Description /\ (s.kind \in RSKinds => s.setName # NoName)
  BY EnvironmentAssumption DEF CoreInv
<1>2. Has(fsm, s.addr) /\ fsm' = Apply(fsm, s)
  BY DEF ApplyReport
<1>3. UNCHANGED <<connects, hosts, poll>>
  BY DEF ApplyReport, pollVars
<1>4. Promise(fsm, fsm') /\ Steady(fsm, fsm')
  BY <1>1, <1>2, ApplyKeeps, ApplySteady
<1>5. connects # 0
  BY <1>2 DEF CoreInv, Untouched, Has
<1>6. CoreInv'
  BY <1>3, <1>4, <1>5 DEF CoreInv, Configured, Steady, Promise
<1> QED
  BY <1>3, <1>4, <1>6 DEF Kept, Promise, Later, PrimaryInv

(* processSRVResults.                                                       *)
LEMMA ProcessSRVResultsKeeps == CoreInv /\ ProcessSRVResults => Kept
<1> SUFFICES ASSUME CoreInv, ProcessSRVResults PROVE Kept
  OBVIOUS
<1> DEFINE k == KeepServers(fsm, hosts)
           f == AddServers(k, hosts)
<1>1. fsm' = fsm \/ fsm' = f
  BY DEF ProcessSRVResults, fsmVars
<1>2. UNCHANGED <<connects, hosts>> /\ poll = "results"
  BY DEF ProcessSRVResults
<1>3. connects # 0 /\ Good(fsm) /\ hosts \in SUBSET Addrs
  BY <1>2 DEF CoreInv, Untouched
<1>4. Good(k) /\ SameFields(k, fsm) /\ k.kind = fsm.kind
  BY <1>3, KeptIsGood
<1> HIDE DEF k
<1>5. Good(f) /\ SameFields(f, k) /\ f.kind = k.kind
  BY <1>3, <1>4, AddedIsGood
<1> HIDE DEF f
<1>6. Good(fsm') /\ SameFields(fsm', fsm) /\ fsm'.kind = fsm.kind
  BY <1>1, <1>3, <1>4, <1>5 DEF SameFields
<1>7. CoreInv'
  BY <1>2, <1>3, <1>6 DEF CoreInv, Configured, SameFields
<1>8. Later(fsm, fsm')
  BY <1>3, <1>6, LaterRefl DEF Good, SameFields
<1>9. ~PrimaryInv \/ PollingRequired
  BY <1>2 DEF PrimaryInv
<1> QED
  BY <1>7, <1>8, <1>9 DEF Kept, PrimaryInv

(* Every step keeps CoreInv and PrimaryInv and forgets no election.         *)
LEMMA CoreStep == CoreInv /\ [Next]_vars => Kept
<1> SUFFICES ASSUME CoreInv, [Next]_vars PROVE Kept
  OBVIOUS
<1>a. hosts \subseteq Addrs /\ (connects = 0 => state = "disconnected" /\ down = "off" /\ poll = "off")
  BY DEF CoreInv, Untouched
<1>1. CASE Connect
  BY <1>1, ConnectKeeps
<1>2. CASE ConnectEnd
  BY <1>2, <1>a, UntouchedFSMKeeps DEF ConnectEnd, fsmVars
<1>3. CASE \E s \in Reports : ApplyReport(s)
  BY <1>3, ApplyReportKeeps
<1>4. CASE \E a \in Addrs : ZombieStops(a)
  BY <1>4, <1>a, UntouchedFSMKeeps DEF ZombieStops, ctlVars, pollVars
<1>5. CASE PollTick
  BY <1>5, <1>a, UntouchedFSMKeeps DEF PollTick, fsmVars
<1>6. CASE PollStep
  <2>1. CASE LookupSucceeds
    BY <2>1, <1>a, UntouchedFSMKeeps, EnvironmentAssumption DEF LookupSucceeds, fsmVars
  <2>2. CASE LookupFails
    BY <2>2, <1>a, UntouchedFSMKeeps DEF LookupFails, fsmVars
  <2>3. CASE ProcessSRVResults
    BY <2>3, ProcessSRVResultsKeeps
  <2>4. CASE PollClosed
    BY <2>4, <1>a, UntouchedFSMKeeps DEF PollClosed, fsmVars
  <2> QED
    BY <1>6, <2>1, <2>2, <2>3, <2>4 DEF PollStep
<1>7. ASSUME NEW i \in Selectors,
             SelectStart(i) \/ SelectLegacyStart(i) \/ SelectTimeout(i) \/ SelectStep(i)
      PROVE  Kept
  <2>1. UNCHANGED <<fsmVars, ctlVars, pollVars, connects>>
    BY <1>7 DEF SelectStart, SelectLegacyStart, SelectTimeout, SelectStep, SelectFirst,
                SubscribeLoad, SubscribeRegister, SelectReceive, FindServer
  <2> QED
    BY <1>a, <2>1, UntouchedFSMKeeps DEF fsmVars, ctlVars, pollVars
<1>8. CASE Disconnect
  BY <1>8, <1>a, UntouchedFSMKeeps DEF Disconnect, fsmVars, pollVars
<1>9. CASE DisconnectStep
  <2>1. CASE DisconnectServers
    BY <2>1, <1>a, UntouchedFSMKeeps DEF DisconnectServers, pollVars
  <2>2. CASE DisconnectSubscribers
    BY <2>2, <1>a, UntouchedFSMKeeps DEF DisconnectSubscribers, fsmVars, pollVars
  <2>3. CASE DisconnectPolling
    BY <2>3, <1>a, UntouchedFSMKeeps DEF DisconnectPolling, fsmVars
  <2>4. CASE DisconnectEnd
    BY <2>4, <1>a, UntouchedFSMKeeps DEF DisconnectEnd, pollVars
  <2> QED
    BY <1>9, <2>1, <2>2, <2>3, <2>4 DEF DisconnectStep
<1>10. CASE UNCHANGED vars
  BY <1>10, <1>a, UntouchedFSMKeeps DEF vars, fsmVars, ctlVars, pollVars
<1> QED
  BY <1>1, <1>2, <1>3, <1>4, <1>5, <1>6, <1>7, <1>8, <1>9, <1>10 DEF Next

(* The invariant of the state machine holds in every behaviour of Topology. *)
THEOREM CoreInvariant == Spec => []CoreInv
<1>1. CoreInv /\ [Next]_vars => CoreInv'
  BY CoreStep DEF Kept
<1> QED
  BY InitCore, <1>1, PTL DEF Spec

(* Whatever monitors report, in whatever order, and however often SRV       *)
(* results replace the hosts, no server of a foreign kind or of another     *)
(* replica set stays in the topology (fsm.apply, processSRVResults,         *)
(* Connect).                                                                *)
THEOREM ServersAlwaysBelong == Spec => []ServersBelong
<1>1. CoreInv => ServersBelong
  BY DEF CoreInv, Good, ServersBelong
<1> QED
  BY <1>1, CoreInvariant, PTL

(* The session timeout never exceeds that of a data bearing server in the   *)
(* topology, however servers come and go (fsm.apply).                       *)
THEOREM SessionTimeoutAlwaysSafe == Spec => []SessionTimeoutSafe
<1>1. CoreInv => SessionTimeoutSafe
  BY DEF CoreInv, Good, SessionTimeoutSafe
<1> QED
  BY <1>1, CoreInvariant, PTL

(* No step lowers the set version or the election id that primaries are     *)
(* compared with (updateRSFromPrimary): a superseded primary stays          *)
(* superseded.                                                              *)
THEOREM ElectionsNeverForgotten == Spec => NeverForgetsElection
<1>1. CoreInv /\ [Next]_vars =>
        [fsm'.maxElectionID >= fsm.maxElectionID /\ fsm'.maxSetVersion >= fsm.maxSetVersion]_vars
  BY CoreStep DEF Kept, Later
<1> QED
  BY <1>1, CoreInvariant, PTL DEF Spec, NeverForgetsElection

(* Without SRV polling, from the first Connect on and until a second one:   *)
(* the driver believes in at most one primary, says so exactly when it      *)
(* does, that primary is the newest ever accepted, and the topology holds   *)
(* only servers it lists (fsm.go). Polling is left out because              *)
(* processSRVResults may change the hosts of a replica set (run             *)
(* topology_poll_race), and a second Connect because it sets the kind again *)
(* over the servers that Disconnect has left.                               *)
THEOREM PrimaryAlwaysRight ==
  ASSUME ~PollingRequired
  PROVE  Spec => [](connects <= 1 => PrimaryIsRight)
<1>1. CoreInv /\ PrimaryInv /\ [Next]_vars => (CoreInv /\ PrimaryInv)'
  BY CoreStep DEF Kept
<1>2. PrimaryInv => (connects <= 1 => PrimaryIsRight)
  BY DEF PrimaryInv, RightPrimary, PrimaryIsRight, PrimaryIsUnique, NewestPrimary, PrimaryRules
<1> QED
  BY InitCore, <1>1, <1>2, PTL DEF Spec
-----------------------------------------------------------------------------
(* Where the map of servers agrees with the state machine, adding and       *)
(* removing the differences makes it agree with the next one (apply,        *)
(* processSRVResults).                                                      *)
LEMMA SyncServersExact ==
  ASSUME NEW f, servers = DOMAIN fsm.servers, monitoring = servers, SyncServers(f)
  PROVE  servers' = DOMAIN f.servers /\ monitoring' = servers'
BY DEF SyncServers

(* Every step keeps the map of servers in step with the state machine.      *)
LEMMA MonitoredStep == CoreInv /\ EveryServerMonitored /\ [Next]_vars => EveryServerMonitored'
<1> SUFFICES ASSUME CoreInv, EveryServerMonitored, [Next]_vars, ~serversClosed'
             PROVE  servers' = DOMAIN fsm'.servers /\ monitoring' = servers'
  BY DEF EveryServerMonitored
<1>a. ASSUME UNCHANGED <<fsm, servers, monitoring, serversClosed>>
      PROVE  servers' = DOMAIN fsm'.servers /\ monitoring' = servers'
  BY <1>a DEF EveryServerMonitored
<1>b. ASSUME serversClosed' = serversClosed
      PROVE  servers = DOMAIN fsm.servers /\ monitoring = servers
  BY <1>b DEF EveryServerMonitored
<1>1. CASE Connect
  <2> DEFINE f == ConnectedFSM
             g == AddServers(f, ToSet(Seeds))
  <2>1. fsm' = g
    BY <1>1 DEF Connect, ConnectedFSM
  <2>2. Good(f) /\ f.servers = fsm.servers
    BY ConnectedIsGood
  <2> HIDE DEF f
  <2>3. DOMAIN g.servers = DOMAIN fsm.servers \cup ToSet(Seeds)
    BY <2>2, SeedsAreAddrs, AddedIsGood
  <2> HIDE DEF g
  <2>4. servers = DOMAIN fsm.servers /\ monitoring = servers
    BY <1>1, <1>b DEF Connect
  <2>5. servers' = servers \cup ToSet(Seeds) /\ monitoring' = monitoring \cup (ToSet(Seeds) \ servers)
    BY <1>1 DEF Connect
  <2> QED
    BY <2>1, <2>3, <2>4, <2>5
<1>2. CASE \E s \in Reports : ApplyReport(s)
  BY <1>2, <1>b, SyncServersExact DEF ApplyReport, ctlVars
<1>3. CASE ProcessSRVResults
  <2>1. servers = DOMAIN fsm.servers /\ monitoring = servers
    BY <1>3, <1>b DEF ProcessSRVResults, ctlVars
  <2>2. CASE DOMAIN fsm.servers = hosts
    BY <1>3, <2>1, <2>2 DEF ProcessSRVResults, fsmVars
  <2>3. CASE DOMAIN fsm.servers # hosts
    BY <1>3, <2>1, <2>3, SyncServersExact DEF ProcessSRVResults
  <2> QED
    BY <2>2, <2>3
<1>4. CASE DisconnectServers
  BY <1>4 DEF DisconnectServers
<1>5. CASE \/ ConnectEnd \/ PollTick \/ LookupSucceeds \/ LookupFails \/ PollClosed
           \/ Disconnect \/ DisconnectSubscribers \/ DisconnectPolling \/ DisconnectEnd
           \/ \E a \in Addrs : ZombieStops(a)
           \/ UNCHANGED vars
  BY <1>5, <1>a DEF ConnectEnd, PollTick, LookupSucceeds, LookupFails, PollClosed, Disconnect,
     DisconnectSubscribers, DisconnectPolling, DisconnectEnd, ZombieStops, vars, fsmVars, ctlVars
<1>6. CASE \E i \in Selectors :
             SelectStart(i) \/ SelectLegacyStart(i) \/ SelectTimeout(i) \/ SelectStep(i)
  <2>1. UNCHANGED <<fsmVars, ctlVars>>
    BY <1>6 DEF SelectStart, SelectLegacyStart, SelectTimeout, SelectStep, SelectFirst,
                SubscribeLoad, SubscribeRegister, SelectReceive, FindServer
  <2> QED
    BY <1>a, <2>1 DEF fsmVars, ctlVars
<1> QED
  BY <1>1, <1>2, <1>3, <1>4, <1>5, <1>6 DEF Next, PollStep, DisconnectStep

(* Until Disconnect closes the servers, each address of the state machine   *)
(* has exactly one Server, with its monitor running, and no other address   *)
(* has one (Connect, apply, processSRVResults).                             *)
THEOREM ServersAlwaysMonitored == Spec => []EveryServerMonitored
<1>1. Init => EveryServerMonitored
  BY DEF Init, EmptyDesc, EveryServerMonitored
<1> QED
  BY <1>1, CoreInvariant, MonitoredStep, PTL DEF Spec
-----------------------------------------------------------------------------
(* A goroutine is subscribed only where it will unsubscribe. *)
SelInv == sel \in [Selectors -> SelPCs] /\ subs \subseteq Selectors /\ NoLeakedSubscription

(* SelectServer returns: the deferred Unsubscribe.                          *)
LEMMA ReturnKeeps ==
  ASSUME SelInv, NEW i \in Selectors, Return(i)
  PROVE  SelInv'
BY DEF SelInv, NoLeakedSubscription, Return, SelPCs

(* A goroutine that has looked at a description.                            *)
LEMMA SelectFromKeeps ==
  ASSUME SelInv, NEW i \in Selectors, NEW d, NEW none \in SelPCs, NEW some \in SelPCs,
         SelectFrom(i, d, none, some),
         i \in subs => none \in {"wait", "findAgain"} /\ some \in {"wait", "findAgain"}
  PROVE  SelInv'
<1>1. CASE Return(i)
  BY <1>1, ReturnKeeps
<1>2. CASE \E p \in {none, some} : sel' = [sel EXCEPT ![i] = p] /\ UNCHANGED subs
  BY <1>2 DEF SelInv, NoLeakedSubscription
<1> QED
  BY <1>1, <1>2 DEF SelectFrom

(* Every step keeps SelInv.                                                 *)
LEMMA SelStep == SelInv /\ [Next]_vars => SelInv'
<1> SUFFICES ASSUME SelInv, [Next]_vars PROVE SelInv'
  OBVIOUS
<1>a. ASSUME UNCHANGED <<sel, subs>> PROVE SelInv'
  BY <1>a DEF SelInv, NoLeakedSubscription
<1>1. CASE \/ Connect \/ ConnectEnd \/ PollTick \/ PollStep \/ Disconnect
           \/ \E s \in Reports : ApplyReport(s)
           \/ \E a \in Addrs : ZombieStops(a)
           \/ UNCHANGED vars
  BY <1>1, <1>a DEF Connect, ConnectEnd, PollTick, PollStep, LookupSucceeds, LookupFails,
     ProcessSRVResults, PollClosed, Disconnect, ApplyReport, ZombieStops, vars, selVars
<1>2. CASE DisconnectStep
  <2>1. CASE DisconnectSubscribers
    BY <2>1 DEF DisconnectSubscribers, SelInv, NoLeakedSubscription
  <2>2. CASE DisconnectServers \/ DisconnectPolling \/ DisconnectEnd
    BY <2>2, <1>a DEF DisconnectServers, DisconnectPolling, DisconnectEnd, selVars
  <2> QED
    BY <1>2, <2>1, <2>2 DEF DisconnectStep
<1>3. ASSUME NEW i \in Selectors,
             SelectStart(i) \/ SelectLegacyStart(i) \/ SelectTimeout(i) \/ SelectStep(i)
      PROVE  SelInv'
  <2>1. CASE SelectStart(i) \/ SelectLegacyStart(i)
    BY <2>1 DEF SelectStart, SelectLegacyStart, SelInv, NoLeakedSubscription, SelPCs
  <2>2. CASE SelectTimeout(i)
    BY <2>2, ReturnKeeps DEF SelectTimeout
  <2>3. CASE SelectFirst(i)
    <3>1. i \notin subs
      BY <2>3 DEF SelectFirst, SelInv, NoLeakedSubscription
    <3> QED
      BY <2>3, <3>1, SelectFromKeeps DEF SelectFirst, SelPCs
  <2>4. CASE SelectReceive(i)
    BY <2>4, SelectFromKeeps DEF SelectReceive, SelPCs
  <2>5. CASE SubscribeLoad(i)
    <3>1. CASE Return(i)
      BY <3>1, ReturnKeeps
    <3>2. CASE sel' = [sel EXCEPT ![i] = "register"] /\ UNCHANGED subs
      BY <2>5, <3>2 DEF SubscribeLoad, SelInv, NoLeakedSubscription, SelPCs
    <3> QED
      BY <2>5, <3>1, <3>2 DEF SubscribeLoad
  <2>6. CASE SubscribeRegister(i)
    <3>1. CASE Return(i)
      BY <3>1, ReturnKeeps
    <3>2. CASE sel' = [sel EXCEPT ![i] = "wait"] /\ subs' = subs \cup {i}
      BY <3>2 DEF SelInv, NoLeakedSubscription, SelPCs
    <3> QED
      BY <2>6, <3>1, <3>2 DEF SubscribeRegister
  <2>7. CASE FindServer(i)
    <3>1. CASE Return(i)
      BY <3>1, ReturnKeeps
    <3>2. CASE /\ sel' = [sel EXCEPT ![i] = IF @ = "find" THEN "subscribe" ELSE "wait"]
               /\ UNCHANGED subs
      BY <2>7, <3>2 DEF FindServer, SelInv, NoLeakedSubscription, SelPCs
    <3> QED
      BY <2>7, <3>1, <3>2 DEF FindServer
  <2> QED
    BY <1>3, <2>1, <2>2, <2>3, <2>4, <2>5, <2>6, <2>7 DEF SelectStep
<1> QED
  BY <1>1, <1>2, <1>3 DEF Next

(* A subscription is always that of a goroutine that still waits for a      *)
(* server and will give it up (SelectServer, Subscribe, Unsubscribe), also  *)
(* when Disconnect closes subscriptions under it.                           *)
THEOREM SubscriptionsNeverLeak == Spec => []NoLeakedSubscription
<1>1. Init => SelInv
  BY DEF Init, SelInv, NoLeakedSubscription, SelPCs
<1>2. SelInv => NoLeakedSubscription
  BY DEF SelInv
<1> QED
  BY <1>1, <1>2, SelStep, PTL DEF Spec
-----------------------------------------------------------------------------
(* Type correctness. A channel holds at most a description. *)
ChType ==
  /\ ch = [i \in Selectors |-> ch[i]]
  /\ \A i \in Selectors : ch[i] # <<>> => IsDesc(Head(ch[i]))

TypeInv == StateType /\ ChType

(* What is published is a description.Topology.                             *)
LEMMA PublishedType ==
  ASSUME NEW f, IsFSM(f)
  PROVE  IsDesc(Published(f)) /\ IsDesc([Published(f) EXCEPT !.compatible = TRUE])
BY DEF IsFSM, Published, IsDesc

(* New.                                                                     *)
LEMMA InitType == Init => TypeInv
<1> SUFFICES ASSUME Init PROVE TypeInv
  OBVIOUS
<1>1. Good(fsm)
  BY InitCore DEF CoreInv
<1>2. IsDesc(desc) /\ IsDesc(announced)
  <2> DEFINE none == [a \in {} |-> DefaultServer(a)]
  <2>1. IsServerMap(none)
    BY DEF IsServerMap
  <2>2. EmptyDesc = [kind |-> "Unknown", servers |-> none, compatible |-> TRUE]
    BY DEF EmptyDesc
  <2> HIDE DEF none
  <2> QED
    BY <2>1, <2>2 DEF Init, IsDesc, TopologyKinds
<1>3. Head(Seeds) \in Addrs
  BY SeedsAssumption
<1>4. ChType
  BY DEF Init, ChType
<1>5. sel \in [Selectors -> SelPCs] /\ chosen \in [Selectors -> Addrs]
  BY <1>3 DEF Init, SelPCs
<1>6. connects \in 0..MaxConnects
  BY InitCore DEF CoreInv
<1>7. /\ state = "disconnected" /\ down = "off" /\ poll = "off" /\ hosts = {} /\ subs = {}
      /\ servers = {} /\ monitoring = {} /\ zombies = {}
      /\ serversClosed = FALSE /\ subsClosed = FALSE
  BY DEF Init
<1> QED
  BY <1>1, <1>2, <1>4, <1>5, <1>6, <1>7 DEF TypeInv, StateType, Good

(* Subscribers' channels get descriptions.                                  *)
LEMMA NotifyType ==
  ASSUME ChType, NEW d, IsDesc(d), Notify(d)
  PROVE  ChType'
<1>1. ch' = [i \in Selectors |-> IF i \in subs THEN <<d>> ELSE ch[i]]
  BY DEF Notify
<1>2. Head(<<d>>) = d
  OBVIOUS
<1>3. \A i \in Selectors : ch'[i] = <<d>> \/ ch'[i] = ch[i]
  BY <1>1
<1>4. ch' = [i \in Selectors |-> ch'[i]]
  BY <1>1
<1> QED
  BY <1>2, <1>3, <1>4 DEF ChType

(* The map of servers holds addresses, and monitors run for servers in it.  *)
LEMMA SyncServersType ==
  ASSUME NEW f, DOMAIN f.servers \subseteq Addrs, SyncServers(f),
         servers \subseteq Addrs, monitoring \subseteq servers, zombies \subseteq Addrs
  PROVE  servers' \subseteq Addrs /\ monitoring' \subseteq servers' /\ zombies' \subseteq Addrs
BY DEF SyncServers

(* SelectServer returns.                                                    *)
LEMMA ReturnType ==
  ASSUME TypeInv, NEW i \in Selectors, Return(i)
  PROVE  /\ sel' \in [Selectors -> SelPCs] /\ subs' \subseteq Selectors
         /\ ChType'
<1>1. ch' = [ch EXCEPT ![i] = <<>>] /\ sel' = [sel EXCEPT ![i] = "idle"] /\ subs' = subs \ {i}
  BY DEF Return
<1>2. ChType'
  BY <1>1 DEF TypeInv, ChType
<1> QED
  BY <1>1, <1>2 DEF TypeInv, StateType, SelPCs

(* The server chosen is one of the description.                             *)
LEMMA SelectFromType ==
  ASSUME TypeInv, NEW i \in Selectors, NEW d, IsDesc(d),
         NEW none \in SelPCs, NEW some \in SelPCs, SelectFrom(i, d, none, some)
  PROVE  /\ sel' \in [Selectors -> SelPCs] /\ subs' \subseteq Selectors
         /\ chosen' \in [Selectors -> Addrs] /\ ChType'
<1>a. sel \in [Selectors -> SelPCs] /\ chosen \in [Selectors -> Addrs] /\ subs \subseteq Selectors
  BY DEF TypeInv, StateType
<1>b. ch' = [ch EXCEPT ![i] = <<>>] => ChType'
  BY DEF TypeInv, ChType
<1>1. CASE Return(i) /\ UNCHANGED chosen
  BY <1>1, <1>a, ReturnType
<1>2. CASE /\ sel' = [sel EXCEPT ![i] = none] /\ ch' = [ch EXCEPT ![i] = <<>>]
           /\ UNCHANGED <<chosen, subs>>
  BY <1>2, <1>a, <1>b
<1>3. CASE /\ \E a \in Suitable(d) : chosen' = [chosen EXCEPT ![i] = a]
           /\ sel' = [sel EXCEPT ![i] = some] /\ ch' = [ch EXCEPT ![i] = <<>>]
           /\ UNCHANGED subs
  <2>1. Suitable(d) \subseteq Addrs
    BY DEF Suitable, IsDesc, IsServerMap
  <2> QED
    BY <1>3, <1>a, <1>b, <2>1
<1> QED
  BY <1>1, <1>2, <1>3 DEF SelectFrom

(* Every step is type correct.                                              *)
LEMMA TypeStep == CoreInv /\ TypeInv /\ [Next]_vars => TypeInv'
<1> SUFFICES ASSUME CoreInv, TypeInv, [Next]_vars PROVE TypeInv'
  OBVIOUS
<1>a. IsFSM(fsm') /\ DOMAIN fsm'.servers \subseteq Addrs
  <2>1. IsFSM(fsm')
    BY CoreStep DEF Kept, CoreInv, Good
  <2> QED
    BY <2>1 DEF IsFSM, IsServerMap
<1>b. hosts' \subseteq Addrs /\ connects' \in 0..MaxConnects
  BY CoreStep DEF Kept, CoreInv
<1>c. IsDesc(Published(fsm')) /\ IsDesc([Published(fsm') EXCEPT !.compatible = TRUE])
  BY <1>a, PublishedType
<1>d. ASSUME UNCHANGED selVars
      PROVE  /\ sel' \in [Selectors -> SelPCs] /\ subs' \subseteq Selectors
             /\ chosen' \in [Selectors -> Addrs] /\ ChType'
  BY <1>d DEF TypeInv, StateType, ChType, selVars
<1>1. CASE Connect
  <2>1. IsDesc(desc') /\ IsDesc(announced')
    BY <1>1, <1>c DEF Connect
  <2>2. servers' \subseteq Addrs /\ monitoring' \subseteq servers' /\ zombies' \subseteq Addrs
    BY <1>1, SeedsAreAddrs DEF Connect, TypeInv, StateType
  <2>3. UNCHANGED <<serversClosed, subsClosed, down, selVars, poll>> /\ state' = "connecting"
    BY <1>1 DEF Connect, pollVars
  <2> QED
    BY <1>a, <1>b, <1>d, <2>1, <2>2, <2>3 DEF TypeInv, StateType
<1>2. CASE ConnectEnd \/ PollTick \/ LookupSucceeds \/ LookupFails \/ PollClosed
  <2>1. /\ UNCHANGED <<fsmVars, selVars, serversClosed, down>> /\ subsClosed' \in {subsClosed, FALSE}
        /\ state' \in {state, "connected"}
        /\ poll' \in {poll, "tick", "lookup", "results", "done"}
    BY <1>2 DEF ConnectEnd, PollTick, LookupSucceeds, LookupFails, PollClosed, ctlVars
  <2> QED
    BY <1>b, <1>d, <2>1 DEF TypeInv, StateType, fsmVars
<1>3. CASE \E s \in Reports : ApplyReport(s)
  <2>1. /\ SyncServers(fsm') /\ desc' = Published(fsm') /\ announced' \in {announced, desc'}
        /\ Notify(desc') /\ UNCHANGED <<sel, chosen, subs, ctlVars, pollVars>>
    BY <1>3 DEF ApplyReport
  <2>2. IsDesc(desc') /\ IsDesc(announced')
    BY <1>c, <2>1 DEF TypeInv, StateType
  <2>3. servers' \subseteq Addrs /\ monitoring' \subseteq servers' /\ zombies' \subseteq Addrs
    BY <1>a, <2>1, SyncServersType DEF TypeInv, StateType
  <2>4. ChType'
    BY <2>1, <2>2, NotifyType DEF TypeInv
  <2> QED
    BY <1>a, <1>b, <2>1, <2>2, <2>3, <2>4 DEF TypeInv, StateType, ctlVars, pollVars
<1>4. CASE \E a \in Addrs : ZombieStops(a)
  <2>1. /\ zombies' \subseteq zombies
        /\ UNCHANGED <<fsm, servers, monitoring, desc, announced, selVars, ctlVars, pollVars>>
    BY <1>4 DEF ZombieStops
  <2> QED
    BY <1>b, <1>d, <2>1 DEF TypeInv, StateType, ctlVars, pollVars
<1>5. CASE ProcessSRVResults
  <2>1. poll' = "tick" /\ UNCHANGED <<sel, chosen, subs, ctlVars>>
    BY <1>5 DEF ProcessSRVResults
  <2>2. CASE DOMAIN fsm.servers = hosts
    <3>1. UNCHANGED <<fsmVars, ch>>
      BY <1>5, <2>2 DEF ProcessSRVResults
    <3> QED
      BY <1>a, <1>b, <2>1, <3>1 DEF TypeInv, StateType, ChType, fsmVars, ctlVars
  <2>3. CASE DOMAIN fsm.servers # hosts
    <3>1. /\ SyncServers(fsm') /\ desc' = [Published(fsm') EXCEPT !.compatible = TRUE]
          /\ announced' \in {announced, desc'} /\ Notify(desc')
      BY <1>5, <2>3 DEF ProcessSRVResults
    <3>2. IsDesc(desc') /\ IsDesc(announced')
      BY <1>c, <3>1 DEF TypeInv, StateType
    <3>3. servers' \subseteq Addrs /\ monitoring' \subseteq servers' /\ zombies' \subseteq Addrs
      BY <1>a, <3>1, SyncServersType DEF TypeInv, StateType
    <3>4. ChType'
      BY <3>1, <3>2, NotifyType DEF TypeInv
    <3> QED
      BY <1>a, <1>b, <2>1, <3>2, <3>3, <3>4 DEF TypeInv, StateType, ctlVars
  <2> QED
    BY <2>2, <2>3
<1>6. ASSUME NEW i \in Selectors,
             SelectStart(i) \/ SelectLegacyStart(i) \/ SelectTimeout(i) \/ SelectStep(i)
      PROVE  TypeInv'
  <2>a. UNCHANGED <<fsmVars, ctlVars, pollVars>>
    BY <1>6 DEF SelectStart, SelectLegacyStart, SelectTimeout, SelectStep, SelectFirst,
                SubscribeLoad, SubscribeRegister, SelectReceive, FindServer
  <2>b. SUFFICES /\ sel' \in [Selectors -> SelPCs] /\ subs' \subseteq Selectors
                 /\ chosen' \in [Selectors -> Addrs] /\ ChType'
    BY <1>b, <2>a DEF TypeInv, StateType, fsmVars, ctlVars, pollVars
  <2>c. /\ sel \in [Selectors -> SelPCs] /\ subs \subseteq Selectors
        /\ chosen \in [Selectors -> Addrs] /\ ChType /\ IsDesc(desc)
    BY DEF TypeInv, StateType
  <2>1. CASE SelectStart(i) \/ SelectLegacyStart(i)
    BY <2>1, <2>c DEF SelectStart, SelectLegacyStart, SelPCs, ChType
  <2>2. CASE SelectTimeout(i)
    BY <2>2, <2>c, ReturnType DEF SelectTimeout
  <2>3. CASE SelectFirst(i)
    BY <2>3, <2>c, SelectFromType DEF SelectFirst, SelPCs
  <2>4. CASE SelectReceive(i)
    <3>1. IsDesc(Head(ch[i]))
      BY <2>4, <2>c DEF SelectReceive, ChType
    <3> QED
      BY <2>4, <3>1, SelectFromType DEF SelectReceive, SelPCs
  <2>5. CASE SubscribeLoad(i)
    <3>1. CASE Return(i)
      BY <2>5, <2>c, <3>1, ReturnType DEF SubscribeLoad
    <3>2. CASE ch' = [ch EXCEPT ![i] = <<desc>>] /\ sel' = [sel EXCEPT ![i] = "register"] /\ subs' = subs
      <4>1. Head(<<desc>>) = desc
        OBVIOUS
      <4>2. ChType'
        BY <2>c, <3>2, <4>1 DEF ChType
      <4> QED
        BY <2>5, <2>c, <3>2, <4>2 DEF SubscribeLoad, SelPCs
    <3> QED
      BY <2>5, <3>1, <3>2 DEF SubscribeLoad
  <2>6. CASE SubscribeRegister(i)
    <3>1. CASE Return(i)
      BY <2>6, <2>c, <3>1, ReturnType DEF SubscribeRegister
    <3>2. CASE sel' = [sel EXCEPT ![i] = "wait"] /\ subs' = subs \cup {i} /\ ch' = ch
      BY <2>6, <2>c, <3>2 DEF SubscribeRegister, SelPCs, ChType
    <3> QED
      BY <2>6, <3>1, <3>2 DEF SubscribeRegister
  <2>7. CASE FindServer(i)
    <3>1. CASE Return(i)
      BY <2>7, <2>c, <3>1, ReturnType DEF FindServer
    <3>2. CASE /\ sel' = [sel EXCEPT ![i] = IF @ = "find" THEN "subscribe" ELSE "wait"]
               /\ UNCHANGED <<ch, subs>>
      BY <2>7, <2>c, <3>2 DEF FindServer, SelPCs, ChType
    <3> QED
      BY <2>7, <3>1, <3>2 DEF FindServer
  <2> QED
    BY <1>6, <2>1, <2>2, <2>3, <2>4, <2>5, <2>6, <2>7 DEF SelectStep
<1>7. CASE Disconnect
  BY <1>7, <1>b, <1>d DEF Disconnect, TypeInv, StateType, fsmVars, pollVars
<1>8. CASE DisconnectServers
  BY <1>8, <1>b, <1>d DEF DisconnectServers, TypeInv, StateType, pollVars
<1>9. CASE DisconnectSubscribers
  BY <1>9, <1>b DEF DisconnectSubscribers, TypeInv, StateType, ChType, fsmVars, pollVars
<1>10. CASE DisconnectPolling
  BY <1>10, <1>b, <1>d DEF DisconnectPolling, TypeInv, StateType, fsmVars
<1>11. CASE DisconnectEnd
  <2>1. IsDesc(EmptyDesc)
    <3> DEFINE none == [a \in {} |-> DefaultServer(a)]
    <3>1. IsServerMap(none)
      BY DEF IsServerMap
    <3>2. EmptyDesc = [kind |-> "Unknown", servers |-> none, compatible |-> TRUE]
      BY DEF EmptyDesc
    <3> HIDE DEF none
    <3> QED
      BY <3>1, <3>2 DEF IsDesc, TopologyKinds
  <2> QED
    BY <1>11, <1>b, <1>d, <2>1 DEF DisconnectEnd, TypeInv, StateType, pollVars
<1>12. CASE UNCHANGED vars
  BY <1>12, <1>b, <1>d DEF vars, TypeInv, StateType, fsmVars, ctlVars, pollVars
<1> QED
  BY <1>1, <1>2, <1>3, <1>4, <1>5, <1>6, <1>7, <1>8, <1>9, <1>10, <1>11, <1>12
     DEF Next, PollStep, DisconnectStep

(* Every variable but the order of the slice (built with SelectSeq, which   *)
(* the provers do not know) keeps its type: TypeOK without that conjunct.   *)
THEOREM TypeCorrect == Spec => []StateType
<1>1. TypeInv => StateType
  BY DEF TypeInv
<1> QED
  BY <1>1, InitType, TypeStep, CoreInvariant, PTL DEF Spec
=============================================================================
