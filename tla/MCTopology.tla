----------------------------- MODULE MCTopology -----------------------------
(***************************************************************************)
(* Instances of Topology for TLC: what servers report in each run, in a    *)
(* deployment of at most three servers.                                    *)
(***************************************************************************)
EXTENDS Topology, TLC

CONSTANTS a1, a2, a3, rs, other

OneSeed == <<a1>>
TwoSeeds == <<a1, a2>>
ThreeSeeds == <<a1, a2, a3>>

Member(a, kind, members) ==
  [DefaultServer(a) EXCEPT !.kind = kind, !.setName = rs, !.members = members, !.timeout = 30]
Primary(a, version, election, members) ==
  [Member(a, "RSPrimary", members) EXCEPT !.setVersion = version, !.electionID = election]
Standalone(a) == [DefaultServer(a) EXCEPT !.kind = "Standalone", !.timeout = 30]
Mongos(a) == [DefaultServer(a) EXCEPT !.kind = "Mongos", !.timeout = 30]
Ghost(a) == [DefaultServer(a) EXCEPT !.kind = "RSGhost"]
Errors == {DefaultServer(a) : a \in Addrs}

(* Everything a monitor may come across: failovers and reconfigurations     *)
(* seen in any order, servers of another set or another kind, servers       *)
(* that know themselves by another name, session timeouts, old versions.    *)
MixedReports ==
  Errors \cup {Ghost(a2), Standalone(a2), Mongos(a1), Mongos(a3)}
  \cup {Primary(a1, 1, 1, {a1, a2}), Primary(a2, 1, 2, {a1, a2}), Primary(a1, 2, 1, {a1, a2, a3}),
        Primary(a2, 2, 0, {a1, a2, a3})}
  \cup {Member(a1, "RSSecondary", {a1, a2}), Member(a2, "RSSecondary", {a1, a2, a3}),
        [Member(a2, "RSSecondary", {a2}) EXCEPT !.setName = other],
        [Primary(a1, 1, 2, {a1}) EXCEPT !.setName = other],
        [Member(a3, "RSArbiter", {a2, a3}) EXCEPT !.timeout = 0],
        [Member(a3, "RSMember", {a1}) EXCEPT !.me = a1],
        [Primary(a3, 1, 1, {a3}) EXCEPT !.setName = other]}
  \cup {[Mongos(a1) EXCEPT !.timeout = 10], [Member(a1, "RSSecondary", {a1, a2}) EXCEPT !.timeout = 10],
        [Standalone(a1) EXCEPT !.compatible = FALSE]}

(* A replica set through two elections and a reconfiguration that adds a3.  *)
FailoverReports ==
  Errors
  \cup {Primary(a1, 1, 1, {a1, a2}), Primary(a2, 1, 2, {a1, a2}), Primary(a2, 2, 2, {a1, a2, a3})}
  \cup {Member(a, "RSSecondary", m) : a \in {a1, a2}, m \in {{a1, a2}, {a1, a2, a3}}}
  \cup {Member(a3, "RSSecondary", {a1, a2, a3})}
SettledReports ==
  {Primary(a2, 2, 2, {a1, a2, a3}), Member(a1, "RSSecondary", {a1, a2, a3}),
   Member(a3, "RSSecondary", {a1, a2, a3})}

(* A primary that steps down and up, with versions, and its successor.      *)
SteppingReports ==
  {[s EXCEPT !.tv = v] : s \in {Primary(a1, 1, 1, {a1, a2}), Member(a1, "RSSecondary", {a1, a2})},
                         v \in {1, 2}}
  \cup {DefaultServer(a1), Member(a2, "RSSecondary", {a1, a2}), Primary(a2, 1, 2, {a2})}

ShardedReports == Errors \cup {Mongos(a) : a \in Addrs}

(* For server selection: routers that come and go, one with versions.       *)
RouterReports == ShardedReports \cup {[Mongos(a1) EXCEPT !.tv = v] : v \in {1, 2}}

NoReports == {}
AllHostLists == SUBSET Addrs \ {{}}
FirstHost == {{a1}}
SomeHostLists == {{a1, a2}, {a2, a3}, {a3}, {a1, a2, a3}}
NoHosts == {}
=============================================================================
