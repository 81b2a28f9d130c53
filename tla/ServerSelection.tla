--------------------------- MODULE ServerSelection ---------------------------
(***************************************************************************)
(* The selectors for reads (mongo/description/server_selector.go): read    *)
(* preference modes, tag sets, maximum staleness and the latency window,   *)
(* on descriptions that are as old as the last heartbeat.                  *)
(*                                                                         *)
(* The replica set is external: a primary that writes at least every       *)
(* IdleWritePeriod, secondaries that copy its writes and heartbeats that   *)
(* are at most an interval apart. Times are counted in ticks; those of the *)
(* code, 90 and 10 seconds, are constants.                                 *)
(***************************************************************************)
EXTENDS Integers, Sequences, FiniteSets, FiniteSetsExt

CONSTANTS
  Secondaries,       \* the servers besides "primary"
  HeartbeatInterval, \* ticks between two heartbeats of a server
  IdleWritePeriod,   \* 10 seconds
  SmallestStaleness, \* 90 seconds
  MaxNow,            \* bound of the clock
  Profiles,          \* tags, age and average round trip time a server may have
  TagSetLists,       \* lists of tag sets a read preference may have
  LocalThreshold     \* the latency of the latency selector
NoRTT == -1
ASSUME SelectionAssumption ==
  /\ IsFiniteSet(Secondaries) /\ "primary" \notin Secondaries
  /\ HeartbeatInterval \in Nat /\ IdleWritePeriod \in Nat /\ SmallestStaleness \in Nat
  /\ MaxNow \in Nat /\ LocalThreshold \in Nat
  /\ Profiles # {} /\ \A p \in Profiles : p.rtt \in Nat \cup {NoRTT}
  /\ \A l \in TagSetLists : Len(l) \in Nat /\ DOMAIN l = 1 .. Len(l)

VARIABLES
  ssNow,   \* the clock
  ssAlive, \* whether the primary is up
  ssWrite, \* the time of the last write that each server has
  ssView   \* the description of each server

ssVars == <<ssNow, ssAlive, ssWrite, ssView>>

Servers == Secondaries \cup {"primary"}
Modes == {"primary", "primaryPreferred", "secondary", "secondaryPreferred", "nearest"}
NoStaleness == -1
Unknown == [kind |-> "Unknown", lastWrite |-> 0, lastUpdate |-> 0, profile |-> CHOOSE p \in Profiles : TRUE]

SelectionTypeOK ==
  /\ ssNow \in 0 .. MaxNow /\ ssAlive \in BOOLEAN /\ ssWrite \in [Servers -> 0 .. MaxNow]
  /\ ssView \in [Servers -> [kind : {"Unknown", "RSPrimary", "RSSecondary"}, lastWrite : 0 .. MaxNow,
                             lastUpdate : 0 .. MaxNow, profile : Profiles]]

SelectionInit ==
  /\ ssNow = 0 /\ ssAlive = TRUE /\ ssWrite = [s \in Servers |-> 0]
  /\ ssView = [s \in Servers |-> Unknown]
-----------------------------------------------------------------------------
(* The replica set and its monitors.                                       *)

(* Time passes, if no heartbeat and no idle write is due.                  *)
Tick ==
  /\ ssNow < MaxNow /\ ssNow' = ssNow + 1
  /\ \A s \in Servers : ssView[s].kind # "Unknown" => ssNow < ssView[s].lastUpdate + HeartbeatInterval
  /\ ssAlive => ssNow < ssWrite["primary"] + IdleWritePeriod
  /\ UNCHANGED <<ssAlive, ssWrite, ssView>>

WriteAtPrimary ==
  /\ ssAlive /\ ssWrite' = [ssWrite EXCEPT !["primary"] = ssNow]
  /\ UNCHANGED <<ssNow, ssAlive, ssView>>

Replicate(s) ==
  /\ ssWrite[s] < ssWrite["primary"]
  /\ \E t \in {ssWrite["primary"], ssWrite[s] + 1} : ssWrite' = [ssWrite EXCEPT ![s] = t]
  /\ UNCHANGED <<ssNow, ssAlive, ssView>>

(* NewServer, on the reply of a heartbeat.                                 *)
NewServer(s, profile) ==
  [kind |-> IF s = "primary" THEN "RSPrimary" ELSE "RSSecondary", lastWrite |-> ssWrite[s],
   lastUpdate |-> ssNow, profile |-> profile]
Heartbeat(s, profile) ==
  /\ s = "primary" => ssAlive
  /\ ssView[s].kind # "Unknown" => profile = ssView[s].profile
  /\ ssView' = [ssView EXCEPT ![s] = NewServer(s, profile)]
  /\ UNCHANGED <<ssNow, ssAlive, ssWrite>>

(* The primary fails, and its heartbeat with it.                           *)
PrimaryFails ==
  /\ ssAlive /\ ssAlive' = FALSE
  /\ ssView' = [ssView EXCEPT !["primary"] = Unknown]
  /\ UNCHANGED <<ssNow, ssWrite>>
-----------------------------------------------------------------------------
selectByKind(candidates, kind) == {s \in candidates : ssView[s].kind = kind}

(* selectByTagSet: the servers with all tags of the first tag set that     *)
(* any of them has.                                                        *)
Tagged(candidates, tags) == {s \in candidates : tags \subseteq ssView[s].profile.tags}
LastMatching(candidates, tagSets) ==
  LET matching == {i \in DOMAIN tagSets : Tagged(candidates, tagSets[i]) # {}}
  IN  IF tagSets = <<>> THEN candidates
      ELSE IF matching = {} THEN {} ELSE Tagged(candidates, tagSets[Max(matching)])
selectByTagSet(candidates, tagSets) ==
  LET matching == {i \in DOMAIN tagSets : Tagged(candidates, tagSets[i]) # {} \/ tagSets[i] = {}}
  IN  IF tagSets = <<>> THEN candidates
      ELSE IF matching = {} THEN {} ELSE Tagged(candidates, tagSets[Min(matching)])

(* selectSecondaries: how stale each is by estimate, compared with the     *)
(* primary, or with the secondary that has the last write.                 *)
EstimateNow(s, candidates) ==
  LET d == ssView[s]
      p == ssView["primary"]
  IN  IF selectByKind(candidates, "RSPrimary") = {}
      THEN Max({ssView[o].lastWrite : o \in selectByKind(candidates, "RSSecondary")}) - d.lastWrite
      ELSE (d.lastUpdate - d.lastWrite) - (p.lastUpdate - p.lastWrite)
estimatedStaleness(s, candidates) ==
  LET d == ssView[s]
      p == ssView["primary"]
  IN  IF selectByKind(candidates, "RSPrimary") = {}
      THEN Max({ssView[o].lastWrite : o \in selectByKind(candidates, "RSSecondary")}) - d.lastWrite
             + HeartbeatInterval
      ELSE (d.lastUpdate - d.lastWrite) - (p.lastUpdate - p.lastWrite) + HeartbeatInterval
selectSecondaries(rp, candidates) ==
  {s \in selectByKind(candidates, "RSSecondary") :
     rp.maxStaleness # NoStaleness => estimatedStaleness(s, candidates) <= rp.maxStaleness}

(* selectForReplicaSet, past verifyMaxStaleness.                           *)
selectForReplicaSet(rp, candidates) ==
  LET primaries == selectByKind(candidates, "RSPrimary")
      secondaries == selectSecondaries(rp, candidates)
      tagged == selectByTagSet(secondaries, rp.tagSets)
  IN  IF rp.mode = "primary" THEN primaries
      ELSE IF rp.mode = "primaryPreferred" THEN IF primaries # {} THEN primaries ELSE tagged
      ELSE IF rp.mode = "secondaryPreferred" THEN IF tagged # {} THEN tagged ELSE primaries
      ELSE IF rp.mode = "secondary" THEN tagged
      ELSE selectByTagSet(primaries \cup secondaries, rp.tagSets)

(* ReadPrefSelector refuses a maximum staleness that an old server among   *)
(* the candidates does not know, verifyMaxStaleness one that is too small. *)
verifyMaxStaleness(rp) ==
  rp.maxStaleness # NoStaleness =>
    rp.maxStaleness >= SmallestStaleness /\ rp.maxStaleness >= HeartbeatInterval + IdleWritePeriod
Refused(rp, candidates) ==
  \/ ~verifyMaxStaleness(rp)
  \/ rp.maxStaleness # NoStaleness
     /\ \E s \in candidates : ssView[s].kind # "Unknown" /\ ssView[s].profile.old

(* LatencySelector: of two or more servers, those whose time is known and  *)
(* not more than the threshold above the least, if any is known.           *)
OfAllServers(candidates) == {s \in candidates : ssView[s].profile.rtt # NoRTT /\ ssView[s].profile.rtt <= LocalThreshold}
LatencySelector(candidates) ==
  LET timed == {s \in candidates : ssView[s].profile.rtt # NoRTT}
  IN  IF Cardinality(candidates) < 2 \/ timed = {} THEN candidates
      ELSE {s \in timed : ssView[s].profile.rtt <= Min({ssView[o].profile.rtt : o \in timed}) + LocalThreshold}

(* CompositeSelector of the two, on the servers of a description of which  *)
(* something is known: what the first leaves, and what both leave.         *)
Known == {s \in Servers : ssView[s].kind # "Unknown"}
Suitable(rp) == IF Refused(rp, Known) THEN {} ELSE selectForReplicaSet(rp, Known)
SelectServer(rp) ==
  LET suitable == Suitable(rp) IN [suitable |-> suitable, chosen |-> LatencySelector(suitable)]

(* New makes read preferences: with mode primary neither tags nor          *)
(* staleness.                                                              *)
ReadPrefs ==
  {rp \in [mode : Modes, tagSets : TagSetLists,
           maxStaleness : {NoStaleness, SmallestStaleness - 1, SmallestStaleness}] :
     rp.mode = "primary" => rp.tagSets = <<>> /\ rp.maxStaleness = NoStaleness}

SelectionNext ==
  \/ Tick \/ WriteAtPrimary \/ PrimaryFails
  \/ \E s \in Secondaries : Replicate(s)
  \/ \E s \in Servers, profile \in Profiles : Heartbeat(s, profile)

SelectionSpec == SelectionInit /\ [][SelectionNext]_ssVars
-----------------------------------------------------------------------------
(* A secondary that is selected under a maximum staleness is not staler    *)
(* than that and an idle write period, at any time until the next          *)
(* heartbeat, though its description and the primary's are from different  *)
(* times and both are behind.                                              *)
BoundedStaleness(rp, chosen) ==
  rp.maxStaleness # NoStaleness /\ ssAlive /\ ssView["primary"].kind # "Unknown" =>
    \A s \in chosen \ {"primary"} :
      ssWrite["primary"] - ssWrite[s] <= rp.maxStaleness + IdleWritePeriod

(* The latency window is measured from the fastest server that is          *)
(* suitable, which is one of those selected: a server that is suitable is  *)
(* never passed over for none, nor for a slower one.                       *)
FastestSuitable(suitable, chosen) ==
  suitable # {} =>
    /\ chosen # {}
    /\ \A s \in chosen, o \in suitable \ chosen :
         ssView[o].profile.rtt = NoRTT \/ ssView[o].profile.rtt > ssView[s].profile.rtt

(* The modes, as mode.go describes them: the preferred kind is used while  *)
(* a server of it is suitable, the other only where it is not, and a tag   *)
(* set only where no earlier one matches.                                  *)
Has(s, tags) == tags \subseteq ssView[s].profile.tags
Matches(s, tagSets) == tagSets = <<>> \/ \E i \in DOMAIN tagSets : Has(s, tagSets[i])
ModesHold(rp, chosen) ==
  /\ rp.mode \in {"primary", "primaryPreferred"} /\ "primary" \in Known /\ ~Refused(rp, Known) =>
       chosen = {"primary"}
  /\ rp.mode = "secondary" => "primary" \notin chosen
  /\ rp.mode = "secondaryPreferred" /\ "primary" \in chosen =>
       /\ chosen = {"primary"}
       /\ rp.maxStaleness = NoStaleness => \A s \in Known \ {"primary"} : ~Matches(s, rp.tagSets)
  /\ \A s \in chosen \ {"primary"}, o \in Known \ {"primary"}, i \in DOMAIN rp.tagSets :
       rp.maxStaleness = NoStaleness /\ Has(o, rp.tagSets[i]) =>
         \E j \in 1 .. i : Has(s, rp.tagSets[j])

(* Though views are old, a secondary that SelectServer chooses for any     *)
(* read preference is behind by no more than the maximum staleness and an  *)
(* idle write period; mode and tag sets hold; and the latency window is    *)
(* that of the fastest suitable server (server_selector.go). Nothing is    *)
(* chosen where no server is known.                                        *)
SelectionIsRight ==
  Known # {} =>
    \A rp \in ReadPrefs :
      LET left == SelectServer(rp)
      IN  /\ BoundedStaleness(rp, left.chosen)
          /\ FastestSuitable(left.suitable, left.chosen)
          /\ ModesHold(rp, left.chosen)
=============================================================================
