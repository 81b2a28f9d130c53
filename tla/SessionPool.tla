----------------------------- MODULE SessionPool -----------------------------
(***************************************************************************)
(* The pool of server sessions (x/mongo/driver/session: session_pool.go    *)
(* and server_session.go): a doubly linked list that goroutines take from  *)
(* and return to, under the pool's mutex, so that each call is one action. *)
(* Its nodes are dropped at both ends as they expire by a timeout that the *)
(* topology changes. A node is named by the session it holds.              *)
(***************************************************************************)
EXTENDS Integers, Sequences, FiniteSets

CONSTANTS
  Clients,      \* goroutines with one client session each
  Sessions,     \* server sessions, numbers, used again when nobody refers to them
  NoSession,    \* nil
  Timeouts,     \* values of SessionTimeoutMinutes, 0 where it is missing
  MaxIdle       \* bound of the time a session is unused, in minutes
ASSUME SessionsAssumption ==
  /\ IsFiniteSet(Clients) /\ IsFiniteSet(Sessions) /\ Sessions \subseteq Nat
  /\ NoSession \notin Sessions /\ Cardinality(Clients) < Cardinality(Sessions)
  /\ Timeouts \subseteq Nat /\ MaxIdle \in Nat

VARIABLES
  head, tail,   \* ends of the list
  next, prev,   \* its links
  timeout,      \* Pool.timeout
  checkedOut,   \* Pool.checkedOut
  held,         \* the server session of each client
  idle,         \* minutes since Server.LastUsed
  dirty         \* the sessions in use with Server.Dirty

listVars == <<head, tail, next, prev>>
poolVars == <<listVars, timeout, checkedOut, held, idle, dirty>>

Node == Sessions \cup {NoSession}
NoLinks == [s \in Sessions |-> NoSession]

PoolTypeOK ==
  /\ head \in Node /\ tail \in Node
  /\ next \in [Sessions -> Node] /\ prev \in [Sessions -> Node]
  /\ timeout \in Timeouts \cup {0}
  /\ checkedOut \in 0 .. Cardinality(Clients)
  /\ held \in [Clients -> Node]
  /\ idle \in [Sessions -> 0 .. MaxIdle] /\ dirty \subseteq Sessions

NewPool ==
  /\ head = NoSession /\ tail = NoSession /\ next = NoLinks /\ prev = NoLinks
  /\ timeout = 0 /\ checkedOut = 0
  /\ held = [c \in Clients |-> NoSession]
  /\ idle = [s \in Sessions |-> 0] /\ dirty = {}

First(S) == CHOOSE i \in S : \A j \in S : i <= j

(* The node n links after s, and the nodes from s on.                      *)
NodesAfter(link, s) ==
  LET node[n \in 0 .. Cardinality(Sessions)] ==
        IF n = 0 THEN s
        ELSE IF node[n - 1] = NoSession THEN NoSession ELSE link[node[n - 1]]
  IN  node
Walk(link, s) ==
  LET node == NodesAfter(link, s)
      ends == {n \in 0 .. Cardinality(Sessions) : node[n] = NoSession}
  IN  IF s = NoSession THEN <<>>
      ELSE [i \in 1 .. First(ends \cup {Cardinality(Sessions)}) |-> node[i - 1]]
Elements(q) == {q[i] : i \in DOMAIN q}

(* Nodes that nothing refers to are garbage; their links are cleared here. *)
Garbage(live, n, p) ==
  /\ next' = [s \in Sessions |-> IF s \in live THEN n[s] ELSE NoSession]
  /\ prev' = [s \in Sessions |-> IF s \in live THEN p[s] ELSE NoSession]

(* Server.expired: fit for at least one more minute.                       *)
Expired(s, t) == t = 0 \/ idle[s] > t - 1

(* updateTimeout: that of the last description, if one waits in descChan.  *)
UpdateTimeout == timeout' \in {timeout} \cup Timeouts

(* newServerSession, in an object that nobody refers to any more.          *)
Unused == Sessions \ (Elements(Walk(next, head)) \cup Elements(held))
CreateUncounted(c) ==
  /\ head' = NoSession /\ tail' = NoSession /\ next' = NoLinks /\ prev' = NoLinks
  /\ LET s == First(Unused)
     IN  held' = [held EXCEPT ![c] = s] /\ idle' = [idle EXCEPT ![s] = 0]
  /\ UNCHANGED <<checkedOut, dirty>>
CreateServerSession(c) ==
  /\ head' = NoSession /\ tail' = NoSession /\ next' = NoLinks /\ prev' = NoLinks
  /\ LET s == First(Unused)
     IN  /\ held' = [held EXCEPT ![c] = s]
         /\ idle' = [idle EXCEPT ![s] = 0]
  /\ checkedOut' = checkedOut + 1
  /\ UNCHANGED dirty

(* GetSession, of an empty pool, and of one that isn't: expired nodes are  *)
(* skipped from the head on.                                               *)
GetFromEmpty(c) ==
  /\ held[c] = NoSession /\ head = NoSession /\ tail = NoSession
  /\ CreateServerSession(c)
  /\ UNCHANGED timeout

FirstFit(t) ==
  LET q == Walk(next, head)
      fit == {i \in DOMAIN q : ~Expired(q[i], t)}
  IN  IF fit = {} THEN NoSession ELSE q[First(fit)]
UnlinkKeepsTail(s) ==
  /\ Garbage(Elements(Walk(next, next[s])), next, [prev EXCEPT ![next[s]] = NoSession])
  /\ head' = next[s] /\ tail' = tail
UnlinkKeepsHead(s) ==
  /\ UNCHANGED <<head, next, prev>>
  /\ tail' = IF tail = s THEN NoSession ELSE tail
Unlink(s) ==
  /\ Garbage(Elements(Walk(next, next[s])), next, [prev EXCEPT ![next[s]] = NoSession])
  /\ head' = IF tail = s THEN NoSession ELSE next[s]
  /\ tail' = IF tail = s THEN NoSession ELSE tail
GetSession(c) ==
  /\ held[c] = NoSession /\ ~(head = NoSession /\ tail = NoSession)
  /\ UpdateTimeout
  /\ LET s == FirstFit(timeout')
     IN  IF s # NoSession
         THEN /\ Unlink(s)
              /\ held' = [held EXCEPT ![c] = s] /\ checkedOut' = checkedOut + 1
              /\ UNCHANGED <<idle, dirty>>
         ELSE CreateServerSession(c)

(* ReturnSession: expired nodes are dropped at the tail, up to the first   *)
(* that is fit. The head stays where it is, even if all were dropped.      *)
DropExpired(t) ==
  LET q == Walk(prev, tail)
      fit == {i \in DOMAIN q : ~Expired(q[i], t)}
      n == IF fit = {} THEN Len(q) ELSE First(fit) - 1
      kept == IF n = Len(q) THEN NoSession ELSE q[n + 1]
      dropped == {q[i] : i \in 1 .. n}
  IN  [tail |-> kept,
       next |-> [s \in Sessions |-> IF next[s] \in dropped /\ s \in Elements(q) THEN NoSession
                                    ELSE next[s]],
       prev |-> [s \in Sessions |-> IF s \in dropped THEN NoSession ELSE prev[s]]]
PushLinked(s, d) ==
  /\ head' = s /\ tail' = IF d.tail = NoSession THEN s ELSE d.tail
  /\ next' = [d.next EXCEPT ![s] = head]
  /\ prev' = IF head = NoSession THEN d.prev ELSE [d.prev EXCEPT ![s] = NoSession, ![head] = s]
Push(s, d) ==
  IF d.tail = NoSession
  THEN /\ head' = s /\ tail' = s
       /\ next' = [d.next EXCEPT ![s] = NoSession] /\ prev' = [d.prev EXCEPT ![s] = NoSession]
  ELSE /\ head' = s /\ tail' = d.tail
       /\ next' = [d.next EXCEPT ![s] = head]
       /\ prev' = [d.prev EXCEPT ![s] = NoSession, ![head] = s]
DiscardExpired(s, t) == Expired(s, t)
Discard(s, t) == Expired(s, t) \/ s \in dirty
ReturnSession(c) ==
  /\ held[c] # NoSession
  /\ held' = [held EXCEPT ![c] = NoSession] /\ checkedOut' = checkedOut - 1
  /\ UpdateTimeout
  /\ LET d == DropExpired(timeout')
     IN  IF Discard(held[c], timeout')
         THEN tail' = d.tail /\ next' = d.next /\ prev' = d.prev /\ UNCHANGED head
         ELSE Push(held[c], d)
  /\ dirty' = dirty \ {held[c]}
  /\ UNCHANGED idle

(* updateUseTime, when a command is sent, and MarkDirty, when it met a     *)
(* network error.                                                          *)
Use(c) ==
  /\ held[c] # NoSession
  /\ idle' = [idle EXCEPT ![held[c]] = 0]
  /\ dirty' \in {dirty, dirty \cup {held[c]}}
  /\ UNCHANGED <<listVars, timeout, checkedOut, held>>

Tick ==
  /\ idle' = [s \in Sessions |-> IF s \in Unused THEN 0
                                ELSE IF idle[s] < MaxIdle THEN idle[s] + 1 ELSE MaxIdle]
  /\ UNCHANGED <<listVars, timeout, checkedOut, held, dirty>>

PoolNext ==
  \/ Tick
  \/ \E c \in Clients : GetFromEmpty(c) \/ GetSession(c) \/ ReturnSession(c) \/ Use(c)
PoolSpec == NewPool /\ [][PoolNext]_poolVars
-----------------------------------------------------------------------------
(* A server session has one user: it is never with two clients, nor in the *)
(* list while a client has it, nor twice in the list (session_pool.go).    *)
Exclusive ==
  /\ \A c, d \in Clients : c # d /\ held[c] # NoSession => held[c] # held[d]
  /\ \A c \in Clients : held[c] \notin Elements(Walk(next, head))
  /\ Cardinality(Elements(Walk(next, head))) = Len(Walk(next, head))

(* The list is the same from both ends, but for a head that is left behind *)
(* when all nodes expired: then no tail leads to it (ReturnSession).       *)
ListShape ==
  tail # NoSession =>
    /\ Walk(next, head) # <<>> /\ Walk(next, head)[Len(Walk(next, head))] = tail
    /\ \A s \in Elements(Walk(next, head)) : next[s] # NoSession => prev[next[s]] = s
    /\ prev[head] = NoSession

(* A server session has one user, and the list is whole, so that a call   *)
(* finds every session that is in it, and finds it once (session_pool.go). *)
SessionsHaveOneUser == Exclusive /\ ListShape

(* The pool is a stack of sessions.                                        *)
ExpiredSessions == {s \in Sessions : Expired(s, timeout)}
Stack == INSTANCE SessionStack WITH stack <- Walk(next, head), expired <- ExpiredSessions

(* The linked list implements the stack: nobody is given a session that is *)
(* dirty, about to expire, or somebody else's, and the last one returned   *)
(* comes first (session_pool.go, GetSession and ReturnSession).            *)
StackSpec == Stack!Spec
=============================================================================
