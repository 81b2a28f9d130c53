------------------------- MODULE ConnectionOptions -------------------------
(***************************************************************************)
(* How a connection gets its options. Client.configure appends them to one *)
(* slice, connOpts, that every server's configuration returns. A server    *)
(* appends the callback for handshake errors to it for its pool, and its   *)
(* heartbeat connections append theirs at every createConnection.          *)
(*                                                                         *)
(* append is the Go function: it writes into the array of the slice when   *)
(* that has room, and copies to a new array otherwise.                     *)
(***************************************************************************)
EXTENDS Integers, Sequences

CONSTANTS
  Servers,    \* the servers of a topology
  MaxOptions  \* bound: connection options Client.configure sets, at least 2

VARIABLES
  base,    \* len(connOpts)
  array,   \* the array of connOpts, as far as its capacity
  pools,   \* pool.opts of each server: how many options, and the array if its own
  dialled  \* history: whose handshake callback the server's last connection got

vars == <<base, array, pools, dialled>>

(* The capacity after appending n options to a nil slice one by one.        *)
Capacity(n) == CHOOSE c \in {2^k : k \in 0..n} : c >= n /\ \A k \in 0..n : 2^k >= n => c <= 2^k

Plain == [kind |-> "option"]
Callback(s) == [kind |-> "callback", of |-> s]     \* withErrorHandlingCallback
HeartbeatOptions == [i \in 1..5 |-> [kind |-> "heartbeat"]]

(* Client.configure: the handshaker and the OCSP cache always, the others   *)
(* when the client's options say so. *)
Init ==
  /\ base \in 2..MaxOptions
  /\ array = [i \in 1..Capacity(base) |-> Plain]
  /\ pools = [s \in Servers |-> [made |-> FALSE, shared |-> FALSE, opts |-> <<>>]]
  /\ dialled = [s \in Servers |-> "none"]

Fits(opts) == base + Len(opts) <= Len(array)
AppendShared(opts) ==
  [i \in DOMAIN array |-> IF i \in base + 1..base + Len(opts) THEN opts[i - base] ELSE array[i]]
BaseOptions == SubSeq(array, 1, base)

(* NewServer and newPool, which may add an option for the idle time.        *)
NewServer(s) ==
  /\ ~pools[s].made
  /\ \E idle \in BOOLEAN :
       LET opts == IF idle THEN <<Callback(s), Plain>> ELSE <<Callback(s)>>
       IN  IF Fits(opts)
           THEN /\ array' = AppendShared(opts)
                /\ pools' = [pools EXCEPT ![s] =
                     [made |-> TRUE, shared |-> TRUE, opts |-> SubSeq(array', 1, base + Len(opts))]]
           ELSE /\ pools' = [pools EXCEPT ![s] =
                     [made |-> TRUE, shared |-> FALSE, opts |-> BaseOptions \o opts]]
                /\ array' = IF Fits(<<Callback(s)>>) THEN AppendShared(<<Callback(s)>>) ELSE array
  /\ UNCHANGED <<base, dialled>>

(* createConnection, for heartbeats and round trips.                        *)
CreateConnection(s) ==
  /\ pools[s].made
  /\ array' = IF Fits(HeartbeatOptions) THEN AppendShared(HeartbeatOptions) ELSE array
  /\ UNCHANGED <<base, pools, dialled>>

(* newConnection of a connection of the pool applies pool.opts in order:    *)
(* the last callback is the one that counts.                                *)
OptionsOf(s) ==
  IF pools[s].shared THEN SubSeq(array, 1, Len(pools[s].opts)) ELSE pools[s].opts
CallbackOf(opts) ==
  LET found == {i \in DOMAIN opts : opts[i].kind = "callback"}
  IN  IF found = {} THEN "nobody"
      ELSE opts[CHOOSE i \in found : \A j \in found : j <= i].of
MakeNewConnection(s) ==
  /\ pools[s].made
  /\ dialled' = [dialled EXCEPT ![s] = CallbackOf(OptionsOf(s))]
  /\ UNCHANGED <<base, array, pools>>

Next == \E s \in Servers : NewServer(s) \/ CreateConnection(s) \/ MakeNewConnection(s)
Spec == Init /\ [][Next]_vars
-----------------------------------------------------------------------------
(* A connection that fails to connect reports it to its own server: "The    *)
(* error has already been handled by connection.connect, which calls        *)
(* Server.ProcessHandshakeError" (server.go, Connection).                   *)
ReportsToOwnServer == \A s \in Servers : dialled[s] \in {"none", s}
=============================================================================
