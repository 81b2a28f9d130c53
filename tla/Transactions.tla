---------------------------- MODULE Transactions ----------------------------
(***************************************************************************)
(* A client session, its transactions and the execution of its operations  *)
(* (mongo/session.go, x/mongo/driver/session/client_session.go and         *)
(* Operation.Execute of x/mongo/driver/operation.go): transaction numbers, *)
(* retries, error labels, and the loop of WithTransaction, against servers *)
(* that lose requests and replies, deliver a request late, step down and   *)
(* abort transactions.                                                     *)
(*                                                                         *)
(* One goroutine uses the session. A document is named by a number; what a *)
(* server does with a command is external, and follows from what the       *)
(* driver relies on: a retryable write is applied once per transaction     *)
(* number, and a transaction as a whole when it is committed.              *)
(***************************************************************************)
EXTENDS Integers, Sequences, FiniteSets

CONSTANTS
  MaxDocs,   \* bound of the documents written, by all operations
  MaxCalls   \* bound of the calls the application makes

VARIABLES
  cs,        \* the session.Client, with the TxnNumber of its server session
  didCommit, \* sessionImpl.didCommitAfterStart
  op,        \* the Operation in Execute
  tpc,       \* where Execute is
  cmd,       \* the last command that was sent
  err,       \* the error of the last round trip, then the one that is returned
  opErr,     \* operationErr
  caller,    \* what the result of Execute goes to
  calls,     \* calls the application made
  docs,      \* documents it wrote
  server,    \* what the servers know of the session
  late,      \* a command that may still arrive
  applied,   \* how often each document was applied
  inTxn,     \* the documents that the transaction was told are in it
  attempt,   \* the documents of all runs of the callback of WithTransaction
  fnErr,     \* the error of the callback
  panicked   \* whether Execute met a nil pointer

sessionVars == <<cs, didCommit>>
execVars == <<op, tpc, cmd, err, opErr, panicked>>
appVars == <<caller, calls, docs, inTxn, attempt, fnErr>>
serverVars == <<server, late, applied>>
exVars == <<sessionVars, execVars, appVars, serverVars>>

Docs == 1 .. MaxDocs
Labels == {"Network", "Transient", "UnknownCommit", "RetryableWrite"}
Kinds == {"insert", "update", "find", "command", "unack", "commit", "abort"}
Writes == {"insert", "update", "unack", "commit", "abort"}  \* Operation.Type is Write
Retries == {"insert", "find", "commit", "abort"}            \* RetryOncePerCommand

NoCommand ==
  [kind |-> "none", docs |-> {}, txn |-> 0, start |-> FALSE, auto |-> FALSE, majority |-> FALSE]
NoOp ==
  [kind |-> "none", docs |-> <<>>, all |-> {}, ordered |-> TRUE, session |-> FALSE, retryable |-> FALSE,
   retries |-> 0, majority |-> FALSE]
Failure(c, l) == [code |-> c, labels |-> l]
Success == Failure("none", {})
WriteCommandCodes == {"writeError", "wcRetryable", "wcTimeout", "wcUnsatisfiable"}
CommandCodes == {"network", "notMaster", "noTxn", "refused", "maxTime"}
Codes == {"none", "select", "ended", "unacknowledged", "state", "noAck"}
         \cup CommandCodes \cup WriteCommandCodes

(* The type invariant, and that the session says it is committing or       *)
(* aborting only while it is.                                              *)
TypeOK ==
  /\ cs.committing => op.kind = "commit"
  /\ cs.aborting => op.kind = "abort"
  /\ cs \in [state : {"None", "Starting", "InProgress", "Committed", "Aborted"}, txn : Nat,
             retryingCommit : BOOLEAN, committing : BOOLEAN, aborting : BOOLEAN,
             retryWrite : BOOLEAN, majority : BOOLEAN, terminated : BOOLEAN, dirty : BOOLEAN]
  /\ didCommit \in BOOLEAN /\ panicked \in BOOLEAN
  /\ op.kind \in Kinds \cup {"none"} /\ op.retries \in 0 .. 1 /\ Len(op.docs) \in 0 .. 2
  /\ tpc \in {"idle", "send", "wire", "result", "retry", "return"}
  /\ cmd.kind \in Kinds \cup {"none"} /\ cmd.txn \in Nat
  /\ err.code \in Codes /\ err.labels \subseteq Labels /\ opErr.code \in Codes
  /\ caller \in {"application", "start", "callback", "callbackAborts", "callbackFailed", "commitLoop",
                "endSession"}
  /\ server.txn \in Nat /\ applied \in [Docs -> 0 .. 2]
  /\ inTxn \subseteq Docs /\ attempt \subseteq Docs

Init ==
  /\ cs = [state |-> "None", txn |-> 0, retryingCommit |-> FALSE, committing |-> FALSE,
           aborting |-> FALSE, retryWrite |-> FALSE, majority |-> FALSE, terminated |-> FALSE,
           dirty |-> FALSE]
  /\ didCommit = FALSE /\ op = NoOp /\ tpc = "idle" /\ cmd = NoCommand
  /\ err = Success /\ opErr = Success /\ panicked = FALSE
  /\ caller = "application" /\ calls = 0 /\ docs = 0 /\ inTxn = {} /\ attempt = {} /\ fnErr = Success
  /\ server = [txn |-> 0, state |-> "none", docs |-> {}]
  /\ late = NoCommand /\ applied = [d \in Docs |-> 0]
-----------------------------------------------------------------------------
(* session.Client *)

TransactionRunning(c) == c.state \in {"Starting", "InProgress"}
ClearTransactionOpts(c) ==
  [c EXCEPT !.retryingCommit = FALSE, !.aborting = FALSE, !.committing = FALSE, !.majority = FALSE]
ApplyCommand(c) ==
  IF c.committing THEN c
  ELSE IF c.state = "Starting" THEN [c EXCEPT !.state = "InProgress"]
  ELSE IF c.state \in {"Committed", "Aborted"} THEN [ClearTransactionOpts(c) EXCEPT !.state = "None"]
  ELSE c

(* StartTransaction: the number is advanced before the write concern is    *)
(* looked at.                                                              *)
StartedClient(c, ack) ==
  LET n == [c EXCEPT !.txn = @ + 1, !.retryingCommit = FALSE, !.majority = FALSE]
  IN  IF ack THEN [n EXCEPT !.state = "Starting"] ELSE ClearTransactionOpts(n)

(* Client.CommitTransaction and UpdateCommitTransactionWriteConcern, after *)
(* the command, whatever came of it; Client.AbortTransaction.              *)
CommittedKeepsFlag(c) == [c EXCEPT !.state = "Committed", !.majority = TRUE]
CommittedSameConcern(c) == [c EXCEPT !.committing = FALSE, !.state = "Committed"]
CommittedClient(c) ==
  [c EXCEPT !.committing = FALSE, !.state = "Committed", !.majority = TRUE]
AbortedClient(c) == [ClearTransactionOpts(c) EXCEPT !.state = "Aborted"]
-----------------------------------------------------------------------------
(* Operation.Execute *)

(* Whether the selected server has sessions and supports retryable writes: *)
(* both come with wire version 6 (a standalone, which has sessions only,   *)
(* is left out). Transactions are run against servers that have them.      *)
Supports(c) == IF TransactionRunning(c) \/ c.committing \/ c.aborting THEN {TRUE} ELSE BOOLEAN

(* retryable: what ends a transaction always is; a read, and a write with  *)
(* a session, if the server supports it and outside of a transaction.      *)
Retryable(k, c, supported) ==
  \/ c.committing \/ c.aborting
  \/ k \in {"insert", "update", "find"} /\ supported /\ ~TransactionRunning(c)

(* A write that may be retried gets a transaction number of its own, unless *)
(* it ends a transaction.                                                  *)
Numbered(k, c) ==
  [c EXCEPT !.retryWrite = k \in Retries,
            !.txn = IF k \in Retries /\ ~c.committing /\ ~c.aborting THEN @ + 1 ELSE @]

(* Execute starts, and ends at once if no server is selected or none gives *)
(* a connection.                                                           *)
Execute(k, c, ds, ordered) ==
  /\ \/ \E supported \in Supports(c) :
          LET r == Retryable(k, c, supported)
          IN  /\ tpc' = "send" /\ err' = Success
              /\ cs' = IF r /\ k \in Writes THEN Numbered(k, c) ELSE c
              /\ op' = [kind |-> k, docs |-> ds, all |-> {ds[i] : i \in DOMAIN ds},
                        ordered |-> ordered, session |-> k # "unack" /\ supported, retryable |-> r,
                        retries |-> IF r /\ k \in Retries THEN 1 ELSE 0, majority |-> c.majority]
     \/ /\ tpc' = "return" /\ err' = Failure("select", {})
        /\ cs' = c /\ op' = [NoOp EXCEPT !.kind = k]
  /\ opErr' = Success
  /\ UNCHANGED <<cmd, panicked, serverVars>>

(* createWireMessage with addSession: the fields of the session, then its  *)
(* state machine. An operation with a nil session, or on a server that has *)
(* none, does without.                                                     *)
InTransaction(c) == TransactionRunning(c) \/ c.retryingCommit
Command(o, c) ==
  [kind |-> o.kind, docs |-> IF o.docs = <<>> THEN {} ELSE {o.docs[1]},
   txn |-> IF o.session /\ (InTransaction(c) \/ (o.kind \in Writes /\ c.retryWrite))
           THEN c.txn ELSE 0,
   start |-> o.session /\ c.state = "Starting",
   auto |-> o.session /\ InTransaction(c),
   majority |-> o.majority]
Send ==
  /\ tpc = "send"
  /\ IF cs.terminated /\ op.session
     THEN tpc' = "return" /\ err' = Failure("ended", {}) /\ UNCHANGED <<cs, cmd>>
     ELSE /\ cmd' = Command(op, cs)
          /\ cs' = IF op.session THEN ApplyCommand(cs) ELSE cs
          /\ tpc' = "wire" /\ UNCHANGED err
  /\ UNCHANGED <<didCommit, op, opErr, panicked, appVars, serverVars>>

(* The labels roundTrip gives to a network error.                          *)
NetworkLabelsAlways ==
  {"Network"} \cup (IF TransactionRunning(cs) THEN {"Transient"} ELSE {})
NetworkLabels ==
  {"Network"} \cup (IF TransactionRunning(cs) /\ ~cs.committing THEN {"Transient"} ELSE {})
              \cup (IF cs.committing THEN {"UnknownCommit"} ELSE {})

(* What a server does with a command, and its answer.                      *)
Apply(ds) == [d \in Docs |-> IF d \in ds THEN applied[d] + 1 ELSE applied[d]]
Runs(c) == c.auto /\ ~c.start /\ c.txn = server.txn /\ server.state = "running"
Begun(c, state, ds) == [txn |-> c.txn, state |-> state, docs |-> ds]
Joined(c) ==
  IF c.kind = "commit" THEN Begun(c, "committed", {})
  ELSE IF c.kind = "abort" THEN Begun(c, "aborted", {})
  ELSE Begun(c, "running", server.docs \cup c.docs)
Repeated(c) ==
  /\ c.txn = server.txn
  /\ \/ ~c.auto /\ server.state = "write"
     \/ c.kind = "commit" /\ server.state = "committed"
Serve(c) ==
  IF c.txn = 0 THEN [server |-> server, applied |-> Apply(c.docs), reply |-> Success]
  ELSE IF ~c.auto /\ c.txn > server.txn
  THEN [server |-> Begun(c, "write", {}), applied |-> Apply(c.docs), reply |-> Success]
  ELSE IF c.auto /\ c.start /\ c.txn > server.txn
  THEN [server |-> Begun(c, "running", c.docs), applied |-> applied, reply |-> Success]
  ELSE IF Runs(c)
  THEN [server |-> Joined(c),
        applied |-> IF c.kind = "commit" THEN Apply(server.docs) ELSE applied,
        reply |-> Success]
  ELSE [server |-> server, applied |-> applied,
        reply |-> IF Repeated(c) THEN Success
                  ELSE IF c.auto THEN Failure("noTxn", {"Transient"})
                  ELSE Failure("refused", {})]
Served(c) == server' = Serve(c).server /\ applied' = Serve(c).applied

Answer(e) == err' = e /\ tpc' = "result" /\ UNCHANGED <<op, cmd, opErr, panicked, didCommit, appVars>>

(* The command, or its reply, is lost. A command may still arrive later.   *)
NetworkFails ==
  /\ tpc = "wire" /\ cmd.kind # "unack"
  /\ \/ UNCHANGED <<server, applied>> /\ late' \in {late, cmd}
     \/ Served(cmd) /\ UNCHANGED late
  /\ cs' = [cs EXCEPT !.dirty = TRUE]
  /\ Answer(Failure("network", NetworkLabels))

(* The server answers, or it refuses: it is no primary, or has its reasons. *)
ServerAnswers ==
  /\ tpc = "wire" /\ cmd.kind # "unack"
  /\ Served(cmd) /\ Answer(Serve(cmd).reply)
  /\ UNCHANGED <<cs, late>>
ServerRefuses ==
  /\ tpc = "wire" /\ cmd.kind # "unack"
  /\ \/ Answer(Failure("notMaster", IF cmd.auto /\ cmd.kind # "commit" THEN {"Transient"} ELSE {}))
     \/ Answer(Failure("refused", {}))
     \/ cmd.kind = "commit" /\ Answer(Failure("maxTime", {}))
     \/ cmd.kind = "insert" /\ Answer(Failure("writeError", {}))
  /\ UNCHANGED <<cs, serverVars>>

(* It was done, but not on enough servers.                                 *)
WriteConcernFails ==
  /\ tpc = "wire" /\ (cmd.kind = "commit" \/ (cmd.kind \in {"insert", "update"} /\ ~cmd.auto))
  /\ Served(cmd) /\ Serve(cmd).reply = Success
  /\ \E c \in {"wcRetryable", "wcTimeout", "wcUnsatisfiable"} : Answer(Failure(c, {}))
  /\ UNCHANGED <<cs, late>>

(* moreToComeRoundTrip: an unacknowledged write is written and not waited  *)
(* for; if writing fails, Execute looks into the session it has not got.   *)
WriteUnacknowledged ==
  /\ tpc = "wire" /\ cmd.kind = "unack"
  /\ \/ /\ \/ Served(cmd)
           \/ UNCHANGED <<server, applied>>
        /\ err' = Failure("unacknowledged", {}) /\ UNCHANGED panicked
     \/ /\ UNCHANGED <<server, applied>>
        /\ panicked' = TRUE /\ err' = Failure("network", {"Network", "Transient"})
  /\ tpc' = "return"
  /\ UNCHANGED <<sessionVars, op, cmd, opErr, appVars, late>>

(* Error.RetryableWrite, Error.RetryableRead, WriteCommandError.Retryable. *)
RetryableError(e) == "Network" \in e.labels \/ e.code \in {"notMaster", "wcRetryable"}

(* The label of Execute for a write that the application may retry.        *)
RetryLabel(e) ==
  IF op.kind \in Writes /\ op.kind \in Retries /\ RetryableError(e)
     /\ (cs.committing \/ cs.aborting \/ ~TransactionRunning(cs))
  THEN {"RetryableWrite"} ELSE {}

(* A retried commit asks for a majority.                                   *)
RetriedAnew(c) == [c EXCEPT !.txn = @ + 1]
Retried(c) == IF c.committing THEN [c EXCEPT !.majority = TRUE] ELSE c

Return(e) == err' = e /\ tpc' = "return" /\ UNCHANGED <<op, opErr>>

(* An error that is retried once, on a server selected anew, with the same *)
(* number. If that server cannot be had, the error that led here is the    *)
(* result.                                                                 *)
ResultRetry ==
  /\ tpc = "result" /\ err # Success
  /\ op.retryable /\ RetryableError(err) /\ op.retries # 0
  /\ \/ Return(err) /\ UNCHANGED cs
     \/ /\ tpc' = "send" /\ err' = Success
        /\ cs' = Retried(cs)
        /\ op' = [op EXCEPT !.retries = 0, !.majority = cs.committing \/ op.majority]
        /\ UNCHANGED opErr
  /\ UNCHANGED <<didCommit, cmd, panicked, appVars, serverVars>>

NoRetry == ~(op.retryable /\ RetryableError(err) /\ op.retries # 0)

(* The number of the next batch.                                           *)
SameNumber(c) == c
NextNumber(c) == [c EXCEPT !.txn = @ + 1]

(* The next batch, with a number of its own; after the last, the errors    *)
(* collected are returned.                                                 *)
Continue(e) ==
  IF Len(op.docs) > 1
  THEN /\ op' = [op EXCEPT !.docs = Tail(@), !.retries = IF op.retryable THEN 1 ELSE 0]
       /\ cs' = IF op.retryable THEN NextNumber(cs) ELSE cs
       /\ opErr' = e /\ tpc' = "send" /\ err' = Success
  ELSE Return(e) /\ UNCHANGED cs

ResultOK ==
  /\ tpc = "result" /\ err = Success
  /\ Continue(opErr)
  /\ UNCHANGED <<didCommit, cmd, panicked, appVars, serverVars>>

(* A command that failed.                                                  *)
ResultError ==
  /\ tpc = "result" /\ err.code \in CommandCodes /\ NoRetry
  /\ Return(Failure(err.code, err.labels \cup RetryLabel(err) \cup
              IF cs.committing /\ (RetryableError(err) \/ err.code = "maxTime")
              THEN {"UnknownCommit"} ELSE {}))
  /\ UNCHANGED <<sessionVars, cmd, panicked, appVars, serverVars>>

(* A command that was done in part, or not on enough servers.              *)
ResultWriteError ==
  /\ tpc = "result" /\ err.code \in WriteCommandCodes /\ NoRetry
  /\ LET e == Failure(err.code, err.labels \cup RetryLabel(err))
     IN  IF op.ordered /\ op.docs # <<>> /\ err.code = "writeError"
         THEN Return(e) /\ UNCHANGED cs
         ELSE IF cs.committing
         THEN /\ Return(IF err.code = "wcUnsatisfiable" THEN e
                        ELSE [e EXCEPT !.labels = @ \cup {"UnknownCommit"}])
              /\ UNCHANGED cs
         ELSE Continue(e)
  /\ UNCHANGED <<didCommit, cmd, panicked, appVars, serverVars>>

Executing ==
  \/ Send \/ NetworkFails \/ ServerAnswers \/ ServerRefuses \/ WriteConcernFails
  \/ WriteUnacknowledged \/ ResultRetry \/ ResultOK \/ ResultError \/ ResultWriteError
-----------------------------------------------------------------------------
(* mongo.Session *)

Call(who) == calls < MaxCalls /\ tpc = "idle" /\ caller = "application" /\ calls' = calls + 1
             /\ caller' = who

(* An operation of the application, or of the callback of WithTransaction. *)
NewDocs(n) == [i \in 1 .. n |-> docs + i]
Operate(k, n, ordered) ==
  /\ docs + n <= MaxDocs /\ docs' = docs + n
  /\ Execute(k, cs, NewDocs(n), ordered)
CallOperation ==
  /\ Call("application")
  /\ \E k \in {"insert", "update", "find", "command", "unack"}, n \in 0 .. 2, o \in BOOLEAN :
       /\ (k = "insert" /\ n > 0) \/ (k \in {"update", "unack"} /\ n = 1) \/ (k \in {"find", "command"} /\ n = 0)
       /\ n < 2 => o
       /\ Operate(k, n, o)
  /\ UNCHANGED <<didCommit, inTxn, attempt, fnErr>>

(* StartTransaction, of the application or of WithTransaction.             *)
Start(ack) ==
  IF TransactionRunning(cs)
  THEN err' = Failure("state", {}) /\ UNCHANGED <<cs, didCommit, inTxn>>
  ELSE /\ cs' = StartedClient(cs, ack) /\ didCommit' = FALSE
       /\ err' = IF ack THEN Success ELSE Failure("noAck", {})
       /\ inTxn' = IF ack THEN {} ELSE inTxn
CallStart ==
  /\ Call("application")
  /\ \E ack \in BOOLEAN : Start(ack)
  /\ UNCHANGED <<op, tpc, cmd, opErr, panicked, docs, attempt, fnErr, serverVars>>

(* CommitTransaction: no command for an empty transaction.                 *)
WrongState == err' = Failure("state", {}) /\ UNCHANGED <<sessionVars, op, tpc, cmd, opErr, panicked, serverVars>>
NothingToEnd(states) == cs.state = "Starting" \/ (cs.state \in states /\ didCommit)
CommitTransaction ==
  \/ cs.state \in {"None", "Aborted"} /\ WrongState
  \/ /\ NothingToEnd({"InProgress", "Committed"})
     /\ didCommit' = TRUE /\ cs' = [cs EXCEPT !.state = "Committed"] /\ err' = Success
     /\ UNCHANGED <<op, tpc, cmd, opErr, panicked, serverVars>>
  \/ /\ cs.state \in {"InProgress", "Committed"} /\ ~didCommit
     /\ Execute("commit", [cs EXCEPT !.committing = TRUE,
                                     !.retryingCommit = @ \/ cs.state = "Committed"], <<>>, TRUE)
     /\ UNCHANGED didCommit
CallCommit == Call("application") /\ CommitTransaction /\ UNCHANGED <<docs, inTxn, attempt, fnErr>>

AbortTransaction ==
  \/ cs.state \in {"None", "Committed", "Aborted"} /\ WrongState
  \/ /\ NothingToEnd({"InProgress"})
     /\ cs' = AbortedClient(cs) /\ err' = Success
     /\ UNCHANGED <<didCommit, op, tpc, cmd, opErr, panicked, serverVars>>
  \/ /\ cs.state = "InProgress" /\ ~didCommit
     /\ Execute("abort", [cs EXCEPT !.aborting = TRUE], <<>>, TRUE) /\ UNCHANGED didCommit
CallAbort == Call("application") /\ AbortTransaction /\ UNCHANGED <<docs, inTxn, attempt, fnErr>>

(* EndSession aborts a transaction in progress first.                      *)
CallEnd ==
  /\ Call(IF cs.state = "InProgress" THEN "endSession" ELSE "application")
  /\ IF cs.state = "InProgress"
     THEN AbortTransaction
     ELSE /\ cs' = [cs EXCEPT !.terminated = TRUE]
          /\ UNCHANGED <<didCommit, execVars, serverVars>>
  /\ UNCHANGED <<docs, inTxn, attempt, fnErr>>

(* What Execute's caller does with the result: CommitTransaction and       *)
(* AbortTransaction move the state on, whatever it is.                     *)
Finished(c) ==
  IF op.kind = "commit" THEN CommittedClient(c)
  ELSE IF op.kind = "abort" THEN AbortedClient([c EXCEPT !.aborting = FALSE])
  ELSE c
Ends(next) ==
  /\ tpc' = "idle" /\ caller' = next
  /\ op' = NoOp /\ opErr' = Success
  /\ UNCHANGED <<didCommit, cmd, panicked, calls, docs, attempt, serverVars>>
Returned ==
  /\ tpc = "return" /\ caller \in {"application", "endSession"}
  /\ cs' = [Finished(cs) EXCEPT !.terminated = @ \/ caller = "endSession"]
  /\ inTxn' = IF op.kind \in {"insert", "update"} /\ err = Success /\ cmd.auto
              THEN inTxn \cup op.all ELSE inTxn
  /\ err' = IF op.kind = "abort" THEN Success ELSE err
  /\ Ends("application") /\ UNCHANGED fnErr

(* WithTransaction: the callback inserts a document, and fails if that     *)
(* fails, or for reasons of its own; it may abort the transaction itself,  *)
(* and then nothing is committed. A failed callback's transaction is       *)
(* aborted; it runs again after a transient error, until the time is up.   *)
CallWithTransaction ==
  /\ Call("start") /\ attempt' = {}
  /\ UNCHANGED <<sessionVars, execVars, docs, inTxn, fnErr, serverVars>>
WithStart ==
  /\ tpc = "idle" /\ caller = "start"
  /\ Start(TRUE)
  /\ caller' = IF err' = Success THEN "callback" ELSE "application"
  /\ UNCHANGED <<op, tpc, cmd, opErr, panicked, calls, docs, attempt, fnErr, serverVars>>
WithCallback ==
  /\ tpc = "idle" /\ caller = "callback"
  /\ Operate("insert", 1, TRUE)
  /\ attempt' = attempt \cup {docs'}
  /\ UNCHANGED <<didCommit, caller, calls, inTxn, fnErr>>
CheckAbortTransaction(c) == c.state \notin {"None", "Committed", "Aborted"}
CallbackInserted ==
  /\ tpc = "return" /\ caller = "callback" /\ err = Success
  /\ inTxn' = inTxn \cup op.all
  /\ Ends("callbackAborts") /\ UNCHANGED <<cs, err, fnErr>>
CallbackSucceeds ==
  /\ tpc = "return"
  /\ \/ caller = "callback" /\ err = Success /\ inTxn' = inTxn \cup op.all
     \/ caller = "callbackAborts" /\ UNCHANGED inTxn
  /\ cs' = Finished(cs) /\ err' = Success
  /\ Ends(IF CheckAbortTransaction(cs') THEN "commitLoop" ELSE "application")
  /\ UNCHANGED fnErr
CallbackFails ==
  /\ tpc = "return" /\ caller \in {"callback", "callbackAborts"}
  /\ cs' = Finished(cs)
  /\ fnErr' = IF err = Success \/ caller = "callbackAborts" THEN Failure("refused", {}) ELSE err
  /\ Ends("callbackFailed") /\ UNCHANGED <<err, inTxn>>
WithAbort ==
  /\ tpc = "idle" /\ caller \in {"callbackAborts", "callbackFailed"} /\ TransactionRunning(cs)
  /\ AbortTransaction
  /\ UNCHANGED <<caller, calls, docs, inTxn, attempt, fnErr>>
WithAborted ==
  /\ tpc = "return" /\ caller = "callbackFailed"
  /\ cs' = Finished(cs)
  /\ Ends("callbackFailed") /\ UNCHANGED <<err, inTxn, fnErr>>
RunAgain(e) == "Transient" \in e.labels
WithFailed ==
  /\ tpc = "idle" /\ caller = "callbackFailed" /\ ~TransactionRunning(cs)
  /\ \/ caller' = "application"
     \/ caller' = "start" /\ RunAgain(fnErr)
  /\ err' = fnErr /\ fnErr' = Success
  /\ UNCHANGED <<sessionVars, op, tpc, cmd, opErr, panicked, calls, docs, inTxn, attempt, serverVars>>

(* The commit is repeated while its result is unknown, the whole           *)
(* transaction after a transient error.                                    *)
CommitAgain(e) == "UnknownCommit" \in e.labels /\ e.code # "maxTime"
WithCommit ==
  /\ tpc = "idle" /\ caller = "commitLoop"
  /\ CommitTransaction
  /\ UNCHANGED <<caller, calls, docs, inTxn, attempt, fnErr>>
WithCommitted ==
  /\ tpc = "return" /\ caller = "commitLoop"
  /\ cs' = Finished(cs)
  /\ \/ Ends("application")
     \/ err # Success /\ CommitAgain(err) /\ Ends("commitLoop")
     \/ err # Success /\ ~CommitAgain(err) /\ RunAgain(err) /\ Ends("start")
  /\ UNCHANGED <<err, inTxn, fnErr>>

(* A transaction may be aborted by the servers, and a command arrive late. *)
ServerAborts ==
  /\ server.state = "running"
  /\ server' = [server EXCEPT !.state = "aborted", !.docs = {}]
  /\ UNCHANGED <<sessionVars, execVars, appVars, late, applied>>
ArriveLate ==
  /\ late # NoCommand
  /\ Served(late) /\ late' = NoCommand
  /\ UNCHANGED <<sessionVars, execVars, appVars>>

Next ==
  \/ CallOperation \/ CallStart \/ CallCommit \/ CallAbort \/ CallEnd \/ CallWithTransaction
  \/ Executing \/ Returned
  \/ WithStart \/ WithCallback \/ CallbackInserted \/ CallbackSucceeds \/ CallbackFails \/ WithAbort
  \/ WithAborted
  \/ WithFailed \/ WithCommit \/ WithCommitted
  \/ ServerAborts \/ ArriveLate
Spec == Init /\ [][Next]_exVars
-----------------------------------------------------------------------------
(* No document is applied twice, however its command, the replies and the  *)
(* retries are lost or delayed (operation.go, Execute; session.go): a      *)
(* retry has the number of the first attempt, and what has no number is    *)
(* not retried.                                                            *)
AppliedAtMostOnce == \A d \in Docs : applied[d] <= 1

(* WithTransaction may run its callback many times; the writes of at most  *)
(* one run are ever applied (session.go, WithTransaction): it runs again   *)
(* only if the transaction before is certain to be lost.                   *)
CallbackAtMostOnce == Cardinality({d \in attempt : applied[d] > 0}) <= 1

(* What Execute reports as done is done: a number is never used for two    *)
(* writes, of which the servers would skip the second, and a transaction   *)
(* that was committed holds every write it acknowledged.                   *)
SuccessIsApplied ==
  tpc = "return" /\ err = Success =>
    /\ op.kind \in {"insert", "update"} /\ ~cmd.auto => \A d \in op.all : applied[d] = 1
    /\ op.kind = "commit" => \A d \in inTxn : applied[d] = 1

(* The three together: what the servers apply is what was asked for.       *)
AppliedOnce == AppliedAtMostOnce /\ CallbackAtMostOnce /\ SuccessIsApplied

(* A transaction that was told to commit is told again only with majority  *)
(* write concern (UpdateCommitTransactionWriteConcern): another server may *)
(* not have seen the first commit.                                         *)
CommitAgainWithMajority ==
  [][/\ tpc = "send" /\ tpc' = "wire"
     /\ cmd.kind = "commit" /\ cmd'.kind = "commit" /\ cmd'.txn = cmd.txn
     => cmd'.majority]_exVars
=============================================================================
