------------------------- MODULE TransactionsProofs -------------------------
(***************************************************************************)
(* Proofs about Transactions: what a server applies, however commands and  *)
(* replies are lost or delayed.                                            *)
(*                                                                         *)
(* The actions are first brought into a few forms (an operation begins, is *)
(* sent, answered, retried, continued, returns, ends), which say what      *)
(* becomes of each field. Then five invariants, one after the other, each  *)
(* using the ones before: BaseInv (types, flags and numbers), DocsInv      *)
(* (which documents a server can still apply), TxnInv with DoneInv (what a *)
(* success means), CallbackInv (the runs of a callback), MajorityInv.      *)
(***************************************************************************)
EXTENDS Transactions, FiniteSetTheorems, TLAPS

States == {"None", "Starting", "InProgress", "Committed", "Aborted"}
Places == {"idle", "send", "wire", "result", "retry", "return"}
Callers ==
  {"application", "start", "callback", "callbackAborts", "callbackFailed", "commitLoop", "endSession"}
CallKinds == {"insert", "update", "find", "command", "unack"}
ClientRecord ==
  [state : States, txn : Nat, retryingCommit : BOOLEAN, committing : BOOLEAN, aborting : BOOLEAN,
   retryWrite : BOOLEAN, majority : BOOLEAN, terminated : BOOLEAN, dirty : BOOLEAN]
OpRecord ==
  [kind : Kinds \cup {"none"}, docs : Seq(Docs), all : SUBSET Docs, ordered : BOOLEAN,
   session : BOOLEAN, retryable : BOOLEAN, retries : 0 .. 1, majority : BOOLEAN]
CommandRecord ==
  [kind : Kinds \cup {"none"}, docs : SUBSET Docs, txn : Nat, start : BOOLEAN, auto : BOOLEAN,
   majority : BOOLEAN]
ErrorRecord == [code : Codes, labels : SUBSET Labels]
ServerRecord ==
  [txn : Nat, state : {"none", "write", "running", "committed", "aborted"}, docs : SUBSET Docs]

(* The types, with any number of transactions.                              *)
Types ==
  /\ MaxDocs \in Nat
  /\ cs \in ClientRecord /\ op \in OpRecord /\ tpc \in Places
  /\ cmd \in CommandRecord /\ late \in CommandRecord
  /\ err \in ErrorRecord /\ opErr \in ErrorRecord /\ fnErr \in ErrorRecord
  /\ caller \in Callers /\ docs \in 0 .. MaxDocs
  /\ server \in ServerRecord /\ applied \in [Docs -> Nat]
  /\ inTxn \subseteq Docs /\ attempt \subseteq Docs

Active == tpc \in {"send", "wire", "result"}
Sent == tpc \in {"wire", "result"}
Pending == {op.docs[i] : i \in 1 .. Len(op.docs)}
Rest == {op.docs[i] : i \in 2 .. Len(op.docs)}
Head1 == op.docs[1]
(* The operation is an insert with a transaction number of its own.         *)
HasNumber == op.kind = "insert" /\ op.retryable
Inserts == op.kind \in {"insert", "update"}
-----------------------------------------------------------------------------
(* The forms of the actions *)

ServerKept == server' = server /\ late' = late /\ applied' = applied
FlagsKept ==
  /\ cs'.retryingCommit = cs.retryingCommit /\ cs'.committing = cs.committing
  /\ cs'.aborting = cs.aborting /\ cs'.retryWrite = cs.retryWrite /\ cs'.majority = cs.majority
ClientKept == cs'.state = cs.state /\ cs'.txn = cs.txn /\ FlagsKept

(* A call's operation begins with n new documents, and is to be sent; or no *)
(* server was selected.                                                     *)
NewRange(n) == {docs + i : i \in 1 .. n}
Begins(k, n) ==
  /\ tpc = "idle" /\ tpc' = "send" /\ err' = Success /\ opErr' = Success /\ cmd' = cmd
  /\ op'.kind = k /\ op'.docs = NewDocs(n) /\ op'.all = NewRange(n)
  /\ op'.retryable = (k \in {"insert", "update", "find"} /\ op'.session /\ ~TransactionRunning(cs))
  /\ k = "unack" => ~op'.session
  /\ k # "unack" /\ TransactionRunning(cs) => op'.session
  /\ op'.retries # 0 => op'.retryable /\ k \in Retries
  /\ cs'.state = cs.state /\ cs'.retryingCommit = cs.retryingCommit
  /\ cs'.committing = cs.committing /\ cs'.aborting = cs.aborting /\ cs'.majority = cs.majority
  /\ cs'.txn = IF k = "insert" /\ op'.retryable THEN cs.txn + 1 ELSE cs.txn
  /\ k = "insert" /\ op'.retryable => cs'.retryWrite
  /\ k = "update" /\ op'.retryable => ~cs'.retryWrite
NotSelected(k) ==
  /\ tpc = "idle" /\ tpc' = "return" /\ err' = Failure("select", {}) /\ opErr' = Success /\ cmd' = cmd
  /\ op'.kind = k /\ op'.docs = <<>> /\ op'.all = {} /\ ~op'.retryable /\ op'.retries = 0
Calls(k, n) ==
  /\ Begins(k, n) \/ (NotSelected(k) /\ cs' = cs)
  /\ docs' = docs + n /\ docs' <= MaxDocs /\ n \in Nat
  /\ ServerKept /\ inTxn' = inTxn

(* The calls of the application take this form. *)
LEMMA CallsForm ==
  ASSUME Types, tpc = "idle", ~cs.committing, ~cs.aborting,
         NEW k \in CallKinds, NEW n \in 0 .. 2, NEW o \in BOOLEAN, Operate(k, n, o), inTxn' = inTxn
  PROVE  Calls(k, n) /\ cs' \in ClientRecord /\ op' \in OpRecord
<1>1. docs' = docs + n /\ docs' <= MaxDocs /\ ServerKept /\ cmd' = cmd /\ opErr' = Success
  BY DEF Operate, Execute, ServerKept, serverVars
<1>2. /\ NewDocs(n) \in Seq(Docs) /\ {NewDocs(n)[i] : i \in DOMAIN NewDocs(n)} = NewRange(n)
      /\ NewRange(n) \subseteq Docs
  BY <1>1 DEF NewDocs, NewRange, Types, Docs
<1>0. PICK sup \in BOOLEAN :
        /\ TransactionRunning(cs) => sup
        /\ LET r == Retryable(k, cs, sup)
           IN  \/ /\ tpc' = "send" /\ err' = Success
                  /\ cs' = IF r /\ k \in Writes THEN Numbered(k, cs) ELSE cs
                  /\ op' = [kind |-> k, docs |-> NewDocs(n),
                            all |-> {NewDocs(n)[i] : i \in DOMAIN NewDocs(n)},
                            ordered |-> o, session |-> k # "unack" /\ sup, retryable |-> r,
                            retries |-> IF r /\ k \in Retries THEN 1 ELSE 0, majority |-> cs.majority]
               \/ /\ tpc' = "return" /\ err' = Failure("select", {})
                  /\ cs' = cs /\ op' = [NoOp EXCEPT !.kind = k]
  BY DEF Operate, Execute, Supports
<1>3. Retryable(k, cs, sup) = (k \in {"insert", "update", "find"} /\ sup /\ ~TransactionRunning(cs))
  BY DEF Retryable
<1> DEFINE r == Retryable(k, cs, sup)
           se == k # "unack" /\ sup
           ds == NewDocs(n)
           all == {ds[i] : i \in DOMAIN ds}
           q == IF r /\ k \in Retries THEN 1 ELSE 0
           b == k \in Retries
           t == IF k \in Retries /\ ~cs.committing /\ ~cs.aborting THEN cs.txn + 1 ELSE cs.txn
<1>a. \/ /\ tpc' = "send" /\ err' = Success
         /\ cs' = IF r /\ k \in Writes THEN Numbered(k, cs) ELSE cs
         /\ op' = [kind |-> k, docs |-> ds, all |-> all, ordered |-> o, session |-> se, retryable |-> r,
                   retries |-> q, majority |-> cs.majority]
      \/ /\ tpc' = "return" /\ err' = Failure("select", {})
         /\ cs' = cs /\ op' = [NoOp EXCEPT !.kind = k]
  BY <1>0
<1>b. /\ r \in BOOLEAN /\ se \in BOOLEAN /\ cs.majority \in BOOLEAN /\ k \in Kinds \cup {"none"}
      /\ q \in 0 .. 1 /\ b \in BOOLEAN /\ t \in Nat /\ all = NewRange(n)
      /\ t = IF k \in Retries THEN cs.txn + 1 ELSE cs.txn
  BY <1>2 DEF Retryable, Types, ClientRecord, CallKinds, Kinds
<1>c. Numbered(k, cs) = [cs EXCEPT !.retryWrite = b, !.txn = t]
  BY DEF Numbered
<1>d. /\ k = "unack" => ~se
      /\ k # "unack" /\ TransactionRunning(cs) => se
      /\ r = (k \in {"insert", "update", "find"} /\ se /\ ~TransactionRunning(cs))
  BY <1>0, <1>3
<1> HIDE DEF r, se, ds, all, q, b, t
<1>4. op' \in OpRecord /\ cs' \in ClientRecord
  <2>1. Numbered(k, cs) \in ClientRecord
    BY <1>b, <1>c DEF Types, ClientRecord
  <2>2. <<>> \in Seq(Docs) /\ ds \in Seq(Docs) /\ all \in SUBSET Docs
    BY <1>2, <1>b DEF ds
  <2>3. [NoOp EXCEPT !.kind = k] \in OpRecord
    <3>1. NoOp \in OpRecord
      BY <2>2 DEF OpRecord, NoOp
    <3> QED
      BY <1>b, <3>1 DEF OpRecord
  <2>4. [kind |-> k, docs |-> ds, all |-> all, ordered |-> o, session |-> se, retryable |-> r,
         retries |-> q, majority |-> cs.majority] \in OpRecord
    BY <1>b, <2>2 DEF OpRecord
  <2> QED
    BY <1>a, <2>1, <2>3, <2>4 DEF Types
<1>5. Begins(k, n) \/ (NotSelected(k) /\ cs' = cs)
  <2>1. CASE tpc' = "send"
    <3>1. /\ op'.kind = k /\ op'.docs = NewDocs(n) /\ op'.all = NewRange(n) /\ err' = Success
          /\ op'.session = se /\ op'.retryable = r /\ op'.retries = q
          /\ cs' = IF r /\ k \in Writes THEN Numbered(k, cs) ELSE cs
      BY <1>2, <1>a, <1>b, <2>1 DEF ds
    <3>2. r /\ k \in Writes =>
            /\ cs'.state = cs.state /\ cs'.retryingCommit = cs.retryingCommit
            /\ cs'.committing = cs.committing /\ cs'.aborting = cs.aborting /\ cs'.majority = cs.majority
            /\ cs'.txn = (IF k \in Retries THEN cs.txn + 1 ELSE cs.txn) /\ cs'.retryWrite = b
      BY <1>b, <1>c, <3>1 DEF Types, ClientRecord
    <3> QED
      BY <1>1, <1>b, <1>d, <2>1, <3>1, <3>2 DEF q, b, Begins, CallKinds, Writes, Retries
  <2>2. CASE tpc' # "send"
    BY <1>1, <1>a, <2>2 DEF NotSelected, NoOp
  <2> QED
    BY <2>1, <2>2
<1> QED
  BY <1>1, <1>4, <1>5 DEF Calls

(* Operations of the application, or of the callback of WithTransaction.    *)
CallStep(k, n) ==
  /\ k \in CallKinds /\ Calls(k, n) /\ n \in 0 .. 2 /\ didCommit' = didCommit
  /\ (k = "insert" /\ n > 0) \/ (k \in {"update", "unack"} /\ n = 1) \/ (k \in {"find", "command"} /\ n = 0)
  /\ caller' = caller
  /\ \/ caller = "application" /\ attempt' = attempt
     \/ caller = "callback" /\ attempt' = attempt \cup {docs'} /\ k = "insert" /\ n = 1

(* CommitTransaction and AbortTransaction, where they send a command.       *)
Ending(k) ==
  /\ \/ NotSelected(k)
     \/ /\ tpc = "idle" /\ tpc' = "send" /\ err' = Success /\ opErr' = Success /\ cmd' = cmd
        /\ op'.kind = k /\ op'.docs = <<>> /\ op'.all = {} /\ op'.session /\ op'.retryable
        /\ op'.majority = cs.majority
  /\ cs'.state = cs.state /\ cs'.txn = cs.txn /\ cs'.majority = cs.majority
  /\ IF k = "commit"
     THEN /\ cs.state = "InProgress" \/ (cs.state = "Committed" /\ cs'.retryingCommit)
          /\ cs'.committing /\ ~cs'.aborting
     ELSE k = "abort" /\ cs.state = "InProgress" /\ ~cs'.committing /\ cs'.aborting
  /\ cs.retryingCommit => cs'.retryingCommit
  /\ cs'.retryingCommit => cs.retryingCommit \/ cs.state = "Committed"
  /\ ServerKept /\ docs' = docs /\ inTxn' = inTxn /\ attempt' = attempt /\ didCommit' = didCommit
  /\ \/ caller' = caller /\ caller = "application"
     \/ caller' = caller /\ caller = "commitLoop" /\ k = "commit"
     \/ caller' = caller /\ caller \in {"callbackAborts", "callbackFailed"} /\ k = "abort"
     \/ caller = "application" /\ caller' = "endSession" /\ k = "abort"

(* What changes the session only.                                           *)
Stays ==
  cs'.state = cs.state /\ cs'.txn = cs.txn /\ cs'.retryingCommit = cs.retryingCommit
  /\ cs'.majority = cs.majority /\ inTxn' = inTxn
Starts ==
  /\ ~TransactionRunning(cs) /\ cs'.state = "Starting" /\ cs'.txn = cs.txn + 1
  /\ ~cs'.retryingCommit /\ inTxn' = {} /\ didCommit' = FALSE
StartRefused ==
  /\ ~TransactionRunning(cs) /\ cs'.state = cs.state /\ cs'.txn = cs.txn + 1
  /\ ~cs'.retryingCommit /\ inTxn' = inTxn /\ didCommit' = FALSE
CommitsNothing ==
  /\ cs.state \in {"Starting", "InProgress", "Committed"} /\ cs'.state = "Committed" /\ cs'.txn = cs.txn
  /\ cs'.retryingCommit = cs.retryingCommit /\ cs'.majority = cs.majority /\ inTxn' = inTxn
AbortsNothing ==
  /\ TransactionRunning(cs) /\ cs'.state = "Aborted" /\ cs'.txn = cs.txn
  /\ ~cs'.retryingCommit /\ inTxn' = inTxn
IdleStep ==
  /\ tpc = "idle" /\ tpc' = "idle" /\ op' = op /\ cmd' = cmd /\ opErr' = opErr
  /\ ServerKept /\ docs' = docs /\ ~cs'.committing /\ ~cs'.aborting
  /\ Stays \/ Starts \/ StartRefused \/ CommitsNothing \/ AbortsNothing
  /\ CommitsNothing \/ didCommit' \in {didCommit, FALSE}
  /\ caller \in {"commitLoop", "callbackAborts", "callbackFailed"} => cs'.txn = cs.txn
  /\ \/ /\ caller \in {"application", "commitLoop", "callbackAborts", "callbackFailed"}
        /\ caller' = caller /\ attempt' = attempt
     \/ caller = "application" /\ caller' = "start" /\ attempt' = {}
     \/ caller = "start" /\ caller' = "application" /\ attempt' = attempt
     \/ caller = "start" /\ caller' = "callback" /\ attempt' = attempt /\ Starts
     \/ caller = "callbackFailed" /\ caller' \in {"application", "start"} /\ attempt' = attempt /\ Stays

AppKept ==
  caller' = caller /\ docs' = docs /\ inTxn' = inTxn /\ attempt' = attempt /\ didCommit' = didCommit

(* A command is sent, or refused because the session has ended.             *)
Sends ==
  /\ tpc = "send" /\ AppKept /\ ServerKept /\ op' = op /\ opErr' = opErr
  /\ \/ tpc' = "return" /\ err' = Failure("ended", {}) /\ cs' = cs /\ cmd' = cmd
     \/ /\ tpc' = "wire" /\ cmd' = Command(op, cs) /\ cs' = IF op.session THEN ApplyCommand(cs) ELSE cs

(* The end of a round trip: the command was served, or it was not.          *)
RoundTrip ==
  /\ tpc = "wire" /\ AppKept /\ op' = op /\ cmd' = cmd /\ opErr' = opErr /\ ClientKept
  /\ tpc' = IF op.kind = "unack" THEN "return" ELSE "result"
  /\ err' = Success => Served(cmd) /\ Serve(cmd).reply = Success
  /\ op.kind = "commit" /\ "Transient" \in err'.labels => Served(cmd) /\ Serve(cmd).reply # Success
  /\ \/ Served(cmd) /\ late' = late
     \/ server' = server /\ applied' = applied /\ late' \in {late, cmd}

(* Execute retries, returns, or goes on to the next document.               *)
RetriesOp ==
  /\ tpc = "result" /\ AppKept /\ ServerKept /\ cmd' = cmd /\ opErr' = opErr
  /\ op.retryable /\ op.retries # 0
  /\ tpc' = "send" /\ err' = Success
  /\ cs'.state = cs.state /\ cs'.txn = cs.txn /\ cs'.retryingCommit = cs.retryingCommit
  /\ cs'.committing = cs.committing /\ cs'.aborting = cs.aborting /\ cs'.retryWrite = cs.retryWrite
  /\ op'.kind = op.kind /\ op'.docs = op.docs /\ op'.all = op.all
  /\ op'.session = op.session /\ op'.retryable = op.retryable
  /\ op'.retries = 0 /\ (op.kind = "commit" => op'.majority)
ReturnsOp ==
  /\ tpc = "result" /\ AppKept /\ ServerKept /\ cmd' = cmd /\ opErr' = opErr /\ op' = op /\ cs' = cs
  /\ tpc' = "return"
  /\ err' = Success => err = Success /\ opErr = Success /\ Len(op.docs) <= 1
  /\ "Transient" \in err'.labels => "Transient" \in err.labels \cup opErr.labels
NextDocument ==
  /\ tpc = "result" /\ AppKept /\ ServerKept /\ cmd' = cmd
  /\ tpc' = "send" /\ err' = Success /\ Len(op.docs) > 1
  /\ opErr' = Success => opErr = Success /\ err = Success
  /\ cs'.state = cs.state /\ FlagsKept
  /\ cs'.txn = IF op.retryable THEN cs.txn + 1 ELSE cs.txn
  /\ op'.kind = op.kind /\ op'.docs = Tail(op.docs) /\ op'.all = op.all
  /\ op'.session = op.session /\ op'.retryable = op.retryable
  /\ op'.retries # 0 => op.retryable

(* The caller takes the result.                                             *)
EndsOp ==
  /\ tpc = "return" /\ tpc' = "idle" /\ op' = NoOp /\ opErr' = Success /\ cmd' = cmd
  /\ ServerKept /\ docs' = docs /\ attempt' = attempt /\ didCommit' = didCommit
  /\ ~cs'.committing /\ ~cs'.aborting /\ cs'.txn = cs.txn
  /\ IF op.kind = "commit"
     THEN cs'.state = "Committed" /\ cs'.majority /\ cs'.retryingCommit = cs.retryingCommit
     ELSE IF op.kind = "abort"
     THEN cs'.state = "Aborted" /\ ~cs'.retryingCommit
     ELSE /\ cs'.state = cs.state /\ cs'.majority = cs.majority
          /\ cs'.retryingCommit = cs.retryingCommit
  /\ \/ inTxn' = inTxn
     \/ inTxn' = inTxn \cup op.all /\ Inserts /\ err = Success /\ (cmd.auto \/ caller = "callback")
  /\ \/ caller \in {"application", "endSession"} /\ caller' = "application"
     \/ caller = "callback" /\ caller' \in {"commitLoop", "callbackAborts", "callbackFailed"}
     \/ caller = "callbackAborts" /\ caller' \in {"application", "callbackFailed"}
     \/ caller = "callbackFailed" /\ caller' = "callbackFailed"
     \/ caller = "commitLoop" /\ caller' \in {"application", "commitLoop"}
     \/ caller = "commitLoop" /\ caller' = "start" /\ "Transient" \in err.labels

(* What servers do by themselves.                                           *)
Arrives ==
  /\ AppKept /\ tpc' = tpc /\ op' = op /\ cmd' = cmd /\ opErr' = opErr /\ err' = err /\ cs' = cs
  /\ \/ Served(late) /\ late' = NoCommand
     \/ /\ server.state = "running" /\ late' = late /\ applied' = applied
        /\ server' = [server EXCEPT !.state = "aborted", !.docs = {}]

(* Every step has one of these forms.                                       *)
Form ==
  \/ \E k \in CallKinds, n \in 0 .. 2 : CallStep(k, n)
  \/ Ending("commit") \/ Ending("abort") \/ IdleStep
  \/ Sends \/ RoundTrip \/ RetriesOp \/ ReturnsOp \/ NextDocument \/ EndsOp \/ Arrives
-----------------------------------------------------------------------------
(* The first invariant: types, the flags of the session, and numbers *)

(* The operation under way, and who waits for it.                           *)
FlagsInv ==
  /\ cs.committing <=> op.kind = "commit"
  /\ cs.aborting <=> op.kind = "abort"
  /\ tpc = "idle" <=> op.kind = "none"
  /\ op.kind = "commit" => cs.state = "InProgress" \/ (cs.state = "Committed" /\ cs.retryingCommit)
  /\ op.kind = "abort" => cs.state = "InProgress"
  /\ didCommit => ~TransactionRunning(cs)
  /\ op.kind = "commit" => opErr = Success
CallersInv ==
  /\ caller = "start" => op.kind = "none"
  /\ caller = "callback" => op.kind \in {"insert", "none"} /\ TransactionRunning(cs)
  /\ caller = "callback" /\ op.kind = "none" => cs.state = "Starting"
  /\ caller \in {"callbackAborts", "callbackFailed"} => op.kind \in {"abort", "none"}
  /\ caller = "commitLoop" => op.kind \in {"commit", "none"}
  /\ caller = "endSession" => op.kind = "abort"

(* What can be retried is what has a session and is outside of a            *)
(* transaction.                                                             *)
RetryInv ==
  /\ op.retries # 0 => op.retryable
  /\ Active => /\ op.kind \in {"insert", "update", "find"} =>
                    (op.retryable <=> op.session /\ ~TransactionRunning(cs))
               /\ op.kind \in {"command", "unack"} => ~op.retryable
               /\ op.kind = "unack" => ~op.session
               /\ op.kind # "unack" /\ TransactionRunning(cs) => op.session
               /\ op.kind \in {"commit", "abort"} => op.session
               /\ op.kind = "update" => op.retries = 0
               /\ HasNumber => cs.retryWrite /\ cs.txn > 0
               /\ op.kind = "update" /\ op.retryable => ~cs.retryWrite
  /\ op.kind \notin {"insert", "update", "unack"} => op.docs = <<>>
  /\ Active /\ op.kind \in {"insert", "update", "unack"} => op.docs # <<>>
  /\ Len(op.docs) > 1 => op.kind = "insert"

(* Numbers only grow, and everybody's is at most the session's.             *)
NumbersInv ==
  /\ server.txn <= cs.txn /\ cmd.txn <= cs.txn /\ late.txn <= cs.txn
  /\ cs.txn = 0 => cs.state = "None" /\ ~cs.retryingCommit

(* The command that was sent, and the one that may arrive late.             *)
CmdInv ==
  /\ Sent =>
       /\ cmd.kind = op.kind /\ cmd.docs = IF op.docs = <<>> THEN {} ELSE {Head1}
       /\ op.session /\ TransactionRunning(cs) => cs.state = "InProgress" /\ cmd.auto
       /\ op.kind = "commit" => cmd.auto /\ ~cmd.start
       /\ HasNumber => cmd.txn = cs.txn
       /\ cmd.start => TransactionRunning(cs)
       /\ cmd.txn # 0 => cmd.txn = cs.txn
       /\ cmd.auto => cmd.txn # 0
       /\ op.kind = "update" /\ ~cmd.auto => cmd.txn = 0
       /\ ~op.session => cmd.txn = 0 /\ ~cmd.start /\ ~cmd.auto
  /\ late.auto => late.txn # 0
  /\ late.kind = "commit" => late.docs = {} /\ ~late.start

BaseInv == Types /\ FlagsInv /\ CallersInv /\ RetryInv /\ NumbersInv /\ CmdInv
-----------------------------------------------------------------------------
(* Every step has a form, and keeps the types *)

(* The records that stand for nothing have their types. *)
LEMMA EmptyRecords ==
  NoOp \in OpRecord /\ NoCommand \in CommandRecord /\ Success \in ErrorRecord /\ <<>> \in Seq(Docs)
<1>1. <<>> \in Seq(Docs)
  OBVIOUS
<1>2. NoOp \in OpRecord
  BY <1>1 DEF NoOp, OpRecord
<1>3. NoCommand \in CommandRecord
  BY DEF NoCommand, CommandRecord
<1> QED
  BY <1>1, <1>2, <1>3 DEF Success, Failure, ErrorRecord, Codes

(* An error with a known code and known labels is an error. *)
LEMMA FailureType ==
  ASSUME NEW c \in Codes, NEW l \in SUBSET Labels
  PROVE  Failure(c, l) \in ErrorRecord /\ Failure(c, l).code = c /\ Failure(c, l).labels = l
BY DEF Failure, ErrorRecord

(* Execute of a command that ends a transaction. *)
LEMMA ExecuteEnd ==
  ASSUME Types, tpc = "idle", NEW k \in {"commit", "abort"}, NEW c \in ClientRecord,
         c.committing \/ c.aborting, Execute(k, c, <<>>, TRUE)
  PROVE  /\ \/ NotSelected(k)
            \/ /\ tpc' = "send" /\ err' = Success /\ opErr' = Success /\ cmd' = cmd
               /\ op'.kind = k /\ op'.docs = <<>> /\ op'.all = {} /\ op'.session /\ op'.retryable
               /\ op'.majority = c.majority
         /\ cs'.state = c.state /\ cs'.txn = c.txn /\ cs'.majority = c.majority
         /\ cs'.committing = c.committing /\ cs'.aborting = c.aborting
         /\ cs'.retryingCommit = c.retryingCommit
         /\ ServerKept /\ cs' \in ClientRecord /\ op' \in OpRecord
<1> DEFINE e == <<>>
           all == {e[i] : i \in DOMAIN e}
           t == IF k \in Retries /\ ~c.committing /\ ~c.aborting THEN c.txn + 1 ELSE c.txn
           b == k \in Retries
           se == k # "unack" /\ TRUE
           r == Retryable(k, c, TRUE)
           q == IF r /\ k \in Retries THEN 1 ELSE 0
<1>1. /\ \/ /\ tpc' = "send" /\ err' = Success
            /\ cs' = IF r /\ k \in Writes THEN Numbered(k, c) ELSE c
            /\ op' = [kind |-> k, docs |-> e, all |-> all, ordered |-> TRUE, session |-> se,
                      retryable |-> r, retries |-> q, majority |-> c.majority]
         \/ /\ tpc' = "return" /\ err' = Failure("select", {})
            /\ cs' = c /\ op' = [NoOp EXCEPT !.kind = k]
      /\ opErr' = Success /\ cmd' = cmd /\ ServerKept
  BY DEF Execute, Supports, ServerKept, serverVars
<1>2. /\ r = TRUE /\ se = TRUE /\ t = c.txn /\ b = TRUE /\ q = 1 /\ all = {} /\ e = <<>>
      /\ k \in Writes /\ k \in Kinds \cup {"none"} /\ c.majority \in BOOLEAN
  BY DEF Retryable, Retries, Writes, Kinds, ClientRecord
<1>3. Numbered(k, c) = [c EXCEPT !.retryWrite = b, !.txn = t]
  BY DEF Numbered
<1> HIDE DEF r, se, q, all, t, b, e
<1>4. op' \in OpRecord
  <2>1. [NoOp EXCEPT !.kind = k] \in OpRecord
    BY <1>2, EmptyRecords DEF OpRecord
  <2>2. [kind |-> k, docs |-> e, all |-> all, ordered |-> TRUE, session |-> se, retryable |-> r,
         retries |-> q, majority |-> c.majority] \in OpRecord
    BY <1>2, EmptyRecords DEF OpRecord
  <2> QED
    BY <1>1, <2>1, <2>2
<1>5. /\ cs' \in ClientRecord
      /\ cs'.state = c.state /\ cs'.txn = c.txn /\ cs'.majority = c.majority
      /\ cs'.committing = c.committing /\ cs'.aborting = c.aborting
      /\ cs'.retryingCommit = c.retryingCommit
  <2>1. cs' = Numbered(k, c) \/ cs' = c
    BY <1>1
  <2>2. cs' = [c EXCEPT !.retryWrite = TRUE, !.txn = c.txn] \/ cs' = c
    BY <1>2, <1>3, <2>1
  <2> QED
    BY <2>2 DEF ClientRecord
<1>6. CASE tpc' = "send"
  <2>1. /\ op'.kind = k /\ op'.docs = e /\ op'.all = all /\ op'.session = se /\ op'.retryable = r
        /\ op'.majority = c.majority
    BY <1>1, <1>6
  <2> QED
    BY <1>1, <1>2, <1>4, <1>5, <1>6, <2>1
<1>7. CASE tpc' # "send"
  BY <1>1, <1>4, <1>5, <1>7 DEF NotSelected, NoOp
<1> QED
  BY <1>6, <1>7

(* While nothing is under way, no commit or abort is. *)
LEMMA IdleFlags ==
  ASSUME FlagsInv, tpc = "idle"
  PROVE  ~cs.committing /\ ~cs.aborting /\ op.kind = "none"
BY DEF FlagsInv

(* The types of what a call leaves. *)
LEMMA CallTypes ==
  ASSUME Types, NEW k \in CallKinds, NEW n, Calls(k, n), cs' \in ClientRecord, op' \in OpRecord,
         fnErr' = fnErr, caller' \in Callers, attempt' \subseteq Docs
  PROVE  Types'
<1>1. /\ tpc' \in Places /\ cmd' = cmd /\ opErr' = Success /\ server' = server /\ late' = late
      /\ applied' = applied /\ inTxn' = inTxn
  BY DEF Calls, Begins, NotSelected, ServerKept, Places
<1>2. docs' \in 0 .. MaxDocs
  BY DEF Calls, Types
<1>3. err' \in ErrorRecord
  BY EmptyRecords, FailureType DEF Calls, Begins, NotSelected, Codes
<1> QED
  BY <1>1, <1>2, <1>3, EmptyRecords DEF Types

(* An operation of the application or of a callback. *)
LEMMA CallForm ==
  ASSUME Types, FlagsInv, CallersInv, CallOperation \/ WithCallback
  PROVE  Form /\ Types'
<1>1. CASE CallOperation
  <2>1. tpc = "idle" /\ caller = "application" /\ caller' = caller /\ inTxn' = inTxn /\ attempt' = attempt
        /\ fnErr' = fnErr /\ didCommit' = didCommit
    BY <1>1 DEF CallOperation, Call
  <2>2. PICK k \in CallKinds, n \in 0 .. 2, o \in BOOLEAN :
          /\ (k = "insert" /\ n > 0) \/ (k \in {"update", "unack"} /\ n = 1)
             \/ (k \in {"find", "command"} /\ n = 0)
          /\ Operate(k, n, o)
    BY <1>1 DEF CallOperation, CallKinds
  <2>3. Calls(k, n) /\ cs' \in ClientRecord /\ op' \in OpRecord
    BY <2>1, <2>2, CallsForm, IdleFlags
  <2>4. CallStep(k, n)
    BY <2>1, <2>2, <2>3 DEF CallStep
  <2> QED
    BY <2>1, <2>3, <2>4, CallTypes DEF Form, Types
<1>2. CASE WithCallback
  <2>1. /\ tpc = "idle" /\ caller = "callback" /\ caller' = caller /\ inTxn' = inTxn
        /\ attempt' = attempt \cup {docs'} /\ fnErr' = fnErr /\ didCommit' = didCommit
        /\ Operate("insert", 1, TRUE)
    BY <1>2 DEF WithCallback
  <2>2. "insert" \in CallKinds /\ 1 \in 0 .. 2 /\ TRUE \in BOOLEAN
    BY DEF CallKinds
  <2>3. Calls("insert", 1) /\ cs' \in ClientRecord /\ op' \in OpRecord
    BY <2>1, <2>2, CallsForm, IdleFlags
  <2>4. CallStep("insert", 1)
    BY <2>1, <2>2, <2>3 DEF CallStep
  <2>5. docs' \in Docs
    BY <2>3 DEF Calls, Types, Docs
  <2>6. Form
    BY <2>2, <2>4 DEF Form
  <2> QED
    BY <2>1, <2>2, <2>3, <2>5, <2>6, CallTypes DEF Types
<1> QED
  BY <1>1, <1>2

(* The types of what Commit, Abort and the other calls of a session leave. *)
LEMMA SessionTypes ==
  ASSUME Types, cs' \in ClientRecord, op' \in OpRecord, tpc' \in Places, cmd' = cmd, ServerKept,
         err' \in ErrorRecord, opErr' \in ErrorRecord, fnErr' \in ErrorRecord, caller' \in Callers,
         docs' = docs, inTxn' \subseteq Docs, attempt' \subseteq Docs
  PROVE  Types'
BY DEF Types, ServerKept

(* CommitTransaction sends a command, or changes the session only. *)
LEMMA CommitForm ==
  ASSUME Types, FlagsInv, tpc = "idle", CommitTransaction, inTxn' = inTxn, docs' = docs,
         attempt' = attempt, fnErr' = fnErr, caller' = caller, caller \in {"application", "commitLoop"}
  PROVE  Form /\ Types'
<1>1. CASE WrongState
  <2>1. /\ cs' = cs /\ op' = op /\ tpc' = tpc /\ cmd' = cmd /\ opErr' = opErr /\ ServerKept
        /\ didCommit' = didCommit /\ err' = Failure("state", {})
    BY <1>1 DEF WrongState, sessionVars, serverVars, ServerKept
  <2>2. IdleStep
    BY <2>1, IdleFlags DEF IdleStep, Stays
  <2>3. err' \in ErrorRecord
    BY <2>1, FailureType DEF Codes
  <2> QED
    BY <2>1, <2>2, <2>3, SessionTypes DEF Form, Types
<1>2. CASE /\ NothingToEnd({"InProgress", "Committed"})
           /\ didCommit' = TRUE /\ cs' = [cs EXCEPT !.state = "Committed"] /\ err' = Success
           /\ UNCHANGED <<op, tpc, cmd, opErr, panicked, serverVars>>
  <2>1. /\ op' = op /\ tpc' = tpc /\ cmd' = cmd /\ opErr' = opErr /\ ServerKept
    BY <1>2 DEF serverVars, ServerKept
  <2>2. /\ cs' \in ClientRecord /\ cs'.state = "Committed" /\ cs'.txn = cs.txn
        /\ cs'.retryingCommit = cs.retryingCommit /\ cs'.majority = cs.majority
        /\ cs'.committing = cs.committing /\ cs'.aborting = cs.aborting
    BY <1>2 DEF Types, ClientRecord, States
  <2>3. cs.state \in {"Starting", "InProgress", "Committed"}
    BY <1>2 DEF NothingToEnd
  <2>4. IdleStep
    BY <2>1, <2>2, <2>3, IdleFlags DEF IdleStep, CommitsNothing
  <2> QED
    BY <1>2, <2>1, <2>2, <2>4, SessionTypes, EmptyRecords DEF Form, Types
<1>3. CASE /\ cs.state \in {"InProgress", "Committed"} /\ ~didCommit
           /\ Execute("commit", [cs EXCEPT !.committing = TRUE,
                                 !.retryingCommit = @ \/ cs.state = "Committed"], <<>>, TRUE)
           /\ UNCHANGED didCommit
  <2> DEFINE rc == cs.retryingCommit \/ cs.state = "Committed"
             c == [cs EXCEPT !.committing = TRUE, !.retryingCommit = rc]
  <2>1. rc \in BOOLEAN /\ Execute("commit", c, <<>>, TRUE)
    BY <1>3
  <2>2. (cs.retryingCommit => rc) /\ (cs.state = "Committed" => rc) /\ (rc => cs.retryingCommit \/ cs.state = "Committed")
    OBVIOUS
  <2> HIDE DEF rc
  <2>3. /\ c \in ClientRecord /\ c.committing = TRUE /\ c.aborting = cs.aborting /\ c.state = cs.state
        /\ c.txn = cs.txn /\ c.majority = cs.majority /\ c.retryingCommit = rc
    BY <2>1 DEF Types, ClientRecord
  <2> HIDE DEF c
  <2>4. /\ \/ NotSelected("commit")
           \/ /\ tpc' = "send" /\ err' = Success /\ opErr' = Success /\ cmd' = cmd
              /\ op'.kind = "commit" /\ op'.docs = <<>> /\ op'.all = {} /\ op'.session /\ op'.retryable
              /\ op'.majority = c.majority
        /\ cs'.state = c.state /\ cs'.txn = c.txn /\ cs'.majority = c.majority
        /\ cs'.committing = c.committing /\ cs'.aborting = c.aborting
        /\ cs'.retryingCommit = c.retryingCommit
        /\ ServerKept /\ cs' \in ClientRecord /\ op' \in OpRecord
    BY <2>1, <2>3, ExecuteEnd
  <2>5. Ending("commit")
    BY <1>3, <2>2, <2>3, <2>4, IdleFlags DEF Ending
  <2>6. tpc' \in Places /\ cmd' = cmd /\ err' \in ErrorRecord /\ opErr' \in ErrorRecord
    BY <2>4, EmptyRecords, FailureType DEF NotSelected, Places, Codes
  <2> QED
    BY <2>4, <2>5, <2>6, SessionTypes DEF Form, Types
<1> QED
  BY <1>1, <1>2, <1>3 DEF CommitTransaction

(* AbortTransaction sends a command, or changes the session only. *)
LEMMA AbortForm ==
  ASSUME Types, FlagsInv, tpc = "idle", AbortTransaction, inTxn' = inTxn, docs' = docs,
         attempt' = attempt, fnErr' = fnErr, caller' \in Callers,
         \/ caller' = caller /\ caller \in {"application", "callbackAborts", "callbackFailed"}
         \/ caller = "application" /\ caller' = "endSession" /\ cs.state = "InProgress"
  PROVE  Form /\ Types'
<1>1. CASE cs.state \in {"None", "Committed", "Aborted"} /\ WrongState
  <2>1. /\ cs' = cs /\ op' = op /\ tpc' = tpc /\ cmd' = cmd /\ opErr' = opErr /\ ServerKept
        /\ didCommit' = didCommit /\ err' = Failure("state", {})
    BY <1>1 DEF WrongState, sessionVars, serverVars, ServerKept
  <2>2. IdleStep
    BY <1>1, <2>1, IdleFlags DEF IdleStep, Stays
  <2>3. err' \in ErrorRecord
    BY <2>1, FailureType DEF Codes
  <2> QED
    BY <2>1, <2>2, <2>3, SessionTypes DEF Form, Types
<1>2. CASE /\ NothingToEnd({"InProgress"})
           /\ cs' = AbortedClient(cs) /\ err' = Success
           /\ UNCHANGED <<didCommit, op, tpc, cmd, opErr, panicked, serverVars>>
  <2>1. /\ op' = op /\ tpc' = tpc /\ cmd' = cmd /\ opErr' = opErr /\ ServerKept /\ didCommit' = didCommit
    BY <1>2 DEF serverVars, ServerKept
  <2>2. /\ cs' \in ClientRecord /\ cs'.state = "Aborted" /\ cs'.txn = cs.txn
        /\ cs'.retryingCommit = FALSE /\ cs'.committing = FALSE /\ cs'.aborting = FALSE
    BY <1>2 DEF Types, ClientRecord, States, AbortedClient, ClearTransactionOpts
  <2>3. cs.state = "Starting"
    BY <1>2 DEF NothingToEnd, FlagsInv, TransactionRunning
  <2>4. IdleStep
    BY <2>1, <2>2, <2>3 DEF IdleStep, AbortsNothing, TransactionRunning
  <2> QED
    BY <1>2, <2>1, <2>2, <2>4, SessionTypes, EmptyRecords DEF Form, Types
<1>3. CASE /\ cs.state = "InProgress" /\ ~didCommit
           /\ Execute("abort", [cs EXCEPT !.aborting = TRUE], <<>>, TRUE)
           /\ UNCHANGED didCommit
  <2> DEFINE c == [cs EXCEPT !.aborting = TRUE]
  <2>3. /\ c \in ClientRecord /\ c.committing = cs.committing /\ c.aborting = TRUE /\ c.state = cs.state
        /\ c.txn = cs.txn /\ c.majority = cs.majority /\ c.retryingCommit = cs.retryingCommit
        /\ Execute("abort", c, <<>>, TRUE)
    BY <1>3 DEF Types, ClientRecord
  <2> HIDE DEF c
  <2>4. /\ \/ NotSelected("abort")
           \/ /\ tpc' = "send" /\ err' = Success /\ opErr' = Success /\ cmd' = cmd
              /\ op'.kind = "abort" /\ op'.docs = <<>> /\ op'.all = {} /\ op'.session /\ op'.retryable
              /\ op'.majority = c.majority
        /\ cs'.state = c.state /\ cs'.txn = c.txn /\ cs'.majority = c.majority
        /\ cs'.committing = c.committing /\ cs'.aborting = c.aborting
        /\ cs'.retryingCommit = c.retryingCommit
        /\ ServerKept /\ cs' \in ClientRecord /\ op' \in OpRecord
    BY <2>3, ExecuteEnd
  <2>5. Ending("abort")
    BY <1>3, <2>3, <2>4, IdleFlags DEF Ending
  <2>6. tpc' \in Places /\ cmd' = cmd /\ err' \in ErrorRecord /\ opErr' \in ErrorRecord
    BY <2>4, EmptyRecords, FailureType DEF NotSelected, Places, Codes
  <2> QED
    BY <2>4, <2>5, <2>6, SessionTypes DEF Form, Types
<1> QED
  BY <1>1, <1>2, <1>3 DEF AbortTransaction

(* The other calls: they change the session only. *)
LEMMA StartForm ==
  ASSUME Types, FlagsInv, CallersInv, CallStart \/ WithStart
  PROVE  Form /\ Types'
<1>1. /\ tpc = "idle" /\ op' = op /\ tpc' = tpc /\ cmd' = cmd /\ opErr' = opErr /\ docs' = docs
      /\ attempt' = attempt /\ fnErr' = fnErr /\ ServerKept
  BY DEF CallStart, WithStart, Call, serverVars, ServerKept
<1>2. PICK ack \in BOOLEAN : Start(ack) /\ (WithStart => ack)
  BY DEF CallStart, WithStart
<1>3. \/ caller = "application" /\ caller' = caller
      \/ caller = "start" /\ caller' = IF err' = Success THEN "callback" ELSE "application"
  BY DEF CallStart, WithStart, Call
<1>4. CASE TransactionRunning(cs)
  <2>1. /\ err' = Failure("state", {}) /\ cs' = cs /\ didCommit' = didCommit /\ inTxn' = inTxn
    BY <1>2, <1>4 DEF Start
  <2>2. err' \in ErrorRecord /\ err' # Success
    BY <2>1, FailureType DEF Codes, Success, Failure
  <2>3. IdleStep
    BY <1>1, <1>3, <2>1, <2>2, IdleFlags DEF IdleStep, Stays
  <2> QED
    BY <1>1, <1>3, <2>1, <2>2, <2>3, SessionTypes DEF Form, Types, Callers
<1>5. CASE ~TransactionRunning(cs)
  <2>1. /\ cs' = StartedClient(cs, ack) /\ didCommit' = FALSE
        /\ err' = (IF ack THEN Success ELSE Failure("noAck", {}))
        /\ inTxn' = IF ack THEN {} ELSE inTxn
    BY <1>2, <1>5 DEF Start
  <2>2. err' \in ErrorRecord /\ (err' = Success <=> ack)
    BY <2>1, FailureType, EmptyRecords DEF Codes, Success, Failure
  <2>3. /\ cs' \in ClientRecord /\ cs'.txn = cs.txn + 1 /\ ~cs'.retryingCommit
        /\ cs'.state = (IF ack THEN "Starting" ELSE cs.state)
        /\ ~cs'.committing /\ ~cs'.aborting
    <3>0. ~cs.committing /\ ~cs.aborting
      BY <1>1, IdleFlags
    <3> DEFINE t == cs.txn + 1
               n == [cs EXCEPT !.txn = t, !.retryingCommit = FALSE, !.majority = FALSE]
    <3>a. cs \in ClientRecord /\ t \in Nat
      BY DEF Types, ClientRecord
    <3>b. n = [cs EXCEPT !.txn = cs.txn + 1, !.retryingCommit = FALSE, !.majority = FALSE]
      OBVIOUS
    <3>c. t = cs.txn + 1
      OBVIOUS
    <3> HIDE DEF t
    <3>1. /\ n \in ClientRecord /\ n.txn = t /\ n.retryingCommit = FALSE /\ n.state = cs.state
          /\ n.committing = cs.committing /\ n.aborting = cs.aborting
      BY <3>a DEF ClientRecord
    <3>2. cs' = IF ack THEN [n EXCEPT !.state = "Starting"] ELSE ClearTransactionOpts(n)
      BY <2>1, <3>b DEF StartedClient
    <3> HIDE DEF n
    <3>3. CASE ack
      BY <3>0, <3>1, <3>c, <3>2, <3>3 DEF ClientRecord, States
    <3>4. CASE ~ack
      BY <3>0, <3>1, <3>c, <3>2, <3>4 DEF ClientRecord, ClearTransactionOpts
    <3> QED
      BY <3>3, <3>4
  <2>4. IF ack THEN Starts ELSE StartRefused
    BY <1>5, <2>1, <2>3 DEF Starts, StartRefused
  <2>5. caller' = caller \/ (caller = "start" /\ ack /\ caller' = "callback")
    BY <1>2, <1>3, <2>2 DEF CallStart, WithStart, Call
  <2>6. IdleStep
    BY <1>1, <1>3, <2>1, <2>2, <2>3, <2>4, IdleFlags DEF IdleStep
  <2> QED
    BY <1>1, <1>3, <2>1, <2>2, <2>3, <2>6, SessionTypes DEF Form, Types, Callers
<1> QED
  BY <1>4, <1>5

(* CallWithTransaction and the end of a failed WithTransaction. *)
LEMMA WithForm ==
  ASSUME Types, FlagsInv, CallersInv, CallWithTransaction \/ WithFailed
  PROVE  Form /\ Types'
<1>1. /\ tpc = "idle" /\ op' = op /\ tpc' = tpc /\ cmd' = cmd /\ opErr' = opErr /\ docs' = docs
      /\ cs' = cs /\ didCommit' = didCommit /\ inTxn' = inTxn /\ ServerKept
      /\ err' \in {err, fnErr} /\ fnErr' \in {fnErr, Success}
  BY DEF CallWithTransaction, WithFailed, Call, sessionVars, execVars, serverVars, ServerKept
<1>2. \/ caller = "application" /\ caller' = "start" /\ attempt' = {}
      \/ caller = "callbackFailed" /\ caller' \in {"application", "start"} /\ attempt' = attempt
  BY DEF CallWithTransaction, WithFailed, Call
<1>3. IdleStep
  BY <1>1, <1>2, IdleFlags DEF IdleStep, Stays
<1>4. attempt' \subseteq Docs /\ caller' \in Callers
  BY <1>2 DEF Types, Callers
<1> QED
  BY <1>1, <1>3, <1>4, SessionTypes, EmptyRecords DEF Form, Types

(* Commit, abort and the end of the session. *)
LEMMA EndForm ==
  ASSUME Types, FlagsInv, CallersInv, CallCommit \/ WithCommit \/ CallAbort \/ WithAbort \/ CallEnd
  PROVE  Form /\ Types'
<1>1. /\ tpc = "idle" /\ docs' = docs /\ inTxn' = inTxn /\ attempt' = attempt /\ fnErr' = fnErr
  BY DEF CallCommit, WithCommit, CallAbort, WithAbort, CallEnd, Call
<1>2. CASE CallCommit \/ WithCommit
  <2>1. CommitTransaction /\ caller' = caller /\ caller \in {"application", "commitLoop"}
    BY <1>2 DEF CallCommit, WithCommit, Call
  <2> QED
    BY <1>1, <2>1, CommitForm
<1>3. CASE CallAbort \/ WithAbort
  <2>1. AbortTransaction /\ caller' = caller /\ caller \in {"application", "callbackAborts", "callbackFailed"}
    BY <1>3 DEF CallAbort, WithAbort, Call
  <2> QED
    BY <1>1, <2>1, AbortForm DEF Callers
<1>4. CASE CallEnd /\ cs.state = "InProgress"
  <2>1. AbortTransaction /\ caller = "application" /\ caller' = "endSession"
    BY <1>4 DEF CallEnd, Call
  <2> QED
    BY <1>1, <1>4, <2>1, AbortForm DEF Callers
<1>5. CASE CallEnd /\ cs.state # "InProgress"
  <2>1. /\ cs' = [cs EXCEPT !.terminated = TRUE] /\ didCommit' = didCommit /\ op' = op /\ tpc' = tpc
        /\ cmd' = cmd /\ err' = err /\ opErr' = opErr /\ ServerKept
        /\ caller = "application" /\ caller' = caller
    BY <1>5 DEF CallEnd, Call, execVars, serverVars, ServerKept
  <2>2. /\ cs' \in ClientRecord /\ cs'.state = cs.state /\ cs'.txn = cs.txn /\ cs'.majority = cs.majority
        /\ cs'.retryingCommit = cs.retryingCommit /\ cs'.committing = cs.committing
        /\ cs'.aborting = cs.aborting
    BY <2>1 DEF Types, ClientRecord
  <2>3. IdleStep
    BY <1>1, <2>1, <2>2, IdleFlags DEF IdleStep, Stays
  <2> QED
    BY <1>1, <2>1, <2>2, <2>3, SessionTypes DEF Form, Types
<1> QED
  BY <1>2, <1>3, <1>4, <1>5

(* What a server does with a command, by cases.                             *)
ServerIs(t, s, ds) == server'.txn = t /\ server'.state = s /\ server'.docs = ds
TakesPlain(c) == c.txn = 0 /\ server' = server /\ applied' = Apply(c.docs)
TakesWrite(c) ==
  ~c.auto /\ c.txn # 0 /\ c.txn > server.txn /\ ServerIs(c.txn, "write", {}) /\ applied' = Apply(c.docs)
TakesStart(c) ==
  c.auto /\ c.start /\ c.txn > server.txn /\ ServerIs(c.txn, "running", c.docs) /\ applied' = applied
TakesCommit(c) ==
  Runs(c) /\ c.kind = "commit" /\ ServerIs(c.txn, "committed", {}) /\ applied' = Apply(server.docs)
TakesAbort(c) ==
  Runs(c) /\ c.kind = "abort" /\ ServerIs(c.txn, "aborted", {}) /\ applied' = applied
TakesMore(c) ==
  /\ Runs(c) /\ c.kind \notin {"commit", "abort"} /\ applied' = applied
  /\ ServerIs(c.txn, "running", server.docs \cup c.docs)
TakesNot(c) ==
  /\ server' = server /\ applied' = applied /\ c.txn # 0 /\ ~Runs(c)
  /\ c.txn > server.txn => c.auto /\ ~c.start
Takes(c) ==
  \/ TakesPlain(c) \/ TakesWrite(c) \/ TakesStart(c) \/ TakesCommit(c) \/ TakesAbort(c)
  \/ TakesMore(c) \/ TakesNot(c)

(* Apply counts the documents, and only those. *)
LEMMA ApplyFact ==
  ASSUME Types, NEW ds \in SUBSET Docs
  PROVE  /\ Apply(ds) \in [Docs -> Nat]
         /\ \A d \in Docs : Apply(ds)[d] = IF d \in ds THEN applied[d] + 1 ELSE applied[d]
<1> DEFINE new(d) == IF d \in ds THEN applied[d] + 1 ELSE applied[d]
<1>1. \A d \in Docs : new(d) \in Nat
  BY DEF Types
<1>2. Apply(ds) = [d \in Docs |-> new(d)]
  BY DEF Apply
<1> HIDE DEF new
<1>3. Apply(ds) \in [Docs -> Nat] /\ \A d \in Docs : Apply(ds)[d] = new(d)
  BY <1>1, <1>2
<1> QED
  BY <1>3 DEF new

(* Serving a command has one of the cases; its reply is a success unless    *)
(* nothing was done and nothing had been.                                   *)
LEMMA ServeCases ==
  ASSUME Types, NEW c \in CommandRecord, Served(c)
  PROVE  /\ server' \in ServerRecord /\ applied' \in [Docs -> Nat]
         /\ Serve(c).reply \in ErrorRecord
         /\ Takes(c)
         /\ TakesNot(c) => (Serve(c).reply = Success => Repeated(c))
         /\ Serve(c).reply # Success => TakesNot(c) /\ ~Repeated(c)
         /\ "Transient" \in Serve(c).reply.labels => Serve(c).reply # Success
<1>0. server' = Serve(c).server /\ applied' = Serve(c).applied
  BY DEF Served
<1>t. /\ c.txn \in Nat /\ c.docs \in SUBSET Docs /\ server.docs \in SUBSET Docs /\ server.txn \in Nat
      /\ server \in ServerRecord
  BY DEF Types, CommandRecord, ServerRecord
<1>s. \A s \in {"none", "write", "running", "committed", "aborted"}, ds \in SUBSET Docs :
        /\ Begun(c, s, ds) \in ServerRecord /\ Begun(c, s, ds).txn = c.txn
        /\ Begun(c, s, ds).state = s /\ Begun(c, s, ds).docs = ds
  BY <1>t DEF Begun, ServerRecord
<1>e. Success.labels = {} /\ Success \in ErrorRecord
  BY EmptyRecords DEF Success, Failure
<1>a. Apply(c.docs) \in [Docs -> Nat] /\ Apply(server.docs) \in [Docs -> Nat] /\ applied \in [Docs -> Nat]
  BY <1>t, ApplyFact DEF Types
<1>1. CASE c.txn = 0
  <2>1. server' = server /\ applied' = Apply(c.docs) /\ Serve(c).reply = Success
    BY <1>0, <1>1 DEF Serve
  <2> QED
    BY <1>1, <1>t, <1>e, <1>a, <2>1 DEF Takes, TakesPlain, TakesNot
<1>2. CASE c.txn # 0 /\ ~c.auto /\ c.txn > server.txn
  <2>1. server' = Begun(c, "write", {}) /\ applied' = Apply(c.docs) /\ Serve(c).reply = Success
    BY <1>0, <1>2 DEF Serve
  <2>2. server' \in ServerRecord /\ ServerIs(c.txn, "write", {})
    BY <1>s, <2>1 DEF ServerIs
  <2> QED
    BY <1>2, <1>e, <1>a, <2>1, <2>2 DEF Takes, TakesWrite, TakesNot
<1>3. CASE c.txn # 0 /\ c.auto /\ c.start /\ c.txn > server.txn
  <2>1. server' = Begun(c, "running", c.docs) /\ applied' = applied /\ Serve(c).reply = Success
    BY <1>0, <1>3 DEF Serve
  <2>2. server' \in ServerRecord /\ ServerIs(c.txn, "running", c.docs)
    BY <1>s, <1>t, <2>1 DEF ServerIs
  <2> QED
    BY <1>3, <1>e, <1>a, <2>1, <2>2 DEF Takes, TakesStart, TakesNot
<1>4. CASE c.txn # 0 /\ Runs(c)
  <2>1. /\ server' = Joined(c) /\ Serve(c).reply = Success
        /\ applied' = IF c.kind = "commit" THEN Apply(server.docs) ELSE applied
    BY <1>0, <1>4, <1>t DEF Serve, Runs
  <2>2. CASE c.kind = "commit"
    <3>1. server' = Begun(c, "committed", {}) /\ applied' = Apply(server.docs)
      BY <2>1, <2>2 DEF Joined
    <3>2. server' \in ServerRecord /\ ServerIs(c.txn, "committed", {})
      BY <1>s, <3>1 DEF ServerIs
    <3> QED
      BY <1>4, <1>e, <1>a, <2>1, <2>2, <3>1, <3>2 DEF Takes, TakesCommit, TakesNot
  <2>3. CASE c.kind = "abort"
    <3>1. server' = Begun(c, "aborted", {}) /\ applied' = applied
      BY <2>1, <2>3 DEF Joined
    <3>2. server' \in ServerRecord /\ ServerIs(c.txn, "aborted", {})
      BY <1>s, <3>1 DEF ServerIs
    <3> QED
      BY <1>4, <1>e, <1>a, <2>1, <2>3, <3>1, <3>2 DEF Takes, TakesAbort, TakesNot
  <2>4. CASE c.kind \notin {"commit", "abort"}
    <3>1. server' = Begun(c, "running", server.docs \cup c.docs) /\ applied' = applied
      BY <2>1, <2>4 DEF Joined
    <3>2. server.docs \cup c.docs \in SUBSET Docs
      BY <1>t
    <3>3. server' \in ServerRecord /\ ServerIs(c.txn, "running", server.docs \cup c.docs)
      BY <1>s, <3>1, <3>2 DEF ServerIs
    <3> QED
      BY <1>4, <1>e, <1>a, <2>1, <2>4, <3>1, <3>3 DEF Takes, TakesMore, TakesNot
  <2> QED
    BY <2>2, <2>3, <2>4
<1>5. CASE /\ c.txn # 0 /\ ~Runs(c) /\ ~(~c.auto /\ c.txn > server.txn)
           /\ ~(c.auto /\ c.start /\ c.txn > server.txn)
  <2> DEFINE r == IF Repeated(c) THEN Success
                  ELSE IF c.auto THEN Failure("noTxn", {"Transient"})
                  ELSE Failure("refused", {})
  <2>1. server' = server /\ applied' = applied /\ Serve(c).reply = r
    BY <1>0, <1>5 DEF Serve
  <2>2. /\ Failure("noTxn", {"Transient"}) \in ErrorRecord /\ Failure("refused", {}) \in ErrorRecord
        /\ Failure("noTxn", {"Transient"}) # Success /\ Failure("refused", {}) # Success
    BY FailureType DEF Codes, CommandCodes, Labels, Success, Failure
  <2>3. r \in ErrorRecord /\ (r = Success <=> Repeated(c))
    BY <1>e, <2>2
  <2>4. TakesNot(c)
    BY <1>5, <2>1 DEF TakesNot
  <2> HIDE DEF r
  <2> QED
    BY <1>t, <1>a, <1>e, <2>1, <2>3, <2>4 DEF Takes
<1> QED
  BY <1>1, <1>2, <1>3, <1>4, <1>5 DEF Runs

(* The types of what a step of Execute leaves. *)
LEMMA ExecuteTypes ==
  ASSUME Types, cs' \in ClientRecord, op' \in OpRecord, tpc' \in Places, cmd' \in CommandRecord,
         late' \in CommandRecord, err' \in ErrorRecord, opErr' \in ErrorRecord, AppKept, fnErr' = fnErr,
         server' \in ServerRecord, applied' \in [Docs -> Nat]
  PROVE  Types'
BY DEF Types, AppKept

(* ApplyCommand moves the state on, and clears the flags of a transaction   *)
(* that ended. *)
LEMMA ApplyCommandFact ==
  ASSUME NEW c \in ClientRecord
  PROVE  /\ ApplyCommand(c) \in ClientRecord /\ ApplyCommand(c).txn = c.txn
         /\ ApplyCommand(c).retryWrite = c.retryWrite
         /\ \/ ApplyCommand(c) = c /\ (c.committing \/ c.state \in {"None", "InProgress"})
            \/ /\ c.state = "Starting" /\ ApplyCommand(c).state = "InProgress"
               /\ ApplyCommand(c).retryingCommit = c.retryingCommit /\ ~c.committing
               /\ ApplyCommand(c).committing = c.committing /\ ApplyCommand(c).aborting = c.aborting
               /\ ApplyCommand(c).majority = c.majority
            \/ /\ c.state \in {"Committed", "Aborted"} /\ ApplyCommand(c).state = "None"
               /\ ~ApplyCommand(c).retryingCommit /\ ~c.committing
               /\ ~ApplyCommand(c).committing /\ ~ApplyCommand(c).aborting
<1>1. CASE c.committing \/ c.state \in {"None", "InProgress"}
  BY <1>1 DEF ApplyCommand, ClientRecord, States
<1>2. CASE ~c.committing /\ c.state = "Starting"
  <2>1. ApplyCommand(c) = [c EXCEPT !.state = "InProgress"]
    BY <1>2 DEF ApplyCommand
  <2> QED
    BY <1>2, <2>1 DEF ClientRecord, States
<1>3. CASE ~c.committing /\ c.state \in {"Committed", "Aborted"}
  <2> DEFINE n == [c EXCEPT !.retryingCommit = FALSE, !.aborting = FALSE, !.committing = FALSE,
                            !.majority = FALSE]
  <2>1. ApplyCommand(c) = [n EXCEPT !.state = "None"]
    BY <1>3 DEF ApplyCommand, ClearTransactionOpts
  <2>2. /\ n \in ClientRecord /\ n.txn = c.txn /\ n.retryWrite = c.retryWrite
        /\ n.retryingCommit = FALSE /\ n.committing = FALSE /\ n.aborting = FALSE
    BY DEF ClientRecord
  <2> HIDE DEF n
  <2>3. /\ ApplyCommand(c) \in ClientRecord /\ ApplyCommand(c).txn = n.txn
        /\ ApplyCommand(c).retryWrite = n.retryWrite
        /\ ApplyCommand(c).retryingCommit = n.retryingCommit /\ ApplyCommand(c).committing = n.committing
        /\ ApplyCommand(c).aborting = n.aborting /\ ApplyCommand(c).state = "None"
    BY <2>1, <2>2 DEF ClientRecord, States
  <2> QED
    BY <1>3, <2>2, <2>3
<1> QED
  BY <1>1, <1>2, <1>3 DEF ClientRecord, States

(* The command that is sent, field by field. *)
LEMMA CommandFact ==
  ASSUME Types
  PROVE  /\ Command(op, cs) \in CommandRecord /\ Command(op, cs).kind = op.kind
         /\ Command(op, cs).docs = (IF op.docs = <<>> THEN {} ELSE {Head1})
         /\ Command(op, cs).txn = (IF op.session /\ (InTransaction(cs) \/ (op.kind \in Writes /\ cs.retryWrite))
                                   THEN cs.txn ELSE 0)
         /\ Command(op, cs).start <=> op.session /\ cs.state = "Starting"
         /\ Command(op, cs).auto <=> op.session /\ InTransaction(cs)
         /\ Command(op, cs).majority = op.majority
<1> DEFINE ds == IF op.docs = <<>> THEN {} ELSE {op.docs[1]}
           t == IF op.session /\ (InTransaction(cs) \/ (op.kind \in Writes /\ cs.retryWrite))
                THEN cs.txn ELSE 0
           st == op.session /\ cs.state = "Starting"
           au == op.session /\ InTransaction(cs)
<1>1. Command(op, cs) = [kind |-> op.kind, docs |-> ds, txn |-> t, start |-> st, auto |-> au,
                         majority |-> op.majority]
  BY DEF Command
<1>2. op.docs \in Seq(Docs) /\ op.kind \in Kinds \cup {"none"} /\ op.majority \in BOOLEAN /\ cs.txn \in Nat
      /\ op.session \in BOOLEAN
  BY DEF Types, OpRecord, ClientRecord
<1>3. t \in Nat /\ st \in BOOLEAN /\ au \in BOOLEAN
  BY <1>2
<1>4. ds \in SUBSET Docs
  BY <1>2
<1>5. /\ ds = (IF op.docs = <<>> THEN {} ELSE {Head1})
      /\ t = (IF op.session /\ (InTransaction(cs) \/ (op.kind \in Writes /\ cs.retryWrite))
              THEN cs.txn ELSE 0)
      /\ st <=> op.session /\ cs.state = "Starting"
      /\ au <=> op.session /\ InTransaction(cs)
  BY DEF Head1
<1> HIDE DEF ds, t, st, au
<1>6. /\ Command(op, cs) \in CommandRecord /\ Command(op, cs).kind = op.kind
      /\ Command(op, cs).docs = ds /\ Command(op, cs).txn = t /\ Command(op, cs).start = st
      /\ Command(op, cs).auto = au /\ Command(op, cs).majority = op.majority
  BY <1>1, <1>2, <1>3, <1>4 DEF CommandRecord
<1> QED
  BY <1>5, <1>6

(* Sending. *)
LEMMA SendForm ==
  ASSUME Types, Send
  PROVE  Form /\ Types'
<1>1. /\ tpc = "send" /\ op' = op /\ opErr' = opErr /\ AppKept /\ fnErr' = fnErr /\ ServerKept
  BY DEF Send, appVars, serverVars, AppKept, ServerKept
<1>2. CASE cs.terminated /\ op.session
  <2>1. tpc' = "return" /\ err' = Failure("ended", {}) /\ cs' = cs /\ cmd' = cmd
    BY <1>2 DEF Send
  <2>2. err' \in ErrorRecord /\ tpc' \in Places
    BY <2>1, FailureType DEF Codes, Places
  <2>3. Sends
    BY <1>1, <2>1 DEF Sends
  <2> QED
    BY <1>1, <2>1, <2>2, <2>3, ExecuteTypes DEF Form, Types, ServerKept
<1>3. CASE ~(cs.terminated /\ op.session)
  <2>1. /\ cmd' = Command(op, cs) /\ cs' = (IF op.session THEN ApplyCommand(cs) ELSE cs)
        /\ tpc' = "wire" /\ err' = err
    BY <1>3 DEF Send
  <2>2. cmd' \in CommandRecord /\ cs' \in ClientRecord /\ tpc' \in Places
    BY <2>1, CommandFact, ApplyCommandFact DEF Types, Places
  <2>3. Sends
    BY <1>1, <2>1 DEF Sends
  <2> QED
    BY <1>1, <2>1, <2>2, <2>3, ExecuteTypes DEF Form, Types, ServerKept
<1> QED
  BY <1>2, <1>3

(* The end of a round trip, with the command served or not. *)
LEMMA RoundTripForm ==
  ASSUME Types, FlagsInv, CmdInv,
         NetworkFails \/ ServerAnswers \/ ServerRefuses \/ WriteConcernFails \/ WriteUnacknowledged
  PROVE  Form /\ Types'
<1>1. /\ tpc = "wire" /\ op' = op /\ cmd' = cmd /\ opErr' = opErr /\ AppKept /\ fnErr' = fnErr
  BY DEF NetworkFails, ServerAnswers, ServerRefuses, WriteConcernFails, WriteUnacknowledged, Answer,
         sessionVars, appVars, AppKept
<1>k. cmd.kind = op.kind
  BY <1>1 DEF CmdInv, Sent
<1>2. /\ \/ Served(cmd) /\ late' = late
         \/ server' = server /\ applied' = applied /\ late' \in {late, cmd}
  BY DEF NetworkFails, ServerAnswers, ServerRefuses, WriteConcernFails, WriteUnacknowledged, serverVars
<1>3. server' \in ServerRecord /\ applied' \in [Docs -> Nat] /\ late' \in CommandRecord
  BY <1>2, ServeCases DEF Types
<1>4. cs' \in ClientRecord /\ ClientKept
  <2>1. cs' = cs \/ cs' = [cs EXCEPT !.dirty = TRUE]
    BY DEF NetworkFails, ServerAnswers, ServerRefuses, WriteConcernFails, WriteUnacknowledged, sessionVars
  <2> QED
    BY <2>1 DEF Types, ClientRecord, ClientKept, FlagsKept
<1>5. /\ tpc' = (IF op.kind = "unack" THEN "return" ELSE "result")
      /\ tpc' \in Places
  BY <1>k DEF NetworkFails, ServerAnswers, ServerRefuses, WriteConcernFails, WriteUnacknowledged, Answer,
              Places
<1>6. /\ err' \in ErrorRecord
      /\ err' = Success => Served(cmd) /\ Serve(cmd).reply = Success
      /\ op.kind = "commit" /\ "Transient" \in err'.labels => Served(cmd) /\ Serve(cmd).reply # Success
  <2>1. CASE NetworkFails
    <3>1. err' = Failure("network", NetworkLabels)
      BY <2>1 DEF NetworkFails, Answer
    <3>2. NetworkLabels \in SUBSET Labels /\ "network" \in Codes
      BY DEF NetworkLabels, Labels, Codes, CommandCodes
    <3>3. err' \in ErrorRecord /\ err'.code = "network" /\ err'.labels = NetworkLabels
      BY <3>1, <3>2, FailureType
    <3>4. err' # Success
      BY <3>3 DEF Success, Failure
    <3>5. op.kind = "commit" => "Transient" \notin NetworkLabels
      BY DEF NetworkLabels, FlagsInv
    <3> QED
      BY <3>3, <3>4, <3>5
  <2>2. CASE ServerAnswers
    <3>1. Served(cmd) /\ err' = Serve(cmd).reply
      BY <2>2 DEF ServerAnswers, Answer
    <3>2. cmd \in CommandRecord
      BY DEF Types
    <3> QED
      BY <3>1, <3>2, ServeCases
  <2>3. CASE ServerRefuses
    <3> DEFINE ls == IF cmd.auto /\ cmd.kind # "commit" THEN {"Transient"} ELSE {}
    <3>1. \/ err' = Failure("notMaster", ls) \/ err' = Failure("refused", {})
          \/ err' = Failure("maxTime", {}) \/ err' = Failure("writeError", {})
      BY <2>3 DEF ServerRefuses, Answer
    <3>2. ls \in SUBSET Labels /\ (cmd.kind = "commit" => ls = {}) /\ {} \in SUBSET Labels
      BY DEF Labels
    <3> HIDE DEF ls
    <3>3. PICK c \in {"notMaster", "refused", "maxTime", "writeError"}, l \in SUBSET Labels :
            err' = Failure(c, l) /\ (cmd.kind = "commit" => l = {})
      BY <3>1, <3>2
    <3>4. c \in Codes /\ c # "none"
      BY DEF Codes, CommandCodes, WriteCommandCodes
    <3>5. err' \in ErrorRecord /\ err'.code = c /\ err'.labels = l
      BY <3>3, <3>4, FailureType
    <3>6. err' # Success
      BY <3>4, <3>5 DEF Success, Failure
    <3> QED
      BY <1>k, <3>3, <3>5, <3>6
  <2>4. CASE WriteConcernFails
    <3>1. PICK c \in {"wcRetryable", "wcTimeout", "wcUnsatisfiable"} : err' = Failure(c, {})
      BY <2>4 DEF WriteConcernFails, Answer
    <3>2. c \in Codes /\ {} \in SUBSET Labels
      BY DEF Codes, WriteCommandCodes
    <3>3. err' \in ErrorRecord /\ err'.code = c /\ err'.labels = {}
      BY <3>1, <3>2, FailureType
    <3>4. err' # Success
      BY <3>3 DEF Success, Failure
    <3> QED
      BY <3>3, <3>4
  <2>5. CASE WriteUnacknowledged
    <3>1. err' = Failure("unacknowledged", {}) \/ err' = Failure("network", {"Network", "Transient"})
      BY <2>5 DEF WriteUnacknowledged
    <3>2. /\ "unacknowledged" \in Codes /\ "network" \in Codes /\ {} \in SUBSET Labels
          /\ {"Network", "Transient"} \in SUBSET Labels
      BY DEF Codes, CommandCodes, Labels
    <3>3. err' \in ErrorRecord /\ err'.code \in {"unacknowledged", "network"}
      BY <3>1, <3>2, FailureType
    <3>4. err' # Success
      BY <3>3 DEF Success, Failure
    <3>5. op.kind = "unack"
      BY <2>5, <1>k DEF WriteUnacknowledged
    <3> QED
      BY <3>3, <3>4, <3>5
  <2> QED
    BY <2>1, <2>2, <2>3, <2>4, <2>5
<1>7. RoundTrip
  BY <1>1, <1>2, <1>4, <1>5, <1>6 DEF RoundTrip
<1> QED
  BY <1>1, <1>3, <1>4, <1>5, <1>6, <1>7, ExecuteTypes DEF Form, Types

(* What servers do by themselves. *)
LEMMA ArriveForm ==
  ASSUME Types, ServerAborts \/ ArriveLate
  PROVE  Form /\ Types'
<1>1. /\ cs' = cs /\ op' = op /\ tpc' = tpc /\ cmd' = cmd /\ err' = err /\ opErr' = opErr
      /\ AppKept /\ fnErr' = fnErr
  BY DEF ServerAborts, ArriveLate, sessionVars, execVars, appVars, AppKept
<1>2. CASE ServerAborts
  <2>1. server' = [server EXCEPT !.state = "aborted", !.docs = {}] /\ late' = late /\ applied' = applied
    BY <1>2 DEF ServerAborts
  <2>2. server' \in ServerRecord
    BY <2>1 DEF Types, ServerRecord
  <2>3. Arrives
    BY <1>1, <1>2, <2>1 DEF Arrives, ServerAborts
  <2> QED
    BY <1>1, <2>1, <2>2, <2>3, ExecuteTypes DEF Form, Types
<1>3. CASE ArriveLate
  <2>1. Served(late) /\ late' = NoCommand
    BY <1>3 DEF ArriveLate
  <2>2. server' \in ServerRecord /\ applied' \in [Docs -> Nat] /\ late' \in CommandRecord
    BY <2>1, ServeCases, EmptyRecords DEF Types
  <2>3. Arrives
    BY <1>1, <2>1 DEF Arrives
  <2> QED
    BY <1>1, <2>2, <2>3, ExecuteTypes DEF Form, Types
<1> QED
  BY <1>2, <1>3

(* The next document, or the end after the last. *)
LEMMA ContinueForm ==
  ASSUME Types, tpc = "result", AppKept, fnErr' = fnErr, ServerKept, cmd' = cmd,
         NEW e \in ErrorRecord, Continue(e), e = Success => opErr = Success /\ err = Success,
         "Transient" \in e.labels => "Transient" \in err.labels \cup opErr.labels
  PROVE  Form /\ Types'
<1>1. CASE Len(op.docs) > 1
  <2> DEFINE ds == Tail(op.docs)
             q == IF op.retryable THEN 1 ELSE 0
             t == cs.txn + 1
  <2>1. /\ op' = [op EXCEPT !.docs = ds, !.retries = q]
        /\ cs' = (IF op.retryable THEN [cs EXCEPT !.txn = t] ELSE cs)
        /\ opErr' = e /\ tpc' = "send" /\ err' = Success
    BY <1>1 DEF Continue, NextNumber
  <2>2. op.docs \in Seq(Docs) /\ cs.txn \in Nat
    BY DEF Types, OpRecord, ClientRecord
  <2>3. ds \in Seq(Docs) /\ q \in 0 .. 1 /\ t \in Nat /\ (q # 0 => op.retryable)
    BY <1>1, <2>2
  <2>4. ds = Tail(op.docs) /\ t = cs.txn + 1
    OBVIOUS
  <2> HIDE DEF ds, q, t
  <2>5. /\ op' \in OpRecord /\ op'.kind = op.kind /\ op'.docs = ds /\ op'.all = op.all
        /\ op'.session = op.session /\ op'.retryable = op.retryable /\ op'.retries = q
    BY <2>1, <2>3 DEF Types, OpRecord
  <2>6. /\ cs' \in ClientRecord /\ cs'.state = cs.state /\ FlagsKept
        /\ cs'.txn = IF op.retryable THEN t ELSE cs.txn
    <3>1. CASE op.retryable
      BY <2>1, <2>3, <3>1 DEF Types, ClientRecord, FlagsKept
    <3>2. CASE ~op.retryable
      BY <2>1, <3>2 DEF Types, FlagsKept
    <3> QED
      BY <3>1, <3>2
  <2>7. NextDocument
    BY <1>1, <2>1, <2>3, <2>4, <2>5, <2>6 DEF NextDocument
  <2>8. tpc' \in Places /\ err' \in ErrorRecord
    BY <2>1, EmptyRecords DEF Places
  <2> QED
    BY <2>1, <2>5, <2>6, <2>7, <2>8, ExecuteTypes DEF Form, Types, ServerKept
<1>2. CASE ~(Len(op.docs) > 1)
  <2>0. Len(op.docs) <= 1
    BY <1>2 DEF Types, OpRecord
  <2>1. err' = e /\ tpc' = "return" /\ op' = op /\ opErr' = opErr /\ cs' = cs
    BY <1>2 DEF Continue, Return
  <2>2. ReturnsOp
    BY <2>0, <2>1 DEF ReturnsOp
  <2>3. tpc' \in Places
    BY <2>1 DEF Places
  <2> QED
    BY <2>1, <2>2, <2>3, ExecuteTypes DEF Form, Types, ServerKept
<1> QED
  BY <1>1, <1>2

(* An error that is returned, which is none of success. *)
LEMMA ReturnForm ==
  ASSUME Types, tpc = "result", AppKept, fnErr' = fnErr, ServerKept, cmd' = cmd, cs' = cs,
         NEW e \in ErrorRecord, Return(e), e # Success,
         "Transient" \in e.labels => "Transient" \in err.labels \cup opErr.labels
  PROVE  Form /\ Types'
<1>1. err' = e /\ tpc' = "return" /\ op' = op /\ opErr' = opErr
  BY DEF Return
<1>2. ReturnsOp
  BY <1>1 DEF ReturnsOp
<1>3. tpc' \in Places
  BY <1>1 DEF Places
<1> QED
  BY <1>1, <1>2, <1>3, ExecuteTypes DEF Form, Types, ServerKept

(* What Execute does with the result of a round trip. *)
LEMMA ResultForm ==
  ASSUME Types, FlagsInv, ResultRetry \/ ResultOK \/ ResultError \/ ResultWriteError
  PROVE  Form /\ Types'
<1>1. tpc = "result" /\ AppKept /\ fnErr' = fnErr /\ ServerKept /\ cmd' = cmd
  BY DEF ResultRetry, ResultOK, ResultError, ResultWriteError, AppKept, sessionVars, appVars,
         ServerKept, serverVars
<1>t. err \in ErrorRecord /\ opErr \in ErrorRecord /\ err.labels \in SUBSET Labels /\ err.code \in Codes
  BY DEF Types, ErrorRecord
<1>s. Success.code = "none"
  BY DEF Success, Failure
<1>l. RetryLabel(err) \in SUBSET Labels /\ "Transient" \notin RetryLabel(err)
  BY DEF RetryLabel, Labels
<1>2. CASE ResultRetry
  <2>1. CASE Return(err) /\ cs' = cs
    BY <1>1, <1>2, <1>t, <2>1, ReturnForm DEF ResultRetry
  <2>2. CASE ~(Return(err) /\ cs' = cs)
    <3> DEFINE m == cs.committing \/ op.majority
    <3>1. /\ tpc' = "send" /\ err' = Success /\ opErr' = opErr /\ cs' = Retried(cs)
          /\ op' = [op EXCEPT !.retries = 0, !.majority = m] /\ op.retryable /\ op.retries # 0
      BY <1>2, <2>2 DEF ResultRetry
    <3>2. m \in BOOLEAN /\ (op.kind = "commit" => m)
      BY DEF FlagsInv
    <3> HIDE DEF m
    <3>3. /\ op' \in OpRecord /\ op'.kind = op.kind /\ op'.docs = op.docs /\ op'.all = op.all
          /\ op'.session = op.session /\ op'.retryable = op.retryable /\ op'.retries = 0
          /\ op'.majority = m
      <4>1. op \in OpRecord /\ 0 \in 0 .. 1
        BY DEF Types
      <4>2. op' = [op EXCEPT !.retries = 0, !.majority = m]
        BY <3>1
      <4> QED
        BY <3>2, <4>1, <4>2 DEF OpRecord
    <3>4. /\ cs' \in ClientRecord /\ cs'.state = cs.state /\ cs'.txn = cs.txn
          /\ cs'.retryingCommit = cs.retryingCommit /\ cs'.committing = cs.committing
          /\ cs'.aborting = cs.aborting /\ cs'.retryWrite = cs.retryWrite
      <4>1. cs' = [cs EXCEPT !.majority = TRUE] \/ cs' = cs
        BY <3>1 DEF Retried
      <4> QED
        BY <4>1 DEF Types, ClientRecord
    <3>5. RetriesOp
      BY <1>1, <3>1, <3>2, <3>3, <3>4 DEF RetriesOp
    <3>6. tpc' \in Places /\ err' \in ErrorRecord
      BY <3>1, EmptyRecords DEF Places
    <3> QED
      BY <1>1, <3>1, <3>3, <3>4, <3>5, <3>6, ExecuteTypes DEF Form, Types, ServerKept
  <2> QED
    BY <2>1, <2>2
<1>3. CASE ResultOK
  BY <1>1, <1>3, <1>t, ContinueForm DEF ResultOK
<1>4. CASE ResultError
  <2> DEFINE ls == err.labels \cup RetryLabel(err) \cup
                   IF cs.committing /\ (RetryableError(err) \/ err.code = "maxTime")
                   THEN {"UnknownCommit"} ELSE {}
             e == Failure(err.code, ls)
  <2>1. Return(e) /\ cs' = cs /\ err.code # "none"
    BY <1>4 DEF ResultError, sessionVars, CommandCodes
  <2>2. ls \in SUBSET Labels /\ ("Transient" \in ls => "Transient" \in err.labels)
    BY <1>t, <1>l DEF Labels
  <2> HIDE DEF ls
  <2>3. e \in ErrorRecord /\ e.code = err.code /\ e.labels = ls
    BY <1>t, <2>2, FailureType
  <2>4. e # Success
    BY <1>s, <2>1, <2>3
  <2> HIDE DEF e
  <2> QED
    BY <1>1, <2>1, <2>2, <2>3, <2>4, ReturnForm
<1>5. CASE ResultWriteError
  <2> DEFINE ls == err.labels \cup RetryLabel(err)
             e == Failure(err.code, ls)
             f == IF err.code = "wcUnsatisfiable" THEN e
                  ELSE [e EXCEPT !.labels = @ \cup {"UnknownCommit"}]
  <2>1. (Return(e) /\ cs' = cs) \/ (Return(f) /\ cs' = cs) \/ Continue(e)
    BY <1>5 DEF ResultWriteError
  <2>0. err.code # "none"
    BY <1>5 DEF ResultWriteError, WriteCommandCodes
  <2>2. ls \in SUBSET Labels /\ ("Transient" \in ls => "Transient" \in err.labels)
    BY <1>t, <1>l
  <2> HIDE DEF ls
  <2>3. e \in ErrorRecord /\ e.code = err.code /\ e.labels = ls
    BY <1>t, <2>2, FailureType
  <2>4. e # Success
    BY <1>s, <2>0, <2>3
  <2> HIDE DEF e
  <2>5. f \in ErrorRecord /\ f.code = err.code /\ ("Transient" \in f.labels => "Transient" \in err.labels)
    <3>1. e.labels \cup {"UnknownCommit"} \in SUBSET Labels
      BY <2>2, <2>3 DEF Labels
    <3> DEFINE g == [e EXCEPT !.labels = @ \cup {"UnknownCommit"}]
    <3>2. g \in ErrorRecord /\ g.code = e.code /\ g.labels = e.labels \cup {"UnknownCommit"}
      BY <2>3, <3>1 DEF ErrorRecord
    <3>3. f = IF err.code = "wcUnsatisfiable" THEN e ELSE g
      OBVIOUS
    <3> HIDE DEF g, f
    <3> QED
      BY <2>2, <2>3, <3>2, <3>3
  <2>6. f # Success
    BY <1>s, <2>0, <2>5
  <2> HIDE DEF f
  <2>7. CASE Return(e) /\ cs' = cs
    BY <1>1, <2>2, <2>3, <2>4, <2>7, ReturnForm
  <2>8. CASE Return(f) /\ cs' = cs
    BY <1>1, <2>5, <2>6, <2>8, ReturnForm
  <2>9. CASE Continue(e)
    BY <1>1, <2>2, <2>3, <2>4, <2>9, ContinueForm
  <2> QED
    BY <2>1, <2>7, <2>8, <2>9
<1> QED
  BY <1>2, <1>3, <1>4, <1>5

(* The session after the end of an operation. *)
LEMMA FinishedFact ==
  ASSUME Types, FlagsInv
  PROVE  /\ Finished(cs) \in ClientRecord /\ Finished(cs).txn = cs.txn
         /\ ~Finished(cs).committing /\ ~Finished(cs).aborting
         /\ IF op.kind = "commit"
            THEN /\ Finished(cs).state = "Committed" /\ Finished(cs).majority
                 /\ Finished(cs).retryingCommit = cs.retryingCommit
            ELSE IF op.kind = "abort"
            THEN Finished(cs).state = "Aborted" /\ ~Finished(cs).retryingCommit
            ELSE Finished(cs) = cs
<1>0. cs \in ClientRecord
  BY DEF Types
<1>1. CASE op.kind = "commit"
  <2>1. Finished(cs) = [cs EXCEPT !.committing = FALSE, !.state = "Committed", !.majority = TRUE]
    BY <1>1 DEF Finished, CommittedClient
  <2>2. ~cs.aborting
    BY <1>1 DEF FlagsInv
  <2> QED
    BY <1>0, <1>1, <2>1, <2>2 DEF ClientRecord, States
<1>2. CASE op.kind = "abort"
  <2> DEFINE n == [cs EXCEPT !.aborting = FALSE]
             c == [n EXCEPT !.retryingCommit = FALSE, !.aborting = FALSE, !.committing = FALSE,
                            !.majority = FALSE]
  <2>1. Finished(cs) = [c EXCEPT !.state = "Aborted"]
    BY <1>2 DEF Finished, AbortedClient, ClearTransactionOpts
  <2>2. n \in ClientRecord /\ n.txn = cs.txn
    BY <1>0 DEF ClientRecord
  <2> HIDE DEF n
  <2>3. /\ c \in ClientRecord /\ c.txn = cs.txn /\ c.retryingCommit = FALSE /\ c.committing = FALSE
        /\ c.aborting = FALSE
    BY <2>2 DEF ClientRecord
  <2> HIDE DEF c
  <2> QED
    BY <1>2, <2>1, <2>3 DEF ClientRecord, States
<1>3. CASE op.kind \notin {"commit", "abort"}
  BY <1>0, <1>3 DEF Finished, FlagsInv
<1> QED
  BY <1>1, <1>2, <1>3

(* The caller takes the result of its operation. *)
LEMMA ReturnedForm ==
  ASSUME Types, FlagsInv, CallersInv,
         Returned \/ CallbackInserted \/ CallbackSucceeds \/ CallbackFails \/ WithAborted \/ WithCommitted
  PROVE  Form /\ Types'
<1>1. /\ tpc = "return" /\ tpc' = "idle" /\ op' = NoOp /\ opErr' = Success /\ cmd' = cmd /\ docs' = docs
      /\ attempt' = attempt /\ didCommit' = didCommit /\ ServerKept
  BY DEF Returned, CallbackInserted, CallbackSucceeds, CallbackFails, WithAborted, WithCommitted,
         Ends, serverVars, ServerKept
<1>2. op.kind # "none"
  BY <1>1 DEF FlagsInv
<1>f. /\ CallbackSucceeds /\ caller = "callback" => CheckAbortTransaction(cs')
      /\ CallbackSucceeds /\ caller = "callbackAborts" => ~CheckAbortTransaction(cs')
  <2>1. CallbackSucceeds => cs' = Finished(cs)
    BY DEF CallbackSucceeds
  <2>2. caller = "callback" => op.kind = "insert" /\ TransactionRunning(cs)
    BY <1>2 DEF CallersInv
  <2>3. caller = "callbackAborts" => op.kind = "abort"
    BY <1>2 DEF CallersInv
  <2> QED
    BY <2>1, <2>2, <2>3, FinishedFact DEF CheckAbortTransaction, TransactionRunning
<1>3. /\ \/ caller \in {"application", "endSession"} /\ caller' = "application"
         \/ caller = "callback" /\ caller' \in {"commitLoop", "callbackAborts", "callbackFailed"}
         \/ caller = "callbackAborts" /\ caller' \in {"application", "callbackFailed"}
         \/ caller = "callbackFailed" /\ caller' = "callbackFailed"
         \/ caller = "commitLoop" /\ caller' \in {"application", "commitLoop"}
         \/ caller = "commitLoop" /\ caller' = "start" /\ "Transient" \in err.labels
      /\ caller' \in Callers
  BY <1>f DEF Returned, CallbackInserted, CallbackSucceeds, CallbackFails, WithAborted, WithCommitted, Ends,
              RunAgain, Callers
<1>4. \/ inTxn' = inTxn
      \/ inTxn' = inTxn \cup op.all /\ Inserts /\ err = Success /\ (cmd.auto \/ caller = "callback")
  BY <1>2 DEF Returned, CallbackInserted, CallbackSucceeds, CallbackFails, WithAborted, WithCommitted,
              Inserts, CallersInv
<1>5. /\ cs' \in ClientRecord
      /\ cs'.txn = cs.txn /\ ~cs'.committing /\ ~cs'.aborting
      /\ IF op.kind = "commit"
         THEN cs'.state = "Committed" /\ cs'.majority /\ cs'.retryingCommit = cs.retryingCommit
         ELSE IF op.kind = "abort"
         THEN cs'.state = "Aborted" /\ ~cs'.retryingCommit
         ELSE /\ cs'.state = cs.state /\ cs'.majority = cs.majority
              /\ cs'.retryingCommit = cs.retryingCommit
  <2>1. CASE CallbackSucceeds \/ CallbackFails \/ WithAborted \/ WithCommitted
    <3>1. cs' = Finished(cs)
      BY <2>1 DEF CallbackSucceeds, CallbackFails, WithAborted, WithCommitted
    <3> QED
      BY <3>1, FinishedFact
  <2>2. CASE CallbackInserted
    <3>1. cs' = cs /\ op.kind = "insert"
      BY <1>2, <2>2 DEF CallbackInserted, CallersInv
    <3> QED
      BY <3>1 DEF FlagsInv, Types
  <2>3. CASE Returned
    <3> DEFINE b == Finished(cs).terminated \/ caller = "endSession"
               f == Finished(cs)
    <3>1. cs' = [f EXCEPT !.terminated = b] /\ b \in BOOLEAN
      BY <2>3 DEF Returned
    <3> HIDE DEF b
    <3>2. f \in ClientRecord
      BY FinishedFact
    <3>3. f = Finished(cs)
      OBVIOUS
    <3> HIDE DEF f
    <3>4. /\ cs' \in ClientRecord /\ cs'.txn = f.txn /\ cs'.committing = f.committing
          /\ cs'.aborting = f.aborting /\ cs'.state = f.state /\ cs'.majority = f.majority
          /\ cs'.retryingCommit = f.retryingCommit
      BY <3>1, <3>2 DEF ClientRecord
    <3> QED
      BY <3>3, <3>4, FinishedFact
  <2> QED
    BY <2>1, <2>2, <2>3
<1>6. err' \in ErrorRecord /\ fnErr' \in ErrorRecord
  <2>1. err' \in {err, Success} /\ fnErr' \in {fnErr, err, Failure("refused", {})}
    BY DEF Returned, CallbackInserted, CallbackSucceeds, CallbackFails, WithAborted, WithCommitted
  <2>2. Failure("refused", {}) \in ErrorRecord
    BY FailureType DEF Codes, CommandCodes
  <2> QED
    BY <2>1, <2>2, EmptyRecords DEF Types
<1>7. inTxn' \subseteq Docs
  BY <1>4 DEF Types, OpRecord
<1>8. EndsOp
  BY <1>1, <1>3, <1>4, <1>5 DEF EndsOp
<1>9. tpc' \in Places /\ attempt' \subseteq Docs
  BY <1>1 DEF Places, Types
<1> QED
  BY <1>1, <1>3, <1>5, <1>6, <1>7, <1>8, <1>9, SessionTypes, EmptyRecords DEF Form

(* Every step has a form and keeps the types. *)
LEMMA StepForm ==
  ASSUME Types, FlagsInv, CallersInv, CmdInv, Next
  PROVE  Form /\ Types'
<1>1. CASE CallOperation \/ WithCallback
  BY <1>1, CallForm
<1>2. CASE CallStart \/ WithStart
  BY <1>2, StartForm
<1>3. CASE CallWithTransaction \/ WithFailed
  BY <1>3, WithForm
<1>4. CASE CallCommit \/ WithCommit \/ CallAbort \/ WithAbort \/ CallEnd
  BY <1>4, EndForm
<1>5. CASE Send
  BY <1>5, SendForm
<1>6. CASE NetworkFails \/ ServerAnswers \/ ServerRefuses \/ WriteConcernFails \/ WriteUnacknowledged
  BY <1>6, RoundTripForm
<1>7. CASE ResultRetry \/ ResultOK \/ ResultError \/ ResultWriteError
  BY <1>7, ResultForm
<1>8. CASE Returned \/ CallbackInserted \/ CallbackSucceeds \/ CallbackFails \/ WithAborted \/ WithCommitted
  BY <1>8, ReturnedForm
<1>9. CASE ServerAborts \/ ArriveLate
  BY <1>9, ArriveForm
<1> QED
  BY <1>1, <1>2, <1>3, <1>4, <1>5, <1>6, <1>7, <1>8, <1>9 DEF Next, Executing
-----------------------------------------------------------------------------
(* The first invariant is kept *)

(* A call begins. *)
LEMMA BaseCall ==
  ASSUME BaseInv, Types', NEW k \in CallKinds, NEW n \in 0 .. 2, CallStep(k, n)
  PROVE  BaseInv'
<1>1. /\ op.kind = "none" /\ tpc = "idle" /\ k \in {"insert", "update", "find", "command", "unack"}
      /\ ~cs.committing /\ ~cs.aborting
  BY DEF BaseInv, FlagsInv, CallStep, Calls, Begins, NotSelected, CallKinds
<1>2. /\ cs'.state = cs.state /\ cs'.committing = cs.committing /\ cs'.aborting = cs.aborting
      /\ cs'.retryingCommit = cs.retryingCommit /\ cs'.txn >= cs.txn /\ cs'.txn \in Nat /\ cs.txn \in Nat
      /\ op'.kind = k /\ tpc' \in {"send", "return"} /\ cmd' = cmd /\ opErr' = Success
      /\ ServerKept /\ didCommit' = didCommit /\ caller' = caller
  BY DEF CallStep, Calls, Begins, NotSelected, BaseInv, Types, ClientRecord
<1>3. FlagsInv'
  BY <1>1, <1>2 DEF FlagsInv, BaseInv, TransactionRunning
<1>4. CallersInv'
  BY <1>1, <1>2 DEF CallStep, CallersInv, BaseInv, TransactionRunning
<1>5. RetryInv'
  <2>1. CASE Begins(k, n)
    <3>1. /\ op'.docs = NewDocs(n) /\ tpc' = "send"
          /\ op'.retryable = (k \in {"insert", "update", "find"} /\ op'.session /\ ~TransactionRunning(cs))
          /\ k = "unack" => ~op'.session
          /\ k # "unack" /\ TransactionRunning(cs) => op'.session
          /\ op'.retries # 0 => op'.retryable /\ k \in Retries
          /\ cs'.txn = IF k = "insert" /\ op'.retryable THEN cs.txn + 1 ELSE cs.txn
          /\ k = "insert" /\ op'.retryable => cs'.retryWrite
          /\ k = "update" /\ op'.retryable => ~cs'.retryWrite
      BY <2>1 DEF Begins
    <3>2. Len(op'.docs) = n /\ (op'.docs = <<>> <=> n = 0)
      BY <3>1 DEF NewDocs
    <3>3. /\ n > 0 <=> k \in {"insert", "update", "unack"}
          /\ n > 1 => k = "insert"
      BY DEF CallStep
    <3>4. /\ op'.kind \notin {"insert", "update", "unack"} => op'.docs = <<>>
          /\ op'.kind \in {"insert", "update", "unack"} => op'.docs # <<>>
          /\ Len(op'.docs) > 1 => op'.kind = "insert"
      BY <1>1, <1>2, <3>2, <3>3
    <3>5. /\ op'.retries # 0 => op'.retryable
          /\ k = "update" => op'.retries = 0
          /\ k = "insert" /\ op'.retryable => cs'.txn > 0
      BY <1>2, <3>1 DEF Retries
    <3> QED
      BY <1>1, <1>2, <3>1, <3>4, <3>5 DEF RetryInv, Active, HasNumber, TransactionRunning
  <2>2. CASE NotSelected(k)
    <3>1. op'.docs = <<>> /\ op'.retries = 0 /\ tpc' = "return"
      BY <2>2 DEF NotSelected
    <3> QED
      BY <3>1 DEF RetryInv, Active
  <2> QED
    BY <2>1, <2>2 DEF CallStep, Calls
<1>6. NumbersInv'
  <2>1. server.txn \in Nat /\ cmd.txn \in Nat /\ late.txn \in Nat
    BY DEF BaseInv, Types, ServerRecord, CommandRecord
  <2> QED
    BY <1>2, <2>1 DEF NumbersInv, BaseInv, ServerKept
<1>7. CmdInv'
  BY <1>2 DEF CmdInv, BaseInv, Sent, ServerKept
<1> QED
  BY <1>3, <1>4, <1>5, <1>6, <1>7 DEF BaseInv

(* A commit or an abort begins. *)
LEMMA BaseEnding ==
  ASSUME BaseInv, Types', NEW k \in {"commit", "abort"}, Ending(k)
  PROVE  BaseInv'
<1>1. op.kind = "none" /\ tpc = "idle" /\ ~cs.committing /\ ~cs.aborting
  BY DEF BaseInv, FlagsInv, Ending, NotSelected
<1>2. /\ op'.kind = k /\ tpc' \in {"send", "return"} /\ cmd' = cmd /\ opErr' = Success /\ op'.docs = <<>>
      /\ cs'.state = cs.state /\ cs'.txn = cs.txn /\ ServerKept /\ didCommit' = didCommit
      /\ op'.retries # 0 => op'.retryable
      /\ tpc' = "send" => op'.session
  BY DEF Ending, NotSelected
<1>3. FlagsInv'
  BY <1>1, <1>2 DEF Ending, FlagsInv, BaseInv, TransactionRunning
<1>4. CallersInv'
  BY <1>1, <1>2 DEF Ending, CallersInv, BaseInv, TransactionRunning
<1>5. RetryInv'
  <2>1. Len(op'.docs) = 0
    BY <1>2
  <2> QED
    BY <1>2, <2>1 DEF RetryInv, Active, HasNumber
<1>6. NumbersInv'
  BY <1>2 DEF NumbersInv, BaseInv, ServerKept, Ending
<1>7. CmdInv'
  BY <1>2 DEF CmdInv, BaseInv, Sent, ServerKept
<1> QED
  BY <1>3, <1>4, <1>5, <1>6, <1>7 DEF BaseInv

(* The session changes while nothing is under way. *)
LEMMA BaseIdle ==
  ASSUME BaseInv, Types', IdleStep
  PROVE  BaseInv'
<1>1. /\ op.kind = "none" /\ tpc = "idle" /\ tpc' = "idle" /\ op' = op /\ cmd' = cmd /\ opErr' = opErr
      /\ ServerKept /\ ~cs'.committing /\ ~cs'.aborting
  BY DEF BaseInv, FlagsInv, IdleStep
<1>2. cs.txn \in Nat /\ cs'.txn \in {cs.txn, cs.txn + 1}
  BY DEF BaseInv, Types, ClientRecord, IdleStep, Stays, Starts, StartRefused, CommitsNothing, AbortsNothing
<1>3. FlagsInv'
  <2>1. didCommit' => ~(cs'.state \in {"Starting", "InProgress"})
    BY DEF IdleStep, Stays, Starts, StartRefused, CommitsNothing, AbortsNothing, FlagsInv, BaseInv,
           TransactionRunning
  <2> QED
    BY <1>1, <2>1 DEF FlagsInv, TransactionRunning
<1>4. CallersInv'
  BY <1>1 DEF IdleStep, Starts, CallersInv, BaseInv, TransactionRunning
<1>5. RetryInv'
  BY <1>1 DEF RetryInv, BaseInv, Active
<1>6. NumbersInv'
  <2>1. server.txn \in Nat /\ cmd.txn \in Nat /\ late.txn \in Nat
    BY DEF BaseInv, Types, ServerRecord, CommandRecord
  <2>2. cs'.txn = 0 => cs'.state = "None" /\ ~cs'.retryingCommit
    BY <1>2 DEF NumbersInv, BaseInv, IdleStep, Stays, Starts, StartRefused, CommitsNothing, AbortsNothing,
                TransactionRunning
  <2>3. server'.txn <= cs'.txn /\ cmd'.txn <= cs'.txn /\ late'.txn <= cs'.txn
    BY <1>1, <1>2, <2>1 DEF NumbersInv, BaseInv, ServerKept
  <2> QED
    BY <2>2, <2>3 DEF NumbersInv
<1>7. CmdInv'
  BY <1>1 DEF CmdInv, BaseInv, Sent, ServerKept
<1> QED
  BY <1>3, <1>4, <1>5, <1>6, <1>7 DEF BaseInv

(* A command is sent, or refused. *)
LEMMA BaseSends ==
  ASSUME BaseInv, Types', Sends
  PROVE  BaseInv'
<1>1. /\ tpc = "send" /\ AppKept /\ ServerKept /\ op' = op /\ opErr' = opErr /\ op.kind # "none"
  BY DEF Sends, BaseInv, FlagsInv
<1>t. /\ cs \in ClientRecord /\ cs.state \in States /\ cs.txn \in Nat
      /\ server.txn \in Nat /\ cmd.txn \in Nat /\ late.txn \in Nat
  BY DEF BaseInv, Types, ServerRecord, CommandRecord, ClientRecord
<1>2. CASE tpc' = "return"
  <2>1. cs' = cs /\ cmd' = cmd
    BY <1>2 DEF Sends
  <2>2. FlagsInv' /\ CallersInv' /\ NumbersInv'
    BY <1>1, <1>2, <2>1 DEF BaseInv, FlagsInv, CallersInv, NumbersInv, AppKept, ServerKept, TransactionRunning
  <2>3. RetryInv' /\ CmdInv'
    BY <1>1, <1>2, <2>1 DEF BaseInv, RetryInv, CmdInv, Active, Sent, ServerKept
  <2> QED
    BY <2>2, <2>3 DEF BaseInv
<1>3. CASE tpc' # "return"
  <2>1. /\ tpc' = "wire" /\ cmd' = Command(op, cs)
        /\ cs' = IF op.session THEN ApplyCommand(cs) ELSE cs
    BY <1>3 DEF Sends
  <2>2. /\ cs'.txn = cs.txn /\ cs'.retryWrite = cs.retryWrite
        /\ \/ cs' = cs /\ (~op.session \/ cs.committing \/ cs.state \in {"None", "InProgress"})
           \/ /\ cs.state = "Starting" /\ cs'.state = "InProgress" /\ cs'.retryingCommit = cs.retryingCommit
              /\ cs'.committing = cs.committing /\ cs'.aborting = cs.aborting /\ ~cs.committing
           \/ /\ cs.state \in {"Committed", "Aborted"} /\ cs'.state = "None" /\ ~cs'.retryingCommit
              /\ ~cs'.committing /\ ~cs'.aborting /\ ~cs.committing
    BY <2>1, <1>t, ApplyCommandFact
  <2>3. /\ cmd'.kind = op.kind /\ cmd'.docs = (IF op.docs = <<>> THEN {} ELSE {Head1})
        /\ cmd'.txn = (IF op.session /\ (InTransaction(cs) \/ (op.kind \in Writes /\ cs.retryWrite))
                       THEN cs.txn ELSE 0)
        /\ cmd'.start <=> op.session /\ cs.state = "Starting"
        /\ cmd'.auto <=> op.session /\ InTransaction(cs)
    BY <2>1, CommandFact DEF BaseInv
  <2>4. /\ cs.aborting => cs.state = "InProgress"
        /\ cs.committing <=> op.kind = "commit"
        /\ cs.aborting <=> op.kind = "abort"
        /\ op.kind = "commit" => cs.state = "InProgress" \/ (cs.state = "Committed" /\ cs.retryingCommit)
    BY DEF BaseInv, FlagsInv
  <2>5. FlagsInv'
    <3>1. /\ cs'.committing <=> cs.committing
          /\ cs'.aborting <=> cs.aborting
          /\ cs.committing \/ cs.aborting => cs'.state = cs.state /\ cs'.retryingCommit = cs.retryingCommit
          /\ TransactionRunning(cs') <=> TransactionRunning(cs)
      BY <2>2, <2>4 DEF TransactionRunning
    <3>2. opErr' = opErr /\ didCommit' = didCommit
      BY <1>1 DEF AppKept
    <3> QED
      BY <1>1, <2>1, <3>1, <3>2 DEF FlagsInv, BaseInv
  <2>r. TransactionRunning(cs') <=> TransactionRunning(cs)
    BY <2>2, <2>4 DEF TransactionRunning
  <2>6. CallersInv'
    BY <1>1, <2>r DEF CallersInv, BaseInv, AppKept
  <2>7. RetryInv'
    BY <1>1, <2>1, <2>2, <2>r DEF RetryInv, BaseInv, Active, HasNumber
  <2>8. NumbersInv'
    <3>1. cmd'.txn <= cs'.txn
      BY <1>t, <2>2, <2>3
    <3> QED
      BY <1>1, <2>2, <3>1 DEF NumbersInv, BaseInv, ServerKept
  <2>9. CmdInv'
    <3>1. Head1' = Head1
      BY <1>1 DEF Head1
    <3>2. /\ op.session /\ TransactionRunning(cs') => cs'.state = "InProgress" /\ cmd'.auto
          /\ op.kind = "commit" => cmd'.auto /\ ~cmd'.start
          /\ cmd'.start => TransactionRunning(cs')
      <4>1. op.kind = "commit" => op.session
        BY <1>1 DEF BaseInv, RetryInv, Active
      <4> QED
        BY <2>2, <2>3, <2>4, <4>1 DEF TransactionRunning, InTransaction
    <3>3. HasNumber => cmd'.txn = cs'.txn
      <4>1. HasNumber => cs.retryWrite /\ op.kind \in Writes /\ op.session
        BY <1>1 DEF HasNumber, BaseInv, RetryInv, Active, Writes
      <4> QED
        BY <2>2, <2>3, <4>1
    <3>4. /\ cmd'.txn # 0 => cmd'.txn = cs'.txn
          /\ ~op.session => cmd'.txn = 0 /\ ~cmd'.start /\ ~cmd'.auto
      BY <2>2, <2>3
    <3>5. cmd'.auto => cmd'.txn # 0
      <4>1. InTransaction(cs) => cs.txn # 0
        BY DEF InTransaction, TransactionRunning, BaseInv, NumbersInv
      <4> QED
        BY <2>3, <4>1
    <3>6. op.kind = "update" /\ ~cmd'.auto => cmd'.txn = 0
      <4>1. op.kind = "update" /\ op.session => TransactionRunning(cs) \/ ~cs.retryWrite
        BY <1>1 DEF BaseInv, RetryInv, Active
      <4> QED
        BY <2>3, <4>1 DEF InTransaction
    <3>7. late'.auto = late.auto /\ late'.txn = late.txn /\ late' = late
      BY <1>1 DEF ServerKept
    <3> QED
      BY <1>1, <2>1, <2>3, <3>1, <3>2, <3>3, <3>4, <3>5, <3>6, <3>7 DEF CmdInv, BaseInv, HasNumber
  <2> QED
    BY <2>5, <2>6, <2>7, <2>8, <2>9 DEF BaseInv
<1> QED
  BY <1>2, <1>3

(* A server that takes a command is not ahead of it. *)
LEMMA TakesNumber ==
  ASSUME Types, NEW c \in CommandRecord, Takes(c)
  PROVE  server'.txn = server.txn \/ (server'.txn = c.txn /\ c.txn >= server.txn)
<1>1. server.txn \in Nat /\ c.txn \in Nat
  BY DEF Types, ServerRecord, CommandRecord
<1> QED
  BY <1>1 DEF Takes, TakesPlain, TakesWrite, TakesStart, TakesCommit, TakesAbort, TakesMore, TakesNot,
              ServerIs, Runs

(* The end of a round trip. *)
LEMMA BaseRoundTrip ==
  ASSUME BaseInv, Types', RoundTrip
  PROVE  BaseInv'
<1>1. /\ tpc = "wire" /\ AppKept /\ op' = op /\ cmd' = cmd /\ opErr' = opErr /\ ClientKept
      /\ tpc' \in {"return", "result"} /\ op.kind # "none" /\ late' \in {late, cmd}
  BY DEF RoundTrip, BaseInv, FlagsInv
<1>2. server'.txn \in {server.txn, cmd.txn}
  <2>1. Types /\ cmd \in CommandRecord
    BY DEF BaseInv, Types
  <2>2. CASE Served(cmd)
    BY <2>1, <2>2, ServeCases, TakesNumber
  <2>3. CASE ~Served(cmd)
    BY <2>3 DEF RoundTrip
  <2> QED
    BY <2>2, <2>3
<1>r. TransactionRunning(cs') <=> TransactionRunning(cs)
  BY <1>1 DEF ClientKept, TransactionRunning
<1>3. FlagsInv'
  BY <1>1, <1>r DEF FlagsInv, BaseInv, AppKept, ClientKept, FlagsKept
<1>4. CallersInv'
  BY <1>1, <1>r DEF CallersInv, BaseInv, AppKept, ClientKept
<1>5. RetryInv'
  BY <1>1, <1>r DEF RetryInv, BaseInv, Active, HasNumber, ClientKept, FlagsKept
<1>6. NumbersInv'
  BY <1>1, <1>2 DEF NumbersInv, BaseInv, ClientKept, FlagsKept
<1>7. CmdInv'
  <2>1. Sent
    BY <1>1 DEF Sent
  <2>2. Head1' = Head1
    BY <1>1 DEF Head1
  <2>3. /\ late'.auto => late'.txn # 0
        /\ late'.kind = "commit" => late'.docs = {} /\ ~late'.start
    <3>1. /\ cmd.auto => cmd.txn # 0
          /\ cmd.kind = "commit" => cmd.docs = {} /\ ~cmd.start
      BY <2>1 DEF CmdInv, BaseInv, RetryInv
    <3> QED
      BY <1>1, <3>1 DEF CmdInv, BaseInv
  <2> QED
    BY <1>1, <1>r, <2>1, <2>2, <2>3 DEF CmdInv, BaseInv, ClientKept, HasNumber
<1> QED
  BY <1>3, <1>4, <1>5, <1>6, <1>7 DEF BaseInv

(* What is left of two or more documents. *)
LEMMA TailFact ==
  ASSUME NEW s \in Seq(Docs), Len(s) > 1
  PROVE  /\ Tail(s) # <<>> /\ Tail(s) \in Seq(Docs) /\ Len(Tail(s)) = Len(s) - 1
         /\ \A i \in 1 .. Len(s) - 1 : Tail(s)[i] = s[i + 1]
<1>1. Len(Tail(s)) = Len(s) - 1 /\ Tail(s) \in Seq(Docs)
  OBVIOUS
<1>2. \A i \in 1 .. Len(s) - 1 : Tail(s)[i] = s[i + 1]
  OBVIOUS
<1>a. Len(s) \in Nat
  OBVIOUS
<1>b. Len(<<>>) = 0
  OBVIOUS
<1> DEFINE n == Len(s)
<1>3. n - 1 # 0
  <2>1. n \in Nat /\ n > 1
    BY <1>a
  <2> HIDE DEF n
  <2> QED
    BY <2>1
<1>4. Tail(s) # <<>>
  BY <1>1, <1>3, <1>b
<1> QED
  BY <1>1, <1>2, <1>4

(* Execute retries, returns or goes on. *)
LEMMA BaseResult ==
  ASSUME BaseInv, Types', RetriesOp \/ ReturnsOp \/ NextDocument
  PROVE  BaseInv'
<1>1. /\ tpc = "result" /\ AppKept /\ ServerKept /\ cmd' = cmd /\ op.kind # "none"
      /\ tpc' \in {"send", "return"} /\ op'.kind = op.kind /\ op'.session = op.session
      /\ op'.retryable = op.retryable
      /\ cs'.state = cs.state /\ cs'.retryingCommit = cs.retryingCommit
      /\ cs'.committing = cs.committing /\ cs'.aborting = cs.aborting /\ cs'.retryWrite = cs.retryWrite
  BY DEF RetriesOp, ReturnsOp, NextDocument, BaseInv, FlagsInv, FlagsKept
<1>t. /\ cs.txn \in Nat /\ server.txn \in Nat /\ cmd.txn \in Nat /\ late.txn \in Nat
      /\ op.docs \in Seq(Docs)
  BY DEF BaseInv, Types, ServerRecord, CommandRecord, ClientRecord, OpRecord
<1>2. cs'.txn \in {cs.txn, cs.txn + 1}
  BY DEF RetriesOp, ReturnsOp, NextDocument
<1>r. TransactionRunning(cs') <=> TransactionRunning(cs)
  BY <1>1 DEF TransactionRunning
<1>n. NextDocument => op.kind = "insert"
  BY DEF NextDocument, BaseInv, RetryInv
<1>3. FlagsInv'
  <2>1. op.kind = "commit" => opErr' = opErr
    BY <1>n DEF RetriesOp, ReturnsOp, NextDocument
  <2> QED
    BY <1>1, <1>r, <2>1 DEF FlagsInv, BaseInv, AppKept
<1>4. CallersInv'
  BY <1>1, <1>r DEF CallersInv, BaseInv, AppKept
<1>5. RetryInv'
  <2>1. CASE RetriesOp
    <3>1. op'.docs = op.docs /\ op'.retries = 0 /\ cs'.txn = cs.txn
      BY <2>1 DEF RetriesOp
    <3>2. /\ op.kind \notin {"insert", "update", "unack"} => op.docs = <<>>
          /\ Len(op.docs) > 1 => op.kind = "insert"
          /\ op.kind \in {"insert", "update", "unack"} => op.docs # <<>>
          /\ op.kind \in {"insert", "update", "find"} =>
               (op.retryable <=> op.session /\ ~TransactionRunning(cs))
          /\ op.kind \in {"command", "unack"} => ~op.retryable
          /\ op.kind = "unack" => ~op.session
          /\ op.kind # "unack" /\ TransactionRunning(cs) => op.session
          /\ op.kind \in {"commit", "abort"} => op.session
          /\ HasNumber => cs.retryWrite /\ cs.txn > 0
          /\ op.kind = "update" /\ op.retryable => ~cs.retryWrite
      BY <1>1 DEF RetryInv, BaseInv, Active
    <3> QED
      BY <1>1, <1>r, <3>1, <3>2 DEF RetryInv, Active, HasNumber
  <2>2. CASE ReturnsOp
    <3>1. op' = op /\ cs' = cs
      BY <2>2 DEF ReturnsOp
    <3> QED
      BY <1>1, <1>r, <3>1 DEF RetryInv, BaseInv, Active, HasNumber
  <2>3. CASE NextDocument
    <3>0. op'.docs # <<>>
      <4>1. op'.docs = Tail(op.docs) /\ Len(op.docs) > 1
        BY <2>3 DEF NextDocument
      <4> QED
        BY <1>t, <4>1, TailFact
    <3>1. op'.docs # <<>> /\ op.kind = "insert" /\ (op'.retries # 0 => op.retryable)
      BY <1>n, <2>3, <3>0 DEF NextDocument
    <3>2. op.retryable => cs'.txn > 0
      BY <1>t, <1>2, <2>3 DEF NextDocument
    <3>3. op.retryable => cs.retryWrite
      BY <1>1, <3>1 DEF RetryInv, BaseInv, Active, HasNumber
    <3>4. /\ op.retryable <=> op.session /\ ~TransactionRunning(cs)
          /\ TransactionRunning(cs) => op.session
      BY <1>1, <3>1 DEF RetryInv, BaseInv, Active
    <3> QED
      BY <1>1, <1>r, <3>1, <3>2, <3>3, <3>4 DEF RetryInv, Active, HasNumber
  <2> QED
    BY <2>1, <2>2, <2>3
<1>6. NumbersInv'
  <2>1. server.txn <= cs'.txn /\ cmd.txn <= cs'.txn /\ late.txn <= cs'.txn /\ (cs'.txn = 0 => cs.txn = 0)
    BY <1>t, <1>2 DEF NumbersInv, BaseInv
  <2> QED
    BY <1>1, <2>1 DEF NumbersInv, BaseInv, ServerKept
<1>7. CmdInv'
  BY <1>1 DEF CmdInv, BaseInv, Sent, ServerKept
<1> QED
  BY <1>3, <1>4, <1>5, <1>6, <1>7 DEF BaseInv

(* The caller takes the result. *)
LEMMA BaseEnds ==
  ASSUME BaseInv, Types', EndsOp
  PROVE  BaseInv'
<1>1. /\ tpc = "return" /\ tpc' = "idle" /\ op' = NoOp /\ opErr' = Success /\ cmd' = cmd /\ ServerKept
      /\ didCommit' = didCommit /\ ~cs'.committing /\ ~cs'.aborting /\ cs'.txn = cs.txn
      /\ op.kind # "none"
  BY DEF EndsOp, BaseInv, FlagsInv
<1>2. op'.kind = "none" /\ op'.docs = <<>> /\ op'.retries = 0
  BY <1>1 DEF NoOp
<1>3. FlagsInv'
  <2>1. didCommit' => ~TransactionRunning(cs')
    BY <1>1 DEF EndsOp, FlagsInv, BaseInv, TransactionRunning
  <2> QED
    BY <1>1, <1>2, <2>1 DEF FlagsInv
<1>4. CallersInv'
  BY <1>1, <1>2 DEF CallersInv, BaseInv, EndsOp
<1>5. RetryInv'
  <2>1. Len(op'.docs) = 0
    BY <1>2
  <2> QED
    BY <1>1, <1>2, <2>1 DEF RetryInv, Active
<1>6. NumbersInv'
  <2>1. cs'.txn = 0 => cs'.state = "None" /\ ~cs'.retryingCommit
    BY <1>1 DEF NumbersInv, BaseInv, EndsOp, FlagsInv
  <2> QED
    BY <1>1, <2>1 DEF NumbersInv, BaseInv, ServerKept
<1>7. CmdInv'
  BY <1>1 DEF CmdInv, BaseInv, Sent, ServerKept
<1> QED
  BY <1>3, <1>4, <1>5, <1>6, <1>7 DEF BaseInv

(* Servers abort, or take a late command. *)
LEMMA BaseArrives ==
  ASSUME BaseInv, Types', Arrives
  PROVE  BaseInv'
<1>1. /\ AppKept /\ tpc' = tpc /\ op' = op /\ cmd' = cmd /\ opErr' = opErr /\ cs' = cs
  BY DEF Arrives
<1>2. server'.txn \in {server.txn, late.txn}
  <2>1. Types /\ late \in CommandRecord /\ server \in ServerRecord
    BY DEF BaseInv, Types
  <2>2. CASE Served(late)
    BY <2>1, <2>2, ServeCases, TakesNumber
  <2>3. CASE ~Served(late)
    <3>1. server' = [server EXCEPT !.state = "aborted", !.docs = {}]
      BY <2>3 DEF Arrives
    <3> QED
      BY <2>1, <3>1 DEF ServerRecord
  <2> QED
    BY <2>2, <2>3
<1>3. late' = late \/ late' = NoCommand
  BY DEF Arrives
<1>4. FlagsInv'
  BY <1>1 DEF FlagsInv, BaseInv, AppKept, TransactionRunning
<1>5. CallersInv'
  BY <1>1 DEF CallersInv, BaseInv, AppKept, TransactionRunning
<1>6. RetryInv'
  BY <1>1 DEF RetryInv, BaseInv, Active, HasNumber, TransactionRunning
<1>7. NumbersInv'
  <2>1. cs.txn \in Nat /\ NoCommand.txn = 0
    BY DEF NoCommand, BaseInv, Types, ClientRecord
  <2> QED
    BY <1>1, <1>2, <1>3, <2>1 DEF NumbersInv, BaseInv
<1>8. CmdInv'
  <2>1. ~NoCommand.auto /\ NoCommand.kind # "commit"
    BY DEF NoCommand
  <2> QED
    BY <1>1, <1>3, <2>1 DEF CmdInv, BaseInv, Sent, Head1, HasNumber, TransactionRunning
<1> QED
  BY <1>4, <1>5, <1>6, <1>7, <1>8 DEF BaseInv

(* The first invariant is inductive. *)
LEMMA BaseStep ==
  ASSUME BaseInv, Next
  PROVE  BaseInv' /\ Form
<1>1. Form /\ Types'
  BY StepForm DEF BaseInv
<1> QED
  BY <1>1, BaseCall, BaseEnding, BaseIdle, BaseSends, BaseRoundTrip, BaseResult, BaseEnds, BaseArrives
     DEF Form
-----------------------------------------------------------------------------
(* The second invariant: what a server can still apply *)

(* A server that knows number t, in state s, does nothing more with c.      *)
SpentAt(c, t, s) == c.txn # 0 /\ (c.txn < t \/ (c.txn = t /\ (c.auto => s # "running")))
Unsent(d) == applied[d] = 0 /\ d \notin server.docs /\ d \notin late.docs
Untouched(d) == Unsent(d) /\ d \notin op.all /\ d \notin inTxn /\ d \notin attempt

(* No document is known before it is written.                               *)
NewDocsInv == \A d \in Docs : d > docs => Untouched(d)

(* A document that was applied is in no open transaction, and a command     *)
(* that holds it comes too late.                                            *)
OnceInv ==
  /\ \A d \in Docs : applied[d] \in 0 .. 1
  /\ \A d \in Docs : applied[d] = 1 =>
       d \notin server.docs /\ (d \in late.docs => SpentAt(late, server.txn, server.state))
  /\ \A d \in late.docs : d \notin server.docs
  /\ server.state # "running" => server.docs = {}

(* The documents of an operation are written one after the other.           *)
OpDocsInv ==
  /\ Pending \subseteq op.all
  /\ op.kind \in {"update", "unack"} /\ Active => op.all = Pending
  /\ \A i, j \in 1 .. Len(op.docs) : i # j => op.docs[i] # op.docs[j]

(* The document that is being written, with a number of its own.            *)
HeadInv(h) ==
  /\ h \notin server.docs
  /\ applied[h] = 1 => server.txn = cs.txn
  /\ server.txn = cs.txn => server.state = "write" /\ applied[h] = 1
  /\ late.txn = cs.txn => late.docs = {h} /\ ~late.start /\ late.kind = "insert"
  /\ h \in late.docs => late.txn = cs.txn
UnsentInv ==
  Active =>
    /\ \A d \in Rest : Unsent(d)
    /\ op.docs # <<>> /\ ~HasNumber /\ tpc # "result" => Unsent(Head1)
    /\ op.docs # <<>> /\ HasNumber => HeadInv(Head1)

DocsInv == NewDocsInv /\ OnceInv /\ OpDocsInv /\ UnsentInv

(* The documents of a sequence, its first and the others. *)
LEMMA PendingFact ==
  ASSUME Types
  PROVE  /\ op.docs = <<>> => Pending = {} /\ Rest = {}
         /\ op.docs # <<>> => Head1 \in Pending /\ Head1 \in Docs /\ Pending = {Head1} \cup Rest
         /\ Rest \subseteq Pending /\ Pending \subseteq Docs
         /\ Len(op.docs) <= 1 => Rest = {}
<1>1. op.docs \in Seq(Docs)
  BY DEF Types, OpRecord
<1>2. Len(op.docs) \in Nat /\ (op.docs = <<>> <=> Len(op.docs) = 0)
  BY <1>1
<1>3. \A i \in 1 .. Len(op.docs) : op.docs[i] \in Docs
  BY <1>1
<1> DEFINE n == Len(op.docs)
           e(i) == op.docs[i]
<1>4. Pending = {e(i) : i \in 1 .. n} /\ Rest = {e(i) : i \in 2 .. n} /\ Head1 = e(1)
  BY DEF Pending, Rest, Head1
<1>5. n \in Nat /\ (op.docs = <<>> <=> n = 0) /\ \A i \in 1 .. n : e(i) \in Docs
  BY <1>2, <1>3
<1> HIDE DEF n, e
<1>6. \A i : i \in 1 .. n <=> (i \in 2 .. n \/ (i = 1 /\ n # 0))
  BY <1>5
<1>7. n = Len(op.docs)
  BY DEF n
<1> QED
  BY <1>4, <1>5, <1>6, <1>7

(* The first document is written once. *)
LEMMA HeadNotRest ==
  ASSUME Types, OpDocsInv
  PROVE  op.docs # <<>> => Head1 \notin Rest
<1>1. op.docs \in Seq(Docs)
  BY DEF Types, OpRecord
<1>2. Len(op.docs) \in Nat /\ (op.docs # <<>> => Len(op.docs) # 0)
  BY <1>1
<1>3. SUFFICES ASSUME op.docs # <<>>, NEW i \in 2 .. Len(op.docs)
               PROVE  op.docs[1] # op.docs[i]
  BY DEF Head1, Rest
<1>4. 1 \in 1 .. Len(op.docs) /\ i \in 1 .. Len(op.docs) /\ 1 # i
  BY <1>2, <1>3
<1> QED
  BY <1>4 DEF OpDocsInv

(* What taking a command does to documents, if the command holds only       *)
(* documents that were not applied, or is spent. *)
LEMMA TakesDocs ==
  ASSUME Types, OnceInv, NEW c \in CommandRecord, Takes(c),
         ~SpentAt(c, server.txn, server.state) => \A d \in c.docs : applied[d] = 0 /\ d \notin server.docs
  PROVE  /\ server'.docs \subseteq server.docs \cup c.docs
         /\ \A d \in Docs : \/ applied'[d] = applied[d]
                            \/ applied[d] = 0 /\ applied'[d] = 1 /\ d \in server.docs \cup c.docs
         /\ \A d \in Docs : applied'[d] = 1 => d \notin server'.docs
         /\ server'.state # "running" => server'.docs = {}
<1>1. /\ server.txn \in Nat /\ c.txn \in Nat /\ c.docs \in SUBSET Docs /\ server.docs \in SUBSET Docs
      /\ applied \in [Docs -> Nat]
  BY DEF Types, ServerRecord, CommandRecord
<1>2. /\ \A d \in Docs : applied[d] = 0 \/ applied[d] = 1
      /\ \A d \in server.docs : applied[d] = 0
      /\ server.state # "running" => server.docs = {}
  <2>1. \A d \in Docs : applied[d] = 0 \/ applied[d] = 1
    BY DEF OnceInv
  <2> QED
    BY <1>1, <2>1 DEF OnceInv
<1>3. /\ \A d \in Docs : Apply(c.docs)[d] = IF d \in c.docs THEN applied[d] + 1 ELSE applied[d]
      /\ \A d \in Docs : Apply(server.docs)[d] = IF d \in server.docs THEN applied[d] + 1 ELSE applied[d]
  BY <1>1, ApplyFact
<1>4. CASE TakesPlain(c)
  <2>1. c.txn = 0 /\ server' = server /\ applied' = Apply(c.docs)
    BY <1>4 DEF TakesPlain
  <2>2. \A d \in c.docs : applied[d] = 0 /\ d \notin server.docs
    BY <2>1 DEF SpentAt
  <2> QED
    BY <1>1, <1>2, <1>3, <2>1, <2>2 DEF OnceInv
<1>5. CASE TakesWrite(c)
  <2>1. c.txn > server.txn /\ server'.docs = {} /\ applied' = Apply(c.docs)
    BY <1>5 DEF TakesWrite, ServerIs
  <2>2. \A d \in c.docs : applied[d] = 0
    BY <1>1, <2>1 DEF SpentAt
  <2> QED
    BY <1>1, <1>2, <1>3, <2>1, <2>2
<1>6. CASE TakesStart(c)
  <2>1. c.txn > server.txn /\ server'.docs = c.docs /\ server'.state = "running" /\ applied' = applied
    BY <1>6 DEF TakesStart, ServerIs
  <2>2. \A d \in c.docs : applied[d] = 0
    BY <1>1, <2>1 DEF SpentAt
  <2> QED
    BY <1>1, <1>2, <2>1, <2>2
<1>7. CASE TakesCommit(c)
  <2>1. server'.docs = {} /\ applied' = Apply(server.docs)
    BY <1>7 DEF TakesCommit, ServerIs
  <2> QED
    BY <1>1, <1>2, <1>3, <2>1
<1>8. CASE TakesAbort(c)
  <2>1. server'.docs = {} /\ applied' = applied
    BY <1>8 DEF TakesAbort, ServerIs
  <2> QED
    BY <1>1, <1>2, <2>1
<1>9. CASE TakesMore(c)
  <2>1. /\ server'.docs = server.docs \cup c.docs /\ server'.state = "running" /\ applied' = applied
        /\ Runs(c)
    BY <1>9 DEF TakesMore, ServerIs
  <2>2. \A d \in c.docs : applied[d] = 0
    BY <1>1, <2>1 DEF SpentAt, Runs
  <2> QED
    BY <1>1, <1>2, <2>1, <2>2
<1>10. CASE TakesNot(c)
  <2>1. server' = server /\ applied' = applied
    BY <1>10 DEF TakesNot
  <2> QED
    BY <1>2, <2>1 DEF OnceInv
<1> QED
  BY <1>4, <1>5, <1>6, <1>7, <1>8, <1>9, <1>10 DEF Takes

(* What is spent stays spent. *)
LEMMA SpentStays ==
  ASSUME Types, NEW c \in CommandRecord, Takes(c), NEW x \in CommandRecord,
         SpentAt(x, server.txn, server.state)
  PROVE  SpentAt(x, server'.txn, server'.state)
<1>1. server.txn \in Nat /\ c.txn \in Nat /\ x.txn \in Nat
  BY DEF Types, ServerRecord, CommandRecord
<1>2. \/ server'.txn = server.txn /\ server'.state = server.state
      \/ server'.txn > server.txn
      \/ server'.txn = server.txn /\ server.state = "running"
  BY <1>1 DEF Takes, TakesPlain, TakesWrite, TakesStart, TakesCommit, TakesAbort, TakesMore, TakesNot,
              ServerIs, Runs
<1>3. server'.txn \in Nat
  BY <1>1, TakesNumber
<1> QED
  BY <1>1, <1>2, <1>3 DEF SpentAt

(* A call begins. *)
LEMMA DocsCall ==
  ASSUME BaseInv, DocsInv, BaseInv', NEW k \in CallKinds, NEW n \in 0 .. 2, CallStep(k, n)
  PROVE  DocsInv'
<1>1. /\ docs' = docs + n /\ docs' <= MaxDocs /\ ServerKept /\ inTxn' = inTxn
      /\ attempt' \subseteq attempt \cup {docs'} /\ MaxDocs \in Nat /\ docs \in Nat /\ n \in Nat
      /\ attempt' # attempt => n = 1
  BY DEF CallStep, Calls, BaseInv, Types
<1>2. server' = server /\ late' = late /\ applied' = applied
  BY <1>1 DEF ServerKept
<1>3. OnceInv'
  BY <1>2 DEF OnceInv, DocsInv
<1>4. CASE Begins(k, n)
  <2>1. /\ op'.docs = NewDocs(n) /\ op'.all = NewRange(n) /\ op'.kind = k /\ tpc' = "send"
        /\ cs'.txn = IF k = "insert" /\ op'.retryable THEN cs.txn + 1 ELSE cs.txn
    BY <1>4 DEF Begins
  <2>2. Len(op'.docs) = n /\ (op'.docs = <<>> <=> n = 0) /\ \A i \in 1 .. n : op'.docs[i] = docs + i
    BY <2>1 DEF NewDocs
  <2>3. \A d \in NewRange(n) : d \in Docs /\ d > docs /\ d <= docs'
    BY <1>1 DEF NewRange, Docs
  <2>4. \A d \in NewRange(n) : Unsent(d) /\ Unsent(d)'
    BY <1>2, <2>3 DEF DocsInv, NewDocsInv, Untouched, Unsent
  <2>5. NewDocsInv'
    <3>1. SUFFICES ASSUME NEW d \in Docs, d > docs' PROVE Untouched(d)'
      BY DEF NewDocsInv, Docs
    <3>2. d > docs /\ d \notin NewRange(n) /\ d # docs'
      BY <1>1, <2>3, <3>1 DEF Docs
    <3>3. Untouched(d)
      BY <3>2 DEF DocsInv, NewDocsInv
    <3> QED
      BY <1>1, <1>2, <2>1, <3>2, <3>3 DEF Untouched, Unsent
  <2>6. OpDocsInv'
    <3>1. Pending' = NewRange(n)
      BY <2>2 DEF Pending, NewRange
    <3>2. \A i, j \in 1 .. n : i # j => docs + i # docs + j
      BY <1>1
    <3>3. \A i, j \in 1 .. n : i # j => op'.docs[i] # op'.docs[j]
      BY <2>2, <3>2
    <3> QED
      BY <2>1, <2>2, <3>1, <3>3 DEF OpDocsInv
  <2>7. UnsentInv'
    <3>1. Rest' \subseteq NewRange(n)
      BY <2>2 DEF Rest, NewRange
    <3>2. op'.docs # <<>> => Head1' \in NewRange(n)
      <4>1. op'.docs # <<>> => 1 \in 1 .. n
        BY <2>2
      <4> QED
        BY <2>2, <4>1 DEF Head1, NewRange
    <3>3. op'.docs # <<>> /\ HasNumber' => HeadInv(Head1)'
      <4>1. SUFFICES ASSUME op'.docs # <<>>, HasNumber' PROVE HeadInv(Head1)'
        OBVIOUS
      <4>2. cs.txn \in Nat /\ server.txn \in Nat /\ late.txn \in Nat
        BY DEF BaseInv, Types, ClientRecord, ServerRecord, CommandRecord
      <4>3. cs'.txn = cs.txn + 1
        BY <2>1, <4>1 DEF HasNumber
      <4>4. server'.txn # cs'.txn /\ late'.txn # cs'.txn
        BY <1>2, <4>2, <4>3 DEF BaseInv, NumbersInv
      <4>5. Unsent(Head1)'
        BY <2>4, <3>2, <4>1 DEF Unsent
      <4> QED
        BY <4>4, <4>5 DEF HeadInv, Unsent
    <3>4. op'.docs # <<>> => Unsent(Head1)'
      BY <2>4, <3>2 DEF Unsent
    <3>5. \A d \in Rest' : Unsent(d)'
      BY <2>4, <3>1
    <3> QED
      BY <3>3, <3>4, <3>5 DEF UnsentInv
  <2> QED
    BY <1>3, <2>5, <2>6, <2>7 DEF DocsInv
<1>5. CASE NotSelected(k)
  <2>1. op'.docs = <<>> /\ op'.all = {} /\ tpc' = "return"
    BY <1>5 DEF NotSelected
  <2>2. Pending' = {} /\ Len(op'.docs) = 0
    BY <2>1, PendingFact DEF Pending
  <2>3. NewDocsInv'
    <3>1. SUFFICES ASSUME NEW d \in Docs, d > docs' PROVE Untouched(d)'
      BY DEF NewDocsInv, Docs
    <3>2. d > docs /\ d # docs'
      BY <1>1, <3>1 DEF Docs
    <3>3. Untouched(d)
      BY <3>2 DEF DocsInv, NewDocsInv
    <3> QED
      BY <1>1, <1>2, <2>1, <3>2, <3>3 DEF Untouched, Unsent
  <2>4. OpDocsInv' /\ UnsentInv'
    BY <2>1, <2>2 DEF OpDocsInv, UnsentInv, Active
  <2> QED
    BY <1>3, <2>3, <2>4 DEF DocsInv
<1> QED
  BY <1>4, <1>5 DEF CallStep, Calls

(* A step that writes no document: the session changes, a command is sent,  *)
(* an operation returns or ends. *)
LEMMA DocsQuiet ==
  ASSUME BaseInv, DocsInv, BaseInv', Ending("commit") \/ Ending("abort") \/ IdleStep \/ EndsOp
  PROVE  DocsInv'
<1>1. /\ server' = server /\ late' = late /\ applied' = applied /\ docs' = docs
      /\ inTxn' \subseteq inTxn \cup op.all /\ attempt' \subseteq attempt
  BY DEF Ending, IdleStep, EndsOp, ServerKept, Stays, Starts, StartRefused, CommitsNothing, AbortsNothing
<1>2. op'.docs = <<>> /\ op'.all \subseteq op.all
  <2>1. IdleStep => op' = op /\ op.docs = <<>>
    BY DEF IdleStep, BaseInv, FlagsInv, RetryInv
  <2> QED
    BY <2>1 DEF Ending, NotSelected, EndsOp, NoOp
<1>3. OnceInv'
  BY <1>1 DEF OnceInv, DocsInv
<1>4. NewDocsInv'
  BY <1>1, <1>2 DEF NewDocsInv, DocsInv, Untouched, Unsent
<1>5. Len(op'.docs) = 0 /\ Pending' = {} /\ Rest' = {}
  BY <1>2 DEF Pending, Rest
<1>6. op'.kind \in {"update", "unack"} => ~Active'
  <2>1. IdleStep => ~Active'
    BY DEF IdleStep, Active
  <2>2. EndsOp => ~Active'
    BY DEF EndsOp, Active
  <2>3. Ending("commit") \/ Ending("abort") => op'.kind \in {"commit", "abort"}
    BY DEF Ending, NotSelected
  <2> QED
    BY <2>1, <2>2, <2>3
<1>7. OpDocsInv'
  BY <1>5, <1>6 DEF OpDocsInv
<1>8. UnsentInv'
  BY <1>2, <1>5 DEF UnsentInv
<1> QED
  BY <1>3, <1>4, <1>7, <1>8 DEF DocsInv

(* A command is sent, or the operation is retried, returns or goes on. *)
LEMMA DocsExecute ==
  ASSUME BaseInv, DocsInv, BaseInv', Sends \/ RetriesOp \/ ReturnsOp \/ NextDocument
  PROVE  DocsInv'
<1>1. /\ AppKept /\ ServerKept /\ op'.kind = op.kind /\ op'.all = op.all /\ op'.retryable = op.retryable
      /\ Active
  BY DEF Sends, RetriesOp, ReturnsOp, NextDocument, Active
<1>2. /\ server' = server /\ late' = late /\ applied' = applied /\ docs' = docs /\ inTxn' = inTxn
      /\ attempt' = attempt
  BY <1>1 DEF AppKept, ServerKept
<1>3. OnceInv'
  BY <1>2 DEF OnceInv, DocsInv
<1>4. NewDocsInv'
  BY <1>1, <1>2 DEF NewDocsInv, DocsInv, Untouched, Unsent
<1>5. \A d : Unsent(d)' <=> Unsent(d)
  BY <1>2 DEF Unsent
<1>6. HasNumber' <=> HasNumber
  BY <1>1 DEF HasNumber
<1>7. CASE Sends \/ RetriesOp \/ ReturnsOp
  <2>1. op'.docs = op.docs /\ cs'.txn = cs.txn
    <3>1. Sends => cs'.txn = cs.txn
      BY ApplyCommandFact DEF Sends, BaseInv, Types
    <3> QED
      BY <1>7, <3>1 DEF Sends, RetriesOp, ReturnsOp
  <2>2. Pending' = Pending /\ Rest' = Rest /\ Head1' = Head1 /\ Len(op'.docs) = Len(op.docs)
    BY <2>1 DEF Pending, Rest, Head1
  <2>3. OpDocsInv'
    BY <1>1, <2>1, <2>2 DEF OpDocsInv, DocsInv
  <2>4. \A h : HeadInv(h)' <=> HeadInv(h)
    BY <1>2, <2>1 DEF HeadInv
  <2>5. Active' /\ ~HasNumber /\ op.docs # <<>> /\ tpc' # "result" => Unsent(Head1)
    <3>1. CASE Sends
      BY <1>1, <3>1 DEF DocsInv, UnsentInv, Sends
    <3>2. CASE RetriesOp
      <4>1. tpc = "result" /\ op.retryable /\ op.retries # 0
        BY <3>2 DEF RetriesOp
      <4>2. op.docs # <<>> => op.kind \in {"insert", "update", "unack"}
        BY DEF BaseInv, RetryInv
      <4>3. op.kind \notin {"update", "unack"}
        BY <1>1, <4>1 DEF BaseInv, RetryInv
      <4> QED
        BY <4>1, <4>2, <4>3 DEF HasNumber
    <3>3. CASE ReturnsOp
      BY <3>3 DEF ReturnsOp, Active
    <3> QED
      BY <1>7, <3>1, <3>2, <3>3
  <2>6. UnsentInv'
    BY <1>1, <1>5, <1>6, <2>1, <2>2, <2>4, <2>5 DEF UnsentInv, DocsInv
  <2> QED
    BY <1>3, <1>4, <2>3, <2>6 DEF DocsInv
<1>8. CASE NextDocument
  <2>1. /\ tpc' = "send" /\ Len(op.docs) > 1 /\ op'.docs = Tail(op.docs) /\ op.kind = "insert"
        /\ cs'.txn = IF op.retryable THEN cs.txn + 1 ELSE cs.txn
    BY <1>8 DEF NextDocument, BaseInv, RetryInv
  <2>2. op.docs \in Seq(Docs)
    BY DEF BaseInv, Types, OpRecord
  <2> DEFINE n == Len(op.docs)
             e(i) == op.docs[i]
             f(i) == op'.docs[i]
  <2>3. /\ n \in Nat /\ n > 1 /\ Len(op'.docs) = n - 1 /\ \A i \in 1 .. n - 1 : f(i) = e(i + 1)
        /\ \A i, j \in 1 .. n : i # j => e(i) # e(j)
        /\ op'.docs # <<>>
    BY <2>1, <2>2, TailFact DEF DocsInv, OpDocsInv
  <2>4. /\ Pending = {e(i) : i \in 1 .. n} /\ Rest = {e(i) : i \in 2 .. n} /\ Head1 = e(1)
        /\ Pending' = {f(i) : i \in 1 .. n - 1} /\ Rest' = {f(i) : i \in 2 .. n - 1} /\ Head1' = f(1)
    BY <2>3 DEF Pending, Rest, Head1
  <2>5. \A i, j \in 1 .. n - 1 : i # j => op'.docs[i] # op'.docs[j]
    <3>1. SUFFICES ASSUME NEW i \in 1 .. n - 1, NEW j \in 1 .. n - 1, i # j PROVE f(i) # f(j)
      OBVIOUS
    <3> HIDE DEF n, e, f
    <3>2. i + 1 \in 1 .. n /\ j + 1 \in 1 .. n /\ i + 1 # j + 1
      BY <2>3, <3>1
    <3> QED
      BY <2>3, <3>2
  <2> HIDE DEF n, e, f
  <2>6. \A i \in 1 .. n - 1 : i + 1 \in 2 .. n
    BY <2>3
  <2>7. Pending' \subseteq Rest /\ Rest' \subseteq Rest /\ Head1' \in Rest
    BY <2>3, <2>4, <2>6
  <2>8. Rest \subseteq Pending /\ Rest \subseteq Docs
    BY PendingFact DEF BaseInv
  <2>9. OpDocsInv'
    <3>1. Pending' \subseteq op'.all
      BY <1>1, <2>7, <2>8 DEF DocsInv, OpDocsInv
    <3> QED
      BY <1>1, <2>1, <2>3, <2>5, <3>1 DEF OpDocsInv
  <2>10. \A d \in Rest : Unsent(d)
    BY <1>1 DEF DocsInv, UnsentInv
  <2>11. HasNumber => HeadInv(Head1)'
    <3>1. SUFFICES ASSUME HasNumber PROVE HeadInv(Head1)'
      OBVIOUS
    <3>2. cs.txn \in Nat /\ server.txn \in Nat /\ late.txn \in Nat
      BY DEF BaseInv, Types, ClientRecord, ServerRecord, CommandRecord
    <3>3. cs'.txn = cs.txn + 1
      BY <2>1, <3>1 DEF HasNumber
    <3>4. server'.txn # cs'.txn /\ late'.txn # cs'.txn
      BY <1>2, <3>2, <3>3 DEF BaseInv, NumbersInv
    <3>5. Unsent(Head1)'
      BY <1>5, <2>7, <2>10 DEF Unsent
    <3> QED
      BY <3>4, <3>5 DEF HeadInv, Unsent
  <2>12. UnsentInv'
    <3>1. Unsent(Head1)'
      BY <1>5, <2>7, <2>10 DEF Unsent
    <3>2. \A d \in Rest' : Unsent(d)'
      BY <1>5, <2>7, <2>10
    <3> QED
      BY <1>6, <2>11, <3>1, <3>2 DEF UnsentInv
  <2> QED
    BY <1>3, <1>4, <2>9, <2>12 DEF DocsInv
<1> QED
  BY <1>7, <1>8

(* The command of the operation under way may be taken: its document was    *)
(* not applied, unless the command is spent. *)
LEMMA CmdFresh ==
  ASSUME BaseInv, DocsInv, tpc = "wire"
  PROVE  /\ cmd \in CommandRecord /\ cmd.docs \subseteq Pending
         /\ \A d \in Rest : d \notin cmd.docs
         /\ ~SpentAt(cmd, server.txn, server.state) => \A d \in cmd.docs : applied[d] = 0 /\ d \notin server.docs
         /\ \A d \in cmd.docs : d \notin server.docs
         /\ ~HasNumber => \A d \in cmd.docs : Unsent(d)
         /\ HasNumber => /\ cmd.docs = {Head1} /\ HeadInv(Head1) /\ cmd.txn = cs.txn /\ cs.txn # 0
                         /\ ~cmd.start /\ op.docs # <<>> /\ cmd.kind = "insert"
<1>1. Active /\ Sent /\ cmd.docs = IF op.docs = <<>> THEN {} ELSE {Head1}
  BY DEF Active, Sent, BaseInv, CmdInv
<1>2. /\ op.docs # <<>> => Head1 \in Pending /\ Head1 \notin Rest
      /\ cmd \in CommandRecord
  BY PendingFact, HeadNotRest DEF BaseInv, DocsInv, Types
<1>3. ~HasNumber => \A d \in cmd.docs : Unsent(d)
  BY <1>1 DEF DocsInv, UnsentInv
<1>4. CASE HasNumber
  <2>1. /\ op.docs # <<>> /\ cmd.txn = cs.txn /\ cs.txn # 0 /\ ~cmd.start /\ cmd.kind = "insert"
    BY <1>1, <1>4 DEF BaseInv, RetryInv, CmdInv, HasNumber
  <2>2. HeadInv(Head1) /\ cmd.docs = {Head1}
    BY <1>1, <1>4, <2>1 DEF DocsInv, UnsentInv
  <2>3. ~SpentAt(cmd, server.txn, server.state) => applied[Head1] = 0
    <3>1. Head1 \in Docs /\ applied[Head1] \in 0 .. 1
      BY <2>1, PendingFact DEF BaseInv, DocsInv, OnceInv
    <3>2. applied[Head1] = 1 => server.txn = cs.txn /\ server.state = "write"
      BY <2>2 DEF HeadInv
    <3> QED
      BY <2>1, <3>1, <3>2 DEF SpentAt
  <2> QED
    BY <1>2, <1>4, <2>1, <2>2, <2>3 DEF HeadInv
<1>5. CASE ~HasNumber
  BY <1>1, <1>2, <1>3, <1>5 DEF Unsent
<1> QED
  BY <1>4, <1>5

(* The late command may be taken. *)
LEMMA LateFresh ==
  ASSUME BaseInv, DocsInv
  PROVE  /\ late \in CommandRecord
         /\ \A d \in late.docs : d \notin server.docs
         /\ ~SpentAt(late, server.txn, server.state) => \A d \in late.docs : applied[d] = 0 /\ d \notin server.docs
<1>1. late \in CommandRecord /\ late.docs \in SUBSET Docs
  BY DEF BaseInv, Types, CommandRecord
<1>2. \A d \in late.docs : applied[d] \in 0 .. 1 /\ d \notin server.docs
  BY <1>1 DEF DocsInv, OnceInv
<1>3. \A d \in late.docs : applied[d] = 1 => SpentAt(late, server.txn, server.state)
  BY <1>1 DEF DocsInv, OnceInv
<1> QED
  BY <1>1, <1>2, <1>3

(* A document with a number of its own, after a command c was taken that is *)
(* the one that writes it or an earlier one. *)
LEMMA HeadTakes ==
  ASSUME BaseInv, NEW h \in Docs, HeadInv(h), applied[h] \in 0 .. 1, cs.txn # 0,
         NEW c \in CommandRecord, Takes(c), c.txn <= cs.txn,
         c.txn = cs.txn => c.docs = {h} /\ ~c.start /\ c.kind = "insert",
         h \in c.docs => c.txn = cs.txn
  PROVE  /\ h \notin server'.docs
         /\ applied'[h] = 1 => server'.txn = cs.txn
         /\ server'.txn = cs.txn => server'.state = "write" /\ applied'[h] = 1
<1>1. /\ cs.txn \in Nat /\ c.txn \in Nat /\ server.txn \in Nat /\ server.txn <= cs.txn
      /\ c.docs \in SUBSET Docs /\ server.docs \in SUBSET Docs
  BY DEF BaseInv, NumbersInv, Types, ClientRecord, CommandRecord, ServerRecord
<1>2. /\ Apply(c.docs)[h] = IF h \in c.docs THEN applied[h] + 1 ELSE applied[h]
      /\ Apply(server.docs)[h] = IF h \in server.docs THEN applied[h] + 1 ELSE applied[h]
  BY <1>1, ApplyFact DEF BaseInv
<1>3. /\ h \notin server.docs /\ (applied[h] = 1 => server.txn = cs.txn)
      /\ server.txn = cs.txn => server.state = "write" /\ applied[h] = 1
  BY DEF HeadInv
<1>4. CASE TakesPlain(c)
  BY <1>2, <1>3, <1>4 DEF TakesPlain
<1>5. CASE TakesWrite(c)
  <2>1. c.txn > server.txn /\ ServerIs(c.txn, "write", {}) /\ applied' = Apply(c.docs)
    BY <1>5 DEF TakesWrite
  <2>2. applied[h] = 0
    BY <1>1, <1>3, <2>1
  <2> QED
    BY <1>1, <1>2, <2>1, <2>2 DEF ServerIs
<1>6. CASE TakesStart(c)
  BY <1>1, <1>3, <1>6 DEF TakesStart, ServerIs
<1>7. CASE TakesCommit(c)
  BY <1>2, <1>3, <1>7 DEF TakesCommit, ServerIs, Runs
<1>8. CASE TakesAbort(c)
  BY <1>3, <1>8 DEF TakesAbort, ServerIs, Runs
<1>9. CASE TakesMore(c)
  BY <1>3, <1>9 DEF TakesMore, ServerIs, Runs
<1>10. CASE TakesNot(c)
  BY <1>3, <1>10 DEF TakesNot
<1> QED
  BY <1>4, <1>5, <1>6, <1>7, <1>8, <1>9, <1>10 DEF Takes

(* The end of a round trip. *)
LEMMA DocsRoundTrip ==
  ASSUME BaseInv, DocsInv, BaseInv', RoundTrip
  PROVE  DocsInv'
<1>1. /\ tpc = "wire" /\ AppKept /\ op' = op /\ cs'.txn = cs.txn /\ tpc' \in {"return", "result"} /\ Active
  BY DEF RoundTrip, ClientKept, Active
<1>2. docs' = docs /\ inTxn' = inTxn /\ attempt' = attempt
  BY <1>1 DEF AppKept
<1>3. Pending' = Pending /\ Rest' = Rest /\ Head1' = Head1 /\ HasNumber' = HasNumber
  BY <1>1 DEF Pending, Rest, Head1, HasNumber
<1>4. OpDocsInv'
  BY <1>1, <1>3 DEF OpDocsInv, DocsInv
<1>5. /\ cmd \in CommandRecord /\ cmd.docs \subseteq Pending
      /\ \A d \in Rest : d \notin cmd.docs
      /\ \A d \in cmd.docs : d \notin server.docs
      /\ ~HasNumber => \A d \in cmd.docs : Unsent(d)
      /\ HasNumber => /\ cmd.docs = {Head1} /\ HeadInv(Head1) /\ cmd.txn = cs.txn /\ cs.txn # 0
                      /\ ~cmd.start /\ op.docs # <<>> /\ cmd.kind = "insert"
  BY <1>1, CmdFresh
<1>6. \A d \in cmd.docs : d \in op.all /\ d \in Docs
  BY <1>5, PendingFact DEF BaseInv, DocsInv, OpDocsInv
<1>t. Types /\ OnceInv /\ applied \in [Docs -> Nat]
  BY DEF BaseInv, DocsInv, Types
<1>7. CASE Served(cmd) /\ late' = late
  <2>1. Takes(cmd)
    BY <1>5, <1>7, <1>t, ServeCases
  <2>2. /\ server'.docs \subseteq server.docs \cup cmd.docs
        /\ \A d \in Docs : \/ applied'[d] = applied[d]
                           \/ applied[d] = 0 /\ applied'[d] = 1 /\ d \in server.docs \cup cmd.docs
        /\ \A d \in Docs : applied'[d] = 1 => d \notin server'.docs
        /\ server'.state # "running" => server'.docs = {}
    BY <1>1, <1>5, <1>t, <2>1, CmdFresh, TakesDocs
  <2>3. HasNumber => HeadInv(Head1)'
    <3>1. SUFFICES ASSUME HasNumber PROVE HeadInv(Head1)'
      OBVIOUS
    <3>2. Head1 \in Docs /\ applied[Head1] \in 0 .. 1
      BY <1>5, <1>6, <1>t, <3>1 DEF OnceInv
    <3>3. cs.txn \in Nat
      BY DEF BaseInv, Types, ClientRecord
    <3>4. /\ Head1 \notin server'.docs
          /\ applied'[Head1] = 1 => server'.txn = cs.txn
          /\ server'.txn = cs.txn => server'.state = "write" /\ applied'[Head1] = 1
      BY <1>5, <2>1, <3>1, <3>2, <3>3, HeadTakes
    <3>5. /\ late.txn = cs.txn => late.docs = {Head1} /\ ~late.start /\ late.kind = "insert"
          /\ Head1 \in late.docs => late.txn = cs.txn
      BY <1>5, <3>1 DEF HeadInv
    <3> QED
      BY <1>1, <1>3, <1>7, <3>4, <3>5 DEF HeadInv
  <2>4. OnceInv'
    <3>1. \A d \in Docs : applied'[d] \in 0 .. 1
      BY <1>t, <2>2 DEF OnceInv
    <3>2. \A d \in late.docs : d \notin server'.docs
      <4>1. CASE HasNumber
        BY <1>3, <1>5, <1>t, <2>2, <2>3, <4>1 DEF HeadInv, OnceInv
      <4>2. CASE ~HasNumber
        BY <1>5, <1>t, <2>2, <4>2 DEF Unsent, OnceInv
      <4> QED
        BY <4>1, <4>2
    <3>3. ASSUME NEW d \in Docs, applied'[d] = 1, d \in late.docs
          PROVE  SpentAt(late, server'.txn, server'.state)
      <4>0. late \in CommandRecord
        BY <1>t DEF Types
      <4>1. CASE applied[d] = 1
        <5>1. SpentAt(late, server.txn, server.state)
          BY <1>t, <3>3, <4>1 DEF OnceInv
        <5> QED
          BY <1>5, <1>t, <2>1, <4>0, <5>1, SpentStays
      <4>2. CASE applied[d] # 1
        <5>1. d \in cmd.docs
          BY <1>t, <2>2, <3>3, <4>2 DEF OnceInv
        <5>2. HasNumber
          BY <1>5, <3>3, <5>1 DEF Unsent
        <5>3. late.txn = cs.txn /\ cs.txn # 0 /\ d = Head1
          BY <1>5, <3>3, <5>1, <5>2 DEF HeadInv
        <5>4. server'.txn = cs.txn /\ server'.state = "write"
          BY <1>1, <1>3, <2>3, <3>3, <5>2, <5>3 DEF HeadInv
        <5> QED
          BY <5>3, <5>4 DEF SpentAt
      <4> QED
        BY <4>1, <4>2
    <3> QED
      BY <1>7, <2>2, <3>1, <3>2, <3>3 DEF OnceInv
  <2>5. \A d \in Docs : d \notin cmd.docs /\ Unsent(d) => Unsent(d)'
    <3>1. server.docs \subseteq Docs
      BY <1>t DEF Types, ServerRecord
    <3> QED
      BY <1>7, <2>2, <3>1 DEF Unsent
  <2>6. NewDocsInv'
    <3>1. SUFFICES ASSUME NEW d \in Docs, d > docs PROVE Untouched(d)'
      BY <1>2 DEF NewDocsInv, Docs
    <3>2. Untouched(d)
      BY <3>1 DEF DocsInv, NewDocsInv
    <3>3. d \notin cmd.docs
      BY <1>6, <3>2 DEF Untouched
    <3> QED
      BY <1>1, <1>2, <2>5, <3>2, <3>3 DEF Untouched
  <2>7. \A d \in Rest : Unsent(d)'
    <3>1. Rest \subseteq Docs
      BY <1>t, PendingFact
    <3> QED
      BY <1>1, <1>5, <2>5, <3>1 DEF DocsInv, UnsentInv
  <2>8. UnsentInv'
    BY <1>1, <1>3, <2>3, <2>7 DEF UnsentInv, Active
  <2> QED
    BY <1>4, <2>4, <2>6, <2>8 DEF DocsInv
<1>8. CASE server' = server /\ applied' = applied /\ late' \in {late, cmd}
  <2>1. OnceInv'
    <3>1. \A d \in cmd.docs : applied[d] = 1 => SpentAt(cmd, server.txn, server.state)
      BY <1>1, <1>5, CmdFresh
    <3> QED
      BY <1>5, <1>8, <1>t, <3>1 DEF OnceInv
  <2>2. \A d : Unsent(d) /\ d \notin cmd.docs => Unsent(d)'
    BY <1>8 DEF Unsent
  <2>3. NewDocsInv'
    <3>1. SUFFICES ASSUME NEW d \in Docs, d > docs PROVE Untouched(d)'
      BY <1>2 DEF NewDocsInv, Docs
    <3>2. Untouched(d)
      BY <3>1 DEF DocsInv, NewDocsInv
    <3>3. d \notin cmd.docs
      BY <1>6, <3>2 DEF Untouched
    <3> QED
      BY <1>1, <1>2, <2>2, <3>2, <3>3 DEF Untouched
  <2>4. \A d \in Rest : Unsent(d)'
    BY <1>1, <1>5, <2>2 DEF DocsInv, UnsentInv
  <2>5. HasNumber => HeadInv(Head1)'
    BY <1>1, <1>3, <1>5, <1>8 DEF HeadInv
  <2>6. UnsentInv'
    BY <1>1, <1>3, <2>4, <2>5 DEF UnsentInv, Active
  <2> QED
    BY <1>4, <2>1, <2>3, <2>6 DEF DocsInv
<1> QED
  BY <1>7, <1>8 DEF RoundTrip

(* Servers abort, or take a late command. *)
LEMMA DocsArrives ==
  ASSUME BaseInv, DocsInv, BaseInv', Arrives
  PROVE  DocsInv'
<1>1. /\ AppKept /\ op' = op /\ cs' = cs /\ tpc' = tpc
  BY DEF Arrives
<1>2. docs' = docs /\ inTxn' = inTxn /\ attempt' = attempt
  BY <1>1 DEF AppKept
<1>3. Pending' = Pending /\ Rest' = Rest /\ Head1' = Head1 /\ HasNumber' = HasNumber /\ Active' = Active
  BY <1>1 DEF Pending, Rest, Head1, HasNumber, Active
<1>4. OpDocsInv'
  BY <1>1, <1>3 DEF OpDocsInv, DocsInv
<1>t. Types /\ OnceInv /\ applied \in [Docs -> Nat] /\ server.docs \subseteq Docs /\ Rest \subseteq Docs
  BY PendingFact DEF BaseInv, DocsInv, Types, ServerRecord
<1>h. Active /\ op.docs # <<>> => Head1 \in Docs /\ (HasNumber => HeadInv(Head1) /\ cs.txn # 0)
  <2>1. op.docs # <<>> => Head1 \in Docs
    BY <1>t, PendingFact
  <2>2. Active /\ HasNumber => cs.txn # 0
    BY DEF BaseInv, RetryInv
  <2> QED
    BY <2>1, <2>2 DEF DocsInv, UnsentInv
<1>5. CASE Served(late) /\ late' = NoCommand
  <2>0. late'.docs = {} /\ late'.txn = 0
    BY <1>5 DEF NoCommand
  <2>1. Takes(late) /\ late \in CommandRecord
    BY <1>5, <1>t, ServeCases, LateFresh
  <2>2. /\ server'.docs \subseteq server.docs \cup late.docs
        /\ \A d \in Docs : \/ applied'[d] = applied[d]
                           \/ applied[d] = 0 /\ applied'[d] = 1 /\ d \in server.docs \cup late.docs
        /\ \A d \in Docs : applied'[d] = 1 => d \notin server'.docs
        /\ server'.state # "running" => server'.docs = {}
    BY <1>t, <2>1, LateFresh, TakesDocs
  <2>3. OnceInv'
    <3>1. \A d \in Docs : applied'[d] \in 0 .. 1
      BY <1>t, <2>2 DEF OnceInv
    <3> QED
      BY <2>0, <2>2, <3>1 DEF OnceInv
  <2>4. \A d \in Docs : Unsent(d) => Unsent(d)'
    BY <1>t, <2>0, <2>2 DEF Unsent
  <2>5. NewDocsInv'
    BY <1>1, <1>2, <2>4 DEF DocsInv, NewDocsInv, Untouched
  <2>6. Active /\ op.docs # <<>> /\ HasNumber => HeadInv(Head1)'
    <3>1. SUFFICES ASSUME Active, op.docs # <<>>, HasNumber PROVE HeadInv(Head1)'
      OBVIOUS
    <3>2. Head1 \in Docs /\ HeadInv(Head1) /\ cs.txn # 0 /\ applied[Head1] \in 0 .. 1 /\ late.txn <= cs.txn
      BY <1>h, <1>t, <3>1 DEF OnceInv, BaseInv, NumbersInv
    <3>3. /\ late.txn = cs.txn => late.docs = {Head1} /\ ~late.start /\ late.kind = "insert"
          /\ Head1 \in late.docs => late.txn = cs.txn
      BY <3>2 DEF HeadInv
    <3>4. /\ Head1 \notin server'.docs
          /\ applied'[Head1] = 1 => server'.txn = cs.txn
          /\ server'.txn = cs.txn => server'.state = "write" /\ applied'[Head1] = 1
      BY <2>1, <3>2, <3>3, HeadTakes
    <3> QED
      BY <1>1, <1>3, <2>0, <3>2, <3>4 DEF HeadInv
  <2>7. UnsentInv'
    BY <1>1, <1>3, <1>h, <1>t, <2>4, <2>6 DEF DocsInv, UnsentInv
  <2> QED
    BY <1>4, <2>3, <2>5, <2>7 DEF DocsInv
<1>6. CASE /\ server.state = "running" /\ late' = late /\ applied' = applied
           /\ server' = [server EXCEPT !.state = "aborted", !.docs = {}]
  <2>1. server'.txn = server.txn /\ server'.state = "aborted" /\ server'.docs = {}
    BY <1>6 DEF BaseInv, Types, ServerRecord
  <2>2. OnceInv'
    BY <1>6, <1>t, <2>1 DEF OnceInv, SpentAt
  <2>3. \A d \in Docs : Unsent(d) => Unsent(d)'
    BY <1>6, <2>1 DEF Unsent
  <2>4. NewDocsInv'
    BY <1>1, <1>2, <2>3 DEF DocsInv, NewDocsInv, Untouched
  <2>5. \A h : HeadInv(h) => HeadInv(h)'
    BY <1>1, <1>6, <2>1 DEF HeadInv
  <2>6. UnsentInv'
    BY <1>1, <1>3, <1>h, <1>t, <2>3, <2>5 DEF DocsInv, UnsentInv
  <2> QED
    BY <1>4, <2>2, <2>4, <2>6 DEF DocsInv
<1> QED
  BY <1>5, <1>6 DEF Arrives

(* The second invariant is inductive, with the first. *)
LEMMA DocsStep ==
  ASSUME BaseInv, DocsInv, BaseInv', Form
  PROVE  DocsInv'
BY DocsCall, DocsQuiet, DocsExecute, DocsRoundTrip, DocsArrives DEF Form

(* Both invariants hold at the start. *)
LEMMA BaseInit ==
  ASSUME MaxDocs \in Nat, Init
  PROVE  BaseInv /\ DocsInv
<1>1. /\ cs.state = "None" /\ cs.txn = 0 /\ ~cs.retryingCommit /\ ~cs.committing /\ ~cs.aborting
      /\ cs \in ClientRecord /\ didCommit = FALSE
  BY DEF Init, ClientRecord, States
<1>2. /\ op.kind = "none" /\ op.docs = <<>> /\ op.all = {} /\ op.retries = 0
      /\ tpc = "idle" /\ opErr = Success
  BY DEF Init, NoOp
<1>3. /\ cmd.txn = 0 /\ late.txn = 0 /\ late.auto = FALSE /\ late.kind = "none" /\ late.docs = {}
      /\ cmd = NoCommand /\ late = NoCommand
  BY DEF Init, NoCommand
<1>4. /\ server.txn = 0 /\ server.state = "none" /\ server.docs = {} /\ server \in ServerRecord
      /\ applied \in [Docs -> Nat] /\ \A d \in Docs : applied[d] = 0
  BY DEF Init, ServerRecord
<1>5. Types
  BY <1>1, <1>3, <1>4, EmptyRecords DEF Types, Init, Places, Callers
<1>6. Len(op.docs) = 0 /\ Pending = {} /\ Rest = {} /\ ~Active /\ ~Sent
  BY <1>2 DEF Pending, Rest, Active, Sent
<1>7. FlagsInv /\ CallersInv /\ RetryInv /\ NumbersInv /\ CmdInv
  BY <1>1, <1>2, <1>3, <1>4, <1>6 DEF FlagsInv, CallersInv, RetryInv, NumbersInv, CmdInv, Init
<1>8. DocsInv
  <2>1. NewDocsInv
    BY <1>2, <1>3, <1>4 DEF NewDocsInv, Untouched, Unsent, Init
  <2>2. OnceInv
    BY <1>3, <1>4 DEF OnceInv
  <2> QED
    BY <1>6, <2>1, <2>2 DEF DocsInv, OpDocsInv, UnsentInv
<1> QED
  BY <1>5, <1>7, <1>8 DEF BaseInv
-----------------------------------------------------------------------------
(* The third invariant: what a success means *)

(* The servers have document d in the session's transaction, have applied   *)
(* it with the transaction, or have given the transaction up.               *)
InTransactionOK(d) ==
  /\ server.txn = cs.txn
  /\ \/ server.state = "running" /\ d \in server.docs
     \/ server.state = "committed" /\ applied[d] = 1
     \/ server.state = "aborted"

(* The transaction that is starting is unknown to the servers; they have    *)
(* the documents of the one in progress; what was committed without a       *)
(* command is not started by one that arrives late.                         *)
TxnInv ==
  /\ cs.state = "Starting" => server.txn < cs.txn /\ late.txn < cs.txn /\ inTxn = {}
  /\ cs.state = "InProgress" => \A d \in inTxn : InTransactionOK(d)
  /\ cs.state = "Committed" =>
       \/ \A d \in inTxn : InTransactionOK(d)
       \/ server.txn < cs.txn /\ (late.txn = cs.txn => ~late.start)
  /\ cs.state # "None" /\ late.txn = cs.txn => late.auto

(* Once a command was sent, a transaction that ended is forgotten.          *)
Settled == cs.state \in {"None", "InProgress"}
SettledInv ==
  /\ Sent /\ op.session /\ op.kind # "commit" => Settled
  /\ tpc = "return" /\ err = Success /\ Inserts /\ (cmd.auto \/ TransactionRunning(cs)) => Settled

(* What the operation has done so far, its command, and all of it.          *)
DoneSoFar ==
  \A d \in op.all \ Pending : IF TransactionRunning(cs) THEN InTransactionOK(d) ELSE applied[d] = 1
HeadDone ==
  /\ ~cmd.auto => applied[Head1] = 1
  /\ TransactionRunning(cs) => InTransactionOK(Head1)
  /\ HasNumber => ~cmd.auto
AllDone ==
  /\ ~cmd.auto => \A d \in op.all : applied[d] = 1
  /\ TransactionRunning(cs) => \A d \in op.all : InTransactionOK(d)
DoneInv ==
  /\ Active /\ Inserts /\ opErr = Success => DoneSoFar
  /\ tpc = "result" /\ err = Success /\ Inserts => HeadDone
  /\ tpc = "return" /\ err = Success /\ Inserts => AllDone
  /\ tpc \in {"result", "return"} /\ err = Success /\ op.kind = "commit" =>
       \A d \in inTxn : applied[d] = 1

DoneAll == TxnInv /\ SettledInv /\ DoneInv
(* Taking a command keeps what the session's transaction has. *)
LEMMA OKTakes ==
  ASSUME BaseInv, OnceInv, cs'.txn = cs.txn, NEW c \in CommandRecord, Takes(c), c.txn <= cs.txn,
         NEW d \in Docs, InTransactionOK(d), applied[d] = 1 => applied'[d] = 1
  PROVE  InTransactionOK(d)'
<1>1. /\ server.txn = cs.txn /\ c.txn \in Nat /\ server.txn \in Nat /\ server.docs \in SUBSET Docs
      /\ applied[d] \in 0 .. 1
  BY DEF InTransactionOK, BaseInv, Types, ServerRecord, CommandRecord, OnceInv
<1>2. ~TakesWrite(c) /\ ~TakesStart(c)
  BY <1>1 DEF TakesWrite, TakesStart
<1>3. CASE TakesPlain(c) \/ TakesNot(c)
  BY <1>1, <1>3 DEF TakesPlain, TakesNot, InTransactionOK
<1>4. CASE TakesCommit(c)
  <2>1. /\ Runs(c) /\ server'.txn = c.txn /\ server'.state = "committed" /\ applied' = Apply(server.docs)
    BY <1>4 DEF TakesCommit, ServerIs
  <2>2. server.state = "running" /\ d \in server.docs
    BY <2>1 DEF Runs, InTransactionOK
  <2>3. applied[d] = 0 /\ Apply(server.docs)[d] = applied[d] + 1
    BY <1>1, <2>2, ApplyFact DEF OnceInv, BaseInv
  <2> QED
    BY <1>1, <2>1, <2>3 DEF InTransactionOK, Runs
<1>5. CASE TakesAbort(c) \/ TakesMore(c)
  BY <1>1, <1>5 DEF TakesAbort, TakesMore, ServerIs, Runs, InTransactionOK
<1> QED
  BY <1>2, <1>3, <1>4, <1>5 DEF Takes

(* What was applied stays applied, and what a transaction has it keeps. *)
LEMMA ServersKeep ==
  ASSUME BaseInv, DocsInv, RoundTrip \/ Arrives
  PROVE  /\ \A d \in Docs : applied[d] = 1 => applied'[d] = 1
         /\ \A d \in Docs : InTransactionOK(d) => InTransactionOK(d)'
<1>1. /\ cs'.txn = cs.txn /\ Types /\ OnceInv /\ cmd.txn <= cs.txn /\ late.txn <= cs.txn
      /\ cmd \in CommandRecord /\ late \in CommandRecord
  BY DEF RoundTrip, Arrives, ClientKept, BaseInv, DocsInv, NumbersInv, Types
<1>2. ASSUME NEW c \in {cmd, late}, Served(c),
             ~SpentAt(c, server.txn, server.state) => \A d \in c.docs : applied[d] = 0 /\ d \notin server.docs
      PROVE  /\ \A d \in Docs : applied[d] = 1 => applied'[d] = 1
             /\ \A d \in Docs : InTransactionOK(d) => InTransactionOK(d)'
  <2>1. c \in CommandRecord /\ c.txn <= cs.txn /\ Takes(c)
    BY <1>1, <1>2, ServeCases
  <2>3. \A d \in Docs : applied'[d] = applied[d] \/ applied[d] = 0
    BY <1>1, <1>2, <2>1, TakesDocs
  <2>4. \A d \in Docs : applied[d] = 1 => applied'[d] = 1
    BY <2>3
  <2> QED
    BY <1>1, <2>1, <2>4, OKTakes
<1>3. CASE Served(cmd) /\ tpc = "wire"
  BY <1>2, <1>3, CmdFresh
<1>4. CASE Served(late)
  BY <1>2, <1>4, LateFresh
<1>5. CASE server' = server /\ applied' = applied
  BY <1>1, <1>5 DEF InTransactionOK
<1>6. CASE /\ server.state = "running" /\ applied' = applied
           /\ server' = [server EXCEPT !.state = "aborted", !.docs = {}]
  <2>1. server'.txn = server.txn /\ server'.state = "aborted"
    BY <1>1, <1>6 DEF Types, ServerRecord
  <2> QED
    BY <1>1, <1>6, <2>1 DEF InTransactionOK
<1> QED
  BY <1>3, <1>4, <1>5, <1>6 DEF RoundTrip, Arrives

(* The transaction of the session, as the servers see it. *)
LEMMA TxnServers ==
  ASSUME BaseInv, DocsInv, TxnInv, SettledInv, BaseInv', RoundTrip \/ Arrives
  PROVE  TxnInv'
<1>1. /\ cs'.txn = cs.txn /\ cs'.state = cs.state /\ inTxn' = inTxn /\ inTxn \subseteq Docs
      /\ Types /\ cmd \in CommandRecord /\ late \in CommandRecord
      /\ cs.txn \in Nat /\ cmd.txn \in Nat /\ late.txn \in Nat /\ server.txn \in Nat
  BY DEF RoundTrip, Arrives, ClientKept, AppKept, BaseInv, Types, ClientRecord, CommandRecord, ServerRecord
<1>n. /\ server.txn <= cs.txn /\ late.txn <= cs.txn /\ cmd.txn <= cs.txn
      /\ cs.state # "None" => cs.txn # 0
  BY DEF BaseInv, NumbersInv
<1>2. \A d \in inTxn : InTransactionOK(d) => InTransactionOK(d)'
  BY <1>1, ServersKeep
<1>3. CASE RoundTrip
  <2>1. tpc = "wire" /\ Sent
    BY <1>3 DEF RoundTrip, Sent
  <2>2. /\ ~op.session => cmd.txn = 0
        /\ op.session /\ cs.state \in {"Starting", "InProgress"} => cs.state = "InProgress" /\ cmd.auto
        /\ op.kind = "commit" => cmd.auto /\ ~cmd.start
        /\ op.session /\ op.kind # "commit" => cs.state \in {"None", "InProgress"}
        /\ cmd.kind = op.kind
    BY <2>1 DEF BaseInv, CmdInv, TransactionRunning, SettledInv, Settled
  <2>3. /\ cs.state = "Starting" => cmd.txn < cs.txn
        /\ cs.state # "None" /\ cmd.txn = cs.txn => cmd.auto
        /\ cs.state = "Committed" /\ cmd.txn # 0 => cmd.auto /\ ~cmd.start
    BY <1>1, <1>n, <2>2
  <2>4. late' \in {late, cmd}
    BY <1>3 DEF RoundTrip
  <2>5. server'.txn = server.txn \/ (server'.txn = cmd.txn /\ Served(cmd))
    BY <1>1, <1>3, ServeCases, TakesNumber DEF RoundTrip
  <2>6. cs.state = "Starting" => server'.txn < cs'.txn /\ late'.txn < cs'.txn /\ inTxn' = {}
    BY <1>1, <2>3, <2>4, <2>5 DEF TxnInv
  <2>7. cs.state = "Committed" /\ server.txn < cs.txn /\ (late.txn = cs.txn => ~late.start) =>
          server'.txn < cs.txn /\ (late'.txn = cs'.txn => ~late'.start)
    <3>1. SUFFICES ASSUME cs.state = "Committed", server.txn < cs.txn, late.txn = cs.txn => ~late.start
                   PROVE  server'.txn < cs.txn /\ (late'.txn = cs'.txn => ~late'.start)
      OBVIOUS
    <3>2. server'.txn < cs.txn
      <4>1. CASE Served(cmd)
        <5>1. Takes(cmd)
          BY <1>1, <4>1, ServeCases
        <5>2. cmd.txn = 0 \/ (cmd.auto /\ ~cmd.start)
          BY <2>3, <3>1
        <5> QED
          BY <1>1, <3>1, <5>1, <5>2 DEF Takes, TakesPlain, TakesWrite, TakesStart, TakesCommit, TakesAbort,
             TakesMore, TakesNot, ServerIs, Runs
      <4>2. CASE ~Served(cmd)
        BY <2>5, <3>1, <4>2
      <4> QED
        BY <4>1, <4>2
    <3> QED
      BY <1>1, <1>n, <2>3, <2>4, <3>1, <3>2
  <2>8. cs.state # "None" /\ late'.txn = cs.txn => late'.auto
    BY <2>3, <2>4 DEF TxnInv
  <2> QED
    BY <1>1, <1>2, <2>6, <2>7, <2>8 DEF TxnInv
<1>4. CASE Arrives
  <2>1. late' = late \/ late'.txn = 0
    BY <1>4 DEF Arrives, NoCommand
  <2>2. server'.txn = server.txn \/ (Served(late) /\ Takes(late) /\ server'.txn = late.txn)
    <3>1. CASE Served(late)
      BY <1>1, <3>1, ServeCases, TakesNumber
    <3>2. CASE ~Served(late)
      <4>1. server' = [server EXCEPT !.state = "aborted", !.docs = {}] /\ server \in ServerRecord
        BY <1>1, <1>4, <3>2 DEF Arrives, Types
      <4> QED
        BY <4>1 DEF ServerRecord
    <3> QED
      BY <3>1, <3>2
  <2>3. cs.state = "Starting" => server'.txn < cs'.txn /\ late'.txn < cs'.txn /\ inTxn' = {}
    BY <1>1, <1>n, <2>1, <2>2 DEF TxnInv
  <2>4. cs.state = "Committed" /\ server.txn < cs.txn /\ (late.txn = cs.txn => ~late.start) =>
          server'.txn < cs.txn /\ (late'.txn = cs'.txn => ~late'.start)
    <3>1. SUFFICES ASSUME cs.state = "Committed", server.txn < cs.txn, late.txn = cs.txn => ~late.start
                   PROVE  server'.txn < cs.txn /\ (late'.txn = cs'.txn => ~late'.start)
      OBVIOUS
    <3>2. late.txn = cs.txn => late.auto
      BY <3>1 DEF TxnInv
    <3>3. Takes(late) /\ late.txn = cs.txn => server'.txn = server.txn
      BY <1>1, <3>1, <3>2 DEF Takes, TakesPlain, TakesWrite, TakesStart, TakesCommit, TakesAbort,
             TakesMore, TakesNot, ServerIs, Runs
    <3>4. server'.txn < cs.txn
      BY <1>1, <1>n, <2>2, <3>1, <3>3
    <3> QED
      BY <1>1, <1>n, <2>1, <3>1, <3>4
  <2>5. cs.state # "None" /\ late'.txn = cs.txn => late'.auto
    BY <1>n, <2>1 DEF TxnInv
  <2> QED
    BY <1>1, <1>2, <2>3, <2>4, <2>5 DEF TxnInv
<1> QED
  BY <1>3, <1>4
(* The answer to a command that writes a document. *)
LEMMA HeadAnswered ==
  ASSUME BaseInv, DocsInv, BaseInv', DocsInv', RoundTrip, err' = Success, Inserts
  PROVE  HeadDone'
<1>1. /\ tpc = "wire" /\ op' = op /\ cmd' = cmd /\ cs'.txn = cs.txn /\ cs'.state = cs.state
      /\ Served(cmd) /\ Serve(cmd).reply = Success /\ Active /\ Sent /\ tpc' = "result"
  BY DEF RoundTrip, ClientKept, Active, Sent, Inserts
<1>2. /\ op.docs # <<>> /\ cmd.docs = {Head1} /\ cmd.kind = op.kind /\ Head1 \in Docs
      /\ Head1' = Head1 /\ HasNumber' = HasNumber /\ cmd.kind \notin {"commit", "abort", "unack"}
  BY <1>1, PendingFact DEF BaseInv, CmdInv, RetryInv, Inserts, Head1, HasNumber
<1>3. /\ Types /\ cmd \in CommandRecord /\ cmd.txn \in Nat /\ server.txn \in Nat /\ cs.txn \in Nat
      /\ cmd.txn <= cs.txn /\ server.docs \in SUBSET Docs /\ cmd.docs \in SUBSET Docs
      /\ applied[Head1] \in Nat /\ applied'[Head1] \in 0 .. 1
  BY <1>2 DEF BaseInv, Types, CommandRecord, ServerRecord, ClientRecord, NumbersInv, DocsInv, OnceInv
<1>4. Takes(cmd) /\ (TakesNot(cmd) => Repeated(cmd))
  BY <1>1, <1>3, ServeCases
<1>5. /\ op.kind = "update" /\ ~cmd.auto => cmd.txn = 0
      /\ TransactionRunning(cs) => cmd.auto /\ ~HasNumber
      /\ HasNumber => cmd.txn = cs.txn /\ cs.txn # 0
      /\ ~TransactionRunning(cs) /\ op.kind = "insert" => HasNumber \/ cmd.txn = 0
      /\ cmd.auto => cmd.txn # 0
      /\ HasNumber => ~cmd.start
  BY <1>1, <1>2 DEF BaseInv, CmdInv, RetryInv, HasNumber, Inserts
<1>6. HasNumber => ~cmd.auto
  <2>1. SUFFICES ASSUME HasNumber, cmd.auto PROVE FALSE
    OBVIOUS
  <2>2. ~cmd.start /\ cmd.txn # 0 /\ cmd.txn = cs.txn /\ HeadInv(Head1)
    BY <1>1, <1>2, <1>5, <2>1 DEF DocsInv, UnsentInv
  <2>3. ~Runs(cmd)
    BY <2>2 DEF Runs, HeadInv
  <2>4. ~Repeated(cmd)
    BY <1>2, <2>1 DEF Repeated
  <2> QED
    BY <1>4, <2>1, <2>2, <2>3, <2>4 DEF Takes, TakesPlain, TakesWrite, TakesStart, TakesCommit, TakesAbort,
             TakesMore
<1>7. ~cmd.auto => applied'[Head1] = 1
  <2>1. SUFFICES ASSUME ~cmd.auto PROVE applied'[Head1] = 1
    OBVIOUS
  <2>2. CASE TakesPlain(cmd) \/ TakesWrite(cmd)
    <3>1. applied' = Apply(cmd.docs)
      BY <2>2 DEF TakesPlain, TakesWrite
    <3>2. applied'[Head1] = applied[Head1] + 1
      BY <1>2, <1>3, <3>1, ApplyFact
    <3> QED
      BY <1>3, <3>2
  <2>3. CASE TakesNot(cmd)
    <3>1. HasNumber /\ server.txn = cmd.txn /\ server' = server
      BY <1>2, <1>4, <1>5, <2>1, <2>3 DEF Repeated, TakesNot, Inserts
    <3>2. HeadInv(Head1)'
      BY <1>1, <1>2, <3>1 DEF DocsInv, UnsentInv, Active
    <3>3. server'.txn = cs'.txn
      BY <1>1, <1>5, <3>1
    <3> QED
      BY <1>2, <3>2, <3>3 DEF HeadInv
  <2> QED
    BY <1>4, <2>1, <2>2, <2>3 DEF Takes, TakesStart, TakesCommit, TakesAbort, TakesMore, Runs
<1>8. TransactionRunning(cs) => InTransactionOK(Head1)'
  <2>1. SUFFICES ASSUME TransactionRunning(cs) PROVE InTransactionOK(Head1)'
    OBVIOUS
  <2>2. cmd.auto /\ cmd.txn # 0 /\ cmd.txn = cs.txn
    BY <1>1, <1>5, <2>1 DEF BaseInv, CmdInv
  <2>3. TakesStart(cmd) \/ TakesMore(cmd)
    BY <1>2, <1>4, <2>2 DEF Takes, TakesPlain, TakesWrite, TakesCommit, TakesAbort, TakesNot, Repeated
  <2>4. server'.txn = cmd.txn /\ server'.state = "running" /\ Head1 \in server'.docs
    BY <1>2, <2>3 DEF TakesStart, TakesMore, ServerIs
  <2> QED
    BY <1>1, <1>2, <2>2, <2>4 DEF InTransactionOK
<1> QED
  BY <1>1, <1>2, <1>6, <1>7, <1>8 DEF HeadDone, TransactionRunning

(* The answer to a commit. *)
LEMMA CommitAnswered ==
  ASSUME BaseInv, DocsInv, BaseInv', DocsInv', TxnInv, RoundTrip, err' = Success, op.kind = "commit"
  PROVE  \A d \in inTxn : applied'[d] = 1
<1>1. /\ tpc = "wire" /\ Served(cmd) /\ Serve(cmd).reply = Success /\ Sent
  BY DEF RoundTrip, Sent
<1>2. /\ Types /\ cmd \in CommandRecord /\ cmd.txn \in Nat /\ server.txn \in Nat /\ cs.txn \in Nat
      /\ inTxn \subseteq Docs /\ server.docs \in SUBSET Docs
  BY DEF BaseInv, Types, CommandRecord, ServerRecord, ClientRecord
<1>3. /\ cmd.auto /\ ~cmd.start /\ cmd.txn # 0 /\ cmd.txn = cs.txn /\ cmd.kind = "commit"
      /\ cs.state \in {"InProgress", "Committed"}
  BY <1>1 DEF BaseInv, CmdInv, FlagsInv
<1>4. Takes(cmd) /\ (TakesNot(cmd) => Repeated(cmd))
  BY <1>1, <1>2, ServeCases
<1>5. SUFFICES ASSUME NEW d \in inTxn PROVE applied'[d] = 1
  OBVIOUS
<1>6. CASE TakesCommit(cmd)
  <2>1. Runs(cmd) /\ applied' = Apply(server.docs)
    BY <1>6 DEF TakesCommit
  <2>2. server.txn = cs.txn /\ server.state = "running"
    BY <1>3, <2>1 DEF Runs
  <2>3. InTransactionOK(d)
    BY <1>2, <1>3, <2>2 DEF TxnInv
  <2>4. d \in server.docs /\ d \in Docs
    BY <1>2, <2>2, <2>3 DEF InTransactionOK
  <2>5. applied'[d] = applied[d] + 1 /\ applied[d] \in Nat /\ applied'[d] \in 0 .. 1
    BY <1>2, <2>1, <2>4, ApplyFact DEF Types, DocsInv, OnceInv
  <2> QED
    BY <2>5
<1>7. CASE TakesNot(cmd)
  <2>1. server.txn = cs.txn /\ server.state = "committed" /\ applied' = applied
    BY <1>3, <1>4, <1>7 DEF Repeated, TakesNot
  <2>2. InTransactionOK(d)
    BY <1>2, <1>3, <2>1 DEF TxnInv
  <2> QED
    BY <2>1, <2>2 DEF InTransactionOK
<1> QED
  BY <1>3, <1>4, <1>6, <1>7 DEF Takes, TakesPlain, TakesWrite, TakesStart, TakesAbort, TakesMore

(* The third invariant, when servers act. *)
LEMMA DoneServers ==
  ASSUME BaseInv, DocsInv, DoneAll, BaseInv', DocsInv', RoundTrip \/ Arrives
  PROVE  DoneAll'
<1>1. /\ cs'.txn = cs.txn /\ cs'.state = cs.state /\ inTxn' = inTxn /\ op' = op /\ cmd' = cmd
      /\ opErr' = opErr /\ inTxn \subseteq Docs /\ op.all \subseteq Docs
  BY DEF RoundTrip, Arrives, ClientKept, AppKept, BaseInv, Types, OpRecord
<1>2. TxnInv'
  BY TxnServers DEF DoneAll
<1>3. /\ \A d \in Docs : applied[d] = 1 => applied'[d] = 1
      /\ \A d \in Docs : InTransactionOK(d) => InTransactionOK(d)'
  BY ServersKeep
<1>4. /\ Pending' = Pending /\ Head1' = Head1 /\ HasNumber' = HasNumber /\ Inserts' = Inserts
      /\ (TransactionRunning(cs)') = TransactionRunning(cs) /\ Settled' = Settled
  BY <1>1 DEF Pending, Head1, HasNumber, Inserts, TransactionRunning, Settled
<1>5. DoneSoFar => DoneSoFar'
  BY <1>1, <1>3, <1>4 DEF DoneSoFar
<1>6. CASE RoundTrip
  <2>1. tpc = "wire" /\ tpc' = (IF op.kind = "unack" THEN "return" ELSE "result") /\ Active /\ Sent
    BY <1>6 DEF RoundTrip, Active, Sent
  <2>2. SettledInv'
    BY <1>1, <1>4, <2>1 DEF SettledInv, DoneAll, Inserts, Sent
  <2>3. tpc' = "result" /\ err' = Success /\ Inserts' => HeadDone'
    BY <1>4, <1>6, HeadAnswered
  <2>4. err' = Success /\ op'.kind = "commit" => \A d \in inTxn' : applied'[d] = 1
    BY <1>1, <1>6, CommitAnswered DEF DoneAll
  <2>5. ~(tpc' = "return" /\ Inserts')
    BY <1>4, <2>1 DEF Inserts
  <2>6. DoneInv'
    BY <1>1, <1>4, <1>5, <2>1, <2>3, <2>4, <2>5 DEF DoneInv, DoneAll
  <2> QED
    BY <1>2, <2>2, <2>6 DEF DoneAll
<1>7. CASE Arrives
  <2>1. tpc' = tpc /\ err' = err /\ cs' = cs
    BY <1>7 DEF Arrives
  <2>2. SettledInv'
    BY <1>1, <1>4, <2>1 DEF SettledInv, DoneAll, Sent
  <2>3. Active /\ Inserts => Head1 \in Docs
    BY PendingFact DEF BaseInv, RetryInv, Inserts
  <2>4. Active /\ Inserts /\ HeadDone => HeadDone'
    BY <1>1, <1>3, <1>4, <2>3 DEF HeadDone
  <2>5. AllDone => AllDone'
    BY <1>1, <1>3, <1>4 DEF AllDone
  <2>6. DoneInv'
    BY <1>1, <1>3, <1>4, <1>5, <2>1, <2>4, <2>5 DEF DoneInv, DoneAll, Active
  <2> QED
    BY <1>2, <2>2, <2>6 DEF DoneAll
<1> QED
  BY <1>6, <1>7
(* The third invariant, when an operation begins or the session changes. *)
LEMMA DoneBegins ==
  ASSUME BaseInv, DocsInv, DoneAll, BaseInv', DocsInv',
         \/ \E k \in CallKinds, n \in 0 .. 2 : CallStep(k, n)
         \/ Ending("commit") \/ Ending("abort") \/ IdleStep
  PROVE  DoneAll'
<1>1. /\ server' = server /\ late' = late /\ applied' = applied /\ tpc' \in {"idle", "send", "return"}
      /\ tpc' = "return" => err' = Failure("select", {})
  BY DEF CallStep, Calls, Begins, NotSelected, Ending, IdleStep, ServerKept
<1>2. Failure("select", {}) # Success
  BY DEF Failure, Success
<1>3. SettledInv'
  BY <1>1, <1>2 DEF SettledInv, Sent
<1>4. Active' /\ Inserts' => op'.all = Pending'
  <2>1. SUFFICES ASSUME Active', Inserts' PROVE op'.all = Pending'
    OBVIOUS
  <2>2. PICK k \in CallKinds, n \in 0 .. 2 : CallStep(k, n)
    <3>1. ~Ending("commit") /\ ~Ending("abort")
      BY <2>1 DEF Ending, NotSelected, Inserts
    <3>2. ~IdleStep
      BY <2>1 DEF IdleStep, Active
    <3> QED
      BY <3>1, <3>2
  <2>3. Begins(k, n)
    BY <2>1, <2>2 DEF CallStep, Calls, NotSelected, Active
  <2>4. op'.docs = NewDocs(n) /\ op'.all = NewRange(n)
    BY <2>3 DEF Begins
  <2>5. Len(op'.docs) = n /\ \A i \in 1 .. n : op'.docs[i] = docs + i
    BY <2>4 DEF NewDocs
  <2> QED
    BY <2>4, <2>5 DEF Pending, NewRange
<1>5. DoneInv'
  BY <1>1, <1>2, <1>4 DEF DoneInv, DoneSoFar
<1>t. /\ cs.txn \in Nat /\ late.txn \in Nat /\ server.txn \in Nat /\ server.txn <= cs.txn /\ late.txn <= cs.txn
      /\ cs.state # "None" => cs.txn # 0
  BY DEF BaseInv, Types, ClientRecord, CommandRecord, ServerRecord, NumbersInv
<1>6. CASE cs'.txn = cs.txn
  <2>1. \A d : InTransactionOK(d)' <=> InTransactionOK(d)
    BY <1>1, <1>6 DEF InTransactionOK
  <2>0. ~Starts /\ ~StartRefused
    BY <1>6, <1>t DEF Starts, StartRefused
  <2>2. inTxn' = inTxn
    BY <2>0 DEF CallStep, Calls, Ending, IdleStep, Stays, CommitsNothing, AbortsNothing
  <2>3. \/ cs'.state = cs.state
        \/ cs.state \in {"Starting", "InProgress", "Committed"} /\ cs'.state \in {"Committed", "Aborted"}
    BY <2>0 DEF CallStep, Calls, Begins, Ending, IdleStep, Stays, CommitsNothing, AbortsNothing,
                TransactionRunning
  <2>4. TxnInv'
    BY <1>1, <1>6, <2>1, <2>2, <2>3 DEF TxnInv, DoneAll
  <2> QED
    BY <1>3, <1>5, <2>4 DEF DoneAll
<1>7. CASE cs'.txn # cs.txn
  <2>1. cs'.txn = cs.txn + 1 /\ ~TransactionRunning(cs)
    BY <1>7 DEF CallStep, Calls, Begins, Ending, IdleStep, Stays, Starts, StartRefused, CommitsNothing,
                AbortsNothing
  <2>2. \/ cs'.state = cs.state /\ inTxn' = inTxn
        \/ cs'.state = "Starting" /\ inTxn' = {}
    BY <1>7 DEF CallStep, Calls, Begins, Ending, IdleStep, Stays, Starts, StartRefused, CommitsNothing,
                AbortsNothing
  <2>3. server'.txn < cs'.txn /\ late'.txn < cs'.txn /\ late'.txn # cs'.txn
    BY <1>1, <1>t, <2>1
  <2>4. TxnInv'
    BY <2>1, <2>2, <2>3 DEF TxnInv, TransactionRunning
  <2> QED
    BY <1>3, <1>5, <2>4 DEF DoneAll
<1> QED
  BY <1>6, <1>7

(* The third invariant, when a command is sent. *)
LEMMA DoneSends ==
  ASSUME BaseInv, DocsInv, DoneAll, BaseInv', DocsInv', Sends
  PROVE  DoneAll'
<1>1. /\ server' = server /\ late' = late /\ applied' = applied /\ op' = op /\ opErr' = opErr
      /\ inTxn' = inTxn /\ tpc = "send" /\ tpc' \in {"wire", "return"}
      /\ tpc' = "return" => err' = Failure("ended", {}) /\ cs' = cs
  BY DEF Sends, AppKept, ServerKept
<1>2. Failure("ended", {}) # Success
  BY DEF Failure, Success
<1>3. /\ cs'.txn = cs.txn
      /\ \/ cs'.state = cs.state
         \/ cs.state = "Starting" /\ cs'.state = "InProgress"
         \/ cs'.state = "None" /\ cs.state \in {"Committed", "Aborted"}
      /\ tpc' = "wire" /\ op.session /\ op.kind # "commit" => Settled'
  <2>1. CASE tpc' = "return"
    BY <1>1, <2>1
  <2>2. CASE tpc' = "wire"
    <3>1. cs' = IF op.session THEN ApplyCommand(cs) ELSE cs
      BY <2>2 DEF Sends
    <3>2. cs \in ClientRecord /\ (cs.committing => op.kind = "commit")
      BY DEF BaseInv, Types, FlagsInv
    <3> QED
      BY <3>1, <3>2, ApplyCommandFact DEF Settled
  <2> QED
    BY <1>1, <2>1, <2>2
<1>4. \A d : InTransactionOK(d)' <=> InTransactionOK(d)
  BY <1>1, <1>3 DEF InTransactionOK
<1>5. Pending' = Pending /\ Inserts' = Inserts
  BY <1>1 DEF Pending, Inserts
<1>6. TxnInv'
  BY <1>1, <1>3, <1>4 DEF TxnInv, DoneAll
<1>7. SettledInv'
  BY <1>1, <1>2, <1>3 DEF SettledInv, Sent
<1>8. DoneSoFar => DoneSoFar'
  BY <1>1, <1>3, <1>4, <1>5 DEF DoneSoFar, TransactionRunning
<1>9. DoneInv'
  BY <1>1, <1>2, <1>5, <1>8 DEF DoneInv, DoneAll, Active
<1> QED
  BY <1>6, <1>7, <1>9 DEF DoneAll
(* The third invariant, when Execute retries or returns. *)
LEMMA DoneReturns ==
  ASSUME BaseInv, DocsInv, DoneAll, BaseInv', DocsInv', RetriesOp \/ ReturnsOp
  PROVE  DoneAll'
<1>1. /\ server' = server /\ late' = late /\ applied' = applied /\ inTxn' = inTxn /\ cmd' = cmd
      /\ opErr' = opErr /\ tpc = "result" /\ tpc' \in {"send", "return"} /\ Active /\ Sent
      /\ cs'.txn = cs.txn /\ cs'.state = cs.state
      /\ op'.kind = op.kind /\ op'.docs = op.docs /\ op'.all = op.all /\ op'.retryable = op.retryable
      /\ tpc' = "return" => ReturnsOp
  BY DEF RetriesOp, ReturnsOp, AppKept, ServerKept, Active, Sent
<1>2. \A d : InTransactionOK(d)' <=> InTransactionOK(d)
  BY <1>1 DEF InTransactionOK
<1>3. /\ Pending' = Pending /\ Head1' = Head1 /\ HasNumber' = HasNumber /\ Inserts' = Inserts
      /\ (TransactionRunning(cs)') = TransactionRunning(cs) /\ Settled' = Settled
  BY <1>1 DEF Pending, Head1, HasNumber, Inserts, TransactionRunning, Settled
<1>4. TxnInv'
  BY <1>1, <1>2 DEF TxnInv, DoneAll
<1>5. SettledInv'
  <2>1. Inserts /\ (cmd.auto \/ TransactionRunning(cs)) => op.session
    BY <1>1 DEF BaseInv, RetryInv, CmdInv, Inserts
  <2> QED
    BY <1>1, <1>3, <2>1 DEF SettledInv, DoneAll, Sent, Inserts
<1>6. DoneSoFar => DoneSoFar'
  BY <1>1, <1>2, <1>3 DEF DoneSoFar
<1>7. tpc' = "return" /\ err' = Success /\ Inserts => AllDone
  <2>1. SUFFICES ASSUME ReturnsOp, err' = Success, Inserts PROVE AllDone
    BY <1>1
  <2>2. err = Success /\ opErr = Success /\ Len(op.docs) <= 1 /\ op.docs # <<>>
    BY <1>1, <2>1 DEF ReturnsOp, BaseInv, RetryInv, Inserts
  <2>3. Pending = {Head1}
    BY <2>2, PendingFact DEF BaseInv
  <2>4. DoneSoFar /\ HeadDone
    BY <1>1, <2>1, <2>2 DEF DoneAll, DoneInv
  <2>5. TransactionRunning(cs) => cmd.auto
    BY <1>1, <2>1 DEF BaseInv, RetryInv, CmdInv, Inserts
  <2>6. \A d \in op.all : d = Head1 \/ d \in op.all \ Pending
    BY <2>3
  <2> QED
    BY <2>4, <2>5, <2>6 DEF AllDone, DoneSoFar, HeadDone
<1>8. AllDone => AllDone'
  BY <1>1, <1>2, <1>3 DEF AllDone
<1>9. tpc' = "return" /\ err' = Success => err = Success
  BY <1>1 DEF ReturnsOp
<1>10. DoneInv'
  BY <1>1, <1>3, <1>6, <1>7, <1>8, <1>9 DEF DoneInv, DoneAll
<1> QED
  BY <1>4, <1>5, <1>10 DEF DoneAll

(* The third invariant, at the next document. *)
LEMMA DoneNext ==
  ASSUME BaseInv, DocsInv, DoneAll, BaseInv', DocsInv', NextDocument
  PROVE  DoneAll'
<1>1. /\ server' = server /\ late' = late /\ applied' = applied /\ inTxn' = inTxn
      /\ tpc = "result" /\ tpc' = "send" /\ Active /\ Sent /\ cs'.state = cs.state
      /\ op'.kind = op.kind /\ op'.all = op.all /\ op'.retryable = op.retryable
      /\ cs'.txn = (IF op.retryable THEN cs.txn + 1 ELSE cs.txn)
      /\ Len(op.docs) > 1 /\ op'.docs = Tail(op.docs)
      /\ opErr' = Success => opErr = Success /\ err = Success
  BY DEF NextDocument, AppKept, ServerKept, Active, Sent
<1>2. /\ op.kind = "insert" /\ op.docs # <<>> /\ (op.retryable => ~TransactionRunning(cs))
      /\ ~op.retryable => TransactionRunning(cs) \/ ~cmd.auto
      /\ op.docs \in Seq(Docs) /\ Inserts
  <2>1. op.docs \in Seq(Docs) /\ op.kind = "insert"
    BY <1>1 DEF BaseInv, Types, OpRecord, RetryInv
  <2> QED
    BY <1>1, <2>1 DEF BaseInv, RetryInv, CmdInv, Inserts
<1>t. /\ cs.txn \in Nat /\ late.txn \in Nat /\ server.txn \in Nat /\ server.txn <= cs.txn /\ late.txn <= cs.txn
  BY DEF BaseInv, Types, ClientRecord, CommandRecord, ServerRecord, NumbersInv
<1>3. Pending \ Pending' \subseteq {Head1}
  <2> DEFINE n == Len(op.docs)
             e(i) == op.docs[i]
             f(i) == op'.docs[i]
  <2>1. n \in Nat /\ n > 1 /\ Len(op'.docs) = n - 1 /\ \A i \in 1 .. n - 1 : f(i) = e(i + 1)
    BY <1>1, <1>2, TailFact
  <2>2. Pending = {e(i) : i \in 1 .. n} /\ Head1 = e(1) /\ Pending' = {f(i) : i \in 1 .. n - 1}
    BY <2>1 DEF Pending, Head1
  <2> HIDE DEF n, e, f
  <2>3. \A i \in 1 .. n : i = 1 \/ (i - 1 \in 1 .. n - 1 /\ (i - 1) + 1 = i)
    BY <2>1
  <2>4. \A i \in 1 .. n : i = 1 \/ e(i) = f(i - 1)
    BY <2>1, <2>3
  <2> QED
    BY <2>2, <2>3, <2>4
<1>4. CASE op.retryable
  <2>1. cs'.txn = cs.txn + 1 /\ ~TransactionRunning(cs) /\ HasNumber
    BY <1>1, <1>2, <1>4 DEF HasNumber
  <2>2. late'.txn < cs'.txn /\ server'.txn < cs'.txn /\ late'.txn # cs'.txn
    BY <1>1, <1>t, <2>1
  <2>3. TxnInv'
    BY <1>1, <2>1, <2>2 DEF TxnInv, TransactionRunning
  <2>4. opErr' = Success => DoneSoFar'
    <3>1. SUFFICES ASSUME opErr' = Success PROVE DoneSoFar'
      OBVIOUS
    <3>2. DoneSoFar /\ HeadDone
      BY <1>1, <1>2, <3>1 DEF DoneAll, DoneInv
    <3>3. applied[Head1] = 1
      BY <2>1, <3>2 DEF HeadDone
    <3>4. \A d \in op.all \ Pending' : d = Head1 \/ d \in op.all \ Pending
      BY <1>3
    <3> QED
      BY <1>1, <2>1, <3>2, <3>3, <3>4 DEF DoneSoFar, TransactionRunning
  <2>5. SettledInv' /\ DoneInv'
    BY <1>1, <2>4 DEF SettledInv, DoneInv, Sent
  <2> QED
    BY <2>3, <2>5 DEF DoneAll
<1>5. CASE ~op.retryable
  <2>1. cs'.txn = cs.txn /\ (TransactionRunning(cs) \/ ~cmd.auto)
    BY <1>1, <1>2, <1>5
  <2>2. \A d : InTransactionOK(d)' <=> InTransactionOK(d)
    BY <1>1, <2>1 DEF InTransactionOK
  <2>3. TxnInv'
    BY <1>1, <2>1, <2>2 DEF TxnInv, DoneAll
  <2>4. opErr' = Success => DoneSoFar'
    <3>1. SUFFICES ASSUME opErr' = Success PROVE DoneSoFar'
      OBVIOUS
    <3>2. DoneSoFar /\ HeadDone
      BY <1>1, <1>2, <3>1 DEF DoneAll, DoneInv
    <3>3. IF TransactionRunning(cs) THEN InTransactionOK(Head1) ELSE applied[Head1] = 1
      BY <2>1, <3>2 DEF HeadDone
    <3>4. \A d \in op.all \ Pending' : d = Head1 \/ d \in op.all \ Pending
      BY <1>3
    <3>5. \A d \in op.all \ Pending' :
            IF TransactionRunning(cs) THEN InTransactionOK(d) ELSE applied[d] = 1
      BY <3>2, <3>3, <3>4 DEF DoneSoFar
    <3> QED
      BY <1>1, <2>2, <3>5 DEF DoneSoFar, TransactionRunning
  <2>5. SettledInv' /\ DoneInv'
    BY <1>1, <2>4 DEF SettledInv, DoneInv, Sent
  <2> QED
    BY <2>3, <2>5 DEF DoneAll
<1> QED
  BY <1>4, <1>5

(* The third invariant, when the caller takes the result. *)
LEMMA DoneEnds ==
  ASSUME BaseInv, DocsInv, DoneAll, BaseInv', DocsInv', EndsOp
  PROVE  DoneAll'
<1>1. /\ server' = server /\ late' = late /\ applied' = applied /\ tpc = "return" /\ tpc' = "idle"
      /\ cs'.txn = cs.txn
  BY DEF EndsOp, ServerKept
<1>2. SettledInv' /\ DoneInv'
  BY <1>1 DEF SettledInv, DoneInv, Sent, Active
<1>3. \A d : InTransactionOK(d)' <=> InTransactionOK(d)
  BY <1>1 DEF InTransactionOK
<1>4. CASE op.kind \in {"commit", "abort"}
  <2>1. inTxn' = inTxn /\ cs'.state \in {"Committed", "Aborted"}
    BY <1>4 DEF EndsOp, Inserts
  <2>2. cs.state \in {"InProgress", "Committed"}
    BY <1>4 DEF BaseInv, FlagsInv
  <2> QED
    BY <1>1, <1>2, <1>3, <2>1, <2>2 DEF TxnInv, DoneAll
<1>5. CASE op.kind \notin {"commit", "abort"}
  <2>1. cs'.state = cs.state
    BY <1>5 DEF EndsOp
  <2>2. CASE inTxn' = inTxn
    BY <1>1, <1>2, <1>3, <2>1, <2>2 DEF TxnInv, DoneAll
  <2>3. CASE inTxn' # inTxn
    <3>1. /\ inTxn' = inTxn \cup op.all /\ Inserts /\ err = Success
          /\ cmd.auto \/ TransactionRunning(cs)
      BY <2>3 DEF EndsOp, BaseInv, CallersInv
    <3>2. cs.state \in {"None", "InProgress"} /\ (cs.state = "InProgress" => \A d \in op.all : InTransactionOK(d))
      BY <1>1, <3>1 DEF DoneAll, SettledInv, Settled, DoneInv, AllDone, TransactionRunning
    <3>3. cs.state = "InProgress" => \A d \in inTxn : InTransactionOK(d)
      BY DEF DoneAll, TxnInv
    <3> QED
      BY <1>1, <1>2, <1>3, <2>1, <3>1, <3>2, <3>3 DEF TxnInv, DoneAll
  <2> QED
    BY <2>2, <2>3
<1> QED
  BY <1>4, <1>5

(* The third invariant is inductive, with the ones before. *)
LEMMA DoneStep ==
  ASSUME BaseInv, DocsInv, DoneAll, BaseInv', DocsInv', Form
  PROVE  DoneAll'
BY DoneBegins, DoneSends, DoneServers, DoneReturns, DoneNext, DoneEnds DEF Form

(* It holds at the start. *)
LEMMA DoneInit ==
  ASSUME MaxDocs \in Nat, Init
  PROVE  DoneAll
<1>1. cs.state = "None" /\ tpc = "idle"
  BY DEF Init
<1> QED
  BY <1>1 DEF DoneAll, TxnInv, SettledInv, DoneInv, Sent, Active
-----------------------------------------------------------------------------
(* The fourth invariant: the runs of a callback *)

Earlier(d) == \E e \in attempt : e > d
(* No commit of d is on its way; if d is of an earlier transaction, none    *)
(* ever will be.                                                            *)
Lost(d) ==
  /\ applied[d] = 0
  /\ d \in late.docs => late.auto
  /\ d \in server.docs => ~(late.kind = "commit" /\ late.txn = server.txn)
OldLost(d) ==
  /\ Lost(d)
  /\ d \in late.docs => late.txn < cs.txn
  /\ d \in server.docs => server.txn < cs.txn
Undecided(d) ==
  /\ applied[d] = 1 => server.txn = cs.txn /\ server.state = "committed"
  /\ d \in server.docs => server.txn = cs.txn
  /\ d \in late.docs => late.txn = cs.txn /\ late.auto

(* Only the last run is being written; all runs before are lost, the last   *)
(* is so until it commits, and a transaction that starts anew has none; the *)
(* last run belongs to the session's number, until it is known to be lost.  *)
RunInv == \A d \in attempt : d \in Pending /\ Active => caller = "callback" /\ ~Earlier(d)
EarlierInv == \A d \in attempt : Earlier(d) => OldLost(d)
LostInv ==
  caller \in {"start", "callback", "callbackAborts", "callbackFailed"} => \A d \in attempt : Lost(d)
AnewInv == caller = "callback" /\ tpc = "idle" => \A d \in attempt : OldLost(d)
LastInv ==
  caller = "commitLoop" \/ (caller = "callback" /\ tpc # "idle") =>
    \A d \in attempt : ~Earlier(d) => Undecided(d)
TransientInv ==
  caller = "commitLoop" /\ tpc \in {"result", "return"} /\ "Transient" \in err.labels =>
    \A d \in attempt : Lost(d)
CallbackInv == RunInv /\ EarlierInv /\ LostInv /\ AnewInv /\ LastInv /\ TransientInv

(* No commit arrives late for a transaction that is not being committed.    *)
CommitInv == late.kind = "commit" /\ late.txn = cs.txn /\ TransactionRunning(cs) => op.kind = "commit"
(* No commit arrives late for a transaction that runs. *)
LEMMA CommitStep ==
  ASSUME BaseInv, CommitInv, BaseInv', Form
  PROVE  CommitInv'
<1>t. cs.txn \in Nat /\ late.txn \in Nat /\ late.txn <= cs.txn
  BY DEF BaseInv, Types, ClientRecord, CommandRecord, NumbersInv
<1>1. CASE \E k \in CallKinds, n \in 0 .. 2 : CallStep(k, n)
  <2>1. /\ op.kind = "none" /\ late' = late /\ cs'.state = cs.state
        /\ cs'.txn = cs.txn \/ cs'.txn = cs.txn + 1
    BY <1>1 DEF CallStep, Calls, Begins, NotSelected, ServerKept, BaseInv, FlagsInv
  <2> QED
    BY <1>t, <2>1 DEF CommitInv, TransactionRunning
<1>2. CASE Ending("commit") \/ Ending("abort")
  <2>1. op.kind = "none" /\ late' = late /\ cs'.state = cs.state /\ cs'.txn = cs.txn
    BY <1>2 DEF Ending, NotSelected, ServerKept, BaseInv, FlagsInv
  <2> QED
    BY <2>1 DEF CommitInv, TransactionRunning
<1>3. CASE IdleStep
  <2>1. /\ op.kind = "none" /\ op' = op /\ late' = late
        /\ \/ cs'.txn = cs.txn /\ (cs'.state = cs.state \/ cs'.state \in {"Committed", "Aborted"})
           \/ cs'.txn = cs.txn + 1
    BY <1>3 DEF IdleStep, Stays, Starts, StartRefused, CommitsNothing, AbortsNothing, ServerKept, BaseInv, FlagsInv
  <2> QED
    BY <1>t, <2>1 DEF CommitInv, TransactionRunning
<1>4. CASE Sends
  <2>1. op' = op /\ late' = late /\ cs'.txn = cs.txn /\ (TransactionRunning(cs') => TransactionRunning(cs))
    BY <1>4, ApplyCommandFact DEF Sends, ServerKept, BaseInv, Types, TransactionRunning
  <2> QED
    BY <2>1 DEF CommitInv
<1>5. CASE RoundTrip
  <2>1. op' = op /\ late' \in {late, cmd} /\ cs'.txn = cs.txn /\ cs'.state = cs.state /\ cmd.kind = op.kind
    BY <1>5 DEF RoundTrip, ClientKept, BaseInv, CmdInv, Sent
  <2> QED
    BY <2>1 DEF CommitInv, TransactionRunning
<1>6. CASE RetriesOp \/ ReturnsOp \/ NextDocument
  <2>1. /\ op'.kind = op.kind /\ late' = late /\ cs'.state = cs.state
        /\ cs'.txn = cs.txn \/ cs'.txn = cs.txn + 1
    BY <1>6 DEF RetriesOp, ReturnsOp, NextDocument, ServerKept
  <2> QED
    BY <1>t, <2>1 DEF CommitInv, TransactionRunning
<1>7. CASE EndsOp
  <2>1. /\ late' = late /\ cs'.txn = cs.txn
        /\ IF op.kind \in {"commit", "abort"} THEN cs'.state \in {"Committed", "Aborted"}
           ELSE cs'.state = cs.state
    BY <1>7 DEF EndsOp, ServerKept
  <2> QED
    BY <2>1 DEF CommitInv, TransactionRunning
<1>8. CASE Arrives
  <2>1. op' = op /\ cs' = cs /\ (late' = late \/ late'.kind = "none")
    BY <1>8 DEF Arrives, NoCommand
  <2> QED
    BY <2>1 DEF CommitInv, TransactionRunning
<1> QED
  BY <1>1, <1>2, <1>3, <1>4, <1>5, <1>6, <1>7, <1>8 DEF Form

(* A document of an earlier run stays lost when a command without it is     *)
(* answered. *)
LEMMA OldLostCmd ==
  ASSUME BaseInv, DocsInv, RoundTrip, NEW d \in Docs, d \notin cmd.docs, OldLost(d)
  PROVE  OldLost(d)'
<1>1. /\ tpc = "wire" /\ cs'.txn = cs.txn /\ Types /\ cmd \in CommandRecord /\ Sent
      /\ \/ Served(cmd) /\ late' = late
         \/ server' = server /\ applied' = applied /\ late' \in {late, cmd}
  BY DEF RoundTrip, ClientKept, BaseInv, Types, Sent
<1>2. /\ cmd.txn # 0 => cmd.txn = cs.txn
      /\ cmd.kind = "commit" => cmd.txn = cs.txn
      /\ cmd.auto => cmd.txn = cs.txn
  BY <1>1 DEF BaseInv, CmdInv
<1>t. /\ cs.txn \in Nat /\ cmd.txn \in Nat /\ server.txn \in Nat /\ cmd.docs \in SUBSET Docs
      /\ server.docs \in SUBSET Docs
  BY <1>1 DEF Types, ClientRecord, CommandRecord, ServerRecord
<1>3. /\ applied[d] = 0 /\ (d \in late.docs => late.auto /\ late.txn < cs.txn)
      /\ d \in server.docs => ~(late.kind = "commit" /\ late.txn = server.txn) /\ server.txn < cs.txn
  BY DEF OldLost, Lost
<1>4. CASE Served(cmd) /\ late' = late
  <2>1. Takes(cmd)
    BY <1>1, <1>4, ServeCases
  <2>2. applied'[d] = 0 /\ (d \in server'.docs => server'.txn = server.txn /\ d \in server.docs)
    <3>1. /\ Apply(cmd.docs)[d] = applied[d]
          /\ d \notin server.docs => Apply(server.docs)[d] = applied[d]
      BY <1>1, <1>t, ApplyFact
    <3>2. Runs(cmd) => d \notin server.docs
      BY <1>2, <1>3, <1>t DEF Runs
    <3> QED
      BY <1>3, <2>1, <3>1, <3>2 DEF Takes, TakesPlain, TakesWrite, TakesStart, TakesCommit, TakesAbort,
                                    TakesMore, TakesNot, ServerIs
  <2> QED
    BY <1>1, <1>3, <1>4, <2>2 DEF OldLost, Lost
<1>5. CASE server' = server /\ applied' = applied /\ late' \in {late, cmd}
  BY <1>1, <1>2, <1>3, <1>5, <1>t DEF OldLost, Lost
<1> QED
  BY <1>1, <1>4, <1>5

(* What is lost stays lost when servers act by themselves. *)
LEMMA LostArrives ==
  ASSUME BaseInv, DocsInv, Arrives, NEW d \in Docs, Lost(d)
  PROVE  /\ Lost(d)'
         /\ d \in late'.docs => late' = late
         /\ d \in server'.docs =>
              \/ d \in server.docs /\ server'.txn = server.txn
              \/ d \in late.docs /\ server'.txn = late.txn
<1>1. /\ Types /\ late \in CommandRecord /\ (late.auto => late.txn # 0)
      /\ \/ Served(late) /\ late' = NoCommand
         \/ /\ server.state = "running" /\ late' = late /\ applied' = applied
            /\ server' = [server EXCEPT !.state = "aborted", !.docs = {}]
  BY DEF Arrives, BaseInv, Types, CmdInv
<1>3. /\ applied[d] = 0 /\ (d \in late.docs => late.auto)
      /\ d \in server.docs => ~(late.kind = "commit" /\ late.txn = server.txn)
  BY DEF Lost
<1>t. late.docs \in SUBSET Docs /\ server.docs \in SUBSET Docs
  BY <1>1 DEF Types, CommandRecord, ServerRecord
<1>4. CASE Served(late) /\ late' = NoCommand
  <2>1. Takes(late)
    BY <1>1, <1>4, ServeCases
  <2>2. /\ d \notin late.docs => Apply(late.docs)[d] = applied[d]
        /\ d \notin server.docs => Apply(server.docs)[d] = applied[d]
    BY <1>1, <1>t, ApplyFact
  <2>3. late'.docs = {} /\ late'.kind = "none"
    BY <1>4 DEF NoCommand
  <2>4. applied'[d] = 0
    BY <1>1, <1>3, <2>1, <2>2 DEF Takes, TakesPlain, TakesWrite, TakesStart, TakesCommit, TakesAbort,
                                  TakesMore, TakesNot, Runs
  <2>5. d \in server'.docs =>
              \/ d \in server.docs /\ server'.txn = server.txn
              \/ d \in late.docs /\ server'.txn = late.txn
    BY <2>1 DEF Takes, TakesPlain, TakesWrite, TakesStart, TakesCommit, TakesAbort,
                TakesMore, TakesNot, ServerIs, Runs
  <2> QED
    BY <2>3, <2>4, <2>5 DEF Lost
<1>5. CASE ~(Served(late) /\ late' = NoCommand)
  <2>1. server'.docs = {} /\ late' = late /\ applied' = applied
    BY <1>1, <1>5 DEF Types, ServerRecord
  <2> QED
    BY <1>3, <2>1 DEF Lost
<1> QED
  BY <1>4, <1>5
(* What is lost stays lost when a command other than a commit is answered. *)
LEMMA LostCmd ==
  ASSUME BaseInv, DocsInv, CommitInv, RoundTrip, op.kind # "commit", NEW d \in Docs, Lost(d),
         d \in cmd.docs => op.session /\ TransactionRunning(cs)
  PROVE  Lost(d)'
<1>1. /\ tpc = "wire" /\ cs'.txn = cs.txn /\ Types /\ cmd \in CommandRecord /\ Sent
      /\ \/ Served(cmd) /\ late' = late
         \/ server' = server /\ applied' = applied /\ late' \in {late, cmd}
  BY DEF RoundTrip, ClientKept, BaseInv, Types, Sent
<1>2. /\ cmd.kind # "commit"
      /\ d \in cmd.docs => cmd.auto /\ cmd.txn # 0 /\ ~(late.kind = "commit" /\ late.txn = cmd.txn)
  BY <1>1 DEF BaseInv, CmdInv, CommitInv
<1>t. cmd.docs \in SUBSET Docs /\ server.docs \in SUBSET Docs
  BY <1>1 DEF Types, CommandRecord, ServerRecord
<1>3. /\ applied[d] = 0 /\ (d \in late.docs => late.auto)
      /\ d \in server.docs => ~(late.kind = "commit" /\ late.txn = server.txn)
  BY DEF Lost
<1>4. CASE Served(cmd) /\ late' = late
  <2>1. Takes(cmd)
    BY <1>1, <1>4, ServeCases
  <2>2. d \notin cmd.docs => Apply(cmd.docs)[d] = applied[d]
    BY <1>1, <1>t, ApplyFact
  <2>3. applied'[d] = 0
    BY <1>2, <1>3, <2>1, <2>2 DEF Takes, TakesPlain, TakesWrite, TakesStart, TakesCommit, TakesAbort,
                                  TakesMore, TakesNot
  <2>4. d \in server'.docs =>
          \/ d \in server.docs /\ server'.txn = server.txn
          \/ d \in cmd.docs /\ server'.txn = cmd.txn
    BY <2>1 DEF Takes, TakesPlain, TakesWrite, TakesStart, TakesCommit, TakesAbort,
                TakesMore, TakesNot, ServerIs, Runs
  <2> QED
    BY <1>2, <1>3, <1>4, <2>3, <2>4 DEF Lost
<1>5. CASE server' = server /\ applied' = applied /\ late' \in {late, cmd}
  BY <1>2, <1>3, <1>5 DEF Lost
<1> QED
  BY <1>1, <1>4, <1>5

(* The last run of the callback, when its insert or its commit is answered. *)
LEMMA UndecidedCmd ==
  ASSUME BaseInv, DocsInv, RoundTrip, cmd.auto, cmd.kind # "abort", NEW d \in Docs, Undecided(d)
  PROVE  Undecided(d)'
<1>1. /\ tpc = "wire" /\ cs'.txn = cs.txn /\ Types /\ cmd \in CommandRecord /\ Sent
      /\ \/ Served(cmd) /\ late' = late
         \/ server' = server /\ applied' = applied /\ late' \in {late, cmd}
  BY DEF RoundTrip, ClientKept, BaseInv, Types, Sent
<1>2. cmd.txn # 0 /\ cmd.txn = cs.txn
  BY <1>1 DEF BaseInv, CmdInv
<1>t. /\ cs.txn \in Nat /\ server.txn \in Nat
  BY <1>1 DEF Types, ClientRecord, ServerRecord
<1>3. /\ applied[d] = 1 => server.txn = cs.txn /\ server.state = "committed"
      /\ d \in server.docs => server.txn = cs.txn
      /\ d \in late.docs => late.txn = cs.txn /\ late.auto
  BY DEF Undecided
<1>4. CASE Served(cmd) /\ late' = late
  <2>1. Takes(cmd)
    BY <1>1, <1>4, ServeCases
  <2>2. /\ applied'[d] = 1 => server'.txn = cs.txn /\ server'.state = "committed"
        /\ d \in server'.docs => server'.txn = cs.txn
    BY <1>2, <1>3, <1>t, <2>1 DEF Takes, TakesPlain, TakesWrite, TakesStart, TakesCommit, TakesAbort,
                                  TakesMore, TakesNot, ServerIs, Runs
  <2> QED
    BY <1>1, <1>3, <1>4, <2>2 DEF Undecided
<1>5. CASE server' = server /\ applied' = applied /\ late' \in {late, cmd}
  BY <1>1, <1>2, <1>3, <1>5 DEF Undecided
<1> QED
  BY <1>1, <1>4, <1>5

(* The last run of the callback, when servers act by themselves. *)
LEMMA UndecidedArrives ==
  ASSUME BaseInv, DocsInv, Arrives, NEW d \in Docs, Undecided(d)
  PROVE  Undecided(d)'
<1>1. /\ Types /\ late \in CommandRecord /\ (late.auto => late.txn # 0) /\ cs' = cs /\ late.txn <= cs.txn
      /\ \/ Served(late) /\ late' = NoCommand
         \/ /\ server.state = "running" /\ late' = late /\ applied' = applied
            /\ server' = [server EXCEPT !.state = "aborted", !.docs = {}]
  BY DEF Arrives, BaseInv, Types, CmdInv, NumbersInv
<1>t. /\ cs.txn \in Nat /\ server.txn \in Nat /\ late.txn \in Nat
      /\ late.docs \in SUBSET Docs /\ server.docs \in SUBSET Docs
  BY <1>1 DEF Types, ClientRecord, ServerRecord, CommandRecord
<1>3. /\ applied[d] = 1 => server.txn = cs.txn /\ server.state = "committed"
      /\ d \in server.docs => server.txn = cs.txn
      /\ d \in late.docs => late.txn = cs.txn /\ late.auto
  BY DEF Undecided
<1>4. CASE Served(late) /\ late' = NoCommand
  <2>1. Takes(late) /\ late'.docs = {}
    BY <1>1, <1>4, ServeCases DEF NoCommand
  <2>2. /\ d \notin late.docs => Apply(late.docs)[d] = applied[d]
        /\ d \notin server.docs => Apply(server.docs)[d] = applied[d]
    BY <1>1, <1>t, ApplyFact
  <2>3. CASE TakesPlain(late) \/ TakesWrite(late)
    <3>1. d \notin late.docs
      BY <1>1, <1>3, <2>3 DEF TakesPlain, TakesWrite
    <3>2. applied'[d] = applied[d]
      BY <2>2, <2>3, <3>1 DEF TakesPlain, TakesWrite
    <3> QED
      BY <1>1, <1>3, <1>t, <2>1, <2>3, <3>2 DEF TakesPlain, TakesWrite, ServerIs, Undecided
  <2>4. CASE TakesStart(late)
    BY <1>1, <1>3, <1>t, <2>1, <2>4 DEF TakesStart, ServerIs, Undecided
  <2>5. CASE TakesCommit(late)
    BY <1>1, <1>3, <2>1, <2>2, <2>5 DEF TakesCommit, ServerIs, Runs, Undecided
  <2>6. CASE TakesAbort(late) \/ TakesMore(late)
    BY <1>1, <1>3, <2>1, <2>6 DEF TakesAbort, TakesMore, ServerIs, Runs, Undecided
  <2>7. CASE TakesNot(late)
    BY <1>1, <1>3, <2>1, <2>7 DEF TakesNot, Undecided
  <2> QED
    BY <2>1, <2>3, <2>4, <2>5, <2>6, <2>7 DEF Takes
<1>5. CASE ~(Served(late) /\ late' = NoCommand)
  <2>1. server'.docs = {} /\ late' = late /\ applied' = applied /\ server.state = "running"
    BY <1>1, <1>5 DEF Types, ServerRecord
  <2> QED
    BY <1>1, <1>3, <2>1 DEF Undecided
<1> QED
  BY <1>4, <1>5

(* A commit that is answered with a transient error is lost. *)
LEMMA TransientLost ==
  ASSUME BaseInv, DocsInv, RoundTrip, op.kind = "commit", "Transient" \in err'.labels,
         NEW d \in Docs, Undecided(d)
  PROVE  Lost(d)'
<1>1. /\ tpc = "wire" /\ Types /\ cmd \in CommandRecord /\ Sent /\ Served(cmd) /\ Serve(cmd).reply # Success
      /\ late' \in {late, cmd}
  BY DEF RoundTrip, BaseInv, Types, Sent
<1>2. /\ cmd.txn = cs.txn /\ cmd.auto /\ ~cmd.start /\ cmd.kind = "commit" /\ cmd.docs = {}
  BY <1>1 DEF BaseInv, CmdInv, RetryInv
<1>3. TakesNot(cmd) /\ ~Repeated(cmd)
  BY <1>1, ServeCases
<1>4. server' = server /\ applied' = applied /\ ~Runs(cmd)
  BY <1>3 DEF TakesNot
<1>5. applied[d] \in 0 .. 1 /\ (server.state # "running" => server.docs = {})
  BY DEF DocsInv, OnceInv
<1>6. applied[d] = 0
  BY <1>2, <1>3, <1>5 DEF Undecided, Repeated
<1>7. d \notin server.docs
  BY <1>2, <1>4, <1>5 DEF Undecided, Runs
<1> QED
  BY <1>1, <1>2, <1>4, <1>6, <1>7 DEF Lost, Undecided

(* Nothing is applied, sent or received: what is lost stays lost, and with  *)
(* the same number, what is undecided. *)
LEMMA LostKept ==
  ASSUME BaseInv, BaseInv', ServerKept, cs'.txn >= cs.txn, NEW d
  PROVE  /\ Lost(d) => Lost(d)'
         /\ OldLost(d) => OldLost(d)'
         /\ Lost(d) /\ cs'.txn > cs.txn => OldLost(d)'
         /\ Undecided(d) /\ cs'.txn = cs.txn => Undecided(d)'
<1>1. /\ cs.txn \in Nat /\ cs'.txn \in Nat /\ server.txn \in Nat /\ late.txn \in Nat
      /\ server.txn <= cs.txn /\ late.txn <= cs.txn
  BY DEF BaseInv, Types, ClientRecord, CommandRecord, ServerRecord, NumbersInv
<1>2. server' = server /\ late' = late /\ applied' = applied
  BY DEF ServerKept
<1>3. Lost(d) => Lost(d)'
  BY <1>2 DEF Lost
<1>4. Undecided(d) /\ cs'.txn = cs.txn => Undecided(d)'
  BY <1>2 DEF Undecided
<1> QED
  BY <1>1, <1>2, <1>3, <1>4 DEF OldLost

(* The callback writes a document, or the application does. *)
LEMMA CallbackCalls ==
  ASSUME BaseInv, DocsInv, CallbackInv, BaseInv',
         NEW k \in CallKinds, NEW n \in 0 .. 2, CallStep(k, n)
  PROVE  CallbackInv'
<1>1. /\ ServerKept /\ tpc = "idle" /\ caller' = caller /\ docs' = docs + n /\ docs' <= MaxDocs
      /\ tpc' \in {"send", "return"} /\ cs'.state = cs.state
      /\ cs'.txn = cs.txn \/ (cs'.txn = cs.txn + 1 /\ ~TransactionRunning(cs))
      /\ \/ caller = "application" /\ attempt' = attempt
         \/ caller = "callback" /\ attempt' = attempt \cup {docs'} /\ n = 1
      /\ tpc' = "send" => op'.docs = NewDocs(n)
  BY DEF CallStep, Calls, Begins, NotSelected
<1>t. /\ cs.txn \in Nat /\ docs \in 0 .. MaxDocs /\ MaxDocs \in Nat /\ attempt \subseteq Docs
      /\ Docs = 1 .. MaxDocs
  BY DEF BaseInv, Types, ClientRecord, Docs
<1>2. \A d \in attempt : d \in 1 .. docs
  BY <1>t DEF DocsInv, NewDocsInv, Untouched
<1>3. tpc' = "send" => Pending' = {docs + i : i \in 1 .. n}
  BY <1>1, <1>t DEF Pending, NewDocs
<1>4. /\ \A d : Lost(d) => Lost(d)'
      /\ \A d : OldLost(d) => OldLost(d)'
  BY <1>1, <1>t, LostKept
<1>5. CASE caller = "application"
  <2>1. attempt' = attempt /\ caller' = "application"
    BY <1>1, <1>5
  <2>2. RunInv'
    <3>1. \A d \in attempt : tpc' = "send" => d \notin Pending'
      BY <1>2, <1>3, <1>t
    <3> QED
      BY <1>1, <2>1, <3>1 DEF RunInv, Active
  <2>3. EarlierInv'
    BY <1>4, <2>1 DEF CallbackInv, EarlierInv, Earlier
  <2> QED
    BY <2>1, <2>2, <2>3 DEF CallbackInv, LostInv, AnewInv, LastInv, TransientInv
<1>6. CASE caller = "callback"
  <2>1. /\ attempt' = attempt \cup {docs'} /\ n = 1 /\ docs' = docs + 1 /\ docs' \in Docs
        /\ caller' = "callback" /\ tpc' # "idle" /\ cs'.txn = cs.txn
    BY <1>1, <1>6, <1>t DEF BaseInv, CallersInv
  <2>2. tpc' = "send" => Pending' = {docs'}
    BY <1>3, <2>1
  <2>3. \A d \in attempt' : IF d = docs' THEN ~Earlier(d)' ELSE d \in attempt /\ Earlier(d)'
    BY <1>2, <1>t, <2>1 DEF Earlier
  <2>4. \A d \in attempt : OldLost(d)' /\ Lost(d)'
    BY <1>1, <1>4, <1>6 DEF CallbackInv, AnewInv, OldLost
  <2>e. PICK e : e = docs'
    OBVIOUS
  <2>5. Lost(e)' /\ Undecided(e)'
    <3>1. Unsent(e)
      BY <1>t, <2>1, <2>e DEF DocsInv, NewDocsInv, Untouched
    <3>2. applied'[e] = 0 /\ e \notin server'.docs /\ e \notin late'.docs
      BY <1>1, <3>1 DEF Unsent, ServerKept
    <3> QED
      BY <3>2 DEF Lost, Undecided
  <2>6. RunInv'
    BY <1>1, <2>1, <2>2, <2>3 DEF RunInv, Active
  <2>7. EarlierInv' /\ LostInv' /\ LastInv'
    BY <2>3, <2>4, <2>5, <2>e DEF EarlierInv, LostInv, LastInv
  <2> QED
    BY <2>1, <2>6, <2>7 DEF CallbackInv, AnewInv, TransientInv
<1> QED
  BY <1>1, <1>5, <1>6

(* A commit or an abort begins. *)
LEMMA CallbackEnding ==
  ASSUME BaseInv, DocsInv, CallbackInv, BaseInv', Ending("commit") \/ Ending("abort")
  PROVE  CallbackInv'
<1>1. /\ ServerKept /\ tpc = "idle" /\ attempt' = attempt /\ cs'.txn = cs.txn /\ op'.docs = <<>>
      /\ \/ /\ caller \in {"application", "commitLoop", "callbackAborts", "callbackFailed"}
            /\ caller' = caller
         \/ caller' = "endSession"
      /\ tpc' = "send" \/ err'.labels = {}
  BY DEF Ending, NotSelected, Failure
<1>2. Pending' = {}
  BY <1>1, PendingFact DEF BaseInv, Pending
<1>t. cs.txn \in Nat
  BY DEF BaseInv, Types, ClientRecord
<1>3. \A d : /\ Lost(d) => Lost(d)'
             /\ OldLost(d) => OldLost(d)'
             /\ Undecided(d) => Undecided(d)'
  BY <1>1, <1>t, LostKept
<1>4. RunInv' /\ AnewInv'
  BY <1>1, <1>2 DEF RunInv, AnewInv
<1>5. EarlierInv' /\ LostInv' /\ LastInv'
  BY <1>1, <1>3 DEF CallbackInv, EarlierInv, LostInv, LastInv, Earlier
<1>6. TransientInv'
  BY <1>1 DEF TransientInv
<1> QED
  BY <1>4, <1>5, <1>6 DEF CallbackInv

(* The session changes, between two operations. *)
LEMMA CallbackIdle ==
  ASSUME BaseInv, DocsInv, CallbackInv, BaseInv', IdleStep
  PROVE  CallbackInv'
<1>t. cs.txn \in Nat
  BY DEF BaseInv, Types, ClientRecord
<1>1. /\ ServerKept /\ tpc = "idle" /\ tpc' = "idle"
      /\ cs'.txn = cs.txn \/ cs'.txn = cs.txn + 1
      /\ caller \in {"commitLoop", "callbackAborts", "callbackFailed"} => cs'.txn = cs.txn
      /\ \/ /\ caller \in {"application", "commitLoop", "callbackAborts", "callbackFailed"}
            /\ caller' = caller /\ attempt' = attempt
         \/ caller = "application" /\ caller' = "start" /\ attempt' = {}
         \/ caller = "start" /\ caller' = "application" /\ attempt' = attempt
         \/ caller = "start" /\ caller' = "callback" /\ attempt' = attempt /\ cs'.txn = cs.txn + 1
         \/ caller = "callbackFailed" /\ caller' \in {"application", "start"} /\ attempt' = attempt
  BY DEF IdleStep, Stays, Starts, StartRefused, CommitsNothing, AbortsNothing
<1>2. \A d : /\ Lost(d) => Lost(d)'
             /\ OldLost(d) => OldLost(d)'
             /\ Lost(d) /\ cs'.txn = cs.txn + 1 => OldLost(d)'
             /\ Undecided(d) /\ cs'.txn = cs.txn => Undecided(d)'
  BY <1>1, <1>t, LostKept
<1>3. RunInv' /\ TransientInv'
  BY <1>1 DEF RunInv, TransientInv, Active
<1>4. EarlierInv' /\ LostInv'
  BY <1>1, <1>2 DEF CallbackInv, EarlierInv, LostInv, Earlier
<1>5. AnewInv' /\ LastInv'
  BY <1>1, <1>2 DEF CallbackInv, AnewInv, LostInv, LastInv, Earlier
<1> QED
  BY <1>3, <1>4, <1>5 DEF CallbackInv

(* The caller takes the result. *)
LEMMA CallbackEnds ==
  ASSUME BaseInv, DocsInv, CallbackInv, BaseInv', EndsOp
  PROVE  CallbackInv'
<1>t. cs.txn \in Nat
  BY DEF BaseInv, Types, ClientRecord
<1>1. /\ ServerKept /\ tpc = "return" /\ tpc' = "idle" /\ cs'.txn = cs.txn /\ attempt' = attempt
      /\ \/ caller \in {"application", "endSession"} /\ caller' = "application"
         \/ caller = "callback" /\ caller' \in {"commitLoop", "callbackAborts", "callbackFailed"}
         \/ caller = "callbackAborts" /\ caller' \in {"application", "callbackFailed"}
         \/ caller = "callbackFailed" /\ caller' = "callbackFailed"
         \/ caller = "commitLoop" /\ caller' \in {"application", "commitLoop"}
         \/ caller = "commitLoop" /\ caller' = "start" /\ "Transient" \in err.labels
  BY DEF EndsOp
<1>2. \A d : /\ Lost(d) => Lost(d)'
             /\ OldLost(d) => OldLost(d)'
             /\ Undecided(d) => Undecided(d)'
  BY <1>1, <1>t, LostKept
<1>3. RunInv' /\ AnewInv' /\ TransientInv'
  BY <1>1 DEF RunInv, AnewInv, TransientInv, Active
<1>4. EarlierInv' /\ LastInv'
  BY <1>1, <1>2 DEF CallbackInv, EarlierInv, LastInv, Earlier
<1>5. LostInv'
  BY <1>1, <1>2 DEF CallbackInv, LostInv, TransientInv
<1> QED
  BY <1>3, <1>4, <1>5 DEF CallbackInv

(* Execute sends a command, retries it, goes on or returns. *)
LEMMA CallbackExecutes ==
  ASSUME BaseInv, DocsInv, CallbackInv, BaseInv', Sends \/ RetriesOp \/ ReturnsOp \/ NextDocument
  PROVE  CallbackInv'
<1>t. cs.txn \in Nat /\ op.docs \in Seq(Docs)
  BY DEF BaseInv, Types, ClientRecord, OpRecord
<1>1. /\ ServerKept /\ Active /\ tpc' \in {"send", "wire", "return"} /\ tpc' # "idle" /\ tpc # "idle"
      /\ attempt' = attempt /\ caller' = caller
  BY DEF Sends, RetriesOp, ReturnsOp, NextDocument, AppKept, Active
<1>2. /\ cs'.txn = cs.txn \/ cs'.txn = cs.txn + 1
      /\ caller \in {"callback", "commitLoop"} => cs'.txn = cs.txn
  <2>1. CASE Sends \/ RetriesOp \/ ReturnsOp
    BY <2>1, ApplyCommandFact DEF Sends, RetriesOp, ReturnsOp, BaseInv, Types
  <2>2. CASE NextDocument
    <3>1. op.kind = "insert" /\ op.kind # "commit" /\ op.kind # "none"
      BY <2>2 DEF NextDocument, BaseInv, RetryInv
    <3>2. caller \in {"callback", "commitLoop"} => ~op.retryable
      BY <1>1, <3>1 DEF BaseInv, RetryInv, CallersInv
    <3> QED
      BY <2>2, <3>2 DEF NextDocument
  <2> QED
    BY <2>1, <2>2
<1>3. Pending' \subseteq Pending
  <2>1. CASE Sends \/ RetriesOp \/ ReturnsOp
    BY <2>1 DEF Sends, RetriesOp, ReturnsOp, Pending
  <2>2. CASE NextDocument
    <3>1. op'.docs = Tail(op.docs) /\ Len(op.docs) > 1
      BY <2>2 DEF NextDocument
    <3> QED
      BY <1>t, <3>1 DEF Pending
  <2> QED
    BY <2>1, <2>2
<1>4. \A d : /\ Lost(d) => Lost(d)'
             /\ OldLost(d) => OldLost(d)'
             /\ Undecided(d) /\ cs'.txn = cs.txn => Undecided(d)'
  BY <1>1, <1>2, <1>t, LostKept
<1>5. RunInv' /\ AnewInv'
  BY <1>1, <1>3 DEF CallbackInv, RunInv, AnewInv, Earlier
<1>6. EarlierInv' /\ LostInv'
  BY <1>1, <1>4 DEF CallbackInv, EarlierInv, LostInv, Earlier
<1>7. LastInv'
  BY <1>1, <1>2, <1>4 DEF CallbackInv, LastInv, Earlier
<1>8. TransientInv'
  <2>1. SUFFICES ASSUME caller' = "commitLoop", tpc' \in {"result", "return"}, "Transient" \in err'.labels
                 PROVE  \A d \in attempt' : Lost(d)'
    BY DEF TransientInv
  <2>2. op.kind = "commit" /\ opErr.labels = {}
    BY <1>1, <2>1 DEF BaseInv, CallersInv, FlagsInv, Success, Failure
  <2>3. tpc = "result" /\ "Transient" \in err.labels
    BY <2>1, <2>2 DEF Sends, RetriesOp, ReturnsOp, NextDocument, Failure, Success
  <2> QED
    BY <1>1, <1>4, <2>1, <2>3 DEF CallbackInv, TransientInv
<1> QED
  BY <1>5, <1>6, <1>7, <1>8 DEF CallbackInv

(* A command is answered, or lost. *)
LEMMA CallbackRoundTrip ==
  ASSUME BaseInv, DocsInv, CommitInv, CallbackInv, BaseInv', RoundTrip
  PROVE  CallbackInv'
<1>1. /\ tpc = "wire" /\ Active /\ Sent /\ tpc' \in {"result", "return"} /\ op' = op /\ caller' = caller
      /\ attempt' = attempt /\ attempt \subseteq Docs /\ cs'.txn = cs.txn /\ cmd.kind = op.kind
  BY DEF RoundTrip, AppKept, ClientKept, Active, Sent, BaseInv, CmdInv, Types
<1>2. \A d \in cmd.docs : d \in Pending
  BY <1>1, CmdFresh
<1>3. \A d \in attempt : Earlier(d) => OldLost(d)'
  <2>1. \A d \in attempt : Earlier(d) => OldLost(d) /\ d \notin cmd.docs
    BY <1>1, <1>2 DEF CallbackInv, EarlierInv, RunInv
  <2> QED
    BY <1>1, <2>1, OldLostCmd
<1>4. RunInv' /\ AnewInv'
  <2>1. Pending' = Pending
    BY <1>1 DEF Pending
  <2> QED
    BY <1>1, <2>1 DEF CallbackInv, RunInv, AnewInv, Earlier
<1>5. EarlierInv'
  BY <1>1, <1>3 DEF EarlierInv, Earlier
<1>6. LostInv'
  <2>1. SUFFICES ASSUME caller \in {"start", "callback", "callbackAborts", "callbackFailed"},
                        NEW d \in attempt
                 PROVE  Lost(d)'
    BY <1>1 DEF LostInv
  <2>2. /\ Lost(d) /\ op.kind # "commit" /\ d \in Docs /\ op.kind # "unack"
        /\ d \in cmd.docs => TransactionRunning(cs)
    BY <1>1, <1>2, <2>1 DEF CallbackInv, LostInv, RunInv, BaseInv, CallersInv
  <2>3. d \in cmd.docs => op.session
    BY <1>1, <2>2 DEF BaseInv, RetryInv
  <2> QED
    BY <2>2, <2>3, LostCmd
<1>7. LastInv'
  <2>1. SUFFICES ASSUME caller \in {"callback", "commitLoop"}, NEW d \in attempt, ~Earlier(d)
                 PROVE  Undecided(d)'
    BY <1>1 DEF LastInv, Earlier
  <2>2. Undecided(d) /\ d \in Docs
    BY <1>1, <2>1 DEF CallbackInv, LastInv
  <2>3. cmd.auto /\ cmd.kind # "abort"
    <3>1. op.kind # "none"
      BY <1>1 DEF BaseInv, FlagsInv
    <3>2. \/ op.kind = "insert" /\ TransactionRunning(cs)
          \/ op.kind = "commit"
      BY <2>1, <3>1 DEF BaseInv, CallersInv
    <3> QED
      BY <1>1, <3>2 DEF BaseInv, RetryInv, CmdInv
  <2> QED
    BY <2>2, <2>3, UndecidedCmd
<1>8. TransientInv'
  <2>1. SUFFICES ASSUME caller = "commitLoop", "Transient" \in err'.labels, NEW d \in attempt
                 PROVE  Lost(d)'
    BY <1>1 DEF TransientInv
  <2>2. op.kind = "commit" /\ d \in Docs
    BY <1>1, <2>1 DEF BaseInv, CallersInv, FlagsInv
  <2>3. CASE Earlier(d)
    BY <1>3, <2>3 DEF OldLost
  <2>4. CASE ~Earlier(d)
    <3>1. Undecided(d)
      BY <2>1, <2>4 DEF CallbackInv, LastInv
    <3> QED
      BY <2>1, <2>2, <3>1, TransientLost
  <2> QED
    BY <2>3, <2>4
<1> QED
  BY <1>4, <1>5, <1>6, <1>7, <1>8 DEF CallbackInv

(* A command arrives late, or the servers abort. *)
LEMMA CallbackArrives ==
  ASSUME BaseInv, DocsInv, CallbackInv, BaseInv', Arrives
  PROVE  CallbackInv'
<1>1. /\ tpc' = tpc /\ op' = op /\ caller' = caller /\ attempt' = attempt /\ cs' = cs /\ err' = err
      /\ attempt \subseteq Docs
  BY DEF Arrives, AppKept, BaseInv, Types
<1>2. \A d \in attempt : Lost(d) => Lost(d)'
  BY <1>1, LostArrives
<1>3. \A d \in attempt : OldLost(d) => OldLost(d)'
  BY <1>1, LostArrives DEF OldLost
<1>4. \A d \in attempt : Undecided(d) => Undecided(d)'
  BY <1>1, UndecidedArrives
<1>5. RunInv'
  BY <1>1 DEF CallbackInv, RunInv, Earlier, Pending, Active
<1>6. EarlierInv' /\ LostInv' /\ AnewInv'
  BY <1>1, <1>2, <1>3 DEF CallbackInv, EarlierInv, LostInv, AnewInv, Earlier
<1>7. LastInv' /\ TransientInv'
  BY <1>1, <1>2, <1>4 DEF CallbackInv, LastInv, TransientInv, Earlier
<1> QED
  BY <1>5, <1>6, <1>7 DEF CallbackInv

(* The fourth invariant is inductive, with the ones before. *)
LEMMA CallbackStep ==
  ASSUME BaseInv, DocsInv, CommitInv, CallbackInv, BaseInv', Form
  PROVE  CallbackInv'
BY CallbackCalls, CallbackEnding, CallbackIdle, CallbackEnds, CallbackExecutes, CallbackRoundTrip,
   CallbackArrives DEF Form

(* It holds at the start. *)
LEMMA CallbackInit ==
  ASSUME Init
  PROVE  CommitInv /\ CallbackInv
<1>1. attempt = {} /\ late.kind = "none"
  BY DEF Init, NoCommand
<1> QED
  BY <1>1 DEF CommitInv, CallbackInv, RunInv, EarlierInv, LostInv, AnewInv, LastInv, TransientInv
-----------------------------------------------------------------------------
(* The fifth invariant: a commit that was sent is repeated with majority *)

(* A commit that was sent with the session's number leaves a session that   *)
(* asks for a majority, and so does the operation that repeats it; no       *)
(* command has the number of a transaction that is starting.                *)
MajorityInv ==
  /\ cmd.kind = "commit" /\ cmd.txn = cs.txn /\ cs.state \in {"InProgress", "Committed"}
     /\ op.kind # "commit" => cs.majority
  /\ cmd.kind = "commit" /\ cmd.txn = cs.txn /\ tpc = "send" /\ op.kind = "commit" => op.majority
  /\ cs.state = "Starting" => cmd.txn < cs.txn

(* The fifth invariant is inductive, with the first. *)
LEMMA MajorityStep ==
  ASSUME BaseInv, MajorityInv, BaseInv', Form
  PROVE  MajorityInv'
<1>t. /\ cs.txn \in Nat /\ cmd.txn \in Nat /\ cmd.txn <= cs.txn /\ cs.state \in States
      /\ cs.txn = 0 => cs.state = "None"
  BY DEF BaseInv, Types, ClientRecord, CommandRecord, NumbersInv
<1>1. CASE \E k \in CallKinds, n \in 0 .. 2 : CallStep(k, n)
  <2>1. /\ op.kind = "none" /\ op'.kind # "commit" /\ cmd' = cmd /\ cs'.state = cs.state
        /\ cs'.majority = cs.majority
        /\ cs'.txn = cs.txn \/ cs'.txn = cs.txn + 1
    BY <1>1 DEF CallStep, Calls, Begins, NotSelected, BaseInv, FlagsInv, CallKinds
  <2> QED
    BY <1>t, <2>1 DEF MajorityInv
<1>2. CASE Ending("commit") \/ Ending("abort")
  <2>1. /\ op.kind = "none" /\ cmd' = cmd /\ cs'.state = cs.state /\ cs'.txn = cs.txn
        /\ cs'.majority = cs.majority /\ cs.state \in {"InProgress", "Committed"}
        /\ tpc' = "send" => op'.majority = cs.majority
    BY <1>2 DEF Ending, NotSelected, BaseInv, FlagsInv
  <2> QED
    BY <2>1 DEF MajorityInv
<1>3. CASE IdleStep
  <2>1. /\ op.kind = "none" /\ op' = op /\ cmd' = cmd
        /\ \/ cs'.txn = cs.txn + 1
           \/ /\ cs'.txn = cs.txn
              /\ \/ cs'.majority = cs.majority /\ cs'.state \in {cs.state, "Committed"}
                 \/ cs'.state = "Aborted"
              /\ cs'.state = cs.state \/ cs.state \in {"Starting", "InProgress", "Committed"}
    BY <1>3 DEF IdleStep, Stays, Starts, StartRefused, CommitsNothing, AbortsNothing, BaseInv, FlagsInv,
                TransactionRunning
  <2> QED
    BY <1>t, <2>1 DEF MajorityInv
<1>4. CASE Sends
  <2>1. CASE tpc' = "return"
    <3>1. cs' = cs /\ cmd' = cmd /\ op' = op
      BY <1>4, <2>1 DEF Sends
    <3> QED
      BY <2>1, <3>1 DEF MajorityInv
  <2>2. CASE tpc' # "return"
    <3>1. /\ tpc' = "wire" /\ op' = op /\ cmd' = Command(op, cs)
          /\ cs' = IF op.session THEN ApplyCommand(cs) ELSE cs
      BY <1>4, <2>2 DEF Sends
    <3>2. cmd'.kind = op.kind /\ (~op.session => cmd'.txn = 0)
      BY <3>1 DEF Command
    <3>3. cs'.state = "Starting" => ~op.session /\ cs' = cs
      BY <3>1, ApplyCommandFact DEF BaseInv, Types, FlagsInv, ApplyCommand, ClearTransactionOpts, ClientRecord
    <3>4. cs'.state = "Starting" => cmd'.txn < cs'.txn
      BY <1>t, <3>2, <3>3
    <3> QED
      BY <3>1, <3>2, <3>4 DEF MajorityInv
  <2> QED
    BY <2>1, <2>2
<1>5. CASE RoundTrip
  <2>1. /\ op' = op /\ cmd' = cmd /\ tpc' # "send" /\ cs'.txn = cs.txn /\ cs'.state = cs.state
        /\ cs'.majority = cs.majority
    BY <1>5 DEF RoundTrip, ClientKept, FlagsKept
  <2> QED
    BY <2>1 DEF MajorityInv
<1>6. CASE RetriesOp \/ ReturnsOp \/ NextDocument
  <2>1. /\ op'.kind = op.kind /\ cmd' = cmd /\ cs'.state = cs.state
        /\ cs'.txn = cs.txn \/ cs'.txn = cs.txn + 1
        /\ cmd.kind = op.kind /\ (tpc' = "send" /\ op.kind = "commit" => op'.majority)
    BY <1>6 DEF RetriesOp, ReturnsOp, NextDocument, BaseInv, CmdInv, Sent, RetryInv
  <2> QED
    BY <1>t, <2>1 DEF MajorityInv
<1>7. CASE EndsOp
  <2>1. /\ op'.kind = "none" /\ cmd' = cmd /\ cs'.txn = cs.txn /\ tpc' # "send"
        /\ IF op.kind = "commit" THEN cs'.state = "Committed" /\ cs'.majority
           ELSE IF op.kind = "abort" THEN cs'.state = "Aborted"
           ELSE cs'.state = cs.state /\ cs'.majority = cs.majority
    BY <1>7 DEF EndsOp, NoOp
  <2> QED
    BY <2>1 DEF MajorityInv
<1>8. CASE Arrives
  <2>1. op' = op /\ cs' = cs /\ cmd' = cmd /\ tpc' = tpc
    BY <1>8 DEF Arrives
  <2> QED
    BY <2>1 DEF MajorityInv
<1> QED
  BY <1>1, <1>2, <1>3, <1>4, <1>5, <1>6, <1>7, <1>8 DEF Form

(* It holds at the start. *)
LEMMA MajorityInit ==
  ASSUME Init
  PROVE  MajorityInv
BY DEF Init, MajorityInv, NoCommand

(* A commit is sent again with majority. *)
LEMMA MajorityAction ==
  ASSUME BaseInv, MajorityInv, Form, tpc = "send", tpc' = "wire",
         cmd.kind = "commit", cmd'.kind = "commit", cmd'.txn = cmd.txn
  PROVE  cmd'.majority
<1>1. Sends
  BY DEF Form, CallStep, Calls, Begins, NotSelected, Ending, IdleStep, RoundTrip, RetriesOp, ReturnsOp,
         NextDocument, EndsOp, Arrives
<1>2. cmd' = Command(op, cs)
  BY <1>1 DEF Sends
<1>3. op.kind = "commit" /\ cmd'.majority = op.majority
  BY <1>2 DEF Command
<1>4. InTransaction(cs)
  BY <1>3 DEF BaseInv, FlagsInv, InTransaction, TransactionRunning
<1>5. cmd'.txn = cs.txn
  <2>1. op.session
    BY <1>3 DEF BaseInv, RetryInv, Active
  <2> QED
    BY <1>2, <1>3, <1>4, <2>1 DEF Command
<1> QED
  BY <1>3, <1>5 DEF MajorityInv
-----------------------------------------------------------------------------
(* What is left of the types *)

SmallInv == didCommit \in BOOLEAN /\ panicked \in BOOLEAN /\ Len(op.docs) \in 0 .. 2

(* The two Booleans. *)
LEMMA BooleanStep ==
  ASSUME didCommit \in BOOLEAN, panicked \in BOOLEAN, Next
  PROVE  didCommit' \in BOOLEAN /\ panicked' \in BOOLEAN
<1>1. /\ WrongState => didCommit' = didCommit /\ panicked' = panicked
      /\ CommitTransaction \/ AbortTransaction => didCommit' \in {didCommit, TRUE} /\ panicked' = panicked
  BY DEF WrongState, CommitTransaction, AbortTransaction, sessionVars, Execute
<1>2. \A ack \in BOOLEAN : Start(ack) => didCommit' \in {didCommit, FALSE}
  BY DEF Start
<1>3. /\ \A k, n, o : Operate(k, n, o) => panicked' = panicked
      /\ \A e : Answer(e) => didCommit' = didCommit /\ panicked' = panicked
      /\ \A who : Ends(who) => didCommit' = didCommit /\ panicked' = panicked
  BY DEF Operate, Execute, Answer, Ends
<1>4. CASE CallOperation \/ CallStart \/ CallCommit \/ CallAbort \/ CallEnd \/ CallWithTransaction
  BY <1>1, <1>2, <1>3, <1>4 DEF CallOperation, CallStart, CallCommit, CallAbort, CallEnd, CallWithTransaction,
                               sessionVars, execVars
<1>5. CASE Send \/ ResultRetry \/ ResultOK \/ ResultError \/ ResultWriteError
  BY <1>5 DEF Send, ResultRetry, ResultOK, ResultError, ResultWriteError, sessionVars
<1>6. CASE NetworkFails \/ ServerAnswers \/ ServerRefuses \/ WriteConcernFails \/ WriteUnacknowledged
  BY <1>3, <1>6 DEF NetworkFails, ServerAnswers, ServerRefuses, WriteConcernFails, WriteUnacknowledged, sessionVars
<1>7. CASE \/ Returned \/ WithStart \/ WithCallback
           \/ CallbackInserted \/ CallbackSucceeds \/ CallbackFails \/ WithAbort
  BY <1>1, <1>2, <1>3, <1>7 DEF Returned, WithStart, WithCallback, CallbackInserted, CallbackSucceeds,
                                CallbackFails, WithAbort
<1>8. CASE WithAborted \/ WithFailed \/ WithCommit \/ WithCommitted
  BY <1>1, <1>3, <1>8 DEF WithAborted, WithFailed, WithCommit, WithCommitted, sessionVars
<1>9. CASE ServerAborts \/ ArriveLate
  BY <1>9 DEF ServerAborts, ArriveLate, sessionVars, execVars
<1> QED
  BY <1>4, <1>5, <1>6, <1>7, <1>8, <1>9 DEF Next, Executing

(* An operation has two documents at most. *)
LEMMA SmallStep ==
  ASSUME BaseInv, SmallInv, Next, BaseInv', Form
  PROVE  SmallInv'
<1>1. didCommit' \in BOOLEAN /\ panicked' \in BOOLEAN
  BY BooleanStep DEF SmallInv
<1>2. op.docs \in Seq(Docs) /\ op'.docs \in Seq(Docs)
  BY DEF BaseInv, Types, OpRecord
<1>3. \/ op'.docs = op.docs \/ op'.docs = <<>>
      \/ \E n \in 0 .. 2 : op'.docs = NewDocs(n)
      \/ op'.docs = Tail(op.docs) /\ Len(op.docs) > 1
  <2>1. CASE \E k \in CallKinds, n \in 0 .. 2 : CallStep(k, n)
    BY <2>1 DEF CallStep, Calls, Begins, NotSelected
  <2>2. CASE Ending("commit") \/ Ending("abort") \/ IdleStep
    BY <2>2 DEF Ending, IdleStep, NotSelected
  <2>3. CASE Sends \/ RoundTrip \/ RetriesOp \/ ReturnsOp \/ NextDocument
    BY <2>3 DEF Sends, RoundTrip, RetriesOp, ReturnsOp, NextDocument
  <2>4. CASE EndsOp \/ Arrives
    BY <2>4 DEF EndsOp, Arrives, NoOp
  <2> QED
    BY <2>1, <2>2, <2>3, <2>4 DEF Form
<1>4. \A n \in 0 .. 2 : Len(NewDocs(n)) = n
  BY DEF NewDocs
<1>5. Len(op'.docs) \in 0 .. 2
  <2>1. CASE op'.docs = Tail(op.docs) /\ Len(op.docs) > 1
    BY <1>2, <2>1 DEF SmallInv
  <2> QED
    BY <1>3, <1>4, <2>1 DEF SmallInv
<1> QED
  BY <1>1, <1>5 DEF SmallInv
-----------------------------------------------------------------------------
(* The theorems *)

Inv == BaseInv /\ DocsInv /\ DoneAll /\ CommitInv /\ CallbackInv /\ MajorityInv /\ SmallInv

(* Everything above holds at the start. *)
LEMMA InvInit ==
  ASSUME MaxDocs \in Nat, Init
  PROVE  Inv
<1>1. SmallInv
  <2>1. op.docs = <<>> /\ didCommit = FALSE /\ panicked = FALSE
    BY DEF Init, NoOp
  <2>2. Len(op.docs) = 0
    BY <2>1
  <2>3. didCommit \in BOOLEAN /\ panicked \in BOOLEAN
    BY <2>1, Zenon
  <2> QED
    BY <2>2, <2>3 DEF SmallInv
<1> QED
  BY <1>1, BaseInit, DoneInit, CallbackInit, MajorityInit DEF Inv

(* Every step keeps it, and has a form. *)
LEMMA InvNext ==
  ASSUME Inv, Next
  PROVE  Inv' /\ Form
<1>1. BaseInv' /\ Form
  BY BaseStep DEF Inv
<1>2. DocsInv'
  BY <1>1, DocsStep DEF Inv
<1>3. DoneAll'
  BY <1>1, <1>2, DoneStep DEF Inv
<1>4. CommitInv' /\ CallbackInv'
  BY <1>1, CommitStep, CallbackStep DEF Inv
<1>5. MajorityInv'
  BY <1>1, MajorityStep DEF Inv
<1>6. SmallInv'
  BY <1>1, SmallStep DEF Inv
<1> QED
  BY <1>1, <1>2, <1>3, <1>4, <1>5, <1>6 DEF Inv

(* So does a step that changes nothing. *)
LEMMA InvStutters ==
  ASSUME Inv, UNCHANGED exVars
  PROVE  Inv'
<1>1. /\ cs' = cs /\ didCommit' = didCommit /\ op' = op /\ tpc' = tpc /\ cmd' = cmd /\ err' = err
      /\ opErr' = opErr /\ caller' = caller /\ docs' = docs /\ inTxn' = inTxn /\ attempt' = attempt
      /\ fnErr' = fnErr /\ server' = server /\ late' = late /\ applied' = applied /\ panicked' = panicked
  BY DEF exVars, sessionVars, execVars, appVars, serverVars
<1>2. BaseInv'
  BY <1>1 DEF Inv, BaseInv, Types, FlagsInv, CallersInv, RetryInv, NumbersInv, CmdInv, Active, Sent,
              HasNumber, Head1, TransactionRunning
<1>3. DocsInv'
  BY <1>1 DEF Inv, DocsInv, NewDocsInv, OnceInv, OpDocsInv, UnsentInv, Untouched, Unsent, HeadInv, Active,
              HasNumber, Head1, Pending, Rest, SpentAt
<1>4. DoneAll'
  BY <1>1 DEF Inv, DoneAll, TxnInv, SettledInv, DoneInv, InTransactionOK, Settled, DoneSoFar, HeadDone,
              AllDone, Active, Sent, Inserts, HasNumber, Head1, Pending, TransactionRunning
<1>5. CommitInv' /\ MajorityInv' /\ SmallInv'
  BY <1>1 DEF Inv, CommitInv, MajorityInv, SmallInv, TransactionRunning
<1>6. CallbackInv'
  <2>1. \A d : Earlier(d)' <=> Earlier(d)
    BY <1>1 DEF Earlier
  <2>2. \A d : (Lost(d)' <=> Lost(d)) /\ (OldLost(d)' <=> OldLost(d)) /\ (Undecided(d)' <=> Undecided(d))
    BY <1>1 DEF Lost, OldLost, Undecided
  <2>3. Pending' = Pending /\ (Active' <=> Active)
    BY <1>1 DEF Pending, Active
  <2> QED
    BY <1>1, <2>1, <2>2, <2>3 DEF Inv, CallbackInv, RunInv, EarlierInv, LostInv, AnewInv, LastInv, TransientInv
<1> QED
  BY <1>2, <1>3, <1>4, <1>5, <1>6 DEF Inv

(* At most one run of a callback is applied: of two of them the earlier is  *)
(* lost. *)
LEMMA OneRun ==
  ASSUME BaseInv, CallbackInv
  PROVE  CallbackAtMostOnce
<1> DEFINE S == {d \in attempt : applied[d] > 0}
<1>1. attempt \subseteq Docs /\ Docs = 1 .. MaxDocs /\ MaxDocs \in Nat
  BY DEF BaseInv, Types, Docs
<1>2. \A d, e \in S : ~(d < e)
  <2>1. SUFFICES ASSUME NEW d \in S, NEW e \in S, d < e
                 PROVE  FALSE
    OBVIOUS
  <2>2. d \in Nat /\ e \in Nat /\ e \in attempt /\ d \in attempt
    BY <1>1
  <2>3. Earlier(d)
    BY <2>1, <2>2 DEF Earlier
  <2>4. applied[d] = 0
    BY <2>2, <2>3 DEF CallbackInv, EarlierInv, OldLost, Lost
  <2> QED
    BY <2>4
<1>3. \A d, e \in S : d = e
  <2>1. \A d \in S : d \in Int
    BY <1>1
  <2> HIDE DEF S
  <2> QED
    BY <1>2, <2>1
<1>4. S = {} \/ \E d : S = {d}
  BY <1>3, Zenon
<1>5. Cardinality(S) <= 1
  <2>1. CASE S = {}
    BY <2>1, FS_EmptySet
  <2>2. CASE \E d : S = {d}
    <3>1. PICK d : S = {d}
      BY <2>2
    <3>2. Cardinality({d}) = 1
      BY FS_Singleton
    <3> QED
      BY <3>1, <3>2
  <2> QED
    BY <1>4, <2>1, <2>2
<1> QED
  BY <1>5 DEF CallbackAtMostOnce

(* What the invariants say of what is applied. *)
LEMMA InvApplied ==
  ASSUME Inv
  PROVE  AppliedOnce
<1>1. AppliedAtMostOnce
  <2>1. \A d \in Docs : applied[d] \in 0 .. 1
    BY DEF Inv, DocsInv, OnceInv
  <2> QED
    BY <2>1 DEF AppliedAtMostOnce
<1>2. CallbackAtMostOnce
  BY OneRun DEF Inv
<1>3. SuccessIsApplied
  BY DEF Inv, DoneAll, DoneInv, AllDone, Inserts, SuccessIsApplied
<1> QED
  BY <1>1, <1>2, <1>3 DEF AppliedOnce

(* The type invariant, and what the flags and numbers of the session, its   *)
(* operation, the commands and the servers have to do with each other, for  *)
(* any number of documents and calls (client_session.go; operation.go,      *)
(* Execute).                                                                *)
THEOREM TypeCorrect ==
  ASSUME MaxDocs \in Nat
  PROVE  Spec => [](TypeOK /\ BaseInv)
<1>1. Init => Inv
  BY InvInit
<1>2. Inv /\ [Next]_exVars => Inv'
  BY InvNext, InvStutters
<1>3. Inv => TypeOK /\ BaseInv
  <2>1. SUFFICES ASSUME Inv
                 PROVE  TypeOK /\ BaseInv
    OBVIOUS
  <2>2. BaseInv /\ Types /\ SmallInv /\ FlagsInv
    BY <2>1 DEF Inv, BaseInv
  <2>3. applied \in [Docs -> 0 .. 2]
    <3>1. applied \in [Docs -> Nat] /\ \A d \in Docs : applied[d] \in 0 .. 1
      BY <2>1, <2>2 DEF Inv, DocsInv, OnceInv, Types
    <3> QED
      BY <3>1
  <2> QED
    BY <2>2, <2>3 DEF TypeOK, Types, SmallInv, FlagsInv, ClientRecord, OpRecord, CommandRecord, ErrorRecord, ServerRecord,
                      States, Places, Callers
<1> QED
  BY <1>1, <1>2, <1>3, PTL DEF Spec

(* Every document is applied once at most, of the runs of a callback one at *)
(* most, and what is reported as done is done, however requests and replies *)
(* are lost, delayed and retried (operation.go, Execute; session.go,        *)
(* WithTransaction).                                                        *)
THEOREM WritesAreAppliedOnce ==
  ASSUME MaxDocs \in Nat
  PROVE  Spec => []AppliedOnce
<1>1. Init => Inv
  BY InvInit
<1>2. Inv /\ [Next]_exVars => Inv'
  BY InvNext, InvStutters
<1>3. Inv => AppliedOnce
  BY InvApplied
<1> QED
  BY <1>1, <1>2, <1>3, PTL DEF Spec

(* A transaction that was told to commit is told again only with majority   *)
(* write concern, whether Execute retries the commit, WithTransaction       *)
(* repeats it or the application does (operation.go, Execute;               *)
(* UpdateCommitTransactionWriteConcern).                                    *)
THEOREM CommitsAgainWithMajority ==
  ASSUME MaxDocs \in Nat
  PROVE  Spec => CommitAgainWithMajority
<1> DEFINE A == /\ tpc = "send" /\ tpc' = "wire"
                /\ cmd.kind = "commit" /\ cmd'.kind = "commit" /\ cmd'.txn = cmd.txn
                => cmd'.majority
<1>1. Init => Inv
  BY InvInit
<1>2. Inv /\ [Next]_exVars => Inv'
  BY InvNext, InvStutters
<1>3. Inv /\ [Next]_exVars => [A]_exVars
  BY InvNext, MajorityAction DEF Inv
<1> QED
  BY <1>1, <1>2, <1>3, PTL DEF Spec, CommitAgainWithMajority
=============================================================================
