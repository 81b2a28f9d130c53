----------------------------- MODULE ClientCalls -----------------------------
(***************************************************************************)
(* A call of the client's API (mongo/collection.go, database.go,           *)
(* client.go, index_view.go, cursor.go), from its options to the end of    *)
(* its cursor. The calls are alike but not the same: each has its own      *)
(* order of converting its arguments, taking an implicit session, checking *)
(* the session and building the command, its own way of giving the session *)
(* back on each path, and its own list of the options it hands on. A       *)
(* record of CallTables describes each call; the actions are the steps     *)
(* they share.                                                             *)
(***************************************************************************)
EXTENDS CallTables

CONSTANTS
  Wires,       \* maximal wire versions of the server
  MaxGetMores  \* bound of the batches a cursor asks for

VARIABLES
  ccCall,      \* the call, or "none"
  ccOpts,      \* its options structs
  ccMerged,    \* the options after Merge
  ccEnv,       \* server, session and write concern that it meets
  ccStep,      \* the step it is at
  ccImplicit,  \* its implicit session: "none", "held" or "returned"
  ccSess,      \* session of the operation: "none", "implicit" or "explicit"
  ccCmd,       \* the command that was sent, or NotSent
  ccSent,      \* sessions of the commands that were sent: "none", "explicit", "held" or "returned"
  ccCursor,    \* "none", "open", "exhausted" or "closed"
  ccGets,      \* getMores so far
  ccResult     \* "none", "ok" or "error"

ccVars == <<ccCall, ccOpts, ccMerged, ccEnv, ccStep, ccImplicit, ccSess, ccCmd, ccSent, ccCursor, ccGets,
            ccResult>>
-----------------------------------------------------------------------------
(* The options that a caller may give, where the call is made of another,  *)
(* and what becomes of them before they are merged.                        *)
OptionsOf(call) ==
  CASE call = "FindOne" -> FindOneOptions
    [] call = "GridFSFind" -> GridFSFindOptions
    [] call = "InsertOne" -> InsertOneOptions
    [] call = "ReplaceOne" -> ReplaceOptions
    [] OTHER -> Calls[call].options
Rewritten(call, opts) ==
  CASE call = "FindOne" -> CopyFields(FindOneCopies, opts)
    [] call = "GridFSFind" -> <<Merge(GridFSFindOptions, CopyFields(GridFSFindCopies, opts))>>
    [] call = "InsertOne" -> CopyTrue(opts)
    [] call = "ReplaceOne" -> CopyFields(ReplaceOneCopies, opts)
    [] OTHER -> opts
Merged(call, opts) == Merge(Calls[call].options, Rewritten(call, opts))

(* Options whose conversion to BSON may fail.                              *)
Converted ==
  {"Hint", "Max", "Min", "Projection", "Sort", "CommitQuorum", "StorageEngine", "Validator",
   "DefaultIndexOptions", "ArrayFilters"}
-----------------------------------------------------------------------------
(* The parameters that the merged options set, and the elements the        *)
(* operation makes of them. A flag for bypassing validation is handed on   *)
(* only if it is true; fields of the cursor options are no parameters.     *)
Handed ==
  {f \in DOMAIN Calls[ccCall].hands \cap DOMAIN ccMerged :
     f = "BypassDocumentValidation" => ccMerged[f]}
ParameterOf(f) == Calls[ccCall].hands[f]
Op == Operations[Calls[ccCall].op]
Known(f) == ParameterOf(f) \in Op.parameters \cap DOMAIN Op.command
Refused ==
  \E f \in {g \in Handed : Known(g)} :
    \/ ccEnv.wire < Op.command[ParameterOf(f)].from
    \/ f = "Hint" /\ ~ccEnv.ack /\ ccEnv.txn = "no" /\ Calls[ccCall].op \in RefusesUnacknowledgedHint
Appended ==
  {f \in Handed :
     Known(f) => ccEnv.wire >= DroppedBelow(Calls[ccCall].op, Op.command[ParameterOf(f)].name)}
ReachesServer(f) == Known(f) \/ ParameterOf(f) \in {"cursor.MaxTimeMS", "ReadPreference"}
CommandOptions == [f \in {g \in Appended : ReachesServer(g)} |-> ccMerged[f]]

(* The concerns of the command: those the call takes, if the operation has *)
(* a setter and hands them on, which are none in a transaction. Its first  *)
(* command has the transaction's own read concern, if it has one or the    *)
(* session is causally consistent and has an operation time; the           *)
(* collection's concerns are taken to be set. addReadConcern and           *)
(* addWriteConcern leave a concern out below the operation's minimal wire  *)
(* version, which only aggregate gives, and only for writing; a find by    *)
(* OP_QUERY (legacyFind) has no read concern.                              *)
Takes(kind) ==
  LET c == Calls[ccCall].concern
  IN  CASE kind = "ReadConcern" -> c \in {"read", "command", "output"}
        [] kind = "WriteConcern" -> c = "write" \/ (c = "output" /\ ccEnv.output)
TakesAlways(kind) == Takes(kind)
TakesOutsideTransactions(kind) ==
  Takes(kind) /\ (ccEnv.txn = "no" \/ Calls[ccCall].concern = "command")
LegacyFind == Calls[ccCall].op = "find" /\ ccEnv.wire < 4
MinimumWriteConcernWireVersion ==
  IF Calls[ccCall].op = "aggregate" THEN AggregateMinimumWriteConcern ELSE 0
OperationHas(kind) == TakesOutsideTransactions(kind) /\ kind \in Op.setters \cap Op.execute
ReadConcern ==
  CASE ccSess # "none" /\ ccEnv.txn = "starting" /\ ccEnv.txnRc -> "transaction"
    [] ~(ccSess # "none" /\ ccEnv.txn = "starting" /\ ccEnv.txnRc)
         /\ OperationHas("ReadConcern") /\ ~LegacyFind -> "collection"
    [] OTHER -> "none"
WriteConcern ==
  IF OperationHas("WriteConcern") /\ ccEnv.wire >= MinimumWriteConcernWireVersion
  THEN "collection" ELSE "none"
-----------------------------------------------------------------------------
NotSent == [sent |-> FALSE]
Env == [wire : Wires, ack : BOOLEAN, session : {"implicit", "explicit", "foreign", "disconnected"},
        txn : {"no", "starting", "running"}, txnRc : BOOLEAN, output : BOOLEAN]

TypeOK ==
  /\ ccCall \in DOMAIN Calls \cup {"none"} /\ ccStep \in 0 .. 7
  /\ ccImplicit \in {"none", "held", "returned"} /\ ccSess \in {"none", "implicit", "explicit"}
  /\ ccSent \subseteq {"none", "explicit", "held", "returned"}
  /\ ccCursor \in {"none", "open", "exhausted", "closed"} /\ ccGets \in 0 .. MaxGetMores
  /\ ccResult \in {"none", "ok", "error"}

Init ==
  /\ ccCall = "none" /\ ccOpts = <<>> /\ ccMerged = <<>> /\ ccStep = 0 /\ ccImplicit = "none" /\ ccSess = "none"
  /\ ccEnv = [wire |-> 0, ack |-> TRUE, session |-> "implicit", txn |-> "no", txnRc |-> FALSE,
              output |-> FALSE]
  /\ ccCmd = NotSent /\ ccSent = {} /\ ccCursor = "none" /\ ccGets = 0 /\ ccResult = "none"

(* The caller's options: at most two structs that set one and the same     *)
(* field. Values other than flags are not zero, and are only told apart.   *)
ValuesGiven(f) ==
  IF f = "BypassDocumentValidation"
  THEN {<<v>> : v \in BOOLEAN} \cup {<<v, w>> : v \in BOOLEAN, w \in BOOLEAN}
  ELSE {<<1>>, <<1, 2>>}
OptionsGiven(call) ==
  {<<>>} \cup UNION {{[i \in DOMAIN given |-> f :> given[i]] : given \in ValuesGiven(f)} :
                       f \in OptionsOf(call)}

Start(call, opts, env) ==
  /\ ccCall = "none"
  /\ env.txn # "no" => env.session = "explicit" /\ env.wire >= 7
  /\ env.txnRc => env.txn = "starting"
  /\ env.output => call = "Aggregate"
  /\ ccCall' = call /\ ccOpts' = opts /\ ccMerged' = Merged(call, opts)
  /\ ccEnv' = env /\ ccStep' = 1
  /\ UNCHANGED <<ccImplicit, ccSess, ccCmd, ccSent, ccCursor, ccGets, ccResult>>

At(step) ==
  /\ ccCall # "none" /\ ccResult = "none"
  /\ Calls[ccCall].steps[ccStep] = step

Finish(result) ==
  /\ ccResult' = result
  /\ UNCHANGED <<ccCall, ccOpts, ccMerged, ccEnv, ccStep, ccGets>>

(* A return from a step with an error.                                     *)
ReturnError(step) ==
  /\ Finish("error")
  /\ ccImplicit' = IF ccImplicit = "held" /\ step \in Calls[ccCall].ends THEN "returned" ELSE ccImplicit
  /\ UNCHANGED <<ccSess, ccCursor>>

Proceed == ccStep' = ccStep + 1 /\ UNCHANGED <<ccCall, ccOpts, ccMerged, ccEnv, ccGets, ccResult, ccCursor>>

Transform ==
  /\ At("transform")
  /\ \/ Proceed /\ UNCHANGED <<ccImplicit, ccSess>>
     \/ ReturnError("transform")
  /\ UNCHANGED <<ccCmd, ccSent>>

(* sessionFromContext, else NewClientSession if the client has a pool.     *)
TakeSession ==
  /\ At("session")
  /\ \/ /\ ccEnv.session = "implicit"
        /\ \/ Proceed /\ ccImplicit' = "held" /\ ccSess' = "implicit"
           \/ ReturnError("session")
     \/ ccEnv.session \in {"explicit", "foreign"} /\ Proceed /\ ccSess' = "explicit" /\ UNCHANGED ccImplicit
     \/ ccEnv.session = "disconnected" /\ Proceed /\ UNCHANGED <<ccSess, ccImplicit>>
  /\ UNCHANGED <<ccCmd, ccSent>>

(* validSession, and what follows it: an unacknowledged write has no       *)
(* session; aggregate ends the implicit one at once.                       *)
Unacknowledged == TakesOutsideTransactions("WriteConcern") /\ ~ccEnv.ack
DropKeepsSession == ccSess' = ccSess /\ ccImplicit' =
  IF ccSess = "implicit" /\ Calls[ccCall].concern = "output" /\ Unacknowledged THEN "returned" ELSE ccImplicit
DropSession ==
  /\ ccSess' = IF Unacknowledged THEN "none" ELSE ccSess
  /\ ccImplicit' = IF ccSess = "implicit" /\ Calls[ccCall].concern = "output" /\ Unacknowledged
                   THEN "returned" ELSE ccImplicit
ValidSession ==
  /\ At("valid")
  /\ IF ccEnv.session = "foreign" THEN ReturnError("valid") ELSE Proceed /\ DropSession
  /\ UNCHANGED <<ccCmd, ccSent>>

Convert ==
  /\ At("convert")
  /\ \/ Proceed /\ UNCHANGED <<ccImplicit, ccSess>>
     \/ DOMAIN ccMerged \cap Converted # {} /\ ReturnError("convert")
  /\ UNCHANGED <<ccCmd, ccSent>>

(* Execute: the command function refuses an option; or the command is      *)
(* sent, with the session if the server has sessions, and answered, or     *)
(* not.                                                                    *)
SessionSent ==
  CASE ccEnv.wire < 6 \/ ccSess = "none" -> "none"
    [] ccEnv.wire >= 6 /\ ccSess = "explicit" -> "explicit"
    [] OTHER -> ccImplicit
HasResult == \E i \in DOMAIN Calls[ccCall].steps : Calls[ccCall].steps[i] = "result"
Send ==
  /\ ccCmd' = [sent |-> TRUE, options |-> CommandOptions, rc |-> ReadConcern, wc |-> WriteConcern]
  /\ ccSent' = ccSent \cup {SessionSent}
EndDeferred == ccImplicit' = IF ccImplicit = "held" THEN "returned" ELSE ccImplicit
Refuse == At("execute") /\ Refused /\ ReturnError("execute") /\ UNCHANGED <<ccCmd, ccSent>>
ExecuteFails == At("execute") /\ ~Refused /\ Send /\ ReturnError("execute")
Execute ==
  /\ At("execute") /\ ~Refused /\ Send
  /\ IF HasResult THEN Proceed /\ UNCHANGED <<ccImplicit, ccSess>>
     ELSE Finish("ok") /\ EndDeferred /\ UNCHANGED <<ccSess, ccCursor>>

(* The result: a cursor where the caller is given one, whose implicit      *)
(* session ends at once if the server has no cursor (newCursorWithSession, *)
(* newEmptyCursor); else a value.                                          *)
GivesCursor ==
  ccCall \in {"Aggregate", "Find", "FindOne", "GridFSFind", "RunCommandCursor", "ListCollections", "ListIndexes"}
Result ==
  /\ At("result")
  /\ \/ ReturnError("result")
     \/ ~GivesCursor /\ Finish("ok") /\ EndDeferred /\ UNCHANGED <<ccSess, ccCursor>>
     \/ /\ GivesCursor /\ Finish("ok") /\ UNCHANGED ccSess
        /\ \/ ccCursor' = "open" /\ UNCHANGED ccImplicit
           \/ ccCursor' = "exhausted" /\ EndDeferred
  /\ UNCHANGED <<ccCmd, ccSent>>

(* IndexView.List: a namespace that is not there has no indexes.           *)
NamespaceNotFound ==
  /\ At("execute") /\ ccCall = "ListIndexes" /\ ~Refused
  /\ Send /\ Finish("ok") /\ EndDeferred /\ ccCursor' = "exhausted" /\ UNCHANGED ccSess

(* Cursor.Next: a getMore, after which the server may have no cursor.      *)
CursorNext ==
  /\ ccCursor = "open" /\ ccGets < MaxGetMores /\ ccGets' = ccGets + 1
  /\ ccSent' = ccSent \cup {SessionSent}
  /\ \/ UNCHANGED <<ccCursor, ccImplicit>>
     \/ ccCursor' = "exhausted" /\ EndDeferred
  /\ UNCHANGED <<ccCall, ccOpts, ccMerged, ccEnv, ccStep, ccSess, ccCmd, ccResult>>

(* Cursor.Close: killCursors, and only then the session's end.             *)
CursorClose ==
  /\ ccCursor \in {"open", "exhausted"} /\ ccCursor' = "closed"
  /\ ccSent' = IF ccCursor = "open" THEN ccSent \cup {SessionSent} ELSE ccSent
  /\ EndDeferred
  /\ UNCHANGED <<ccCall, ccOpts, ccMerged, ccEnv, ccStep, ccSess, ccCmd, ccGets, ccResult>>

Next ==
  \/ ccCall = "none" /\ \E call \in DOMAIN Calls : \E opts \in OptionsGiven(call), env \in Env :
       Start(call, opts, env)
  \/ Transform \/ TakeSession \/ ValidSession \/ Convert
  \/ Refuse \/ Execute \/ ExecuteFails \/ NamespaceNotFound \/ Result
  \/ CursorNext \/ CursorClose
Spec == Init /\ [][Next]_ccVars
-----------------------------------------------------------------------------
(* An implicit session is given back on every path: when the call has      *)
(* returned and the caller has no open cursor, none is held                *)
(* (closeImplicitSession and the deferred EndSession of every call).       *)
SessionGivenBack ==
  ccResult # "none" /\ ccCursor # "open" => ccImplicit # "held"

(* No command, getMore or killCursors is sent with a session that was      *)
(* given back, which another goroutine may have by then (aggregate,        *)
(* Cursor.Close).                                                          *)
NoUseAfterReturn == "returned" \notin ccSent

(* What the caller set last, in any of the structs, is what the server is  *)
(* sent, unless the call fails. Two calls are left out: FindOne drops      *)
(* MaxTime, and InsertOne a flag that is set to false.                     *)
LastOf(f) == ccOpts[CHOOSE i \in DOMAIN ccOpts : f \in DOMAIN ccOpts[i] /\
                     \A j \in DOMAIN ccOpts : f \in DOMAIN ccOpts[j] => j <= i][f]
Set == UNION {DOMAIN ccOpts[i] : i \in DOMAIN ccOpts}
OptionSent(f) ==
  IF f = "BypassDocumentValidation"
  THEN (f \in DOMAIN ccCmd.options /\ ccCmd.options[f]) = LastOf(f)
  ELSE f \in DOMAIN ccCmd.options /\ ccCmd.options[f] = LastOf(f)
LastOneWins ==
  ccCmd.sent /\ ccEnv.wire >= 4 =>
    \A f \in Set : \/ OptionSent(f)
                   \/ ccCall = "FindOne" /\ f = "MaxTime"
                   \/ ccCall = "InsertOne"

(* In a transaction a command carries no concern of the collection, and    *)
(* only the first one a read concern, if there is one to carry; outside,   *)
(* every read but a find by OP_QUERY has the collection's read concern,    *)
(* and every write its write concern, but that $out and $merge have none   *)
(* below wire version 5, at which servers began to take it.                *)
ConcernsMatch ==
  ccCmd.sent =>
    /\ ccEnv.txn # "no" =>
         /\ ccCmd.wc = "none" /\ ccCmd.rc # "collection"
         /\ ccCmd.rc = "transaction" <=> ccEnv.txn = "starting" /\ ccEnv.txnRc
    /\ ccEnv.txn = "no" =>
         /\ ccCmd.rc = "collection" <=>
              \/ Calls[ccCall].op \in {"aggregate", "count", "distinct"}
              \/ Calls[ccCall].op = "find" /\ ccEnv.wire >= 4
         /\ ccCmd.wc = "collection" <=>
              Calls[ccCall].concern = "write" \/ (ccEnv.output /\ ccEnv.wire >= 5)
=============================================================================
