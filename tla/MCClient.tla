------------------------------ MODULE MCClient ------------------------------
(***************************************************************************)
(* The parts of the client above its topology, for TLC, in one run. They   *)
(* share no state, so a behaviour is one of a single part, which focus     *)
(* names; the others stay in their initial states.                         *)
(***************************************************************************)
EXTENDS Transactions, SessionPool, BulkWrite, ChangeStream, LegacyCursor

CONSTANTS Wires, MaxGetMores

VARIABLES
  focus, ccCall, ccOpts, ccMerged, ccEnv, ccStep, ccImplicit, ccSess, ccCmd, ccSent, ccCursor, ccGets,
  ccResult

CC == INSTANCE ClientCalls

ccVars ==
  <<ccCall, ccOpts, ccMerged, ccEnv, ccStep, ccImplicit, ccSess, ccCmd, ccSent, ccCursor,
    ccGets, ccResult>>
partVars == <<poolVars, bwVars, csVars, lcVars, ccVars, exVars>>
clientVars == <<focus, partVars>>
Parts == {"sessions", "transactions", "bulk", "stream", "legacy", "calls"}

ClientInit ==
  /\ focus \in Parts
  /\ NewPool
  /\ BulkInit
  /\ StreamInit
  /\ LegacyInit
  /\ CC!Init
  /\ Init

Others(part) ==
  /\ part # "sessions" => UNCHANGED poolVars
  /\ part # "transactions" => UNCHANGED exVars
  /\ part # "bulk" => UNCHANGED bwVars
  /\ part # "stream" => UNCHANGED csVars
  /\ part # "legacy" => UNCHANGED lcVars
  /\ part # "calls" => UNCHANGED ccVars
ClientNext ==
  /\ focus' = focus
  /\ \/ focus = "sessions" /\ PoolNext /\ Others(focus)
     \/ focus = "bulk" /\ BulkNext /\ Others(focus)
     \/ focus = "stream" /\ StreamNext /\ Others(focus)
     \/ focus = "legacy" /\ LegacyNext /\ Others(focus)
     \/ focus = "calls" /\ CC!Next /\ Others(focus)
     \/ focus = "transactions" /\ Next /\ Others(focus)
ClientSpec == ClientInit /\ [][ClientNext]_clientVars
-----------------------------------------------------------------------------
(* The type invariants of the parts.                                       *)
TypesOK ==
  /\ focus = "sessions" => PoolTypeOK
  /\ focus = "bulk" => BulkTypeOK
  /\ focus = "stream" => StreamTypeOK
  /\ focus = "legacy" => LegacyTypeOK
  /\ focus = "calls" => CC!TypeOK
  /\ focus = "transactions" => TypeOK

(* A call of the client gives its implicit session back on every path and  *)
(* sends nothing with it afterwards (collection.go, closeImplicitSession;  *)
(* cursor.go); the server is sent what the caller set last, and the        *)
(* concerns of the collection or of the transaction as the command may     *)
(* have them (mongo/options; operation.go, addReadConcern and              *)
(* addWriteConcern).                                                       *)
CallsDoAsAsked ==
  focus = "calls" =>
    CC!SessionGivenBack /\ CC!NoUseAfterReturn /\ CC!LastOneWins /\ CC!ConcernsMatch
=============================================================================
