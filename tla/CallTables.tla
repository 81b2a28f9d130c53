----------------------------- MODULE CallTables -----------------------------
(***************************************************************************)
(* The calls of the client's API (mongo/collection.go, database.go,        *)
(* client.go, index_view.go), one record each: the options structs they    *)
(* take, the options they hand on and to which operation, and the order of *)
(* their steps. With them, the operations as OperationTables describes     *)
(* them.                                                                   *)
(***************************************************************************)
EXTENDS Integers, Sequences, OptionTables, OperationTables

(* The calls. "steps" is their order; "ends" are the steps whose failure   *)
(* gives an implicit session back: all of them where EndSession is         *)
(* deferred. "concern" is what the call takes of the collection's          *)
(* concerns.                                                               *)
AllSteps == {"transform", "session", "valid", "convert", "execute", "result"}
Call(options, hands, operation, steps, ends, concern) ==
  [options |-> options, hands |-> hands, op |-> operation, steps |-> steps, ends |-> ends,
   concern |-> concern]
Nothing == Same({})

BulkWriteCall ==
  Call(BulkWriteOptions, Same(BulkWriteOptions), "insert",
       <<"session", "valid", "transform", "execute">>, AllSteps, "write")
InsertCall ==
  Call(InsertManyOptions, InsertHands, "insert",
       <<"transform", "session", "valid", "execute">>, AllSteps, "write")
DeleteCall ==
  Call(DeleteOptions, DeleteHands, "delete",
       <<"transform", "session", "valid", "convert", "execute">>, AllSteps, "write")
UpdateCall ==
  Call(UpdateOptions, UpdateHands, "update",
       <<"transform", "convert", "session", "valid", "execute">>, AllSteps, "write")
AggregateCall ==
  Call(AggregateOptions, AggregateHands, "aggregate",
       <<"transform", "session", "valid", "convert", "execute", "result">>,
       {"convert", "execute", "result"}, "output")
CountDocumentsCall ==
  Call(CountOptions, CountHands, "aggregate",
       <<"transform", "session", "valid", "convert", "execute", "result">>, AllSteps, "read")
EstimatedDocumentCountCall ==
  Call(EstimatedDocumentCountOptions, EstimatedCountHands, "count",
       <<"session", "valid", "execute">>, AllSteps, "read")
DistinctCall ==
  Call(DistinctOptions, DistinctHands, "distinct",
       <<"transform", "session", "valid", "execute", "result">>, AllSteps, "read")
FindLeaks ==
  Call(FindOptions, FindHands, "find",
       <<"transform", "session", "valid", "convert", "execute", "result">>,
       {"valid", "execute", "result"}, "read")
FindCall ==
  Call(FindOptions, FindHands, "find",
       <<"transform", "session", "valid", "convert", "execute", "result">>,
       {"valid", "convert", "execute", "result"}, "read")
FindAndModifySteps == <<"transform", "convert", "session", "valid", "execute">>
FindOneAndDeleteCall ==
  Call(FindOneAndDeleteOptions, FindAndDeleteHands, "findAndModify", FindAndModifySteps, AllSteps, "write")
FindOneAndReplaceCall ==
  Call(FindOneAndReplaceOptions, FindAndReplaceHands, "findAndModify", FindAndModifySteps, AllSteps,
       "write")
FindOneAndUpdateCall ==
  Call(FindOneAndUpdateOptions, FindAndUpdateHands, "findAndModify", FindAndModifySteps, AllSteps,
       "write")
DropCall == Call({}, Nothing, "drop", <<"session", "valid", "execute">>, AllSteps, "write")
DropDatabaseCall == Call({}, Nothing, "dropDatabase", <<"session", "valid", "execute">>, AllSteps, "write")
RunCommandCall ==
  Call(RunCmdOptions, RunCommandHands, "command",
       <<"session", "valid", "transform", "execute">>, AllSteps, "command")
RunCommandCursorCall ==
  Call(RunCmdOptions, RunCommandHands, "command",
       <<"session", "valid", "transform", "execute", "result">>,
       {"valid", "transform", "execute", "result"}, "command")
ListCollectionsCall ==
  Call(ListCollectionsOptions, ListCollectionsHands, "listCollections",
       <<"transform", "session", "valid", "execute", "result">>, {"valid", "execute", "result"}, "none")
ListDatabasesCall ==
  Call(ListDatabasesOptions, ListDatabasesHands, "listDatabases",
       <<"session", "valid", "transform", "execute">>, AllSteps, "none")
CreateCollectionCall ==
  Call(CreateCollectionOptions, CreateHands, "create",
       <<"convert", "session", "valid", "execute">>, AllSteps, "write")
CreateViewCall ==
  Call(CreateViewOptions, Same(CreateViewOptions), "create",
       <<"transform", "session", "valid", "execute">>, AllSteps, "write")
CreateIndexesCall ==
  Call(CreateIndexesOptions, CreateIndexesHands, "createIndexes",
       <<"transform", "session", "valid", "convert", "execute">>, AllSteps, "write")
IndexModelCall ==
  Call(IndexOptions, IndexHands, "createIndexes",
       <<"transform", "session", "valid", "execute">>, AllSteps, "write")
DropIndexesCall ==
  Call(DropIndexesOptions, DropIndexesHands, "dropIndexes",
       <<"session", "valid", "execute">>, AllSteps, "write")
ListIndexesCall ==
  Call(ListIndexesOptions, ListIndexesHands, "listIndexes",
       <<"session", "valid", "execute", "result">>, {"valid", "execute", "result"}, "none")

Calls ==
  [BulkWrite |-> BulkWriteCall, InsertMany |-> InsertCall, InsertOne |-> InsertCall,
   Delete |-> DeleteCall, Update |-> UpdateCall, ReplaceOne |-> UpdateCall,
   Aggregate |-> AggregateCall, CountDocuments |-> CountDocumentsCall,
   EstimatedDocumentCount |-> EstimatedDocumentCountCall, Distinct |-> DistinctCall,
   Find |-> FindCall, FindOne |-> FindCall, GridFSFind |-> FindCall,
   FindOneAndDelete |-> FindOneAndDeleteCall, FindOneAndReplace |-> FindOneAndReplaceCall,
   FindOneAndUpdate |-> FindOneAndUpdateCall, Drop |-> DropCall, DropDatabase |-> DropDatabaseCall,
   RunCommand |-> RunCommandCall, RunCommandCursor |-> RunCommandCursorCall,
   ListCollections |-> ListCollectionsCall, ListDatabases |-> ListDatabasesCall,
   CreateCollection |-> CreateCollectionCall, CreateView |-> CreateViewCall,
   CreateIndexes |-> CreateIndexesCall, IndexModel |-> IndexModelCall, DropIndexes |-> DropIndexesCall,
   ListIndexes |-> ListIndexesCall]
-----------------------------------------------------------------------------
Operation(parameters, command, setters, execute) ==
  [parameters |-> parameters, command |-> command, setters |-> setters, execute |-> execute]
Operations ==
  [aggregate |-> Operation(AggregateParameters, AggregateCommand, AggregateSetters, AggregateExecute),
   count |-> Operation(CountParameters, CountCommand, CountSetters, CountExecute),
   create |-> Operation(CreateParameters, CreateCommand, CreateSetters, CreateExecute),
   createIndexes |-> Operation(CreateIndexesParameters, CreateIndexesCommand, CreateIndexesSetters,
                               CreateIndexesExecute),
   delete |-> Operation(DeleteParameters, DeleteCommand, DeleteSetters, DeleteExecute),
   distinct |-> Operation(DistinctParameters, DistinctCommand, DistinctSetters, DistinctExecute),
   drop |-> Operation(NoParameters, NoCommand, DropCollectionSetters, DropCollectionExecute),
   dropDatabase |-> Operation(NoParameters, NoCommand, DropDatabaseSetters, DropDatabaseExecute),
   dropIndexes |-> Operation(DropIndexesParameters, DropIndexesCommand, DropIndexesSetters,
                             DropIndexesExecute),
   find |-> Operation(FindParameters, FindCommand, FindSetters, FindExecute),
   findAndModify |-> Operation(FindAndModifyParameters, FindAndModifyCommand, FindAndModifySetters,
                               FindAndModifyExecute),
   insert |-> Operation(InsertParameters, InsertCommand, InsertSetters, InsertExecute),
   listCollections |-> Operation(ListCollectionsParameters, ListCollectionsCommand,
                                 ListCollectionsSetters, ListCollectionsExecute),
   listDatabases |-> Operation(ListDatabasesParameters, ListDatabasesCommand, ListDatabasesSetters,
                               ListDatabasesExecute),
   listIndexes |-> Operation(ListIndexesParameters, ListIndexesCommand, ListIndexesSetters,
                             ListIndexesExecute),
   command |-> Operation(NoParameters, NoCommand, CommandSetters, CommandExecute),
   update |-> Operation(UpdateParameters, UpdateCommand, UpdateSetters, UpdateExecute)]
=============================================================================
