--------------------------- MODULE OperationTables ---------------------------
(***************************************************************************)
(* The operations of x/mongo/driver/operation. An operation is a struct of *)
(* parameters with a setter each, a command function that appends the      *)
(* parameters that are set to the command, and an Execute that builds a    *)
(* driver.Operation of the rest. For the operation X,                      *)
(*   XParameters are the parameters of the command that have a setter;     *)
(*   XCommand takes each to the element it becomes and to the wire version *)
(*     below which it is refused, or 0;                                    *)
(*   XSetters are the setters of what all operations share (the session,   *)
(*     concerns, preference and retry mode; what every operation has, such *)
(*     as the database, the deployment or the clock, is left out);         *)
(*   XExecute is what Execute hands of these to the driver.Operation, and  *)
(*     its type;                                                           *)
(*   XMinimumWriteConcern is the wire version below which a write concern  *)
(*     is left out, for the one operation whose Execute gives one.         *)
(***************************************************************************)
EXTENDS Integers

El(name) == [name |-> name, from |-> 0]
ElFrom(name, wire) == [name |-> name, from |-> wire]

AggregateParameters ==
  {"AllowDiskUse", "BatchSize", "BypassDocumentValidation", "Collation", "Comment", "Hint", "MaxTimeMS",
   "Pipeline"}
AggregateCommand ==
  [AllowDiskUse |-> El("allowDiskUse"), BatchSize |-> El("cursor.batchSize"),
   BypassDocumentValidation |-> El("bypassDocumentValidation"), Collation |-> ElFrom("collation", 5),
   Comment |-> El("comment"), Hint |-> El("hint"), MaxTimeMS |-> El("maxTimeMS"),
   Pipeline |-> El("pipeline")]
AggregateSetters == {"Session", "ReadConcern", "ReadPreference", "WriteConcern", "Retry"}
AggregateExecute == {"Session", "ReadConcern", "ReadPreference", "WriteConcern", "Retry", "Read"}
AggregateMinimumWriteConcern == 5

CountParameters == {"MaxTimeMS", "Query"}
CountCommand == [MaxTimeMS |-> El("maxTimeMS"), Query |-> El("query")]
CountSetters == {"Session", "ReadConcern", "ReadPreference", "Retry"}
CountExecute == {"Session", "ReadConcern", "ReadPreference", "Retry", "Read"}

CreateParameters ==
  {"Capped", "Collation", "IndexOptionDefaults", "Max", "Pipeline", "Size", "StorageEngine",
   "ValidationAction", "ValidationLevel", "Validator", "ViewOn"}
CreateCommand ==
  [Capped |-> El("capped"), Collation |-> ElFrom("collation", 5),
   IndexOptionDefaults |-> El("indexOptionDefaults"), Max |-> El("max"), Pipeline |-> El("pipeline"),
   Size |-> El("size"), StorageEngine |-> El("storageEngine"),
   ValidationAction |-> El("validationAction"), ValidationLevel |-> El("validationLevel"),
   Validator |-> El("validator"), ViewOn |-> El("viewOn")]
CreateSetters == {"Session", "WriteConcern"}
CreateExecute == {"Session", "WriteConcern"}

CreateIndexesParameters == {"CommitQuorum", "Indexes", "MaxTimeMS"}
CreateIndexesCommand ==
  [CommitQuorum |-> ElFrom("commitQuorum", 9), Indexes |-> El("indexes"), MaxTimeMS |-> El("maxTimeMS")]
CreateIndexesSetters == {"Session", "WriteConcern"}
CreateIndexesExecute == {"Session", "WriteConcern"}

(* In update and delete the collation, the hint, the filters and upsert    *)
(* are elements of the statement, which the call has built; the operation  *)
(* has a flag for a hint and for filters, and refuses them by the flag.    *)
DeleteParameters == {"Ordered", "Hint", "Collation"}
DeleteCommand ==
  [Ordered |-> El("ordered"), Hint |-> ElFrom("hint", 5), Collation |-> El("collation")]
DeleteSetters == {"Session", "WriteConcern", "Retry"}
DeleteExecute == {"Session", "WriteConcern", "Retry", "Write"}

DistinctParameters == {"Collation", "Key", "MaxTimeMS", "Query"}
DistinctCommand ==
  [Collation |-> ElFrom("collation", 5), Key |-> El("key"), MaxTimeMS |-> El("maxTimeMS"),
   Query |-> El("query")]
DistinctSetters == {"Session", "ReadConcern", "ReadPreference", "Retry"}
DistinctExecute == {"Session", "ReadConcern", "ReadPreference", "Retry", "Read"}

DropCollectionSetters == {"Session", "WriteConcern"}
DropCollectionExecute == {"Session", "WriteConcern"}

DropDatabaseSetters == {"Session", "WriteConcern"}
DropDatabaseExecute == {"Session", "WriteConcern"}

DropIndexesParameters == {"Index", "MaxTimeMS"}
DropIndexesCommand == [Index |-> El("index"), MaxTimeMS |-> El("maxTimeMS")]
DropIndexesSetters == {"Session", "WriteConcern"}
DropIndexesExecute == {"Session", "WriteConcern"}

FindParameters ==
  {"AllowDiskUse", "AllowPartialResults", "AwaitData", "BatchSize", "Collation", "Comment", "Filter",
   "Hint", "Limit", "Max", "MaxTimeMS", "Min", "NoCursorTimeout", "OplogReplay"} \cup
  {"Projection", "ReturnKey", "ShowRecordID", "SingleBatch", "Skip", "Snapshot", "Sort", "Tailable"}
FindCommand ==
  [AllowDiskUse |-> ElFrom("allowDiskUse", 4), AllowPartialResults |-> El("allowPartialResults"),
   AwaitData |-> El("awaitData"), BatchSize |-> El("batchSize"), Collation |-> ElFrom("collation", 5),
   Comment |-> El("comment"), Filter |-> El("filter"), Hint |-> El("hint"), Limit |-> El("limit"),
   Max |-> El("max"), MaxTimeMS |-> El("maxTimeMS"), Min |-> El("min"),
   NoCursorTimeout |-> El("noCursorTimeout"), OplogReplay |-> El("oplogReplay"),
   Projection |-> El("projection"), ReturnKey |-> El("returnKey"), ShowRecordID |-> El("showRecordId"),
   SingleBatch |-> El("singleBatch"), Skip |-> El("skip"), Snapshot |-> El("snapshot"),
   Sort |-> El("sort"), Tailable |-> El("tailable")]
FindSetters == {"Session", "ReadConcern", "ReadPreference", "Retry"}
FindExecute == {"Session", "ReadConcern", "ReadPreference", "Retry", "Read"}

FindAndModifyParameters ==
  {"ArrayFilters", "BypassDocumentValidation", "Collation", "Fields", "MaxTimeMS", "NewDocument",
   "Query", "Remove", "Sort", "Update", "Upsert", "Hint"}
FindAndModifyCommand ==
  [ArrayFilters |-> ElFrom("arrayFilters", 6),
   BypassDocumentValidation |-> El("bypassDocumentValidation"), Collation |-> ElFrom("collation", 5),
   Fields |-> El("fields"), MaxTimeMS |-> El("maxTimeMS"), NewDocument |-> El("new"),
   Query |-> El("query"), Remove |-> El("remove"), Sort |-> El("sort"), Update |-> El("update"),
   Upsert |-> El("upsert"), Hint |-> ElFrom("hint", 8)]
FindAndModifySetters == {"Session", "WriteConcern", "Retry"}
FindAndModifyExecute == {"Session", "WriteConcern", "Retry", "Write"}

InsertParameters == {"BypassDocumentValidation", "Ordered"}
InsertCommand ==
  [BypassDocumentValidation |-> El("bypassDocumentValidation"), Ordered |-> El("ordered")]
InsertSetters == {"Session", "WriteConcern", "Retry"}
InsertExecute == {"Session", "WriteConcern", "Retry", "Write"}

ListDatabasesParameters == {"Filter", "NameOnly", "AuthorizedDatabases"}
ListDatabasesCommand ==
  [Filter |-> El("filter"), NameOnly |-> El("nameOnly"),
   AuthorizedDatabases |-> El("authorizedDatabases")]
ListDatabasesSetters == {"Session", "ReadPreference", "Retry"}
ListDatabasesExecute == {"Session", "ReadPreference", "Retry", "Read"}

ListCollectionsParameters == {"Filter", "NameOnly", "BatchSize"}
ListCollectionsCommand ==
  [Filter |-> El("filter"), NameOnly |-> El("nameOnly"), BatchSize |-> El("cursor.batchSize")]
ListCollectionsSetters == {"Session", "ReadPreference", "Retry"}
ListCollectionsExecute == {"Session", "ReadPreference", "Retry", "Read"}

ListIndexesParameters == {"BatchSize", "MaxTimeMS"}
ListIndexesCommand == [BatchSize |-> El("cursor.batchSize"), MaxTimeMS |-> El("maxTimeMS")]
ListIndexesSetters == {"Session", "Retry"}
ListIndexesExecute == {"Session", "Retry", "Read"}

(* Command sends a document as it is; it has a read concern, and Execute   *)
(* leaves it out.                                                          *)
CommandSetters == {"Session", "ReadConcern", "ReadPreference"}
CommandExecute == {"Session", "ReadPreference"}

UpdateParameters ==
  {"BypassDocumentValidation", "Hint", "ArrayFilters", "Ordered", "Collation", "Upsert"}
UpdateCommand ==
  [BypassDocumentValidation |-> El("bypassDocumentValidation"), Hint |-> ElFrom("hint", 5),
   ArrayFilters |-> ElFrom("arrayFilters", 6), Ordered |-> El("ordered"), Collation |-> El("collation"),
   Upsert |-> El("upsert")]
UpdateSetters == {"Session", "WriteConcern", "Retry"}
UpdateExecute == {"Session", "WriteConcern", "Retry", "Write"}

(* Elements that are left out below a wire version without an error, and   *)
(* the operations that refuse a hint when the write is not acknowledged.   *)
DroppedBelow(operation, element) ==
  IF operation \in {"insert", "update"} /\ element = "bypassDocumentValidation" THEN 4 ELSE 0
RefusesUnacknowledgedHint == {"delete", "update", "findAndModify"}
NoParameters == {}
NoCommand == [x \in {} |-> El("")]
=============================================================================
