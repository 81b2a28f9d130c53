---------------------------- MODULE OptionTables ----------------------------
(***************************************************************************)
(* The options of the client's calls (mongo/options): for each type the    *)
(* fields of its struct, which its setters set and its Merge function      *)
(* combines, and for each call what it hands of them to the operation.     *)
(* An options value is a function from the fields that are set, that is,   *)
(* are not nil, to their values.                                           *)
(***************************************************************************)
EXTENDS Integers, Sequences, TLC

AggregateOptions ==
  {"AllowDiskUse", "BatchSize", "BypassDocumentValidation", "Collation", "MaxTime", "MaxAwaitTime",
   "Comment", "Hint"}
BulkWriteOptions == {"BypassDocumentValidation", "Ordered"}
CountOptions == {"Collation", "Hint", "Limit", "MaxTime", "Skip"}
CreateCollectionOptions ==
  {"Capped", "Collation", "DefaultIndexOptions", "MaxDocuments", "SizeInBytes", "StorageEngine",
   "ValidationAction", "ValidationLevel", "Validator"}
CreateViewOptions == {"Collation"}
DeleteOptions == {"Collation", "Hint"}
DistinctOptions == {"Collation", "MaxTime"}
EstimatedDocumentCountOptions == {"MaxTime"}
FindOptions ==
  {"AllowDiskUse", "AllowPartialResults", "BatchSize", "Collation", "Comment", "CursorType", "Hint",
   "Limit", "Max", "MaxAwaitTime", "MaxTime", "Min", "NoCursorTimeout", "OplogReplay", "Projection",
   "ReturnKey", "ShowRecordID", "Skip", "Snapshot", "Sort"}
FindOneOptions == FindOptions \ {"AllowDiskUse", "Limit"}
FindOneAndDeleteOptions == {"Collation", "MaxTime", "Projection", "Sort", "Hint"}
FindOneAndReplaceOptions ==
  FindOneAndDeleteOptions \cup {"BypassDocumentValidation", "ReturnDocument", "Upsert"}
FindOneAndUpdateOptions == FindOneAndReplaceOptions \cup {"ArrayFilters"}
GridFSFindOptions == {"AllowDiskUse", "BatchSize", "Limit", "MaxTime", "NoCursorTimeout", "Skip", "Sort"}
CreateIndexesOptions == {"CommitQuorum", "MaxTime"}
DropIndexesOptions == {"MaxTime"}
ListIndexesOptions == {"BatchSize", "MaxTime"}
IndexOptions ==
  {"Background", "ExpireAfterSeconds", "Name", "Sparse", "StorageEngine", "Unique", "Version",
   "DefaultLanguage", "LanguageOverride", "TextVersion", "Weights", "SphereVersion", "Bits", "Max",
   "Min", "BucketSize", "PartialFilterExpression", "Collation", "WildcardProjection", "Hidden"}
InsertOneOptions == {"BypassDocumentValidation"}
InsertManyOptions == {"BypassDocumentValidation", "Ordered"}
ListCollectionsOptions == {"NameOnly", "BatchSize"}
ListDatabasesOptions == {"NameOnly", "AuthorizedDatabases"}
ReplaceOptions == {"BypassDocumentValidation", "Collation", "Hint", "Upsert"}
RunCmdOptions == {"ReadPreference"}
UpdateOptions == {"ArrayFilters", "BypassDocumentValidation", "Collation", "Hint", "Upsert"}

(* Merge: of the structs that set a field, the last one wins. Every type   *)
(* has a Merge function of its own, which copies the fields of its struct  *)
(* one by one.                                                             *)
MergeFirst(type, opts) ==
  LET sets(f) == {i \in DOMAIN opts : f \in DOMAIN opts[i]}
      set == {f \in type : sets(f) # {}}
  IN  [f \in set |-> opts[CHOOSE i \in sets(f) : \A j \in sets(f) : i <= j][f]]
Merge(type, opts) ==
  LET sets(f) == {i \in DOMAIN opts : f \in DOMAIN opts[i]}
      set == {f \in type : sets(f) # {}}
  IN  [f \in set |-> opts[CHOOSE i \in sets(f) : \A j \in sets(f) : j <= i][f]]
-----------------------------------------------------------------------------
(* What a call does with the merged options: a function from the fields it *)
(* reads to the parameter of the operation, of the statement or of the     *)
(* cursor that it sets. "cursor.x" is a field of driver.CursorOptions, for *)
(* the later getMore; "match.x" a stage of the pipeline of CountDocuments. *)
Same(S) == [f \in S |-> f]

AggregateHands == Same(AggregateOptions \ {"MaxAwaitTime", "MaxTime"}) @@
  [MaxTime |-> "MaxTimeMS", MaxAwaitTime |-> "cursor.MaxTimeMS"]
CountHands == [Collation |-> "Collation", MaxTime |-> "MaxTimeMS", Hint |-> "Hint",
               Skip |-> "Pipeline", Limit |-> "Pipeline"]
EstimatedCountHands == [MaxTime |-> "MaxTimeMS"]
DistinctHands == [Collation |-> "Collation", MaxTime |-> "MaxTimeMS"]
FindHands == Same(FindOptions \ {"CursorType", "MaxAwaitTime", "MaxTime"}) @@
  [CursorType |-> "Tailable", MaxAwaitTime |-> "cursor.MaxTimeMS", MaxTime |-> "MaxTimeMS"]
FindAndDeleteHands == Same({"Collation", "Sort", "Hint"}) @@
  [MaxTime |-> "MaxTimeMS", Projection |-> "Fields"]
FindAndReplaceHands == FindAndDeleteHands @@ Same({"BypassDocumentValidation", "Upsert"}) @@
  [ReturnDocument |-> "NewDocument"]
FindAndUpdateHands == FindAndReplaceHands @@ Same({"ArrayFilters"})
InsertHands == Same(InsertManyOptions)
UpdateHands == Same(UpdateOptions)
DeleteHands == Same(DeleteOptions)
CreateHands == Same(CreateCollectionOptions \ {"DefaultIndexOptions", "MaxDocuments", "SizeInBytes"}) @@
  [DefaultIndexOptions |-> "IndexOptionDefaults", MaxDocuments |-> "Max", SizeInBytes |-> "Size"]
CreateIndexesHands == [CommitQuorum |-> "CommitQuorum", MaxTime |-> "MaxTimeMS"]
DropIndexesHands == [MaxTime |-> "MaxTimeMS"]
ListIndexesHands == [BatchSize |-> "BatchSize", MaxTime |-> "MaxTimeMS"]
ListCollectionsHands == Same(ListCollectionsOptions)
ListDatabasesHands == Same(ListDatabasesOptions)
RunCommandHands == Same(RunCmdOptions)

(* Calls that first turn their options into those of another call: the     *)
(* fields that are copied, struct by struct. FindOne copies all but        *)
(* MaxTime; ReplaceOne all; InsertOne a flag that is true.                 *)
FindOneCopies == FindOneOptions \ {"MaxTime"}
ReplaceOneCopies == ReplaceOptions
GridFSFindCopies == GridFSFindOptions
CopyFields(S, opts) ==
  [i \in DOMAIN opts |-> [f \in DOMAIN opts[i] \cap S |-> opts[i][f]]]
CopyTrue(opts) ==
  [i \in DOMAIN opts |->
     [f \in {g \in DOMAIN opts[i] : g = "BypassDocumentValidation" /\ opts[i][g]} |-> TRUE]]

(* createOptionsDoc: the elements of an index specification.               *)
IndexElements ==
  [Background |-> "background", ExpireAfterSeconds |-> "expireAfterSeconds", Name |-> "name",
   Sparse |-> "sparse", StorageEngine |-> "storageEngine", Unique |-> "unique", Version |-> "v",
   DefaultLanguage |-> "default_language", LanguageOverride |-> "language_override",
   TextVersion |-> "textIndexVersion", Weights |-> "weights",
   SphereVersion |-> "2dsphereIndexVersion", Bits |-> "bits", Max |-> "max", Min |-> "min",
   BucketSize |-> "bucketSize", PartialFilterExpression |-> "partialFilterExpression",
   Collation |-> "collation", WildcardProjection |-> "wildcardProjection", Hidden |-> "hidden"]
IndexHands == [f \in DOMAIN IndexElements |-> "Indexes"]
=============================================================================
