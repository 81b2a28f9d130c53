------------------------------ MODULE BulkWrite ------------------------------
(***************************************************************************)
(* Collection.BulkWrite (mongo/bulk_write.go): the models are grouped into *)
(* batches of one kind, each batch is an insert, update or delete          *)
(* operation that Execute splits into commands of at most MaxBatchCount    *)
(* statements (batches.go), and results and errors travel back up. What    *)
(* the server does with each statement is external. A call whose write     *)
(* concern asks for no acknowledgement gets neither counts nor write       *)
(* errors, and its batches end in ErrUnacknowledgedWrite.                  *)
(*                                                                         *)
(* A model is named by its index in the call, and only its kind is kept.   *)
(* The models of a batch and the statements of a command are in the order  *)
(* of their indexes, so both are sets of indexes, and Position finds the   *)
(* place of a model in one.                                                *)
(***************************************************************************)
EXTENDS Integers, FiniteSets, FiniteSetsExt

CONSTANTS
  MaxModels,     \* bound of the models of the call
  MaxBatchCount  \* maxWriteBatchSize of the server; AdvanceBatch takes 1 for 0
ASSUME BulkAssumption == MaxModels \in Nat /\ MaxBatchCount \in Nat \ {0}

VARIABLES
  bwModels,   \* the kinds of the models; bwOrdered: BulkWriteOptions.Ordered
  bwOrdered,
  bwAck,      \* writeconcern.AckWrite of the write concern
  bwBatches,  \* the batches that execute has not run yet
  bwBatch,    \* the batch in runBatch
  bwRest,     \* Batches.Documents of its operation
  bwOp,       \* result of the operation, operationErr, currIndex and its other errors
  bwResult,   \* bulkWrite.result
  bwErr,      \* the BulkWriteException, and lastErr
  bwPc,       \* where execute is
  ran         \* what became of each model at the server

callVars == <<bwModels, bwOrdered, bwAck>>
bwVars == <<callVars, bwBatches, bwBatch, bwRest, bwOp, bwResult, bwErr, bwPc, ran>>

ModelKinds == {"insert", "updateOne", "updateMany", "deleteOne", "deleteMany"}
Updates == {"updateOne", "updateMany"}
Deletes == {"deleteOne", "deleteMany"}
Indexes == DOMAIN bwModels
Calls == UNION {[1 .. m -> ModelKinds] : m \in 0 .. MaxModels}
ErrorKinds == {"none", "error", "unacknowledged"}
Fates == {"none", "done", "upserted", "failed"}
NoCounts == [n |-> 0, modified |-> 0, upserted |-> {}]
NoOperation == [res |-> NoCounts, errors |-> {}, wce |-> FALSE, offset |-> 0, err |-> "none"]
NoResult ==
  [inserted |-> 0, matched |-> 0, modified |-> 0, deleted |-> 0, upserted |-> 0, ids |-> {}]
NoErr == [errors |-> {}, wce |-> FALSE, last |-> "none"]

BulkTypeOK ==
  /\ bwModels \in Calls /\ bwOrdered \in BOOLEAN /\ bwAck \in BOOLEAN /\ ran \in [Indexes -> Fates]
  /\ bwPc \in {"idle", "execute", "command", "merge", "nil", "exception", "error", "unacknowledged"}
  /\ bwBatches \subseteq SUBSET Indexes /\ bwBatch \subseteq Indexes /\ bwRest \subseteq bwBatch
  /\ bwOp \in [res : [n : Nat, modified : Nat, upserted : SUBSET Nat], errors : SUBSET Nat,
               wce : BOOLEAN, offset : Nat, err : ErrorKinds]
  /\ bwResult \in [inserted : Nat, matched : Int, modified : Nat, deleted : Nat, upserted : Nat,
                   ids : SUBSET Indexes]
  /\ bwErr \in [errors : SUBSET Indexes, wce : BOOLEAN, last : ErrorKinds]

BulkInit ==
  /\ bwModels = <<>> /\ bwOrdered = TRUE /\ bwAck = TRUE
  /\ bwBatches = {} /\ bwBatch = {} /\ bwRest = {}
  /\ bwOp = NoOperation /\ bwResult = NoResult /\ bwErr = NoErr /\ bwPc = "idle" /\ ran = <<>>
-----------------------------------------------------------------------------
(* createOrderedBatches: a new batch wherever the kind changes.            *)
KindRuns(ks) ==
  {{j \in DOMAIN ks : \A k \in DOMAIN ks : (i <= k /\ k <= j) \/ (j <= k /\ k <= i) => ks[k] = ks[i]} :
     i \in DOMAIN ks}
SameCommandRun(ks) == KindRuns([i \in DOMAIN ks |-> IF ks[i] \in Updates THEN "update" ELSE ks[i]])
createOrderedBatches(ks) == KindRuns(ks)

(* createBatches, unordered: one batch per kind, the empty ones skipped by *)
(* execute.                                                                *)
createBatches(ks) == {{j \in DOMAIN ks : ks[j] = ks[i]} : i \in DOMAIN ks}

(* The order of the batches: that of the models, or of writeCommandKind.   *)
writeCommandKind(k) ==
  IF k = "insert" THEN 0 ELSE IF k = "updateOne" THEN 1 ELSE IF k = "updateMany" THEN 2
  ELSE IF k = "deleteOne" THEN 3 ELSE 4
Precedes(b, c) ==
  \A i \in b, j \in c :
    IF bwOrdered THEN i < j ELSE writeCommandKind(bwModels[i]) < writeCommandKind(bwModels[j])

(* A batch is retried as a whole if every model of it writes one document. *)
WritesOne == {"insert", "updateOne", "deleteOne"}
canRetry(batch) == \A i \in batch : bwModels[i] \in WritesOne

(* The place of a model in a batch or command, from 0, and the models at   *)
(* given places.                                                           *)
Position(i, batch) == Cardinality({j \in batch : j < i})
At(batch, positions) == {i \in batch : Position(i, batch) \in positions}

(* AdvanceBatch; the sizes in bytes are left out.                          *)
AdvanceBatch(rest) == {i \in rest : Position(i, rest) < MaxBatchCount}

(* BulkWrite is called, and execute groups the models.                     *)
BulkStart(ks, ordered, ack) ==
  /\ bwPc = "idle" /\ bwPc' = "execute"
  /\ bwModels' = ks /\ bwOrdered' = ordered /\ bwAck' = ack
  /\ bwBatches' = IF ordered THEN createOrderedBatches(ks) ELSE createBatches(ks)
  /\ ran' = [i \in DOMAIN ks |-> "none"]
  /\ UNCHANGED <<bwBatch, bwRest, bwOp, bwResult, bwErr>>

(* execute takes the next batch, and runInsert, runUpdate or runDelete     *)
(* makes an operation of its documents.                                    *)
RunBatch(b) ==
  /\ bwPc = "execute" /\ \A c \in bwBatches \ {b} : Precedes(b, c)
  /\ bwBatch' = b /\ bwBatches' = bwBatches \ {b} /\ bwRest' = b
  /\ bwOp' = NoOperation /\ bwPc' = "command"
  /\ UNCHANGED <<callVars, bwResult, bwErr, ran>>

(* The outcomes of the statements of a command: an ordered command stops   *)
(* at the first that fails.                                                *)
Outcomes(command) ==
  {o \in [command -> Fates] :
     \A i \in command :
       IF bwOrdered /\ \E j \in command : j < i /\ o[j] = "failed" THEN o[i] = "none"
       ELSE o[i] \in {"done", "failed"} \cup IF bwModels[i] \in Updates THEN {"upserted"} ELSE {}}

Having(o, s) == {i \in DOMAIN o : o[i] \in s}
Places(models, command) == {Position(i, command) : i \in models}

(* buildInsertResult, buildUpdateResult and buildDeleteResult of a reply.  *)
ReplyCounts(o) ==
  [n |-> Cardinality(Having(o, {"done", "upserted"})),
   modified |-> Cardinality({i \in Having(o, {"done"}) : bwModels[i] \in Updates}),
   upserted |-> Places(Having(o, {"upserted"}), DOMAIN o)]

(* processResponse: the result of the operation is the last reply's.       *)
ProcessResponse(old, reply) == reply

(* The positions of write errors get the statements before the command     *)
(* added to them.                                                          *)
Unshifted(positions, offset) == positions
ShiftErrors(positions, offset) == {p + offset : p \in positions}

(* An ordered operation returns with the write errors of a command; else   *)
(* it goes on, and operationErr keeps the last write concern error.        *)
NeverReturns(o) == FALSE
ReturnsEarly(o) == bwOrdered /\ Having(o, {"failed"}) # {}

RoundTrip(o, wce) ==
  LET command == AdvanceBatch(bwRest)
      failed == Having(o, {"failed"})
      errors == ShiftErrors(Places(failed, command), bwOp.offset)
  IN  /\ bwPc = "command" /\ bwAck
      /\ ran' = [i \in Indexes |-> IF i \in command THEN o[i] ELSE ran[i]]
      /\ bwOp' = [res |-> ProcessResponse(bwOp.res, ReplyCounts(o)),
                  errors |-> IF ReturnsEarly(o) THEN errors ELSE bwOp.errors \cup errors,
                  wce |-> IF failed # {} \/ wce THEN wce ELSE bwOp.wce,
                  offset |-> bwOp.offset + Cardinality(command), err |-> "none"]
      /\ bwRest' = IF ReturnsEarly(o) THEN {} ELSE bwRest \ command
      /\ bwPc' = IF bwRest' = {} THEN "merge" ELSE "command"
      /\ UNCHANGED <<callVars, bwBatches, bwBatch, bwResult, bwErr>>

(* An unacknowledged command: the reply, if there is one, says ok and no   *)
(* more. There is none to the last command of a batch over OP_MSG, which   *)
(* has moreToCome set and may get lost; Execute then returns               *)
(* ErrUnacknowledgedWrite.                                                 *)
Lost(command) == [i \in command |-> "none"]
UnacknowledgedRoundTrip(o, opMsg) ==
  LET command == AdvanceBatch(bwRest)
      moreToCome == opMsg /\ bwRest \ command = {}
  IN  /\ bwPc = "command" /\ ~bwAck
      /\ o = Lost(command) => moreToCome
      /\ ran' = [i \in Indexes |-> IF i \in command THEN o[i] ELSE ran[i]]
      /\ bwOp' = [NoOperation EXCEPT !.offset = bwOp.offset + Cardinality(command),
                                     !.err = IF moreToCome THEN "unacknowledged" ELSE "none"]
      /\ bwRest' = bwRest \ command
      /\ bwPc' = IF bwRest' = {} THEN "merge" ELSE "command"
      /\ UNCHANGED <<callVars, bwBatches, bwBatch, bwResult, bwErr>>

(* The command as a whole fails: Execute returns that error alone.         *)
CommandError ==
  /\ bwPc = "command" /\ bwPc' = "merge" /\ bwRest' = {}
  /\ bwOp' = [NoOperation EXCEPT !.err = "error"]
  /\ UNCHANGED <<callVars, bwBatches, bwBatch, bwResult, bwErr, ran>>

(* runBatch's conversion of the operation's result, by the type of the     *)
(* first model of the batch, and mergeResults.                             *)
mergeResults(r) ==
  LET k == bwModels[Min(bwBatch)]
      c == bwOp.res
  IN  [inserted |-> r.inserted + IF k = "insert" THEN c.n ELSE 0,
       matched |-> r.matched + IF k \in Updates THEN c.n ELSE 0,
       modified |-> r.modified + IF k \in Updates THEN c.modified ELSE 0,
       deleted |-> r.deleted + IF k \in Deletes THEN c.n ELSE 0,
       upserted |-> r.upserted + IF k \in Updates THEN Cardinality(c.upserted) ELSE 0,
       ids |-> r.ids \cup IF k \in Updates THEN At(bwBatch, c.upserted) ELSE {}]

(* The rest of the loop of execute: an ordered bulk write returns with the *)
(* first error of any sort, before the matched count is corrected, but     *)
(* goes on where nothing was acknowledged. lastErr is the last of the      *)
(* errors that are neither write nor write concern errors.                 *)
Stops == bwOrdered /\ (bwOp.err = "error" \/ bwOp.wce \/ bwOp.errors # {})
MergeBatch ==
  /\ bwPc = "merge"
  /\ bwResult' = IF bwOp.err = "none" THEN mergeResults(bwResult) ELSE bwResult
  /\ bwErr' = [errors |-> bwErr.errors \cup At(bwBatch, bwOp.errors), wce |-> bwOp.wce,
               last |-> IF bwOp.err = "none" THEN bwErr.last ELSE bwOp.err]
  /\ bwPc' = IF ~Stops THEN "execute" ELSE IF bwOp.err = "error" THEN "error" ELSE "exception"
  /\ UNCHANGED <<callVars, bwBatches, bwBatch, bwRest, bwOp, ran>>

(* execute returns after its last batch; an upserted document was counted  *)
(* as matched.                                                             *)
KeepsMatched(r) == r
CorrectMatched(r) == [r EXCEPT !.matched = r.matched - r.upserted]
BulkReturn ==
  /\ bwPc = "execute" /\ bwBatches = {}
  /\ bwResult' = CorrectMatched(bwResult)
  /\ bwPc' = IF bwErr.last # "none" THEN bwErr.last
             ELSE IF bwErr.errors # {} \/ bwErr.wce THEN "exception" ELSE "nil"
  /\ UNCHANGED <<callVars, bwBatches, bwBatch, bwRest, bwOp, bwErr, ran>>

BulkNext ==
  \/ \E ks \in Calls \ {<<>>}, ordered, ack \in BOOLEAN : BulkStart(ks, ordered, ack)
  \/ \E b \in bwBatches : RunBatch(b)
  \/ \E o \in Outcomes(AdvanceBatch(bwRest)), wce \in BOOLEAN : RoundTrip(o, wce)
  \/ \E o \in Outcomes(AdvanceBatch(bwRest)) \cup {Lost(AdvanceBatch(bwRest))}, opMsg \in BOOLEAN :
       UnacknowledgedRoundTrip(o, opMsg)
  \/ CommandError \/ MergeBatch \/ BulkReturn

BulkSpec == BulkInit /\ [][BulkNext]_bwVars
-----------------------------------------------------------------------------
Which(s) == {i \in Indexes : ran[i] \in s}
Unsplit == \A i \in Indexes :
  Cardinality({j \in Indexes : bwModels[j] = bwModels[i]}) <= MaxBatchCount

(* An ordered bulk write that is acknowledged runs no model after one that *)
(* failed: the server stops within a command, Execute between the commands *)
(* of a batch and execute between batches. (One that is not acknowledged   *)
(* stops within a command only: nobody tells the driver of the failure.)   *)
OrderedStops ==
  bwOrdered /\ bwAck => \A i, j \in Indexes : i < j /\ ran[i] = "failed" => ran[j] = "none"

(* The write errors of the exception name exactly the models that failed,  *)
(* by their index in the call, whatever batch and command they were in;    *)
(* and without ordering every model was tried.                             *)
ErrorsNameTheirModels ==
  bwPc = "exception" =>
    /\ bwErr.errors = Which({"failed"})
    /\ ~bwOrdered => Which({"none"}) = {}

(* A model is retried with its batch exactly if it writes one document:    *)
(* no other model of the batch keeps it from that, nor does it keep others.*)
RetriesWriteOne == \A i \in bwBatch : canRetry(bwBatch) <=> bwModels[i] \in WritesOne

CountsAreExact ==
  LET of(k) == {i \in Which({"done"}) : bwModels[i] \in k}
  IN  /\ bwResult.inserted = Cardinality(of({"insert"}))
      /\ bwResult.deleted = Cardinality(of(Deletes))
      /\ bwResult.matched = Cardinality(of(Updates))
      /\ bwResult.modified = Cardinality(of(Updates))
      /\ bwResult.ids = Which({"upserted"})

(* When no batch has to be split, an acknowledged bulk write that reports  *)
(* no error returns the counts of what the server did, and the upserted    *)
(* documents under the index of their model.                               *)
UnsplitCounts == bwPc = "nil" /\ bwAck /\ Unsplit => CountsAreExact

(* An ordered bulk write that is acknowledged runs nothing after a         *)
(* failure, write errors name exactly the models that failed, a retry      *)
(* repeats all statements that write one document and none that write      *)
(* many, and acknowledged counts are those of the server when no batch is  *)
(* split (bulk_write.go, execute, runBatch, createOrderedBatches and       *)
(* mergeResults).                                                          *)
BulkOutcome == OrderedStops /\ ErrorsNameTheirModels /\ RetriesWriteOne /\ UnsplitCounts
=============================================================================
