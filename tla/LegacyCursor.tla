---------------------------- MODULE LegacyCursor ----------------------------
(***************************************************************************)
(* Cursors of servers before 3.2 (x/mongo/driver/operation_legacy.go and   *)
(* the legacy parts of batch_cursor.go). The wire protocol of these        *)
(* servers has no limit: the driver derives one number from the limit and  *)
(* the batch size, counts what it is sent and kills the cursor itself.     *)
(*                                                                         *)
(* The server is external: a result of lcTotal documents, of which a reply *)
(* to numberToReturn = n holds n, or DefaultBatch for 0. A query for 1 or  *)
(* for a negative number has no cursor after its reply.                    *)
(***************************************************************************)
EXTENDS Integers

CONSTANTS
  MaxTotal,     \* bound of the documents of the result
  MaxLimit,     \* bound of the limit, which may be negative
  MaxBatch,     \* bound of the batch size
  DefaultBatch  \* documents of a reply where the driver asks for no number
ASSUME LegacyAssumption ==
  MaxTotal \in Nat /\ MaxLimit \in Nat /\ MaxBatch \in Nat /\ DefaultBatch \in Nat

VARIABLES
  lcKind,      \* the operation: "find", "listCollections" or "listIndexes"
  lcTotal,     \* documents of the result
  lcLimit,     \* FindOptions.Limit; 0 is none
  lcBatchSize, \* the batch size that was asked for; 0 is none
  lcSent,      \* documents the server sent
  lcOpen,      \* whether the server has the cursor
  lcId,        \* whether bc.id is not 0
  lcFirst,     \* bc.firstBatch
  lcBatch,     \* documents of bc.currentBatch
  lcReturned,  \* bc.numReturned
  lcGot,       \* documents that were handed out
  lcPc         \* "new", "idle", "done", "failed" or "closed"

lcVars == <<lcKind, lcTotal, lcLimit, lcBatchSize, lcSent, lcOpen, lcId, lcFirst, lcBatch, lcReturned,
            lcGot, lcPc>>

Abs(n) == IF n < 0 THEN -n ELSE n
Smaller(m, n) == IF m < n THEN m ELSE n

LegacyTypeOK ==
  /\ lcKind \in {"none", "find", "listCollections", "listIndexes"} /\ lcTotal \in 0 .. MaxTotal
  /\ lcLimit \in -MaxLimit .. MaxLimit /\ lcBatchSize \in 0 .. MaxBatch /\ lcSent \in 0 .. lcTotal
  /\ lcOpen \in BOOLEAN /\ lcId \in BOOLEAN /\ lcFirst \in BOOLEAN /\ lcBatch \in 0 .. MaxTotal
  /\ lcReturned \in 0 .. MaxTotal /\ lcGot \in 0 .. MaxTotal
  /\ lcPc \in {"new", "idle", "done", "failed", "closed"}

LegacyInit ==
  /\ lcKind = "none" /\ lcTotal = 0 /\ lcLimit = 0 /\ lcBatchSize = 0 /\ lcSent = 0 /\ lcOpen = FALSE
  /\ lcId = FALSE /\ lcFirst = FALSE /\ lcBatch = 0 /\ lcReturned = 0 /\ lcGot = 0 /\ lcPc = "new"

(* calculateNumberToReturn *)
calculateNumberToReturn(limit, batchSize) ==
  IF limit < 0 THEN limit
  ELSE IF limit = 0 THEN batchSize
  ELSE IF batchSize = 0 THEN limit ELSE Smaller(limit, batchSize)

(* numberToReturn of the first message: createLegacyFindWireMessage, where *)
(* a batch size of 1 would close the cursor, and the messages of           *)
(* listCollections and listIndexes.                                        *)
FindNumber(limit, batchSize) ==
  calculateNumberToReturn(limit, IF batchSize = 1 THEN 2 ELSE batchSize)
FirstNumber(kind, limit, batchSize) ==
  IF kind = "find" THEN FindNumber(limit, batchSize)
  ELSE IF kind = "listCollections" THEN 0 ELSE batchSize

(* What the server sends for a number, and whether it keeps the cursor. A  *)
(* cursor at its end may be gone, or found to be at its end only later.    *)
Reply(n) == Smaller(lcTotal - lcSent, IF n = 0 THEN DefaultBatch ELSE Abs(n))
MayKeep(query, n, sent, keep) ==
  IF query /\ (n < 0 \/ n = 1) THEN ~keep ELSE sent < lcTotal => keep

(* legacyFind, legacyListCollections, legacyListIndexes, and NewBatchCursor *)
(* on the reply, which drops the documents past the limit.                  *)
TrimFirst(limit, sent) == IF limit # 0 THEN Smaller(limit, sent) ELSE sent
Query(kind, limit, batchSize, total, keep) ==
  LET n == FirstNumber(kind, limit, batchSize)
      sent == Smaller(total, IF n = 0 THEN DefaultBatch ELSE Abs(n))
  IN  /\ lcPc = "new" /\ lcPc' = "idle"
      /\ kind # "find" => limit = 0
      /\ kind = "listCollections" => batchSize = 0
      /\ lcKind' = kind /\ lcLimit' = limit /\ lcBatchSize' = batchSize /\ lcTotal' = total
      /\ IF n < 0 \/ n = 1 THEN ~keep ELSE sent < total => keep
      /\ lcSent' = sent /\ lcOpen' = keep /\ lcId' = keep /\ lcFirst' = TRUE
      /\ lcReturned' = sent /\ lcBatch' = TrimFirst(Abs(limit), sent) /\ lcGot' = 0

(* A caller takes all documents of the batch.                              *)
Take ==
  /\ lcPc = "idle" /\ lcFirst
  /\ lcFirst' = FALSE /\ lcGot' = lcBatch /\ lcBatch' = 0
  /\ UNCHANGED <<lcKind, lcTotal, lcLimit, lcBatchSize, lcSent, lcOpen, lcId, lcReturned, lcPc>>

(* The number of getMore: what is left of the limit when the batch size    *)
(* would pass it.                                                          *)
PassesLimit == Abs(lcLimit) # 0 /\ lcReturned + lcBatchSize > Abs(lcLimit)
AsksFull == lcBatchSize
numToReturn == IF PassesLimit THEN Abs(lcLimit) - lcReturned ELSE lcBatchSize

(* Next where getMore finds that the limit was reached: Close.             *)
ForgetAtLimit ==
  /\ lcPc = "idle" /\ ~lcFirst /\ lcId /\ PassesLimit /\ numToReturn <= 0
  /\ lcId' = FALSE /\ lcPc' = "done"
  /\ UNCHANGED <<lcKind, lcTotal, lcLimit, lcBatchSize, lcSent, lcOpen, lcFirst, lcBatch, lcReturned,
                 lcGot>>
CloseAtLimit ==
  /\ lcPc = "idle" /\ ~lcFirst /\ lcId /\ PassesLimit /\ numToReturn <= 0
  /\ lcId' = FALSE /\ lcOpen' = FALSE /\ lcPc' = "done"
  /\ UNCHANGED <<lcKind, lcTotal, lcLimit, lcBatchSize, lcSent, lcFirst, lcBatch, lcReturned, lcGot>>

(* legacyGetMore, and the kill that follows when the limit is reached; the *)
(* id is kept then.                                                        *)
KillAtLimit(returned) == Abs(lcLimit) # 0 /\ returned >= Abs(lcLimit)
legacyGetMore(keep) ==
  LET sent == Reply(numToReturn)
  IN  /\ lcPc = "idle" /\ ~lcFirst /\ lcId /\ lcOpen /\ ~(PassesLimit /\ numToReturn <= 0)
      /\ MayKeep(FALSE, numToReturn, lcSent + sent, keep)
      /\ lcSent' = lcSent + sent /\ lcReturned' = lcReturned + sent /\ lcGot' = lcGot + sent
      /\ lcId' = keep /\ lcOpen' = (keep /\ ~KillAtLimit(lcReturned + sent))
      /\ UNCHANGED <<lcKind, lcTotal, lcLimit, lcBatchSize, lcFirst, lcBatch, lcPc>>

(* getMore fails: the server does not know the cursor, or the connection   *)
(* is lost.                                                                *)
LegacyGetMoreFails ==
  /\ lcPc = "idle" /\ ~lcFirst /\ lcId /\ ~(PassesLimit /\ numToReturn <= 0)
  /\ lcPc' = "failed"
  /\ UNCHANGED <<lcKind, lcTotal, lcLimit, lcBatchSize, lcSent, lcOpen, lcId, lcFirst, lcBatch,
                 lcReturned, lcGot>>

(* Next on a cursor whose id is 0.                                         *)
LegacyExhausted ==
  /\ lcPc = "idle" /\ ~lcFirst /\ ~lcId /\ lcPc' = "done"
  /\ UNCHANGED <<lcKind, lcTotal, lcLimit, lcBatchSize, lcSent, lcOpen, lcId, lcFirst, lcBatch,
                 lcReturned, lcGot>>

(* Close, and legacyKillCursors where the id is not 0.                     *)
LegacyClose ==
  /\ lcPc \in {"idle", "done", "failed"} /\ lcPc' = "closed"
  /\ lcOpen' = (lcOpen /\ ~lcId) /\ lcId' = FALSE /\ lcBatch' = 0
  /\ UNCHANGED <<lcKind, lcTotal, lcLimit, lcBatchSize, lcSent, lcFirst, lcReturned, lcGot>>

LegacyNext ==
  \/ \E kind \in {"find", "listCollections", "listIndexes"}, limit \in -MaxLimit .. MaxLimit,
        batchSize \in 0 .. MaxBatch, total \in 0 .. MaxTotal, keep \in BOOLEAN :
       Query(kind, limit, batchSize, total, keep)
  \/ Take \/ CloseAtLimit
  \/ \E keep \in BOOLEAN : legacyGetMore(keep)
  \/ LegacyGetMoreFails \/ LegacyExhausted \/ LegacyClose

LegacySpec == LegacyInit /\ [][LegacyNext]_lcVars
-----------------------------------------------------------------------------
Wanted == IF lcLimit = 0 THEN lcTotal ELSE Smaller(Abs(lcLimit), lcTotal)

(* With a batch size, a cursor hands out as many documents as the limit    *)
(* allows and not one more, whatever the sizes of the replies, and ends    *)
(* without an error only after the last of them. Left out is the batch     *)
(* size 1 of listIndexes: its message asks for 1 document, for which the   *)
(* server keeps no cursor, and createLegacyListIndexesWiremessage has not  *)
(* the conversion of createLegacyFindWireMessage.                          *)
BatchedLimit ==
  (lcBatchSize > 0 \/ lcLimit <= 0)
  /\ ~(lcKind = "listIndexes" /\ lcBatchSize = 1) =>
    /\ lcGot <= Wanted
    /\ lcPc = "done" => lcGot = Wanted

(* No cursor is left at the server when iteration ends or after Close.     *)
NoCursorLeft == lcPc \in {"done", "closed"} => ~lcOpen

(* A legacy cursor hands out what the limit allows and leaves no cursor    *)
(* (batch_cursor.go, getMore; operation_legacy.go, legacyGetMore).         *)
LegacyCursorIsExact == BatchedLimit /\ NoCursorLeft
=============================================================================
