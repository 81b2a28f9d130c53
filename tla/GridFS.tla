------------------------------- MODULE GridFS -------------------------------
(***************************************************************************)
(* GridFS (mongo/gridfs): one file, the stream that uploads it, a stream   *)
(* that downloads it and somebody who deletes it.                          *)
(*                                                                         *)
(* The collections are external. A byte is its place in what the           *)
(* application writes; 0 is a byte of a buffer that nothing was copied to. *)
(* A command may fail before or after it did its work, and an InsertMany   *)
(* that fails may have inserted the first of its documents. The id of the  *)
(* file is one that convertFileID accepts.                                 *)
(***************************************************************************)
EXTENDS Integers, Sequences, FiniteSets, SequencesExt

CONSTANTS
  UploadBufferSize, \* bytes of the buffer of an upload
  ChunkSizes,       \* chunk sizes a bucket or an upload may have
  MaxBytes,         \* bound of the bytes the application writes
  WriteSizes,       \* lengths of the slices of Write and Read
  MaxGridFailures   \* bound of the failed commands

VARIABLES
  gfBucket,   \* b.chunkSize, 0 before NewBucket
  gfFirst,    \* b.firstWriteDone
  gfIndexes,  \* the indexes that exist
  gfOthers,   \* whether the files collection holds another file
  gfHelper,   \* whether UploadFromStream drives the stream
  gfSize,     \* us.chunkSize
  gfPc,       \* where the upload is
  gfLeft,     \* bytes of the slice of Write that are not yet copied
  gfSource,   \* bytes the application has passed to Write
  gfBuf,      \* us.buffer
  gfIndex,    \* us.bufferIndex
  gfNext,     \* us.chunkIndex
  gfLen,      \* us.fileLen
  gfErrors,   \* commands that failed
  gfTroubled, \* whether a call of the upload failed
  gfAborts,   \* whether Abort was called
  gfFile,     \* the document of the files collection
  gfChunks,   \* the documents of the chunks collection
  gdPc,       \* where the download is
  gdFile,     \* its file
  gdPos,      \* the last chunk its cursor returned
  gdBuf, gdStart, gdEnd, \* its buffer
  gdExpected, \* ds.expectedChunk
  gdWant,     \* bytes of the slice of Read or Skip that are left
  gdCopied,   \* bytes that it copied or skipped
  gdGot,      \* what the application was given
  gdCursor,   \* "ok", or "failed" when the cursor ended with an error
  gdSkip,     \* whether Skip was called
  gxPc,       \* where Delete is: "idle", "chunks", "deleted" or "failed"
  gxLate      \* whether the upload had ended when Delete was called

gfStream == <<gfHelper, gfSize, gfLeft, gfSource, gfBuf, gfIndex, gfNext, gfLen>>
gfStore == <<gfFile, gfChunks>>
gfSetup == <<gfBucket, gfFirst, gfIndexes, gfOthers>>
gdVars == <<gdPc, gdFile, gdPos, gdBuf, gdStart, gdEnd, gdExpected, gdWant, gdCopied, gdGot, gdCursor,
            gdSkip>>
gxVars == <<gxPc, gxLate>>
gfVars == <<gfSetup, gfStream, gfPc, gfErrors, gfTroubled, gfAborts, gfStore, gdVars, gxVars>>

NoFile == [length |-> -1, chunkSize |-> 0]
Bytes == 0 .. MaxBytes
Zeros(n) == [i \in 1 .. n |-> 0]
Least(m, n) == IF m < n THEN m ELSE n

TypeOK ==
  /\ gfBucket \in ChunkSizes \cup {0} /\ gfFirst \in BOOLEAN /\ gfIndexes \subseteq {"files", "chunks"}
  /\ gfPc \in {"none", "bucket", "files index", "chunks index", "open", "writing", "closing",
               "closed", "aborted", "returned", "panicked"}
  /\ gfBuf \in Seq(Bytes) /\ Len(gfBuf) \in {0, UploadBufferSize} /\ gfIndex \in Int /\ gfNext \in Nat
  /\ gfIndex <= UploadBufferSize /\ gfErrors \in 0 .. MaxGridFailures
  /\ \A c \in gfChunks : c.n \in 0 .. gfNext - 1 /\ c.data \in Seq(Bytes)
  /\ gdPc \in {"none", "find", "open", "reading", "skipping", "eof", "failed"}
  /\ gdStart \in Nat /\ gdEnd \in 0 .. Len(gdBuf) /\ gdGot \in Seq(Bytes)
  /\ gxPc \in {"idle", "chunks", "deleted", "failed"}

Init ==
  /\ gfBucket = 0 /\ gfFirst = FALSE /\ gfIndexes = {} /\ gfOthers = FALSE
  /\ gfHelper = FALSE /\ gfSize = 0 /\ gfPc = "none" /\ gfLeft = 0 /\ gfSource = 0 /\ gfBuf = <<>>
  /\ gfIndex = 0 /\ gfNext = 0 /\ gfLen = 0 /\ gfErrors = 0 /\ gfTroubled = FALSE
  /\ gfFile = NoFile /\ gfChunks = {}
  /\ gdPc = "none" /\ gdFile = NoFile /\ gdPos = -1 /\ gdBuf = <<>> /\ gdStart = 0 /\ gdEnd = 0
  /\ gdExpected = 0 /\ gdWant = 0 /\ gdCopied = 0 /\ gdGot = <<>> /\ gdCursor = "ok" /\ gdSkip = FALSE
  /\ gxPc = "idle" /\ gxLate = FALSE /\ gfAborts = FALSE

(* A command succeeds, or one more fails.                                  *)
Outcome(ok) ==
  /\ ok \/ gfErrors < MaxGridFailures
  /\ gfErrors' = IF ok THEN gfErrors ELSE gfErrors + 1
-----------------------------------------------------------------------------
NewBucket(size, others) ==
  /\ gfPc = "none" /\ gfPc' = "bucket" /\ gfBucket' = size /\ gfOthers' = others
  /\ UNCHANGED <<gfFirst, gfIndexes, gfStream, gfErrors, gfTroubled, gfAborts, gfStore, gdVars, gxVars>>

(* newUploadStream, with the chunk size of parseUploadOptions.             *)
newUploadStream(size, helper) ==
  /\ gfPc' = "open" /\ gfSize' = size /\ gfHelper' = helper
  /\ gfBuf' = Zeros(UploadBufferSize)
  /\ UNCHANGED <<gfLeft, gfSource, gfIndex, gfNext, gfLen>>

(* OpenUploadStreamWithID up to FindOne: of a bucket that has been written *)
(* to, and of one whose files collection is not empty, no index is made.   *)
OpenUploadStream(ok, size, helper) ==
  /\ gfPc = "bucket"
  /\ Outcome(ok)
  /\ gfFirst => ok
  /\ CASE ~ok -> UNCHANGED <<gfPc, gfFirst, gfStream>>
       [] ok /\ ~gfFirst /\ ~gfOthers -> gfPc' = "files index" /\ UNCHANGED <<gfFirst, gfStream>>
       [] ok /\ (gfFirst \/ gfOthers) -> gfFirst' = TRUE /\ newUploadStream(size, helper)
  /\ UNCHANGED <<gfBucket, gfIndexes, gfOthers, gfTroubled, gfAborts, gfStore, gdVars, gxVars>>

(* createNumericalIndexIfNotExists for the files and then for the chunks   *)
(* collection, and the rest of OpenUploadStreamWithID.                     *)
createFilesIndex(ok, done) ==
  /\ gfPc = "files index" /\ Outcome(ok) /\ (ok => done)
  /\ gfPc' = IF ok THEN "chunks index" ELSE "bucket"
  /\ gfIndexes' = IF done THEN gfIndexes \cup {"files"} ELSE gfIndexes
  /\ UNCHANGED <<gfBucket, gfFirst, gfOthers, gfStream, gfTroubled, gfAborts, gfStore, gdVars, gxVars>>
FirstWriteAnyway(ok) == TRUE
FirstWriteDone(ok) == ok
createChunksIndex(ok, done, size, helper) ==
  /\ gfPc = "chunks index" /\ Outcome(ok) /\ (ok => done)
  /\ gfIndexes' = IF done THEN gfIndexes \cup {"chunks"} ELSE gfIndexes
  /\ gfFirst' = FirstWriteDone(ok)
  /\ IF ok THEN newUploadStream(size, helper) ELSE gfPc' = "bucket" /\ UNCHANGED gfStream
  /\ UNCHANGED <<gfBucket, gfOthers, gfTroubled, gfAborts, gfStore, gdVars, gxVars>>
-----------------------------------------------------------------------------
(* uploadChunks: the chunks of the buffer, with a last one that is not     *)
(* full if partial; the first k of them are inserted. chunkIndex and       *)
(* fileLen advance before InsertMany, which refuses an empty list.         *)
NumChunks(partial) == (IF partial THEN gfIndex + gfSize - 1 ELSE gfIndex) \div gfSize
ChunkFromOne(i) ==
  [n |-> gfNext + i, data |-> SubSeq(gfBuf, (i - 1) * gfSize + 1, Least(i * gfSize, gfIndex))]
ChunkDoc(i) ==
  [n |-> gfNext + i - 1, data |-> SubSeq(gfBuf, (i - 1) * gfSize + 1, Least(i * gfSize, gfIndex))]

(* What is left in the buffer, which moves to its front.                   *)
DropsRest(num) == gfBuf
MovesRest(num) ==
  [j \in 1 .. UploadBufferSize |->
     IF j <= gfIndex - num * gfSize THEN gfBuf[j + num * gfSize] ELSE gfBuf[j]]

uploadChunks(partial, ok, k) ==
  LET num == NumChunks(partial)
  IN  /\ k \in 0 .. num /\ ok = (ok /\ num > 0 /\ k = num)
      /\ IF num = 0 THEN UNCHANGED gfErrors ELSE Outcome(ok)
      /\ gfChunks' = gfChunks \cup {ChunkDoc(i) : i \in 1 .. k}
      /\ gfNext' = gfNext + num
      /\ gfLen' = gfLen + (IF num > 0 THEN Least(num * gfSize, gfIndex) ELSE 0)
      /\ gfBuf' = IF ok /\ ~partial THEN MovesRest(num) ELSE gfBuf
      /\ gfIndex' = IF ok THEN UploadBufferSize - num * gfSize ELSE gfIndex
      /\ gfTroubled' = (gfTroubled \/ ~ok)
      /\ UNCHANGED <<gfHelper, gfSize, gfSource, gfFile, gfAborts>>

(* A call of the stream failed: UploadFromStreamWithID returns then.       *)
AfterError == IF gfHelper THEN "returned" ELSE "open"

(* Write starts; a bufferIndex below 0 is out of the range of the buffer.  *)
Write(n) ==
  /\ gfPc = "open" /\ gfSource + n <= MaxBytes
  /\ gfPc' = IF gfIndex < 0 THEN "panicked" ELSE "writing"
  /\ gfLeft' = n /\ gfSource' = gfSource + n
  /\ UNCHANGED <<gfSetup, gfHelper, gfSize, gfBuf, gfIndex, gfNext, gfLen, gfErrors, gfTroubled, gfAborts, gfStore,
                 gdVars, gxVars>>

(* A round of its loop copies what fits; a full buffer is uploaded next.   *)
CopyIn ==
  LET n == Least(gfLeft, UploadBufferSize - gfIndex)
  IN  /\ gfPc = "writing" /\ gfLeft > 0 /\ gfIndex < UploadBufferSize
      /\ gfBuf' = [j \in 1 .. UploadBufferSize |->
                     IF j \in gfIndex + 1 .. gfIndex + n THEN gfSource - gfLeft + j - gfIndex ELSE gfBuf[j]]
      /\ gfIndex' = gfIndex + n /\ gfLeft' = gfLeft - n
      /\ UNCHANGED <<gfSetup, gfHelper, gfSize, gfSource, gfNext, gfLen, gfPc, gfErrors, gfTroubled, gfAborts,
                     gfStore, gdVars, gxVars>>
FullBuffer(ok, k) ==
  /\ gfPc = "writing" /\ gfIndex = UploadBufferSize
  /\ uploadChunks(FALSE, ok, k)
  /\ gfPc' = IF ok THEN "writing" ELSE AfterError
  /\ gfLeft' = IF ok THEN gfLeft ELSE 0
  /\ UNCHANGED <<gfSetup, gdVars, gxVars>>
WriteReturns ==
  /\ gfPc = "writing" /\ gfLeft = 0 /\ gfIndex < UploadBufferSize /\ gfPc' = "open"
  /\ UNCHANGED <<gfSetup, gfStream, gfErrors, gfTroubled, gfAborts, gfStore, gdVars, gxVars>>

(* Close: the rest of the buffer, and the document of the file.            *)
CloseUploads(ok, k) ==
  /\ gfPc = "open" /\ gfIndex # 0 /\ uploadChunks(TRUE, ok, k)
  /\ gfPc' = IF ok THEN "closing" ELSE AfterError
  /\ UNCHANGED <<gfSetup, gfLeft, gdVars, gxVars>>
CloseEmpty ==
  /\ gfPc = "open" /\ gfIndex = 0 /\ gfPc' = "closing"
  /\ UNCHANGED <<gfSetup, gfStream, gfErrors, gfTroubled, gfAborts, gfStore, gdVars, gxVars>>
createFilesCollDoc(ok, done) ==
  /\ gfPc = "closing" /\ Outcome(ok) /\ (ok => done) /\ (done => gfFile = NoFile)
  /\ gfFile' = IF done THEN [length |-> gfLen, chunkSize |-> gfSize] ELSE gfFile
  /\ gfPc' = IF ok THEN "closed" ELSE AfterError
  /\ gfTroubled' = (gfTroubled \/ ~ok)
  /\ UNCHANGED <<gfSetup, gfStream, gfAborts, gfChunks, gdVars, gxVars>>

(* Abort, which UploadFromStreamWithID calls when its source fails.        *)
KeepsChunks(done) == {c \in gfChunks : done => c.n # 0}
LosesChunks(done) == IF done THEN {} ELSE gfChunks
Abort(ok, done) ==
  /\ gfPc = "open" /\ Outcome(ok) /\ (ok => done)
  /\ gfChunks' = LosesChunks(done) /\ gfAborts' = TRUE
  /\ gfPc' = IF ok THEN "aborted" ELSE AfterError
  /\ gfTroubled' = (gfTroubled \/ ~ok)
  /\ UNCHANGED <<gfSetup, gfStream, gfFile, gdVars, gxVars>>
-----------------------------------------------------------------------------
(* Delete: the document of the file, then the chunks whether it was there  *)
(* or not.                                                                 *)
Delete(ok, done) ==
  /\ gfPc # "none" /\ gxPc = "idle" /\ Outcome(ok) /\ (ok => done)
  /\ gxPc' = "chunks" /\ gxLate' = (gfPc \in {"closed", "aborted", "returned"})
  /\ gfFile' = IF done THEN NoFile ELSE gfFile
  /\ UNCHANGED <<gfSetup, gfStream, gfPc, gfTroubled, gfAborts, gfChunks, gdVars>>
deleteChunks(ok, done) ==
  /\ gxPc = "chunks" /\ Outcome(ok) /\ (ok => done)
  /\ gxPc' = IF ok THEN "deleted" ELSE "failed"
  /\ gfChunks' = LosesChunks(done)
  /\ UNCHANGED <<gfSetup, gfStream, gfPc, gfTroubled, gfAborts, gfFile, gdVars, gxLate>>
-----------------------------------------------------------------------------
uploadVars == <<gfSetup, gfStream, gfPc, gfTroubled, gfAborts, gfStore, gxVars>>

(* openDownloadStream: findFile, and findChunks unless the file is empty.  *)
(* There is no stream where one of them fails or finds no file.            *)
findFile ==
  /\ gfBucket # 0 /\ gdPc = "none" /\ gfFile # NoFile
  /\ gdFile' = gfFile /\ gdPc' = IF gfFile.length = 0 THEN "eof" ELSE "find"
  /\ gdBuf' = Zeros(gfBucket)
  /\ UNCHANGED <<uploadVars, gfErrors, gdPos, gdStart, gdEnd, gdExpected, gdWant, gdCopied, gdGot, gdCursor,
                 gdSkip>>
findChunks(ok) ==
  /\ gdPc = "find" /\ Outcome(ok)
  /\ gdPc' = IF ok THEN "open" ELSE "none"
  /\ UNCHANGED <<uploadVars, gdFile, gdPos, gdBuf, gdStart, gdEnd, gdExpected, gdWant, gdCopied, gdGot,
                 gdCursor, gdSkip>>

(* fillBuffer, on the next chunk by number. It compares the number and the *)
(* size of the chunk with those that a file of this length has, in chunks  *)
(* of the size of the bucket.                                              *)
NextChunk == CHOOSE c \in gfChunks : c.n > gdPos /\ \A d \in gfChunks : d.n > gdPos => c.n <= d.n
More == \E c \in gfChunks : c.n > gdPos
numChunks == (gdFile.length + gfBucket - 1) \div gfBucket
AnySize(c) == TRUE
RightSize(c) ==
  IF gdExpected + 1 = numChunks THEN Len(c.data) = gdFile.length - gfBucket * gdExpected
  ELSE Len(c.data) = gfBucket
RightIndex(c) == c.n = gdExpected

fillBuffer ==
  /\ More /\ RightIndex(NextChunk) /\ RightSize(NextChunk)
  /\ gdPos' = NextChunk.n /\ gdExpected' = gdExpected + 1
  /\ gdEnd' = Least(Len(NextChunk.data), gfBucket)
  /\ gdBuf' = [j \in 1 .. gfBucket |->
                 IF j <= Len(NextChunk.data) THEN NextChunk.data[j] ELSE gdBuf[j]]

(* Read and Skip start; a bound: Skip is called once.                      *)
Read(n) ==
  /\ gdPc = "open" /\ gdPc' = "reading" /\ gdWant' = n /\ gdCopied' = 0
  /\ UNCHANGED <<uploadVars, gfErrors, gdFile, gdPos, gdBuf, gdStart, gdEnd, gdExpected, gdGot, gdCursor, gdSkip>>
Skip(n) ==
  /\ gdPc = "open" /\ ~gdSkip /\ gdPc' = "skipping" /\ gdWant' = n /\ gdCopied' = 0 /\ gdSkip' = TRUE
  /\ UNCHANGED <<uploadVars, gfErrors, gdFile, gdPos, gdBuf, gdStart, gdEnd, gdExpected, gdGot, gdCursor>>

Needs == \/ gdPc = "reading" /\ gdWant > 0 /\ gdStart >= gdEnd
         \/ gdPc = "skipping" /\ gdCopied < gdWant /\ gdStart = 0

(* A round of Read: the buffer is copied, or filled first when all of it   *)
(* was.                                                                    *)
ReadRound ==
  LET n == Least(gdWant, gdEnd - gdStart)
  IN  /\ gdPc = "reading" /\ gdWant > 0 /\ gdStart < gdEnd
      /\ gdGot' = gdGot \o SubSeq(gdBuf, gdStart + 1, gdStart + n)
      /\ gdStart' = gdStart + n /\ gdWant' = gdWant - n /\ gdCopied' = gdCopied + n
      /\ UNCHANGED <<uploadVars, gfErrors, gdPc, gdFile, gdPos, gdBuf, gdEnd, gdExpected, gdCursor, gdSkip>>
ReadReturns ==
  /\ gdPc = "reading" /\ gdWant = 0 /\ gdPc' = "open"
  /\ UNCHANGED <<uploadVars, gfErrors, gdFile, gdPos, gdBuf, gdStart, gdEnd, gdExpected, gdWant, gdCopied,
                 gdGot, gdCursor, gdSkip>>

(* A round of Skip, as it is written: the whole buffer where less is left  *)
(* to skip, else all that is left.                                         *)
ToSkip == IF gdWant - gdCopied < gfBucket THEN gfBucket ELSE gdWant - gdCopied
SkipRound ==
  /\ gdPc = "skipping" /\ gdCopied < gdWant /\ gdStart # 0
  /\ gdCopied' = gdCopied + ToSkip /\ gdStart' = (gdStart + ToSkip) % gfBucket
  /\ UNCHANGED <<uploadVars, gfErrors, gdPc, gdFile, gdPos, gdBuf, gdEnd, gdExpected, gdWant, gdGot,
                 gdCursor, gdSkip>>
SkipFills ==
  /\ gdPc = "skipping" /\ Needs /\ fillBuffer
  /\ gdCopied' = gdCopied + ToSkip /\ gdStart' = ToSkip % gfBucket
  /\ UNCHANGED <<uploadVars, gfErrors, gdPc, gdFile, gdWant, gdGot, gdCursor, gdSkip>>
SkipReturns ==
  /\ gdPc = "skipping" /\ gdCopied >= gdWant /\ gdPc' = "open"
  /\ UNCHANGED <<uploadVars, gfErrors, gdFile, gdPos, gdBuf, gdStart, gdEnd, gdExpected, gdWant, gdCopied,
                 gdGot, gdCursor, gdSkip>>

ReadFills ==
  /\ gdPc = "reading" /\ Needs /\ fillBuffer /\ gdStart' = 0
  /\ UNCHANGED <<uploadVars, gfErrors, gdPc, gdFile, gdWant, gdCopied, gdGot, gdCursor, gdSkip>>

(* A chunk that does not fit is an error, after which nobody reads on.     *)
WrongChunk ==
  /\ Needs /\ More /\ ~(RightIndex(NextChunk) /\ RightSize(NextChunk))
  /\ gdPc' = "failed"
  /\ UNCHANGED <<uploadVars, gfErrors, gdFile, gdPos, gdBuf, gdStart, gdEnd, gdExpected, gdWant, gdCopied,
                 gdGot, gdCursor, gdSkip>>

(* cursor.Next is false, at the last chunk or because the cursor failed:   *)
(* no more chunks, either way.                                             *)
NoMoreChunks(ok) ==
  /\ Needs /\ (ok => ~More) /\ Outcome(ok)
  /\ gdPc' = "eof" /\ gdCursor' = IF ok THEN gdCursor ELSE "failed"
  /\ UNCHANGED <<uploadVars, gdFile, gdPos, gdBuf, gdStart, gdEnd, gdExpected, gdWant, gdCopied, gdGot, gdSkip>>
-----------------------------------------------------------------------------
Next ==
  \/ \E size \in ChunkSizes, others \in BOOLEAN : NewBucket(size, others)
  \/ \E ok, helper \in BOOLEAN, size \in ChunkSizes : OpenUploadStream(ok, size, helper)
  \/ \E ok, done \in BOOLEAN : createFilesIndex(ok, done)
  \/ \E ok, done, helper \in BOOLEAN, size \in ChunkSizes : createChunksIndex(ok, done, size, helper)
  \/ \E n \in WriteSizes : Write(n)
  \/ CopyIn \/ WriteReturns \/ CloseEmpty
  \/ \E ok \in BOOLEAN, k \in 0 .. UploadBufferSize : FullBuffer(ok, k) \/ CloseUploads(ok, k)
  \/ \E ok, done \in BOOLEAN :
       \/ createFilesCollDoc(ok, done) \/ Abort(ok, done)
       \/ Delete(ok, done) \/ deleteChunks(ok, done)
  \/ findFile
  \/ \E ok \in BOOLEAN : findChunks(ok) \/ NoMoreChunks(ok)
  \/ \E n \in WriteSizes : Read(n) \/ Skip(n)
  \/ ReadRound \/ ReadFills \/ ReadReturns \/ SkipRound \/ SkipFills \/ SkipReturns \/ WrongChunk

Spec == Init /\ [][Next]_gfVars
-----------------------------------------------------------------------------
Source == [i \in 1 .. gfSource |-> i]
Stored == FlattenSeq([i \in 1 .. Cardinality(gfChunks) |->
                        (CHOOSE c \in gfChunks : Cardinality({d \in gfChunks : d.n < c.n}) = i - 1).data])

(* A file whose upload saw no error, and that nobody deletes, is what was  *)
(* written: all of it, in order, in chunks of which only the last is       *)
(* short, whatever the sizes of the writes, the buffer and the chunks.     *)
UploadedAsWritten ==
  gfPc = "closed" /\ ~gfTroubled /\ gxPc = "idle" =>
    /\ Stored = Source /\ gfFile.length = gfSource
    /\ \A c \in gfChunks : Len(c.data) = gfSize \/ c.n = gfNext - 1

(* A reader that comes to the end of a file without an error, of a file    *)
(* that nobody deletes, has read as many bytes as the file has, also when  *)
(* calls of the upload failed and were made again; of an upload without    *)
(* errors, it has what was written. Left out: a cursor that failed, which  *)
(* Read takes for the end; Skip; and a stream that was used after a Close  *)
(* that failed but had stored the document: Abort deletes its chunks, and  *)
(* another Close adds chunks, which a reader does not notice.              *)
ReadsWholeFile ==
  gdPc = "eof" /\ gdCursor = "ok" /\ ~gdSkip /\ ~gfAborts /\ gfLen = gfFile.length
  /\ gxPc = "idle" =>
    Len(gdGot) = gdFile.length /\ (~gfTroubled => gdGot = Source)

(* Nothing of the file is left after an Abort that succeeds, nor after a   *)
(* Delete of an upload that had ended, with an error or without.           *)
NothingOfItLeft ==
  /\ gfPc = "aborted" => gfChunks = {}
  /\ gxPc = "deleted" /\ gxLate => gfChunks = {}

(* The chunks of a bucket that was empty are stored under the unique       *)
(* index, also when the first call that should make it failed.             *)
ChunksIndexed == gfChunks # {} /\ ~gfOthers => "chunks" \in gfIndexes
=============================================================================
