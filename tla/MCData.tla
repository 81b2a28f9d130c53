------------------------------- MODULE MCData -------------------------------
(***************************************************************************)
(* The parts that select servers, convert and store data, for TLC, in one  *)
(* run. They share no state, so a behaviour is one of a single part, which *)
(* focus names; the others stay in their initial states.                   *)
(***************************************************************************)
EXTENDS CodecRegistry, ServerSelection, TLC

CONSTANTS
  UploadBufferSize, ChunkSizes, MaxBytes, WriteSizes, MaxGridFailures, PlainTypes, MaxValues,
  MaxDepth, MaxDocuments, MaxCells, Max8, Max16, Max32, Max64, P64, P32

VARIABLES
  focus,
  gfBucket, gfFirst, gfIndexes, gfOthers, gfHelper, gfSize, gfPc, gfLeft, gfSource,
  gfBuf, gfIndex, gfNext, gfLen, gfErrors, gfTroubled, gfAborts, gfFile, gfChunks, gdPc,
  gdFile, gdPos, gdBuf, gdStart, gdEnd, gdExpected, gdWant, gdCopied, gdGot, gdCursor,
  gdSkip, gxPc, gxLate, destination, documents, writer,
  sink, nest, named, events, stage, reader, copy, calls, got, pos, partial, damaged,
  cdStage, cdOpts, cdIn, cdBson, cdTarget, cdOut, cdBack, cdSource, cdKnown, cdDoc, cdOld,
  cdStruct, cdFailed

\* Two servers with different tags and round trip times, and an old one whose
\* time is not known yet.
MCProfiles == {[tags |-> {"dc"}, old |-> FALSE, rtt |-> 1], [tags |-> {"ssd"}, old |-> FALSE, rtt |-> 3],
               [tags |-> {}, old |-> TRUE, rtt |-> -1]}
MCTagSetLists == {<<>>, <<{"dc"}, {"ssd"}>>}
\* The secondaries are not told apart.
DataSymmetry == Permutations(Secondaries)

GF == INSTANCE GridFS
RW == INSTANCE ValueReadWrite
CD == INSTANCE Codecs

gfVars ==
  <<gfBucket, gfFirst, gfIndexes, gfOthers, gfHelper, gfSize, gfPc, gfLeft, gfSource,
    gfBuf, gfIndex, gfNext, gfLen, gfErrors, gfTroubled, gfAborts, gfFile, gfChunks,
    gdPc, gdFile, gdPos, gdBuf, gdStart, gdEnd, gdExpected, gdWant, gdCopied, gdGot,
    gdCursor, gdSkip, gxPc, gxLate>>
rwVars ==
  <<destination, documents, writer, sink, nest, named, events, stage, reader, copy,
    calls, got, pos, partial, damaged>>
cdVars ==
  <<cdStage, cdOpts, cdIn, cdBson, cdTarget, cdOut, cdBack, cdSource, cdKnown, cdDoc, cdOld,
    cdStruct, cdFailed>>
partVars == <<gfVars, ssVars, cdVars, crVars, rwVars>>
vars == <<focus, partVars>>
Parts == {"gridfs", "selection", "codecs", "registry", "values"}

DataInit ==
  /\ focus \in Parts
  /\ GF!Init
  /\ SelectionInit
  /\ CD!Init
  /\ Init
  /\ RW!Init

Others(part) ==
  /\ part # "gridfs" => UNCHANGED gfVars
  /\ part # "selection" => UNCHANGED ssVars
  /\ part # "codecs" => UNCHANGED cdVars
  /\ part # "registry" => UNCHANGED crVars
  /\ part # "values" => UNCHANGED rwVars
DataNext ==
  /\ focus' = focus
  /\ \/ focus = "gridfs" /\ GF!Next /\ Others(focus)
     \/ focus = "selection" /\ SelectionNext /\ Others(focus)
     \/ focus = "codecs" /\ CD!Next /\ Others(focus)
     \/ focus = "registry" /\ Next /\ Others(focus)
     \/ focus = "values" /\ RW!Next /\ Others(focus)
DataSpec == DataInit /\ [][DataNext]_vars
-----------------------------------------------------------------------------
(* The type invariants of the parts.                                       *)
TypesOK ==
  /\ focus = "gridfs" => GF!TypeOK
  /\ focus = "selection" => SelectionTypeOK
  /\ focus = "codecs" => CD!TypeOK
  /\ focus = "registry" => TypeOK
  /\ focus = "values" => RW!TypeOK

(* A file is stored as it was written, read to its end or not without an   *)
(* error, gone when it was deleted or aborted, and never without its       *)
(* indexes, for what GridFS says of each (upload_stream.go, uploadChunks;  *)
(* download_stream.go, fillBuffer; bucket.go, Delete and checkFirstWrite). *)
FilesAreWhole ==
  focus = "gridfs" => GF!UploadedAsWritten /\ GF!ReadsWholeFile /\ GF!NothingOfItLeft /\ GF!ChunksIndexed

(* A value comes back from BSON as it was, a number is the same or         *)
(* refused, BSON comes back from an interface as it was, and a struct      *)
(* decoded into a used variable has the document's values, but for the     *)
(* losses that Codecs lists (default_value_encoders.go,                    *)
(* default_value_decoders.go, struct_codec.go).                            *)
ValuesSurvive ==
  focus = "codecs" => CD!RoundTrip /\ CD!SameNumber /\ CD!Transparent /\ CD!DecodedStruct

(* Proper calls of a writer are never refused, a reader returns what was   *)
(* written, a copy is the same bytes, and a document with a wrong length   *)
(* is never read to its end (value_writer.go, value_reader.go, copier.go). *)
WrittenIsRead ==
  focus = "values" => RW!NeverRefused /\ RW!ReadsAsWritten /\ RW!CopiesExactly /\ RW!DamageNoticed
=============================================================================
