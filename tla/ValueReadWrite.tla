--------------------------- MODULE ValueReadWrite ---------------------------
(***************************************************************************)
(* The writer and the reader of BSON (bson/bsonrw/value_writer.go and      *)
(* value_reader.go), and the Copier that reads with the one and writes     *)
(* with the other (copier.go). Both are stack machines: every call is      *)
(* allowed in some modes only, pushes or pops frames, and the length of a  *)
(* document is filled in when its end is written.                          *)
(*                                                                         *)
(* The bytes are cells: a length, a type, a name with its terminator, or   *)
(* one piece of data each take one cell, so what is 4 in the code because  *)
(* a length has four bytes is 1 here. An application writes any document   *)
(* of a bounded size by calls in a proper order, and the result is copied. *)
(* The variable events keeps what the application wrote, as it sees it;    *)
(* pos is the event that the reader must find next.                        *)
(***************************************************************************)
EXTENDS Integers, Sequences, FiniteSets

CONSTANTS
  PlainTypes,   \* the types of values without parts that are written
  MaxValues,    \* values in the first document, one less in each later one
  MaxDepth,     \* documents and arrays within each other, the outermost too
  MaxDocuments, \* documents written one after the other
  MaxCells      \* maxSize, which is MaxInt32 in the code

VARIABLES
  destination, \* "slice", a SliceWriter, or "stream", any other io.Writer
  documents,   \* how many documents were begun
  writer,      \* the valueWriter of the application
  sink,        \* what its last Flush handed on
  nest,        \* the open documents and arrays, as the application knows
  named,       \* whether the application was handed a ValueWriter
  events,      \* what the application wrote
  stage,       \* "write", "copy", "done" or "failed"
  reader,      \* the valueReader of the copy
  copy,        \* the valueWriter of the copy
  calls,       \* the documents and arrays that the Copier is in
  got,         \* what was read last
  pos,         \* and which event that is
  partial,     \* whether a value was skipped
  damaged      \* whether a length was changed on the way

rwVars == <<destination, documents, writer, sink, nest, named, events, stage,
            reader, copy, calls, got, pos, partial, damaged>>
-----------------------------------------------------------------------------
\* The cells.
Length(n) == <<"length", n>>  \* of a document, an array or a code with scope
Size(n) == <<"size", n>>      \* of a string or a binary
Type(t) == <<"type", t>>
Name(k) == <<"name", k>>
Data == <<"data", 1>>
Subtype(s) == <<"subtype", s>>
Nul == <<"nul", 0>>

\* bsoncore's Append functions, for one value of every shape.
AppendString == <<Size(2), Data, Nul>>
AppendBinary(subtype, b) ==
  IF subtype = 2
    THEN <<Size(Len(b) + 1), Subtype(2), Size(Len(b))>> \o b
    ELSE <<Size(Len(b)), Subtype(subtype)>> \o b
AppendRegex == <<Name(1), Name(1)>>
AppendDBPointer == AppendString \o <<Data>>
Payload(t) ==
  CASE t = "int"     -> <<Data>>
    [] t = "null"    -> <<>>
    [] t = "string"  -> AppendString
    [] t = "binary"  -> AppendBinary(0, <<Data>>)
    [] t = "old"     -> AppendBinary(2, <<Data>>)
    [] t = "regex"   -> AppendRegex
    [] t = "pointer" -> AppendDBPointer

\* The element type that is written for a kind of value.
BsonType(t) == IF t = "old" THEN "binary" ELSE t
Containers == {"document", "array", "scope"}
-----------------------------------------------------------------------------
\* The writer.
vwState(m) == [mode |-> m, key |-> 0, arrkey |-> 0, start |-> 0]
newValueWriter == [buf |-> <<>>, stack |-> <<vwState("TopLevel")>>, frame |-> 1, err |-> "none"]
\* Pool.Get with a SliceWriter that holds nothing yet.
resetWriter(w) == [w EXCEPT !.buf = <<>>, !.stack[1] = vwState("TopLevel"), !.frame = 1]

Top(m) == m.stack[m.frame]
Fails(m, e) == [m EXCEPT !.err = e]

reserveLength(w) ==
  [w EXCEPT !.stack[w.frame].start = Len(w.buf), !.buf = Append(@, Length(0))]

advanceFrame(w) ==
  [w EXCEPT !.frame = @ + 1,
            !.stack = IF w.frame < Len(@) THEN @ ELSE Append(@, vwState("TopLevel"))]

CleanFrameButCount(w, m) ==
  [w EXCEPT !.stack[w.frame] = [vwState(m) EXCEPT !.arrkey = Top(w).arrkey]]
CleanFrame(w, m) == [w EXCEPT !.stack[w.frame] = vwState(m)]

push(w, m) ==
  LET p == CleanFrame(advanceFrame(w), m)
  IN  IF m \in {"Document", "Array", "CodeWithScope"} THEN reserveLength(p) ELSE p

pop(m) ==
  [m EXCEPT !.frame = CASE Top(m).mode \in {"Element", "Value"} -> @ - 1
                        [] Top(m).mode \in {"Document", "Array", "CodeWithScope"} -> @ - 2
                        [] OTHER -> @]

writeElementHeader(w, t) ==
  CASE Top(w).mode = "Element" -> [w EXCEPT !.buf = @ \o <<Type(t), Name(Top(w).key)>>]
    [] Top(w).mode = "Value"   -> [w EXCEPT !.buf = @ \o <<Type(t), Name(Top(w).arrkey)>>]
    [] OTHER -> Fails(w, "mode")

writeLength(w) ==
  LET start == Top(w).start
  IN  IF Len(w.buf) > MaxCells
        THEN Fails(w, "size")
        ELSE [w EXCEPT !.buf[start + 1] = Length(Len(w.buf) - start)]

\* WriteInt32 and the other calls that write a value in one piece, and
\* WriteValueBytes.
WriteValueBytes(w, t, b) ==
  LET h == writeElementHeader(w, t)
  IN  IF h.err = "none" THEN pop([h EXCEPT !.buf = @ \o b]) ELSE h

WriteArray(w) ==
  LET h == writeElementHeader(w, "array")
  IN  IF h.err = "none" THEN push(h, "Array") ELSE h

WriteCodeWithScope(w) ==
  LET h == writeElementHeader(w, "scope")
      c == push(h, "CodeWithScope")
  IN  IF h.err = "none"
        THEN push(push([c EXCEPT !.buf = @ \o AppendString], "Spacer"), "Document")
        ELSE h

WriteDocument(w) ==
  LET h == writeElementHeader(w, "document")
  IN  CASE Top(w).mode = "TopLevel" -> reserveLength(w)
        [] OTHER -> IF h.err = "none" THEN push(h, "Document") ELSE h

WriteDocumentElement(w, key) ==
  LET e == push(w, "Element")
  IN  IF Top(w).mode \in {"TopLevel", "Document"}
        THEN [e EXCEPT !.stack[e.frame].key = key]
        ELSE Fails(w, "mode")

EndScopeLater(w) == IF Top(w).mode = "CodeWithScope" THEN writeLength(w) ELSE w
EndScope(w) == IF Top(w).mode = "CodeWithScope" THEN pop(writeLength(w)) ELSE w

WriteDocumentEnd(w) ==
  LET l == writeLength([w EXCEPT !.buf = Append(@, Nul)])
  IN  CASE Top(w).mode \notin {"TopLevel", "Document"} -> Fails(w, "mode")
        [] l.err # "none" -> l
        [] OTHER -> EndScope(pop(l))

\* Flush, which WriteDocumentEnd calls at the top level: an io.Writer other
\* than a SliceWriter leaves the buffer empty for the next document.
Flush(w) == IF destination = "stream" THEN [w EXCEPT !.buf = <<>>] ELSE w

WriteArrayElement(w) ==
  LET arrkey == Top(w).arrkey
      v == push([w EXCEPT !.stack[w.frame].arrkey = @ + 1], "Value")
  IN  IF Top(w).mode = "Array"
        THEN [v EXCEPT !.stack[v.frame].arrkey = arrkey]
        ELSE Fails(w, "mode")

WriteArrayEnd(w) ==
  LET l == writeLength([w EXCEPT !.buf = Append(@, Nul)])
  IN  CASE Top(w).mode # "Array" -> Fails(w, "mode")
        [] l.err # "none" -> l
        [] OTHER -> pop(l)
-----------------------------------------------------------------------------
\* The reader. A call that fails leaves its error in err; what a call returns
\* is in val.
vrState(m, t, end) == [mode |-> m, vType |-> t, end |-> end]
resetReader(b) ==
  [d |-> b, offset |-> 0, stack |-> <<vrState("TopLevel", "", 0)>>, frame |-> 1,
   err |-> "none", val |-> <<>>]

\* readBytes, readByte, readCString and the others: n cells, if they are there.
readBytes(r, n) ==
  IF n < 0 \/ r.offset + n > Len(r.d)
    THEN Fails(r, "eof")
    ELSE [r EXCEPT !.offset = @ + n, !.val = SubSeq(r.d, r.offset + 1, r.offset + n)]
\* readLength and peekLength.
lengthAt(r) == IF r.offset < Len(r.d) THEN r.d[r.offset + 1][2] ELSE 0

pushFrame(r, f) ==
  [r EXCEPT !.frame = @ + 1,
            !.stack = IF r.frame < Len(@) THEN [@ EXCEPT ![r.frame + 1] = f] ELSE Append(@, f)]

\* pushDocument, pushArray and pushCodeWithScope.
pushContainer(r, m) ==
  LET l == readBytes(r, 1)
  IN  IF l.err = "none" THEN pushFrame(l, vrState(m, "", lengthAt(r) + l.offset - 1)) ELSE l

\* ensureElementValue.
IsOn(r, t) == Top(r).mode \in {"Element", "Value"} /\ Top(r).vType = t

ReadDocument(r) ==
  LET l == readBytes(r, 1)
  IN  CASE Top(r).mode = "TopLevel" ->
             (IF l.err = "none" /\ lengthAt(r) = Len(r.d)
                THEN [l EXCEPT !.stack[l.frame].end = lengthAt(r) + l.offset - 1]
                ELSE Fails(l, "length"))
        [] IsOn(r, "document") -> pushContainer(r, "Document")
        [] OTHER -> Fails(r, "mode")

ReadArray(r) == IF IsOn(r, "array") THEN pushContainer(r, "Array") ELSE Fails(r, "mode")

\* The code is behind the length of everything and its own.
ReadCodeWithScope(r) ==
  LET total == lengthAt(r)
      l == readBytes(r, 1)
      strLength == lengthAt(l)
      code == readBytes(readBytes(l, 1), strLength)
      p == pushContainer(code, "CodeWithScope")
  IN  CASE ~IsOn(r, "scope") -> Fails(r, "mode")
        [] l.err # "none" \/ strLength <= 0 \/ code.err # "none" -> Fails(r, "length")
        [] p.err # "none" -> p
        [] total # 1 + strLength + 1 + lengthAt(code) -> Fails(p, "length")
        [] OTHER -> p

\* A type of zero ends the document, where its length said.
EndUnchecked(r) == TRUE
EndFits(r) == r.offset = Top(r).end

\* ReadElement and ReadValue read the type and the name of what comes next,
\* or find the end where the length said that it is.
ReadEntry(r, modes, next) ==
  LET t == readBytes(r, 1)
      n == readBytes(t, 1)
  IN  CASE Top(r).mode \notin modes -> Fails(r, "mode")
        [] t.err # "none" -> t
        [] t.val = <<Nul>> /\ ~EndFits(t) -> Fails(t, "length")
        [] t.val = <<Nul>> -> pop(t)
        [] n.err # "none" -> n
        [] OTHER -> pushFrame(n, vrState(next, t.val[1][2], 0))
ReadElement(r) == ReadEntry(r, {"TopLevel", "Document", "CodeWithScope"}, "Element")
ReadValue(r) == ReadEntry(r, {"Array"}, "Value")

nextElementLength(r) ==
  CASE Top(r).vType \in {"document", "array", "scope"} -> lengthAt(r)
    [] Top(r).vType = "binary"  -> lengthAt(r) + 1 + 1
    [] Top(r).vType = "pointer" -> lengthAt(r) + 1 + 1
    [] Top(r).vType = "string"  -> lengthAt(r) + 1
    [] Top(r).vType = "regex"   -> 2
    [] Top(r).vType = "null"    -> 0
    [] OTHER -> 1

\* ReadValueBytes; Skip does the same and forgets the bytes.
ReadValueBytes(r) ==
  IF Top(r).mode \in {"Element", "Value"}
    THEN pop(readBytes(r, nextElementLength(r)))
    ELSE Fails(r, "mode")

readString(r) ==
  LET n == lengthAt(r)
      s == readBytes(readBytes(r, 1), n)
  IN  IF n <= 0 \/ s.err # "none" \/ s.val[n] # Nul THEN Fails(r, "length") ELSE s

\* The data after the subtype; an old binary has a second length.
ReadBinary(r) ==
  LET length == lengthAt(r)
      s == readBytes(readBytes(r, 1), 1)
  IN  IF s.val = <<Subtype(2)>> /\ length > 1
        THEN readBytes(readBytes(s, 1), lengthAt(s))
        ELSE readBytes(s, length)

\* ReadInt32 and the other calls that read a value in one piece; val becomes
\* the kind of the value.
ReadPlain(r) ==
  LET t == Top(r).vType
      b == CASE t = "string"  -> readString(r)
             [] t = "pointer" -> readBytes(readString(r), 1)
             [] t = "binary"  -> ReadBinary(r)
             [] OTHER -> readBytes(r, nextElementLength(r))
      old == t = "binary" /\ r.d[r.offset + 2] = Subtype(2)
  IN  CASE Top(r).mode \notin {"Element", "Value"} -> Fails(r, "mode")
        [] b.err # "none" -> b
        [] t = "binary" /\ b.val # <<Data>> -> Fails(b, "data")
        [] OTHER -> [pop(b) EXCEPT !.val = IF old THEN "old" ELSE t]
-----------------------------------------------------------------------------
Event(what, of) == <<what, of>>
Last(s) == s[Len(s)]
Front(s) == SubSeq(s, 1, Len(s) - 1)
Written == Cardinality({i \in 1..Len(events) : events[i][1] \in {"plain", "open"}})

Init ==
  /\ destination = "slice"
  /\ documents = 0
  /\ writer = newValueWriter
  /\ sink = <<>>
  /\ nest = <<>>
  /\ named = FALSE
  /\ events = <<>>
  /\ stage = "write"
  /\ reader = resetReader(<<>>)
  /\ copy = newValueWriter
  /\ calls = <<>>
  /\ got = <<>>
  /\ pos = 0
  /\ partial = FALSE
  /\ damaged = FALSE

copyVars == <<reader, copy, calls, got, pos, partial, damaged>>
writeVars == <<destination, documents, writer, sink, nest, named, events>>

Writing == stage = "write" /\ writer.err = "none"

\* The application writes with w from now on; an error ends its work.
Calls(w) == writer' = w /\ UNCHANGED copyVars
Log(e) == events' = Append(events, e)

StartDocument ==
  /\ Writing /\ nest = <<>> /\ documents < MaxDocuments
  /\ destination' \in IF documents = 0 THEN {"slice", "stream"} ELSE {destination}
  /\ Calls(WriteDocument(IF destination = "slice" THEN resetWriter(writer) ELSE writer))
  /\ documents' = documents + 1
  /\ nest' = <<[kind |-> "document", n |-> 0]>>
  /\ events' = <<>>
  /\ UNCHANGED <<sink, named, stage>>

\* The next element of a document, or the next value of an array.
NextElement ==
  /\ Writing /\ nest # <<>> /\ ~named /\ Written + documents <= MaxValues
  /\ \/ /\ Last(nest).kind = "array"
        /\ Calls(WriteArrayElement(writer))
        /\ Log(Event("name", Last(nest).n))
     \/ /\ Last(nest).kind # "array"
        /\ Calls(WriteDocumentElement(writer, 7))
        /\ Log(Event("name", 7))
  /\ named' = TRUE
  /\ nest' = [nest EXCEPT ![Len(nest)].n = @ + 1]
  /\ UNCHANGED <<destination, documents, sink, stage>>

WritePlain(t) ==
  /\ Writing /\ named
  /\ Calls(WriteValueBytes(writer, BsonType(t), Payload(t)))
  /\ Log(Event("plain", t))
  /\ named' = FALSE
  /\ UNCHANGED <<destination, documents, sink, nest, stage>>

WriteContainer(kind) ==
  /\ Writing /\ named /\ Len(nest) < MaxDepth
  /\ Calls(CASE kind = "document" -> WriteDocument(writer)
             [] kind = "array" -> WriteArray(writer)
             [] kind = "scope" -> WriteCodeWithScope(writer))
  /\ Log(Event("open", kind))
  /\ nest' = Append(nest, [kind |-> kind, n |-> 0])
  /\ named' = FALSE
  /\ UNCHANGED <<destination, documents, sink, stage>>

WriteEnd ==
  LET w == IF Last(nest).kind = "array" THEN WriteArrayEnd(writer) ELSE WriteDocumentEnd(writer)
      atTop == Len(nest) = 1 /\ w.err = "none"
  IN  /\ Writing /\ nest # <<>> /\ ~named
      /\ Calls(IF atTop THEN Flush(w) ELSE w)
      /\ sink' = IF atTop THEN w.buf ELSE sink
      /\ Log(Event("end", Last(nest).kind))
      /\ nest' = Front(nest)
      /\ UNCHANGED <<destination, documents, named, stage>>
-----------------------------------------------------------------------------
\* Other bytes may arrive than were sent: one length of a document, an array
\* or a code with scope is off by one.
Received ==
  {sink} \cup {[sink EXCEPT ![i][2] = @ + by] :
                 i \in {j \in 1..Len(sink) : sink[j][1] = "length"}, by \in {-1, 1}}

\* CopyDocument at the top level; the application needs its writer no more.
CopyDocument ==
  \E b \in Received :
    LET r == ReadDocument(resetReader(b))
    IN  /\ Writing /\ nest = <<>> /\ documents > 0
        /\ reader' = r
        /\ copy' = WriteDocument(newValueWriter)
        /\ calls' = <<"document">>
        /\ damaged' = (b # sink)
        /\ stage' = IF r.err = "none" THEN "copy" ELSE "failed"
        /\ writer' = newValueWriter
        /\ UNCHANGED <<destination, documents, sink, nest, named, events, got, pos, partial>>

\* What the Copier read and wrote; the first error ends everything.
Copied(r, w, e, at, stack) ==
  /\ reader' = r
  /\ copy' = w
  /\ got' = e
  /\ pos' = at
  /\ calls' = stack
  /\ stage' = CASE r.err # "none" \/ w.err # "none" -> "failed"
                [] stack = <<>> -> "done"
                [] OTHER -> "copy"
  /\ UNCHANGED <<writeVars, damaged>>

InArray == Last(calls) = "array"
OnValue == Top(reader).mode \in {"Element", "Value"}
TypeRead == Top(reader).vType

\* The loops of copyDocumentCore and copyArray: the next element ...
CopyEntry ==
  LET r == IF InArray THEN ReadValue(reader) ELSE ReadElement(reader)
      atEnd == r.err = "none" /\ r.val = <<Nul>>
      w == CASE r.err # "none" -> copy
             [] atEnd /\ InArray -> WriteArrayEnd(copy)
             [] atEnd -> WriteDocumentEnd(copy)
             [] InArray -> WriteArrayElement(copy)
             [] OTHER -> WriteDocumentElement(copy, r.val[1][2])
  IN  /\ stage = "copy" /\ ~OnValue
      /\ Copied(r, w,
                CASE r.err # "none" -> got
                  [] atEnd -> Event("end", Last(calls))
                  [] OTHER -> Event("name", r.val[1][2]),
                IF r.err = "none" THEN pos + 1 ELSE pos,
                IF atEnd THEN Front(calls) ELSE calls)
      /\ UNCHANGED partial

\* What CopyValue writes for a value that was read in one piece.
WriteAgainPlain(w, t) == WriteValueBytes(w, BsonType(t), Payload(BsonType(t)))
WriteAgain(w, t) == WriteValueBytes(w, BsonType(t), Payload(t))

\* ... and CopyValue, for a value in one piece ...
CopyPlain ==
  LET r == ReadPlain(reader)
      w == WriteAgain(copy, r.val)
  IN  /\ stage = "copy" /\ OnValue /\ TypeRead \notin Containers
      /\ IF r.err = "none"
           THEN Copied(r, w, Event("plain", r.val), pos + 1, calls)
           ELSE Copied(r, copy, got, pos, calls)
      /\ UNCHANGED partial

\* ... and for one with parts.
CopyContainer ==
  LET r == CASE TypeRead = "array" -> ReadArray(reader)
             [] TypeRead = "scope" -> ReadCodeWithScope(reader)
             [] OTHER -> ReadDocument(reader)
      w == CASE TypeRead = "array" -> WriteArray(copy)
             [] TypeRead = "scope" -> WriteCodeWithScope(copy)
             [] OTHER -> WriteDocument(copy)
  IN  /\ stage = "copy" /\ OnValue /\ TypeRead \in Containers
      /\ Copied(r, IF r.err = "none" THEN w ELSE copy, Event("open", TypeRead), pos + 1,
                Append(calls, TypeRead))
      /\ UNCHANGED partial

\* The event at which the value that begins after pos ends.
Balance(i) ==
  Cardinality({j \in (pos + 1)..i : events[j][1] = "open"})
    - Cardinality({j \in (pos + 1)..i : events[j][1] = "end"})
ValueEnd ==
  CHOOSE i \in (pos + 1)..Len(events) :
    Balance(i) = 0 /\ \A j \in (pos + 1)..(i - 1) : Balance(j) # 0

\* AppendValueBytes and CopyValueFromBytes carry a value over as it is.
CopyBytes ==
  LET r == ReadValueBytes(reader)
      w == WriteValueBytes(copy, TypeRead, r.val)
  IN  /\ stage = "copy" /\ OnValue /\ ~damaged
      /\ Copied(r, IF r.err = "none" THEN w ELSE copy, events[ValueEnd], ValueEnd, calls)
      /\ UNCHANGED partial

\* A decoder that has no use for a field calls Skip; here the copy gets a null.
SkipValue ==
  LET r == ReadValueBytes(reader)
  IN  /\ stage = "copy" /\ OnValue /\ ~damaged
      /\ Copied(r, WriteValueBytes(copy, "null", <<>>), events[ValueEnd], ValueEnd, calls)
      /\ partial' = TRUE

Next ==
  \/ StartDocument
  \/ NextElement
  \/ \E t \in PlainTypes : WritePlain(t)
  \/ \E kind \in Containers : WriteContainer(kind)
  \/ WriteEnd
  \/ CopyDocument
  \/ CopyEntry
  \/ CopyPlain
  \/ CopyContainer
  \/ CopyBytes
  \/ SkipValue

Spec == Init /\ [][Next]_rwVars
-----------------------------------------------------------------------------
(* The type invariant: frames are on the stack, and a length is within the *)
(* buffer.                                                                 *)
Machine(m) == m.frame \in 1..Len(m.stack) /\ m.err \in {"none", "mode", "size", "eof", "length", "data"}
TypeOK ==
  /\ destination \in {"slice", "stream"}
  /\ documents \in 0..MaxDocuments
  /\ Machine(writer) /\ Machine(copy) /\ Machine(reader)
  /\ \A i \in 1..writer.frame : writer.stack[i].start <= Len(writer.buf)
  /\ reader.offset \in 0..Len(reader.d)
  /\ Len(nest) \in 0..MaxDepth
  /\ named \in BOOLEAN
  /\ stage \in {"write", "copy", "done", "failed"}
  /\ pos \in 0..Len(events)
  /\ partial \in BOOLEAN /\ damaged \in BOOLEAN

(* Calls in a proper order are never refused, however deep documents,      *)
(* arrays and codes with scope are in each other and whatever the writer   *)
(* was used for before, and a reader finds no fault with what a writer     *)
(* wrote (push and pop of both, WriteDocumentEnd, ReadElement).            *)
NeverRefused ==
  /\ writer.err \in {"none", "size"}
  /\ stage = "failed" => damaged

(* The reader returns exactly what the application wrote, the elements of  *)
(* an array numbered from 0, whichever values are skipped or read as bytes *)
(* (value_writer.go, WriteArrayElement; value_reader.go,                   *)
(* nextElementLength).                                                     *)
ReadsAsWritten == pos > 0 => got = events[pos]

(* A copy is the same bytes as its original (copier.go, CopyDocument).     *)
CopiesExactly == stage = "done" /\ ~partial => copy.buf = sink

(* A document in which a length is wrong is never read to its end          *)
(* (value_reader.go, ReadElement, ReadValue and ReadCodeWithScope).        *)
DamageNoticed == stage = "done" => ~damaged
=============================================================================
