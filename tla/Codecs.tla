------------------------------- MODULE Codecs -------------------------------
(***************************************************************************)
(* The default codecs (bson/bsoncodec): what each Go type is encoded to,   *)
(* and what each BSON type is decoded to for each Go type, with the range  *)
(* checks of the numbers, and the codec of structs, whose variables are    *)
(* often decoded into again and again.                                     *)
(*                                                                         *)
(* Numbers keep their boundaries at a small scale: Max8 .. Max64 are the   *)
(* largest signed integers, a float64 has P64 and a float32 has P32 bits   *)
(* of precision, and floats are counted in halves. A text or a string of   *)
(* bytes is one of a few that the codecs tell apart. The elements of an    *)
(* array or of a document carry a byte for their type, as in BSON, and     *)
(* one level of them is enough, because the codecs see only one.           *)
(***************************************************************************)
EXTENDS Integers, Sequences, SequencesExt, TLC

CONSTANTS
  Max8,  \* 2^7 - 1
  Max16, \* 2^15 - 1
  Max32, \* 2^31 - 1
  Max64, \* 2^63 - 1
  P64,   \* bits of precision of a float64, more than 32 and less than 63
  P32    \* of a float32

VARIABLES
  cdStage,  \* "idle", "bson", "go" or "again"; "doc" and "struct" for structs
  cdOpts,   \* the options of the codecs and of the two contexts
  cdIn,     \* the Go value that was encoded, or NoValue
  cdBson,   \* the BSON value
  cdTarget, \* the Go type it is decoded into
  cdOut,    \* the Go value it was decoded to
  cdBack,   \* the BSON value that this was encoded to
  cdSource, \* the struct that was encoded
  cdKnown,  \* whether cdDoc is from cdSource
  cdDoc,    \* the elements of a document
  cdOld,    \* the struct variable before the last decoding
  cdStruct, \* the struct variable
  cdFailed  \* whether the last encoding or decoding of a struct failed

cdVars == <<cdStage, cdOpts, cdIn, cdBson, cdTarget, cdOut, cdBack, cdSource, cdKnown, cdDoc, cdOld,
            cdStruct, cdFailed>>

Bson(b, v) == [b |-> b, v |-> v]
Go(t, v) == [t |-> t, v |-> v]
Failed == Go("error", <<>>)
NoValue == Go("none", <<>>)
NoBson == Bson("none", <<>>)
NaN == <<>>
Nil == <<>>
NilSlice == <<0>>

SignedTypes == {"int8", "int16", "int32", "int64", "int"}
UnsignedTypes == {"uint8", "uint16", "uint32", "uint64", "uint"}
FloatTypes == {"float32", "float64"}
BsonTypes == <<"Double", "String", "Document", "Array", "Binary", "Undefined", "ObjectID", "Boolean",
               "DateTime", "Null", "Regex", "DBPointer", "JavaScript", "Symbol", "CodeWithScope", "Int32",
               "Timestamp", "Int64", "Decimal128", "MinKey", "MaxKey">>
GoTypes == <<"float64", "string", "D", "A", "Binary", "Undefined", "ObjectID", "bool", "DateTime", "nil",
             "Regex", "DBPointer", "JavaScript", "Symbol", "CodeWithScope", "int32", "Timestamp", "int64",
             "Decimal128", "MinKey", "MaxKey", "[]byte", "int8", "int16", "int", "uint8", "uint16",
             "uint32", "uint64", "uint", "float32", "json.Number", "url.URL", "time.Time", "Null",
             "interface{}">>
Code(s, x) == CHOOSE i \in DOMAIN s : s[i] = x

(* Integer types: the largest value, and the range. An int is as wide as   *)
(* the machine's word.                                                     *)
MaxOf(t, o) ==
  CASE t \in {"int8", "uint8"} -> Max8 [] t \in {"int16", "uint16"} -> Max16
    [] t \in {"int32", "uint32"} -> Max32 [] t \in {"int64", "uint64"} -> Max64
    [] OTHER -> o.word
RangeOf(t, o) ==
  IF t \in SignedTypes THEN -MaxOf(t, o) - 1 .. MaxOf(t, o) ELSE 0 .. 2 * MaxOf(t, o) + 1

(* The float of p bits nearest to x halves, ties to even.                  *)
Round(x, p) ==
  LET u == CHOOSE w \in {1, 2, 4, 8, 16} :
             /\ x <= w * 2^p /\ -x <= w * 2^p
             /\ \A y \in {1, 2, 4, 8, 16} : y < w => x > y * 2^p \/ -x > y * 2^p
      q == x \div u
      r == x % u
  IN  IF 2 * r < u \/ (2 * r = u /\ q % 2 = 0) THEN q * u ELSE (q + 1) * u

(* The texts: empty, one of twelve bytes, a date, the hex forms of the two *)
(* object ids, and the bytes of the zero object id.                        *)
EmptyText == 0
TwelveBytes == 1
DateText == 2
HexOf(oid) == 3 + oid
ZeroBytes == 5
BytesOf(oid) == IF oid = 0 THEN ZeroBytes ELSE TwelveBytes
Texts == 0 .. 5
LengthBytes == 6 \* the four bytes of a length of zero

(* The two kinds of binary that are plain bytes, and another one.          *)
Generic == 0
BinaryOld == 2
UUID == 4

(* Times are in half milliseconds; the zero time is before the epoch.      *)
ZeroTime == -8
MillisPerSecond == 2
DateOfText == 4
-----------------------------------------------------------------------------
(* Encoding: the value a Go value is written as, or NoBson for an error.   *)

fitsIn32Bits(i) == -Max32 - 1 <= i /\ i <= Max32

IntEncodeValue(g, o) ==
  IF \/ g.t \in {"int8", "int16", "int32"}
     \/ fitsIn32Bits(g.v[1]) /\ (g.t = "int" \/ o.minSize)
  THEN Bson("Int32", g.v) ELSE Bson("Int64", g.v)

EncodesWrapped(g, o) ==
  IF g.v[1] <= Max32 /\ (o.minSize \/ (o.uintMinSize /\ g.t # "uint64")) THEN Bson("Int32", g.v)
  ELSE Bson("Int64", IF g.v[1] > Max64 THEN <<g.v[1] - 2 * Max64 - 2>> ELSE g.v)
UIntEncodeValue(g, o) ==
  CASE g.t \in {"uint8", "uint16"} -> Bson("Int32", g.v)
    [] /\ g.t \notin {"uint8", "uint16"} /\ g.v[1] <= Max32
       /\ o.minSize \/ (o.uintMinSize /\ g.t # "uint64") -> Bson("Int32", g.v)
    [] g.v[1] > Max64 -> NoBson
    [] OTHER -> Bson("Int64", g.v)

(* An integer if the text is one that fits, else a float; the empty number *)
(* is neither.                                                             *)
JSONNumberEncodeValue(g, o) ==
  CASE g.v = Nil -> NoBson
    [] g.v # Nil /\ g.v[1] % 2 = 0 /\ g.v[1] \div 2 \in -Max64 - 1 .. Max64 ->
         IntEncodeValue(Go("int64", <<g.v[1] \div 2>>), o)
    [] OTHER -> Bson("Double", <<Round(g.v[1], P64)>>)

(* NewDateTimeFromTime drops what is less than a millisecond.              *)
TimeEncodeValue(g) == Bson("DateTime", <<g.v[1] \div 2>>)

ByteSliceEncodeValue(g, o) ==
  CASE g.v = Nil /\ ~o.nilAsEmpty -> Bson("Null", <<>>)
    [] g.v = Nil /\ o.nilAsEmpty -> Bson("Binary", <<Generic, EmptyText>>)
    [] OTHER -> Bson("Binary", <<Generic>> \o g.v)

(* WriteRegex sorts the options; 2 stands for options out of order.        *)
RegexEncodeValue(g) == Bson("Regex", IF g.v[2] = 2 THEN <<g.v[1], 1>> ELSE g.v)

(* The scope is written as any D is, to a writer of its own, which takes   *)
(* no null: a nil scope is an error, or an empty document.                 *)
NilScope == 0
EmptyScope == 2
CodeWithScopeEncodeValue(g, o) ==
  CASE g.v[2] = NilScope /\ ~o.nilAsEmpty -> NoBson
    [] g.v[2] = NilScope /\ o.nilAsEmpty -> Bson("CodeWithScope", <<g.v[1], EmptyScope>>)
    [] OTHER -> Bson("CodeWithScope", g.v)

(* The types that have a BSON type of their own: ObjectIDEncodeValue,      *)
(* Decimal128EncodeValue and JavaScriptEncodeValue to MaxKeyEncodeValue.   *)
OwnTypes == {"ObjectID", "Decimal128", "JavaScript", "Symbol", "Binary", "Undefined", "DateTime", "Null",
             "DBPointer", "Timestamp", "MinKey", "MaxKey"}
OwnEncodeValue(g) == Bson(g.t, g.v)

EncodeValue(g, o) ==
  CASE g.t \in SignedTypes -> IntEncodeValue(g, o)
    [] g.t \in UnsignedTypes -> UIntEncodeValue(g, o)
    [] g.t \in FloatTypes -> Bson("Double", g.v)
    [] g.t = "bool" -> Bson("Boolean", g.v)
    [] g.t \in {"string", "url.URL"} -> Bson("String", g.v)
    [] g.t = "json.Number" -> JSONNumberEncodeValue(g, o)
    [] g.t = "time.Time" -> TimeEncodeValue(g)
    [] g.t = "[]byte" -> ByteSliceEncodeValue(g, o)
    [] g.t = "Regex" -> RegexEncodeValue(g)
    [] g.t = "CodeWithScope" -> CodeWithScopeEncodeValue(g, o)
    [] g.t = "nil" -> Bson("Null", <<>>)
    [] OTHER -> OwnEncodeValue(g)

(* SliceCodec.EncodeValue: a D becomes a document and an A an array, each  *)
(* element by the encoder of its own type.                                 *)
SliceEncodeValue(g, o) ==
  LET element == EncodeValue(Go(GoTypes[g.v[1]], Tail(g.v)), o)
      b == IF g.t = "D" THEN "Document" ELSE "Array"
  IN  CASE g.v = NilSlice /\ ~o.nilAsEmpty -> Bson("Null", <<>>)
        [] g.v = <<>> \/ (g.v = NilSlice /\ o.nilAsEmpty) -> Bson(b, <<>>)
        [] g.v \notin {NilSlice, <<>>} /\ element = NoBson -> NoBson
        [] OTHER -> Bson(b, <<Code(BsonTypes, element.b)>> \o element.v)

EncodeAny(g, o) == IF g.t \in {"D", "A"} THEN SliceEncodeValue(g, o) ELSE EncodeValue(g, o)
-----------------------------------------------------------------------------
(* Decoding: the values that a BSON value may be decoded to.               *)

NoInfo == {"Null", "Undefined"}

(* A conversion of a float to an integer that cannot hold it gives what    *)
(* the processor makes of it.                                              *)
Whole(x) == IF x >= 0 THEN x \div 2 ELSE -((-x) \div 2)
ToInt64(v) ==
  CASE v = NaN -> {-Max64 - 1, 0, Max64}
    [] v # NaN /\ Whole(v[1]) \in -Max64 - 1 .. Max64 -> {Whole(v[1])}
    [] OTHER -> {-Max64 - 1, Max64}

(* The first half of intDecodeType, and of UIntCodec.decodeType: the       *)
(* integer that is read, none for an error. The float64 nearest to the     *)
(* largest int64 is one above it.                                          *)
readInteger(b, o) ==
  CASE b.b \in {"Int32", "Int64", "Boolean"} -> {b.v[1]}
    [] b.b = "Double" ->
         IF \/ ~o.truncate /\ (b.v = NaN \/ b.v[1] % 2 # 0)
            \/ b.v # NaN /\ b.v[1] > 2 * (Max64 + 1)
         THEN {} ELSE ToInt64(b.v)
    [] b.b \in NoInfo -> {0}
    [] OTHER -> {}

ChecksOneMore(b, t, o) ==
  LET read == readInteger(b, o)
  IN  IF read = {} THEN {Failed}
      ELSE {IF i \in -MaxOf(t, o) - 1 .. MaxOf(t, o) + 1
            THEN Go(t, <<IF i > MaxOf(t, o) THEN -i ELSE i>>) ELSE Failed : i \in read}
intDecodeType(b, t, o) ==
  LET read == readInteger(b, o)
  IN  IF read = {} THEN {Failed}
      ELSE {IF i \in RangeOf(t, o) THEN Go(t, <<i>>) ELSE Failed : i \in read}

uintDecodeType(b, t, o) ==
  LET read == readInteger(b, o)
  IN  IF read = {} THEN {Failed}
      ELSE {IF i >= 0 /\ i \in RangeOf(t, o) THEN Go(t, <<i>>) ELSE Failed : i \in read}

(* Any int64 is taken for a float64, whatever precision it loses; a float  *)
(* of 32 bits has to be exact, which a NaN never is.                       *)
floatDecodeType(b, t, o) ==
  LET f == CASE b.b \in {"Int32", "Int64", "Boolean"} -> <<Round(2 * b.v[1], P64)>>
             [] b.b = "Double" -> b.v
             [] OTHER -> <<0>>
  IN  CASE b.b \notin {"Int32", "Int64", "Boolean", "Double"} \cup NoInfo -> {Failed}
        [] t = "float32" /\ f = NaN -> {IF o.truncate THEN Go(t, NaN) ELSE Failed}
        [] t = "float32" /\ f # NaN ->
             {IF o.truncate \/ Round(f[1], P32) = f[1] THEN Go(t, <<Round(f[1], P32)>>) ELSE Failed}
        [] OTHER -> {Go(t, f)}

booleanDecodeType(b) ==
  CASE b.b \in {"Int32", "Int64", "Double", "Boolean"} -> {Go("bool", <<IF b.v = <<0>> THEN 0 ELSE 1>>)}
    [] b.b \in NoInfo -> {Go("bool", <<0>>)}
    [] OTHER -> {Failed}

(* valueReader.ReadBinary: the old kind has a second length before its     *)
(* bytes, which is taken for the bytes when there are none.                *)
ReadBinary(b) == IF b.v = <<BinaryOld, EmptyText>> THEN <<BinaryOld, LengthBytes>> ELSE b.v
Plain(b) == b.b = "Binary" /\ b.v[1] \in {Generic, BinaryOld}
Data(b) == ReadBinary(b)[2]

stringDecodeType(b, o) ==
  CASE b.b \in {"String", "Symbol"} -> {Go("string", b.v)}
    [] b.b = "ObjectID" -> {Go("string", <<IF o.oidAsHex THEN HexOf(b.v[1]) ELSE BytesOf(b.v[1])>>)}
    [] Plain(b) -> {Go("string", <<Data(b)>>)}
    [] b.b \in NoInfo -> {Go("string", <<EmptyText>>)}
    [] OTHER -> {Failed}

byteSliceDecodeType(b) ==
  CASE b.b \in {"String", "Symbol"} -> {Go("[]byte", b.v)}
    [] Plain(b) -> {Go("[]byte", <<Data(b)>>)}
    [] b.b \in NoInfo -> {Go("[]byte", Nil)}
    [] OTHER -> {Failed}

timeDecodeType(b) ==
  CASE b.b \in {"DateTime", "Int64"} -> {Go("time.Time", <<2 * b.v[1]>>)}
    [] b.b = "String" /\ b.v[1] = DateText -> {Go("time.Time", <<DateOfText>>)}
    [] b.b = "Timestamp" -> {Go("time.Time", <<2 * MillisPerSecond * b.v[1]>>)}
    [] b.b \in NoInfo -> {Go("time.Time", <<ZeroTime>>)}
    [] OTHER -> {Failed}

(* The decoders of the types that have a BSON type of their own; null and  *)
(* undefined give the zero value.                                          *)
Own(b, t, zero) ==
  CASE b.b = t -> {Go(t, b.v)} [] b.b \in NoInfo -> {Go(t, zero)} [] OTHER -> {Failed}

javaScriptDecodeType(b) == Own(b, "JavaScript", <<EmptyText>>)
symbolDecodeType(b) ==
  CASE b.b = "String" -> {Go("Symbol", b.v)}
    [] Plain(b) -> {Go("Symbol", <<Data(b)>>)}
    [] OTHER -> Own(b, "Symbol", <<EmptyText>>)
binaryDecodeType(b) ==
  IF b.b = "Binary" THEN {Go("Binary", ReadBinary(b))} ELSE Own(b, "Binary", <<Generic, EmptyText>>)
undefinedDecodeType(b) == IF b.b \in NoInfo THEN {Go("Undefined", <<>>)} ELSE {Failed}
objectIDDecodeType(b) ==
  CASE b.b = "String" /\ b.v[1] = TwelveBytes -> {Go("ObjectID", <<1>>)}
    [] b.b = "String" /\ b.v[1] = ZeroBytes -> {Go("ObjectID", <<0>>)}
    [] OTHER -> Own(b, "ObjectID", <<0>>)
dateTimeDecodeType(b) == Own(b, "DateTime", <<0>>)
nullDecodeType(b) == IF b.b \in NoInfo THEN {Go("Null", <<>>)} ELSE {Failed}
regexDecodeType(b) == Own(b, "Regex", <<EmptyText, 0>>)
dBPointerDecodeType(b) == Own(b, "DBPointer", <<EmptyText, 0>>)
timestampDecodeType(b) == Own(b, "Timestamp", <<0, 0>>)
minKeyDecodeType(b) == Own(b, "MinKey", <<>>)
maxKeyDecodeType(b) == Own(b, "MaxKey", <<>>)
decimal128DecodeType(b) == Own(b, "Decimal128", <<0>>)
codeWithScopeDecodeType(b) == Own(b, "CodeWithScope", <<EmptyText, NilScope>>)
jsonNumberDecodeType(b) ==
  CASE b.b = "Double" -> {Go("json.Number", b.v)}
    [] b.b \in {"Int32", "Int64"} -> {Go("json.Number", <<2 * b.v[1]>>)}
    [] b.b \in NoInfo -> {Go("json.Number", Nil)}
    [] OTHER -> {Failed}

(* url.Parse takes neither a colon before the first slash nor zero bytes.  *)
NoURLs == {DateText, ZeroBytes}
urlDecodeType(b) ==
  CASE b.b = "String" /\ b.v[1] \notin NoURLs -> {Go("url.URL", b.v)}
    [] b.b \in NoInfo -> {Go("url.URL", <<EmptyText>>)}
    [] OTHER -> {Failed}

(* DecodeValue, by the decoder that is registered for the type.            *)
DecodeValue(b, t, o) ==
  CASE t \in SignedTypes -> intDecodeType(b, t, o)
    [] t \in UnsignedTypes -> uintDecodeType(b, t, o)
    [] t \in FloatTypes -> floatDecodeType(b, t, o)
    [] t = "bool" -> booleanDecodeType(b)
    [] t = "string" -> stringDecodeType(b, o)
    [] t = "[]byte" -> byteSliceDecodeType(b)
    [] t = "time.Time" -> timeDecodeType(b)
    [] t = "JavaScript" -> javaScriptDecodeType(b)
    [] t = "Symbol" -> symbolDecodeType(b)
    [] t = "Binary" -> binaryDecodeType(b)
    [] t = "Undefined" -> undefinedDecodeType(b)
    [] t = "ObjectID" -> objectIDDecodeType(b)
    [] t = "DateTime" -> dateTimeDecodeType(b)
    [] t = "Null" -> nullDecodeType(b)
    [] t = "Regex" -> regexDecodeType(b)
    [] t = "DBPointer" -> dBPointerDecodeType(b)
    [] t = "Timestamp" -> timestampDecodeType(b)
    [] t = "MinKey" -> minKeyDecodeType(b)
    [] t = "MaxKey" -> maxKeyDecodeType(b)
    [] t = "Decimal128" -> decimal128DecodeType(b)
    [] t = "CodeWithScope" -> codeWithScopeDecodeType(b)
    [] t = "json.Number" -> jsonNumberDecodeType(b)
    [] t = "url.URL" -> urlDecodeType(b)

(* The type that a value is decoded to for an interface{}: the entries of  *)
(* the type map, with the type of the same place in BsonTypes.             *)
SymbolAsString(b) == IF b = "Symbol" THEN "string" ELSE GoTypes[Code(BsonTypes, b)]
getEmptyInterfaceDecodeType(b) == GoTypes[Code(BsonTypes, b)]

emptyInterfaceDecodeType(b, o) ==
  LET t == getEmptyInterfaceDecodeType(b.b)
  IN  CASE b.b = "Null" -> {Go("nil", <<>>)}
        [] o.binaryAsSlice /\ Plain(b) -> {Go("[]byte", <<Data(b)>>)}
        [] OTHER -> DecodeValue(b, t, o)

(* DDecodeValue, and decodeDefault for an A: the elements as interface{}.  *)
decodeElements(b, t, o) ==
  CASE b.v = <<>> -> {Go(t, <<>>)}
    [] OTHER -> {IF e = Failed THEN Failed ELSE Go(t, <<Code(GoTypes, e.t)>> \o e.v) :
                   e \in emptyInterfaceDecodeType(Bson(BsonTypes[b.v[1]], Tail(b.v)), o)}

DecodeAny(b, t, o) ==
  CASE b.b = "Document" -> IF t \in {"D", "interface{}"} THEN decodeElements(b, "D", o) ELSE {Failed}
    [] b.b = "Array" -> IF t \in {"A", "interface{}"} THEN decodeElements(b, "A", o) ELSE {Failed}
    [] t \in {"D", "A"} /\ b.b = "Null" -> {Go(t, NilSlice)}
    [] t = "A" /\ b.b = "Undefined" -> {Go(t, NilSlice)}
    [] t = "interface{}" /\ b.b \notin {"Document", "Array"} -> emptyInterfaceDecodeType(b, o)
    [] t \in {"D", "A"} -> {Failed}
    [] OTHER -> DecodeValue(b, t, o)
-----------------------------------------------------------------------------
(* The struct                                                              *)
(*   N int8 "n,omitempty"   P *int8 "p"   A [2]int8 "a"   S []int8 "s"     *)
(*   Rest map[string]int8 ",inline"                                        *)
(* A nil pointer is <<>>. The elements of its arrays are all int32.        *)

FieldNames == {"n", "p", "a", "s"}
ToLower(k) == IF k = "N" THEN "n" ELSE k
NoKeys == [k \in {} |-> 0]
NilOr(isNil, e) == [nil |-> isNil, e |-> e]
ZeroStruct == [n |-> 0, p |-> Nil, a |-> <<0, 0>>, s |-> NilOr(TRUE, <<>>), rest |-> NilOr(TRUE, NoKeys)]
Element(k, b) == [k |-> k, b |-> b]
Int8(i) == Bson("Int32", <<i>>)
Ints(e) == Bson("Int32s", e)

(* StructCodec.EncodeValue: the fields in order, without an empty one that *)
(* says omitempty, then the inline map in any order.                       *)
IsZero(g) == g.n = 0
PointerEncodeValue(p) == IF p = Nil THEN Bson("Null", <<>>) ELSE Int8(p[1])
Collides(g, o) == o.inlineMap /\ DOMAIN g.rest.e \cap FieldNames # {}
EncodedFields(g) ==
  (IF IsZero(g) THEN <<>> ELSE <<Element("n", Int8(g.n))>>)
    \o <<Element("p", PointerEncodeValue(g.p)), Element("a", Ints(g.a)),
         Element("s", IF g.s.nil THEN Bson("Null", <<>>) ELSE Ints(g.s.e))>>
EncodedMap(g, o, order) ==
  IF o.inlineMap THEN [i \in DOMAIN order |-> Element(order[i], Int8(g.rest.e[order[i]]))] ELSE <<>>

(* The decoders of the fields: the field afterwards, and whether it failed. *)
Field(e, failed) == [e |-> e, failed |-> failed]
DecodeInt8(b, old, o) ==
  LET g == CHOOSE x \in intDecodeType(b, "int8", o) : TRUE
  IN  IF g = Failed THEN Field(old, TRUE) ELSE Field(g.v[1], FALSE)

(* PointerCodec.DecodeValue: a pointer that is nil gets a variable first.  *)
PointerDecodeValue(b, old, o) ==
  LET at == IF old = Nil THEN 0 ELSE old[1]
      d == DecodeInt8(b, at, o)
  IN  IF b.b \in NoInfo THEN Field(Nil, FALSE) ELSE Field(<<d.e>>, d.failed)

(* ArrayDecodeValue: as many elements as there are; the others stay.       *)
ArrayDecodeValue(b, old) ==
  CASE b.b \in NoInfo -> Field(<<0, 0>>, FALSE)
    [] b.b = "Int32s" /\ Len(b.v) <= 2 /\ \A i \in DOMAIN b.v : b.v[i] \in -Max8 - 1 .. Max8 ->
         Field([i \in 1 .. 2 |-> IF i \in DOMAIN b.v THEN b.v[i] ELSE old[i]], FALSE)
    [] OTHER -> Field(old, TRUE)

(* SliceCodec.DecodeValue: the length is set to zero, then the elements    *)
(* are appended.                                                           *)
AppendsToOld(b, old) ==
  CASE b.b \in NoInfo -> Field(NilOr(TRUE, <<>>), FALSE)
    [] b.b = "Int32s" /\ \A i \in DOMAIN b.v : b.v[i] \in -Max8 - 1 .. Max8 ->
         Field(NilOr(FALSE, old.e \o b.v), FALSE)
    [] OTHER -> Field(old, TRUE)
SliceDecodeValue(b, old) ==
  CASE b.b \in NoInfo -> Field(NilOr(TRUE, <<>>), FALSE)
    [] b.b = "Int32s" /\ \A i \in DOMAIN b.v : b.v[i] \in -Max8 - 1 .. Max8 ->
         Field(NilOr(FALSE, b.v), FALSE)
    [] OTHER -> Field(old, TRUE)

(* An element of the inline map; the map is made first if there is none.   *)
InlineDecodeValue(k, b, old, o) ==
  LET d == DecodeInt8(b, 0, o)
  IN  IF d.failed THEN Field(NilOr(FALSE, old.e), TRUE)
      ELSE Field(NilOr(FALSE, (k :> d.e) @@ old.e), FALSE)

(* StructCodec.DecodeValue, one element: to the field with its name, or    *)
(* with its name in lower case, or else to the inline map, if there is     *)
(* one. An error ends the decoding.                                        *)
DecodeElement(sofar, element, o) ==
  LET g == sofar.e
      b == element.b
      name == IF element.k \in FieldNames THEN element.k ELSE ToLower(element.k)
      Set(f, d) == Field([g EXCEPT ![f] = d.e], d.failed)
  IN  CASE sofar.failed -> sofar
        [] ~sofar.failed /\ name = "n" -> Set("n", DecodeInt8(b, g.n, o))
        [] ~sofar.failed /\ name = "p" -> Set("p", PointerDecodeValue(b, g.p, o))
        [] ~sofar.failed /\ name = "a" -> Set("a", ArrayDecodeValue(b, g.a))
        [] ~sofar.failed /\ name = "s" -> Set("s", SliceDecodeValue(b, g.s))
        [] ~sofar.failed /\ name \notin FieldNames ->
             IF o.inlineMap THEN Set("rest", InlineDecodeValue(element.k, b, g.rest, o)) ELSE sofar
StructDecodeValue(g, doc, o) ==
  FoldLeft(LAMBDA sofar, element : DecodeElement(sofar, element, o),
           Field(IF o.zeroStruct THEN ZeroStruct ELSE g, FALSE), doc)
-----------------------------------------------------------------------------
(* What is encoded, decoded and configured: the default, or one option of  *)
(* the codecs or of the contexts that differs from it.                     *)

Default == [minSize |-> FALSE, uintMinSize |-> FALSE, nilAsEmpty |-> FALSE, oidAsHex |-> TRUE,
            binaryAsSlice |-> FALSE, truncate |-> FALSE, word |-> Max64, zeroStruct |-> FALSE,
            inlineMap |-> TRUE]
Options ==
  {Default} \cup
  {[Default EXCEPT !.minSize = TRUE], [Default EXCEPT !.uintMinSize = TRUE],
   [Default EXCEPT !.nilAsEmpty = TRUE], [Default EXCEPT !.oidAsHex = FALSE],
   [Default EXCEPT !.binaryAsSlice = TRUE], [Default EXCEPT !.truncate = TRUE],
   [Default EXCEPT !.word = Max32]}
DecodingOptions == {o \in Options : ~o.minSize /\ ~o.uintMinSize}
StructOptions ==
  {Default, [Default EXCEPT !.zeroStruct = TRUE], [Default EXCEPT !.inlineMap = FALSE]}

FloatsOf(p) == {<<x>> : x \in {y \in -40 .. 40 : Round(y, p) = y}} \cup {NaN}
PayloadsOf(t, o) ==
  CASE t \in SignedTypes \cup UnsignedTypes -> {<<i>> : i \in RangeOf(t, o)}
    [] t = "float64" -> FloatsOf(P64)
    [] t = "float32" -> FloatsOf(P32)
    [] t \in {"bool", "ObjectID", "Decimal128"} -> {<<0>>, <<1>>}
    [] t \in {"string", "JavaScript", "Symbol"} -> {<<x>> : x \in Texts}
    [] t = "url.URL" -> {<<x>> : x \in Texts \ NoURLs}
    [] t = "json.Number" -> {<<x>> : x \in {-1, 0, 3, 2 * Max32 + 2, 2 * Max64, 2 * Max64 + 2}} \cup {Nil}
    [] t = "time.Time" -> {<<ZeroTime>>, <<-3>>, <<0>>, <<1>>, <<4>>}
    [] t = "DateTime" -> {<<-2>>, <<0>>, <<1>>}
    [] t = "[]byte" -> {<<x>> : x \in Texts} \cup {Nil}
    [] t = "Binary" -> {<<x, y>> : x \in {Generic, BinaryOld, UUID}, y \in {EmptyText, TwelveBytes}}
    [] t = "Regex" -> {<<1, 0>>, <<1, 1>>, <<1, 2>>}
    [] t \in {"DBPointer", "Timestamp"} -> {<<0, 0>>, <<1, 1>>}
    [] t = "CodeWithScope" -> {<<0, NilScope>>, <<0, EmptyScope>>, <<1, 1>>}
    [] t \in {"D", "A"} ->
         {NilSlice, <<>>, <<Code(GoTypes, "nil")>>, <<Code(GoTypes, "int"), 1>>, <<Code(GoTypes, "uint64"), 1>>,
          <<Code(GoTypes, "uint64"), Max64 + 1>>, <<Code(GoTypes, "[]byte"), 1>>}
    [] OTHER -> {<<>>}

(* The values of another program, which writes each type as this one does; *)
(* its regular expressions are in order and its code has a scope.          *)
ScalarsReceived ==
  {b \in UNION {{Bson(BsonTypes[i], v) : v \in PayloadsOf(GoTypes[i], Default)} :
                  i \in DOMAIN BsonTypes \ {Code(BsonTypes, "Document"), Code(BsonTypes, "Array")}} :
     (b.b = "Regex" => b.v[2] # 2) /\ (b.b = "CodeWithScope" => b.v[2] # NilScope)}
Received ==
  ScalarsReceived \cup {Bson(b, <<>>) : b \in {"Document", "Array"}}
    \cup {Bson(b, <<Code(BsonTypes, e.b)>> \o e.v) : b \in {"Document", "Array"}, e \in ScalarsReceived}

Structs ==
  {[n |-> n, p |-> p, a |-> a, s |-> s, rest |-> rest] :
     n \in {0, 1}, p \in {Nil, <<1>>}, a \in {<<0, 0>>, <<0, 1>>},
     s \in {NilOr(TRUE, <<>>), NilOr(FALSE, <<1>>)},
     rest \in {NilOr(TRUE, NoKeys), NilOr(FALSE, "N" :> 1), NilOr(FALSE, "n" :> 1),
               NilOr(FALSE, ("x" :> 1) @@ ("y" :> 0))}}
Documents ==
  {<<>>, <<Element("n", Bson("Double", <<1>>))>>, <<Element("p", Int8(1)), Element("p", Int8(Max8 + 1))>>,
   <<Element("a", Ints(<<1>>)), Element("a", Ints(<<0, 1, 0>>))>>, <<Element("a", Bson("Null", <<>>))>>,
   <<Element("s", Int8(0))>>, <<Element("x", Bson("String", <<0>>)), Element("n", Int8(1))>>}

TypeOK ==
  /\ cdStage \in {"idle", "bson", "go", "again", "doc", "struct"}
  /\ cdOpts \in Options \cup StructOptions
  /\ cdIn.t \in Range(GoTypes) \cup {"none"} /\ cdOut.t \in Range(GoTypes) \cup {"none", "error"}
  /\ cdBson.b \in Range(BsonTypes) \cup {"none"} /\ cdBack.b \in Range(BsonTypes) \cup {"none"}
  /\ cdTarget \in Range(GoTypes) \cup {"none"}
  /\ cdSource \in Structs \cup {ZeroStruct} /\ cdKnown \in BOOLEAN /\ cdFailed \in BOOLEAN
  /\ \A i \in DOMAIN cdDoc : cdDoc[i].k \in FieldNames \cup {"x", "y", "N"}
  /\ \A g \in {cdOld, cdStruct} : /\ {g.n} \cup Range(g.a) \cup Range(g.p) \subseteq RangeOf("int8", Default)
                                  /\ g.rest.nil => g.rest.e = NoKeys

Init ==
  /\ cdStage = "idle" /\ cdOpts = Default /\ cdIn = NoValue /\ cdBson = NoBson /\ cdTarget = "none"
  /\ cdOut = NoValue /\ cdBack = NoBson /\ cdSource = ZeroStruct /\ cdKnown = FALSE /\ cdDoc = <<>>
  /\ cdOld = ZeroStruct /\ cdStruct = ZeroStruct /\ cdFailed = FALSE

valueVars == <<cdIn, cdBson, cdTarget, cdOut, cdBack>>
structVars == <<cdSource, cdKnown, cdDoc, cdOld, cdStruct, cdFailed>>

(* Marshal: a Go value is encoded; NoBson if that is an error.             *)
Encode(g, o) ==
  /\ cdStage = "idle" /\ cdStage' = "bson" /\ cdOpts' = o
  /\ cdIn' = g /\ cdBson' = EncodeAny(g, o)
  /\ UNCHANGED <<cdTarget, cdOut, cdBack, structVars>>

Receive(b, o) ==
  /\ cdStage = "idle" /\ cdStage' = "bson" /\ cdOpts' = o
  /\ cdBson' = b
  /\ UNCHANGED <<cdIn, cdTarget, cdOut, cdBack, structVars>>

(* Unmarshal into a variable of type t.                                    *)
Decode(t) ==
  /\ cdStage = "bson" /\ cdBson # NoBson
  /\ cdStage' = "go" /\ cdTarget' = t
  /\ cdOut' \in DecodeAny(cdBson, t, cdOpts)
  /\ UNCHANGED <<cdOpts, cdIn, cdBson, cdBack, structVars>>

EncodeAgain ==
  /\ cdStage = "go" /\ cdOut # Failed
  /\ cdStage' = "again" /\ cdBack' = EncodeAny(cdOut, cdOpts)
  /\ UNCHANGED <<cdOpts, cdIn, cdBson, cdTarget, cdOut, structVars>>

(* The options are chosen with the first document.                         *)
Chosen(o) == cdStage \in {"idle", "struct"} /\ (cdStage = "idle" \/ o = cdOpts) /\ cdOpts' = o

EncodeStruct(g, order, o) ==
  /\ Chosen(o)
  /\ cdSource' = g /\ cdKnown' = TRUE /\ cdOld' = ZeroStruct
  /\ cdFailed' = Collides(g, o)
  /\ cdDoc' = IF Collides(g, o) THEN <<>> ELSE EncodedFields(g) \o EncodedMap(g, o, order)
  /\ cdStage' = IF Collides(g, o) THEN "struct" ELSE "doc"
  /\ UNCHANGED <<valueVars, cdStruct>>

ReceiveDocument(doc, o) ==
  /\ Chosen(o)
  /\ cdStage' = "doc" /\ cdDoc' = doc /\ cdKnown' = FALSE /\ cdSource' = ZeroStruct /\ cdOld' = ZeroStruct
  /\ cdFailed' = FALSE
  /\ UNCHANGED <<valueVars, cdStruct>>

(* Unmarshal into the struct variable, whatever it holds.                  *)
DecodeStruct ==
  /\ cdStage = "doc" /\ cdStage' = "struct"
  /\ LET d == StructDecodeValue(cdStruct, cdDoc, cdOpts)
     IN  cdStruct' = d.e /\ cdFailed' = d.failed
  /\ cdOld' = cdStruct
  /\ UNCHANGED <<cdOpts, valueVars, cdSource, cdKnown, cdDoc>>

NextValue ==
  \/ /\ cdStage = "idle"
     /\ \/ \E o \in Options, i \in DOMAIN GoTypes \ {Code(GoTypes, "nil"), Code(GoTypes, "interface{}")} :
             \E v \in PayloadsOf(GoTypes[i], o) : Encode(Go(GoTypes[i], v), o)
        \/ \E o \in DecodingOptions, b \in Received : Receive(b, o)
  \/ \E i \in DOMAIN GoTypes \ {Code(GoTypes, "nil")} : Decode(GoTypes[i])
  \/ EncodeAgain

NextStruct ==
  \/ /\ cdStage \in {"idle", "struct"}
     /\ \E o \in StructOptions :
          \/ \E g \in Structs : \E order \in SetToSeqs(DOMAIN g.rest.e) : EncodeStruct(g, order, o)
          \/ \E doc \in Documents : ReceiveDocument(doc, o)
  \/ DecodeStruct

Next == NextValue \/ NextStruct
Spec == Init /\ [][Next]_cdVars
-----------------------------------------------------------------------------
(* A value that is encoded and decoded into its own type is the same,      *)
(* with any option: but for what is less than a millisecond of a time, the *)
(* order of the options of a regular expression, a nil that is encoded as  *)
(* empty, the NaN of 32 bits, which cannot be read back, and an empty      *)
(* binary of the old kind, which comes back as the bytes of its length.    *)
(* Encoding fails only for an unsigned number above every int64, an empty  *)
(* json.Number and, where nil is not encoded as empty, code whose scope is *)
(* nil.                                                                    *)
EmptyOldBinary == <<BinaryOld, EmptyText>>
Expected(g, o) ==
  CASE g.t = "time.Time" -> Go(g.t, <<g.v[1] - (g.v[1] % 2)>>)
    [] g.t = "Regex" -> Go(g.t, <<g.v[1], IF g.v[2] = 0 THEN 0 ELSE 1>>)
    [] g.t = "[]byte" /\ g.v = Nil /\ o.nilAsEmpty -> Go(g.t, <<EmptyText>>)
    [] g.t = "CodeWithScope" /\ g.v[2] = NilScope -> Go(g.t, <<g.v[1], EmptyScope>>)
    [] g = Go("float32", NaN) /\ ~o.truncate -> Failed
    [] g = Go("Binary", EmptyOldBinary) -> Go("Binary", <<BinaryOld, LengthBytes>>)
    [] OTHER -> g
RoundTrip ==
  /\ cdStage = "bson" /\ cdIn # NoValue =>
       (cdBson = NoBson <=>
          \/ cdIn.t \in UnsignedTypes /\ cdIn.v[1] > Max64
          \/ cdIn.t \in {"D", "A"} /\ Len(cdIn.v) = 2 /\ cdIn.v[2] > Max64
          \/ cdIn = Go("json.Number", Nil)
          \/ cdIn.t = "CodeWithScope" /\ cdIn.v[2] = NilScope /\ ~cdOpts.nilAsEmpty)
  /\ cdStage = "go" /\ cdIn.t = cdTarget /\ cdTarget \notin {"D", "A"} => cdOut = Expected(cdIn, cdOpts)

(* A number is decoded to the same number if the Go type has it, and is an *)
(* error otherwise, unless truncation was asked for. A float out of the    *)
(* range of int64, and an integer beyond the precision of a float64, are   *)
(* left out: neither is checked (intDecodeType and floatDecodeType).       *)
Halves == IF cdBson.b = "Double" THEN cdBson.v[1] ELSE 2 * cdBson.v[1]
Holds(t) ==
  CASE t = "float64" -> TRUE
    [] t = "float32" -> Round(Halves, P32) = Halves
    [] OTHER -> Halves % 2 = 0 /\ Halves \div 2 \in RangeOf(t, cdOpts)
SameNumber ==
  /\ cdStage = "go" /\ ~cdOpts.truncate /\ cdTarget \in SignedTypes \cup UnsignedTypes \cup FloatTypes
  /\ cdBson.b \in {"Int32", "Int64", "Double"} /\ cdBson.v # NaN
  /\ Whole(Halves) \in -Max64 - 1 .. Max64
  /\ cdTarget \in FloatTypes => Round(Halves, P64) = Halves
  => cdOut = IF Holds(cdTarget)
             THEN Go(cdTarget, <<IF cdTarget \in FloatTypes THEN Halves ELSE Halves \div 2>>) ELSE Failed

(* Every BSON value can be decoded into an interface{}, and is the same    *)
(* when it is encoded again, as an element or on its own, unless integers  *)
(* are to be small or binaries are to be slices. An empty binary of the    *)
(* old kind is left out: it grows by the bytes of its length.              *)
Transparent ==
  cdTarget = "interface{}" /\ ~cdOpts.minSize /\ ~cdOpts.binaryAsSlice =>
    /\ cdOut # Failed
    /\ cdStage = "again" =>
         \/ cdBack = cdBson
         \/ cdBson = Bson("Binary", EmptyOldBinary)
         \/ cdBson.b \in {"Document", "Array"} /\ cdBson.v = <<Code(BsonTypes, "Binary")>> \o EmptyOldBinary

(* Decoding what was encoded from a struct gives every field of it, and    *)
(* whatever the variable held before is left only where the document says  *)
(* nothing: a field with omitempty that was zero, other keys of the inline *)
(* map, and neither of them when structs are zeroed. A key of the map that *)
(* is a field's name but for its case is left out: it is decoded to the    *)
(* field.                                                                  *)
DecodedStruct ==
  cdStage = "struct" /\ cdKnown /\ cdDoc # <<>> /\ "N" \notin DOMAIN cdSource.rest.e =>
    LET old == IF cdOpts.zeroStruct THEN ZeroStruct ELSE cdOld
    IN  /\ ~cdFailed
        /\ cdStruct.n = IF cdSource.n = 0 THEN old.n ELSE cdSource.n
        /\ cdStruct.p = cdSource.p /\ cdStruct.a = cdSource.a /\ cdStruct.s = cdSource.s
        /\ cdStruct.rest.e = IF cdOpts.inlineMap THEN cdSource.rest.e @@ old.rest.e ELSE old.rest.e
=============================================================================
