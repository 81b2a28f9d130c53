---------------------------- MODULE ClientProofs ----------------------------
(***************************************************************************)
(* Proofs about what the client does in several steps of its own. A change *)
(* stream gives every event once and in order however often it is resumed, *)
(* a legacy cursor keeps the limit that its server does not know, and both *)
(* leave nothing open at the server. A bulk write tells the caller what    *)
(* became of each model, through the batches and commands it was split     *)
(* into.                                                                   *)
(***************************************************************************)
EXTENDS ChangeStream, LegacyCursor, BulkWrite, FiniteSetTheorems, NaturalsInduction,
        WellFoundedInduction, TLAPS

(* The entries of a log that match, after p and up to q. *)
Between(lg, p, q) == {e \in p + 1 .. q : lg[e]}

(* How far the application was given everything. *)
Reached == IF csToken = None THEN from ELSE csToken

(* What the steps of the stream leave of its cursor and its batch. *)
Shape ==
  /\ ~csCur.open => csCur = NoCursor
  /\ csPc = "new" => ~csCur.open /\ csToken = None /\ from = None
  /\ csPc \in {"new", "aggregate", "retry", "loop", "resume", "failed"} => csBatch = {}
  /\ csPc = "deliver" => csBatch # {} /\ csCur.open /\ ~csCur.first
  /\ csPc = "idle" /\ csBatch # {} => csErr \/ csCur.open
  /\ csCur.first => csBatch = {} /\ csCur.id # 0
  /\ csPc \notin {"new", "aggregate", "retry", "failed"} => from # None
  /\ csPc \in {"resume", "aggregate", "retry"} /\ from # None => csCur.open
  /\ from = None => delivered = <<>>

(* One cursor at most is open at the server, the one that the stream has,  *)
(* and none while it has to make one, or will make no more; an implicit    *)
(* session ends with the stream.                                           *)
Owned ==
  /\ cursors = csCur.id
  /\ csPc \in {"new", "aggregate", "retry", "resume", "failed", "closed"} => csCur.id = 0
  /\ csPc \in {"idle", "loop", "deliver"} /\ ~csCur.open => csSess # "implicit"
  /\ csPc \in {"failed", "closed"} => csSess # "implicit"

(* The options of a cursor to make name the token. *)
StartsAt(o, token) == o.startAfter = token \/ (o.startAfter = None /\ o.resumeAfter = token)

(* What was given is behind the token, and what will be is ahead of it. *)
Ahead ==
  /\ csToken <= Len(log) /\ from <= Len(log) /\ csCur.pos <= Len(log)
  /\ csCur.open => csCur.pbrt = PbrtOf(csCur.pos)
  /\ NothingRepeated /\ \A i \in DOMAIN delivered : delivered[i] <= csToken
  /\ \A e \in csBatch : csToken < e /\ (csCur.open => e <= csCur.pos)
  /\ csCur.first => \A e \in csCur.batch : csToken < e /\ e <= csCur.pos
  /\ csCur.id # 0 => csToken <= csCur.pos
  /\ csPc \in {"aggregate", "retry"} /\ csToken # None => StartsAt(cso, csToken)

(* With post batch resume tokens: all that matches up to Reached was       *)
(* given, all that matches from there to the place of the cursor is in the *)
(* batch, and there is a token whenever the stream may have to resume.     *)
Exact ==
  version = "4.0.7" /\ from # None =>
    /\ Given = Between(log, from, Reached)
    /\ csToken # None => from <= csToken
    /\ csCur.id # 0 => Reached <= csCur.pos
    /\ csCur.first => csCur.batch = Between(log, Reached, csCur.pos)
    /\ /\ csPc \in {"idle", "loop", "deliver"} /\ csCur.open /\ ~csCur.first
       /\ csBatch # {} \/ csCur.id # 0
       => csBatch = Between(log, Reached, csCur.pos)
    /\ ~csCur.first /\ csCur.id # 0 /\ csBatch = {} => csToken # None
    /\ csPc \in {"resume", "aggregate", "retry"} => csToken # None

StreamInv == StreamTypeOK /\ Shape /\ Owned /\ Ahead /\ Exact

-----------------------------------------------------------------------------
(* FirstEvent finds the earliest entry of a batch that is not empty. *)
LEMMA FirstEventIsLeast ==
  ASSUME NEW T \in SUBSET Nat, T # {}
  PROVE  FirstEvent(T) \in T /\ \A y \in T : FirstEvent(T) <= y
<1> DEFINE R == {ss \in Nat \X Nat : ss[1] < ss[2]}
<1>1. IsWellFoundedOn(R, Nat)
  BY NatLessThanWellFounded DEF OpToRel
<1>2. \A x, y \in Nat : <<y, x>> \in R <=> y < x
  OBVIOUS
<1> HIDE DEF R
<1>3. \E x \in T : \A y \in T : ~(<<y, x>> \in R)
  BY <1>1, WFMin
<1>4. PICK x \in T : \A y \in T : ~(<<y, x>> \in R)
  BY <1>3
<1>5. x \in Nat /\ \A y \in T : y \in Nat /\ ~(y < x)
  BY <1>2, <1>4
<1>6. \A y \in T : x <= y
  BY <1>5
<1> QED
  BY <1>6 DEF FirstEvent

(* What matches between two places, seen from a place between them. *)
LEMMA BetweenJoined ==
  ASSUME NEW lg, NEW a \in Int, NEW b \in Int, NEW c \in Int, a <= b, b <= c
  PROVE  Between(lg, a, c) = Between(lg, a, b) \cup Between(lg, b, c)
BY DEF Between

(* Nothing is between a place and itself. *)
LEMMA BetweenNothing ==
  ASSUME NEW lg, NEW a \in Int, NEW b \in Int, b <= a
  PROVE  Between(lg, a, b) = {}
BY DEF Between

(* What is written later changes nothing before it. *)
LEMMA BetweenKept ==
  ASSUME NEW lg \in Seq(BOOLEAN), NEW m \in BOOLEAN, NEW a \in Int, 0 <= a,
         NEW b \in Int, b <= Len(lg)
  PROVE  Between(Append(lg, m), a, b) = Between(lg, a, b)
<1>1. \A e \in a + 1 .. b : e \in 1 .. Len(lg)
  OBVIOUS
<1>2. \A e \in 1 .. Len(lg) : Append(lg, m)[e] = lg[e]
  OBVIOUS
<1>3. \A e \in a + 1 .. b : Append(lg, m)[e] = lg[e]
  BY <1>1, <1>2
<1> QED
  BY <1>3, Zenon DEF Between

(* The earliest one of what matches, and the others. *)
LEMMA BetweenFirst ==
  ASSUME NEW lg, NEW a \in Int, NEW b \in Int, NEW e \in Between(lg, a, b),
         \A f \in Between(lg, a, b) : e <= f
  PROVE  /\ Between(lg, a, e) = {e} /\ Between(lg, e, b) = Between(lg, a, b) \ {e}
         /\ e \in Int /\ a < e /\ e <= b
<1>1. e \in Int /\ a < e /\ e <= b /\ lg[e]
  BY DEF Between
<1>2. \A f \in Int : a < f /\ f <= b /\ lg[f] => e <= f
  BY DEF Between
<1>3. Between(lg, a, e) = {e}
  BY <1>1, <1>2 DEF Between
<1>4. Between(lg, e, b) = Between(lg, a, b) \ {e}
  BY <1>1, <1>2 DEF Between
<1> QED
  BY <1>1, <1>3, <1>4

(* The types, one by one. *)
LEMMA StreamTypes ==
  ASSUME StreamTypeOK
  PROVE  /\ log \in Seq(BOOLEAN) /\ Len(log) \in Nat /\ Len(log) <= MaxLog /\ MaxLog \in Nat
         /\ csToken \in Int /\ -1 <= csToken /\ csToken <= MaxLog
         /\ from \in Int /\ -1 <= from /\ from <= MaxLog
         /\ csCur.pos \in Int /\ 0 <= csCur.pos /\ csCur.pos <= MaxLog
         /\ csCur.open \in BOOLEAN /\ csCur.first \in BOOLEAN /\ csCur.id \in 0 .. 1
         /\ csCur.batch \subseteq 1 .. MaxLog /\ csBatch \subseteq 1 .. MaxLog
         /\ csCur.pbrt \in PositionOrNone /\ csErr \in BOOLEAN /\ csTry \in BOOLEAN
         /\ delivered \in Seq(1 .. MaxLog)
<1>1. {csToken, from} \subseteq PositionOrNone /\ csCur.pos \in Positions
  BY DEF StreamTypeOK
<1>2. csToken \in PositionOrNone /\ from \in PositionOrNone
  BY <1>1
<1>3. MaxLog \in Nat
  BY StreamAssumption
<1>4. /\ csToken \in Int /\ -1 <= csToken /\ csToken <= MaxLog
      /\ from \in Int /\ -1 <= from /\ from <= MaxLog
      /\ csCur.pos \in Int /\ 0 <= csCur.pos /\ csCur.pos <= MaxLog
  BY <1>1, <1>2, <1>3 DEF PositionOrNone, Positions, None
<1>5. /\ csCur.open \in BOOLEAN /\ csCur.first \in BOOLEAN /\ csCur.id \in 0 .. 1
      /\ csCur.batch \subseteq 1 .. MaxLog /\ csBatch \subseteq 1 .. MaxLog
      /\ csCur.pbrt \in PositionOrNone
  BY DEF StreamTypeOK
<1>6. log \in Seq(BOOLEAN) /\ Len(log) \in Nat /\ Len(log) <= MaxLog
  BY <1>3 DEF StreamTypeOK, Positions
<1> QED
  BY <1>3, <1>4, <1>5, <1>6 DEF StreamTypeOK

(* The invariant holds before the stream is made. *)
LEMMA StreamInitGood ==
  ASSUME StreamInit
  PROVE  StreamInv
<1>1. StreamTypeOK
  <2>1. MaxLog \in Nat /\ MaxFailures \in Nat
    BY StreamAssumption
  <2>2. /\ None \in PositionOrNone /\ 0 \in Positions /\ <<>> \in Seq(BOOLEAN)
        /\ <<>> \in Seq(1 .. MaxLog) /\ Len(<<>>) = 0
    <3>1. 0 \in Positions
      BY <2>1 DEF Positions
    <3>2. None \in PositionOrNone
      BY DEF PositionOrNone
    <3>3. <<>> \in Seq(BOOLEAN) /\ <<>> \in Seq(1 .. MaxLog) /\ Len(<<>>) = 0
      OBVIOUS
    <3> QED
      BY <3>1, <3>2, <3>3
  <2>3. NoCursor \in [open : BOOLEAN, id : 0 .. 1, first : BOOLEAN, batch : SUBSET (1 .. MaxLog),
                      pos : Positions, pbrt : PositionOrNone]
    BY <2>2 DEF NoCursor
  <2>4. NoOptions \in [resumeAfter : PositionOrNone, startAfter : PositionOrNone,
                       startAt : PositionOrNone]
    BY <2>2 DEF NoOptions
  <2>5. 0 \in 0 .. MaxFailures /\ Len(log) \in Positions /\ {csToken, csTime, sessTime, from} \subseteq PositionOrNone
    BY <2>1, <2>2 DEF StreamInit
  <2>6. csTry \in BOOLEAN /\ csErr \in BOOLEAN /\ csBatch \subseteq 1 .. MaxLog /\ csFailures = 0
    BY DEF StreamInit
  <2>7. /\ log = <<>> /\ delivered = <<>> /\ version = "none" /\ cso = NoOptions /\ csSess = "none"
        /\ csCur = NoCursor /\ cursors \in 0 .. 1 /\ csPc = "new"
    BY DEF StreamInit
  <2> QED
    BY <2>2, <2>3, <2>4, <2>5, <2>6, <2>7, Zenon DEF StreamTypeOK
<1>2. /\ csCur.open = FALSE /\ csCur.first = FALSE /\ csCur.id = 0 /\ csCur.pos = 0
      /\ csCur.batch = {} /\ csCur = NoCursor
  BY DEF StreamInit, NoCursor
<1>3. Shape
  BY <1>2 DEF StreamInit, Shape
<1>4. Owned
  BY <1>2 DEF StreamInit, Owned
<1>5. Ahead
  BY <1>2 DEF StreamInit, Ahead, NothingRepeated, None
<1>6. Exact
  BY DEF StreamInit, Exact
<1> QED
  BY <1>1, <1>3, <1>4, <1>5, <1>6 DEF StreamInv

-----------------------------------------------------------------------------
(* Something is written: what was found stays as it is. *)
LEMMA WriteStep ==
  ASSUME StreamInv, NEW match \in BOOLEAN, Write(match)
  PROVE  StreamInv'
<1>1. /\ log' = Append(log, match) /\ Len(log) < MaxLog
      /\ version' = version /\ cso' = cso /\ csToken' = csToken /\ csTime' = csTime
      /\ csSess' = csSess /\ csCur' = csCur /\ csBatch' = csBatch /\ csPc' = csPc /\ csTry' = csTry
      /\ csErr' = csErr /\ from' = from /\ delivered' = delivered /\ cursors' = cursors
      /\ sessTime' = sessTime /\ csFailures' = csFailures
  BY DEF Write, streamVars
<1>2. StreamTypeOK /\ Shape /\ Owned /\ Ahead /\ Exact
  BY DEF StreamInv
<1>3. /\ log \in Seq(BOOLEAN) /\ Len(log) \in Nat /\ MaxLog \in Nat
      /\ csToken \in Int /\ from \in Int /\ csCur.pos \in Int /\ -1 <= csToken /\ -1 <= from
  BY <1>2, StreamTypes
<1>4. log' \in Seq(BOOLEAN) /\ Len(log') = Len(log) + 1 /\ Len(log') \in Positions
  BY <1>1, <1>3 DEF Positions
<1>5. StreamTypeOK'
  BY <1>1, <1>2, <1>4 DEF StreamTypeOK
<1>6. Shape'
  BY <1>1, <1>2 DEF Shape
<1>7. Owned'
  BY <1>1, <1>2 DEF Owned
<1>8. Ahead'
  <2>1. csToken <= Len(log) /\ from <= Len(log) /\ csCur.pos <= Len(log)
    BY <1>2 DEF Ahead
  <2>2. csToken' <= Len(log') /\ from' <= Len(log') /\ csCur'.pos <= Len(log')
    BY <1>1, <1>3, <1>4, <2>1
  <2> QED
    BY <1>1, <1>2, <2>2 DEF Ahead, PbrtOf, NothingRepeated
<1>9. Exact'
  <2>1. SUFFICES ASSUME version = "4.0.7", from # None PROVE Exact'
    BY <1>1 DEF Exact
  <2>2. Reached' = Reached /\ Given' = Given
    BY <1>1 DEF Reached, Given
  <2>3. from \in Int /\ 0 <= from /\ Reached \in Int /\ 0 <= Reached /\ Reached <= Len(log)
    BY <1>2, <1>3, <2>1 DEF Reached, Ahead, None
  <2>4. csCur.pos <= Len(log)
    BY <1>2 DEF Ahead
  <2>5. Between(log', from, Reached) = Between(log, from, Reached)
    BY <1>1, <1>3, <2>3, BetweenKept
  <2>6. Between(log', Reached, csCur.pos) = Between(log, Reached, csCur.pos)
    BY <1>1, <1>3, <2>3, <2>4, BetweenKept
  <2> QED
    BY <1>1, <1>2, <2>1, <2>2, <2>5, <2>6 DEF Exact
<1> QED
  BY <1>5, <1>6, <1>7, <1>8, <1>9 DEF StreamInv

(* A step that leaves alone what the stream found and where it is. *)
Quiet ==
  UNCHANGED <<log, version, csToken, csTime, csCur, csBatch, from, delivered, cursors>>

(* Such a step keeps what does not depend on where the stream stands. *)
LEMMA QuietStep ==
  ASSUME StreamInv, Quiet, Shape', Owned',
         /\ cso' \in [resumeAfter : PositionOrNone, startAfter : PositionOrNone,
                      startAt : PositionOrNone]
         /\ sessTime' \in PositionOrNone /\ csFailures' \in 0 .. MaxFailures
         /\ csTry' \in BOOLEAN /\ csErr' \in BOOLEAN
         /\ csSess' \in {"none", "implicit", "explicit", "ended"}
         /\ csPc' \in {"new", "aggregate", "retry", "idle", "loop", "deliver", "resume", "failed",
                       "closed"},
         csPc' \in {"aggregate", "retry"} /\ csToken # None => StartsAt(cso', csToken),
         /\ csPc' \in {"idle", "loop", "deliver"} /\ csCur.open /\ ~csCur.first
         /\ csBatch # {} \/ csCur.id # 0
         => csPc \in {"idle", "loop", "deliver"},
         version = "4.0.7" /\ from # None /\ csPc' \in {"resume", "aggregate", "retry"}
           => csToken # None
  PROVE  StreamInv'
<1>1. /\ log' = log /\ version' = version /\ csToken' = csToken /\ csTime' = csTime /\ csCur' = csCur
      /\ csBatch' = csBatch /\ from' = from /\ delivered' = delivered /\ cursors' = cursors
  BY DEF Quiet
<1>2. StreamTypeOK /\ Ahead /\ Exact
  BY DEF StreamInv
<1>3. StreamTypeOK'
  <2>1. {csToken', csTime', sessTime', from'} \subseteq PositionOrNone
    BY <1>1, <1>2 DEF StreamTypeOK
  <2> QED
    BY <1>1, <1>2, <2>1 DEF StreamTypeOK
<1>4. Ahead'
  BY <1>1, <1>2 DEF Ahead, PbrtOf, NothingRepeated
<1>5. Exact'
  <2>1. Reached' = Reached /\ Given' = Given
    BY <1>1 DEF Reached, Given
  <2> QED
    BY <1>1, <1>2, <2>1 DEF Exact
<1> QED
  BY <1>3, <1>4, <1>5 DEF StreamInv

(* Another operation of the session gets a reply. *)
LEMMA OtherReplyStep ==
  ASSUME StreamInv, OtherReply
  PROVE  StreamInv'
<1>1. /\ Quiet /\ sessTime' = Len(log) /\ cso' = cso /\ csSess' = csSess /\ csPc' = csPc
      /\ csTry' = csTry /\ csErr' = csErr /\ csFailures' = csFailures
  BY DEF OtherReply, streamVars, Quiet
<1>2. StreamTypeOK /\ Shape /\ Owned /\ Ahead /\ Exact
  BY DEF StreamInv
<1>3. Shape'
  BY <1>1, <1>2 DEF Shape, Quiet
<1>4. Owned'
  BY <1>1, <1>2 DEF Owned, Quiet
<1>5. sessTime' \in PositionOrNone
  BY <1>1, <1>2 DEF StreamTypeOK, PositionOrNone
<1> QED
  BY <1>1, <1>2, <1>3, <1>4, <1>5, QuietStep DEF StreamTypeOK, Ahead, Exact

(* A position, or none, in each option. *)
LEMMA ReplacedOptions ==
  ASSUME StreamTypeOK
  PROVE  /\ replaceOptions \in [resumeAfter : PositionOrNone, startAfter : PositionOrNone,
                                startAt : PositionOrNone]
         /\ csToken # None => StartsAt(replaceOptions, csToken)
<1>1. /\ cso \in [resumeAfter : PositionOrNone, startAfter : PositionOrNone, startAt : PositionOrNone]
      /\ {csToken, csTime, sessTime, from} \subseteq PositionOrNone /\ None \in PositionOrNone
  BY DEF StreamTypeOK, PositionOrNone
<1>2. csToken \in PositionOrNone /\ sessTime \in PositionOrNone /\ cso.startAt \in PositionOrNone
  BY <1>1
<1>3. ResumeTime \in PositionOrNone
  BY <1>2 DEF ResumeTime
<1>4. NoOptions \in [resumeAfter : PositionOrNone, startAfter : PositionOrNone, startAt : PositionOrNone]
  BY <1>1 DEF NoOptions
<1>5. replaceOptions \in [resumeAfter : PositionOrNone, startAfter : PositionOrNone,
                          startAt : PositionOrNone]
  BY <1>2, <1>3, <1>4 DEF replaceOptions
<1>6. csToken # None => StartsAt(replaceOptions, csToken)
  BY DEF replaceOptions, StartsAt, NoOptions
<1> QED
  BY <1>5, <1>6

(* The stream is about to make a cursor again. *)
LEMMA ResumeStep ==
  ASSUME StreamInv, Resume
  PROVE  StreamInv'
<1>1. /\ Quiet /\ sessTime' = sessTime /\ cso' = replaceOptions /\ csSess' = csSess
      /\ csPc = "resume" /\ csPc' = "aggregate"
      /\ csTry' = csTry /\ csErr' = csErr /\ csFailures' = csFailures
  BY DEF Resume, Quiet
<1>2. StreamTypeOK /\ Shape /\ Owned /\ Ahead /\ Exact
  BY DEF StreamInv
<1>3. Shape'
  BY <1>1, <1>2 DEF Shape, Quiet
<1>4. Owned'
  BY <1>1, <1>2 DEF Owned, Quiet
<1>5. /\ cso' \in [resumeAfter : PositionOrNone, startAfter : PositionOrNone, startAt : PositionOrNone]
      /\ csToken # None => StartsAt(cso', csToken)
  BY <1>1, <1>2, ReplacedOptions
<1>6. version = "4.0.7" /\ from # None => csToken # None
  BY <1>1, <1>2 DEF Exact
<1>7. sessTime' \in PositionOrNone
  BY <1>1, <1>2 DEF StreamTypeOK
<1> QED
  BY <1>1, <1>2, <1>3, <1>4, <1>5, <1>6, <1>7, QuietStep DEF StreamTypeOK

(* No server is found to make it on. *)
LEMMA ResumeFailsStep ==
  ASSUME StreamInv, ResumeFails
  PROVE  StreamInv'
<1>1. /\ Quiet /\ sessTime' = sessTime /\ cso' = cso /\ csSess' = csSess
      /\ csPc = "resume" /\ csPc' = "idle"
      /\ csTry' = csTry /\ csErr' = TRUE /\ csFailures' = csFailures
  BY DEF ResumeFails, Quiet
<1>2. StreamTypeOK /\ Shape /\ Owned /\ Ahead /\ Exact
  BY DEF StreamInv
<1>3. csBatch = {} /\ csCur.id = 0 /\ from # None /\ csCur.open
  BY <1>1, <1>2 DEF Shape, Owned
<1>4. Shape'
  BY <1>1, <1>2, <1>3 DEF Shape, Quiet
<1>5. Owned'
  BY <1>1, <1>2, <1>3 DEF Owned, Quiet
<1>6. sessTime' \in PositionOrNone
  BY <1>1, <1>2 DEF StreamTypeOK
<1> QED
  BY <1>1, <1>2, <1>3, <1>4, <1>5, <1>6, QuietStep DEF StreamTypeOK

(* The command that makes a cursor fails. *)
LEMMA AggregateFailsStep ==
  ASSUME StreamInv, NEW reply \in BOOLEAN, NEW retryable \in BOOLEAN,
         AggregateFails(reply, retryable)
  PROVE  StreamInv'
<1>1. /\ Quiet /\ sessTime' \in {sessTime, Len(log)} /\ cso' = cso /\ csTry' = csTry
      /\ csPc \in {"aggregate", "retry"} /\ csFailures < MaxFailures /\ csFailures' = csFailures + 1
  BY DEF AggregateFails, Fails, Quiet
<1>2. StreamTypeOK /\ Shape /\ Owned /\ Ahead /\ Exact
  BY DEF StreamInv
<1>3. csBatch = {} /\ csCur.id = 0 /\ (from # None => csCur.open)
  BY <1>1, <1>2 DEF Shape, Owned
<1>4. \/ csPc' = "retry" /\ csSess' = csSess /\ csErr' = csErr
      \/ /\ from = None /\ csPc' = "failed" /\ csErr' = TRUE
         /\ csSess' = IF csSess = "implicit" THEN "ended" ELSE csSess
      \/ from # None /\ csPc' = "idle" /\ csErr' = TRUE /\ csSess' = csSess
  BY DEF AggregateFails, closeImplicitSession
<1>5. sessTime' \in PositionOrNone /\ csFailures' \in 0 .. MaxFailures
  <2>1. {csToken, csTime, sessTime, from} \subseteq PositionOrNone /\ Len(log) \in Positions
    BY <1>2 DEF StreamTypeOK
  <2>2. csFailures \in 0 .. MaxFailures /\ MaxFailures \in Nat
    BY <1>2, StreamAssumption DEF StreamTypeOK
  <2> QED
    BY <1>1, <2>1, <2>2 DEF PositionOrNone
<1>6. csSess' \in {"none", "implicit", "explicit", "ended"} /\ csErr' \in BOOLEAN
  BY <1>2, <1>4 DEF StreamTypeOK
<1>7. Shape'
  BY <1>1, <1>2, <1>3, <1>4 DEF Shape, Quiet
<1>8. Owned'
  BY <1>1, <1>2, <1>3, <1>4 DEF Owned, Quiet
<1>9. csPc' \in {"aggregate", "retry"} /\ csToken # None => StartsAt(cso', csToken)
  BY <1>1, <1>2 DEF Ahead
<1>10. version = "4.0.7" /\ from # None => csToken # None
  BY <1>1, <1>2 DEF Exact
<1>11. /\ cso' \in [resumeAfter : PositionOrNone, startAfter : PositionOrNone,
                    startAt : PositionOrNone]
       /\ csTry' \in BOOLEAN
       /\ csPc' \in {"new", "aggregate", "retry", "idle", "loop", "deliver", "resume", "failed",
                     "closed"}
  BY <1>1, <1>2, <1>4 DEF StreamTypeOK
<1> QED
  BY <1>1, <1>3, <1>5, <1>6, <1>7, <1>8, <1>9, <1>10, <1>11, QuietStep

(* The application asks for the next event. *)
LEMMA NextCallStep ==
  ASSUME StreamInv, NEW nonBlocking \in BOOLEAN, NextCall(nonBlocking)
  PROVE  StreamInv'
<1>1. /\ Quiet /\ sessTime' = sessTime /\ cso' = cso /\ csSess' = csSess /\ csErr' = csErr
      /\ csTry' = nonBlocking /\ csFailures' = csFailures
      /\ ~csErr /\ (csPc = "idle" \/ (csPc = "closed" /\ csBatch = {}))
      /\ csPc' = IF csBatch = {} THEN "loop" ELSE "deliver"
  BY DEF NextCall, Quiet
<1>2. StreamTypeOK /\ Shape /\ Owned /\ Ahead /\ Exact
  BY DEF StreamInv
<1>3. from # None /\ (csBatch # {} => csCur.open /\ ~csCur.first)
  BY <1>1, <1>2 DEF Shape
<1>4. Shape'
  BY <1>1, <1>2, <1>3 DEF Shape, Quiet
<1>5. Owned'
  BY <1>1, <1>2, <1>3 DEF Owned, Quiet
<1>6. csBatch # {} \/ csCur.id # 0 => csPc \in {"idle", "loop", "deliver"}
  BY <1>1, <1>2 DEF Owned
<1>7. sessTime' \in PositionOrNone
  BY <1>1, <1>2 DEF StreamTypeOK
<1>8. /\ cso' \in [resumeAfter : PositionOrNone, startAfter : PositionOrNone,
                   startAt : PositionOrNone]
      /\ csTry' \in BOOLEAN /\ csErr' \in BOOLEAN /\ csFailures' \in 0 .. MaxFailures
      /\ csSess' \in {"none", "implicit", "explicit", "ended"}
      /\ csPc' \in {"loop", "deliver"}
  BY <1>1, <1>2 DEF StreamTypeOK
<1> QED
  BY <1>1, <1>4, <1>5, <1>6, <1>7, <1>8, QuietStep

(* The server has closed the cursor, or the stream has none. *)
LEMMA NothingMoreStep ==
  ASSUME StreamInv, Exhausted \/ ClosedCursor
  PROVE  StreamInv'
<1>1. /\ Quiet /\ sessTime' = sessTime /\ cso' = cso /\ csSess' = csSess /\ csErr' = csErr
      /\ csTry' = csTry /\ csFailures' = csFailures /\ csPc = "loop"
      /\ \/ csCur.open /\ csCur.id = 0 /\ csPc' = "idle"
         \/ ~csCur.open /\ csPc' = "closed"
  BY DEF Exhausted, ClosedCursor, Quiet
<1>2. StreamTypeOK /\ Shape /\ Owned /\ Ahead /\ Exact
  BY DEF StreamInv
<1>3. from # None /\ csBatch = {} /\ csCur.id = 0
  BY <1>1, <1>2 DEF Shape, NoCursor
<1>4. Shape'
  BY <1>1, <1>2, <1>3 DEF Shape, Quiet
<1>5. Owned'
  BY <1>1, <1>2, <1>3 DEF Owned, Quiet
<1>6. sessTime' \in PositionOrNone
  BY <1>1, <1>2 DEF StreamTypeOK
<1>7. /\ cso' \in [resumeAfter : PositionOrNone, startAfter : PositionOrNone,
                   startAt : PositionOrNone]
      /\ csTry' \in BOOLEAN /\ csErr' \in BOOLEAN /\ csFailures' \in 0 .. MaxFailures
      /\ csSess' \in {"none", "implicit", "explicit", "ended"}
      /\ csPc' \in {"idle", "closed"}
  BY <1>1, <1>2 DEF StreamTypeOK
<1> QED
  BY <1>1, <1>3, <1>4, <1>5, <1>6, <1>7, QuietStep

(* The stream is closed by the application. *)
LEMMA CloseStep ==
  ASSUME StreamInv, Close
  PROVE  StreamInv'
<1>1. /\ log' = log /\ version' = version /\ cso' = cso /\ csToken' = csToken /\ csTime' = csTime
      /\ sessTime' = sessTime /\ csBatch' = csBatch /\ csTry' = csTry /\ csFailures' = csFailures
      /\ from' = from /\ delivered' = delivered
      /\ csPc = "idle" /\ csPc' = "closed" /\ csCur' = NoCursor
      /\ csSess' = IF csSess = "implicit" THEN "ended" ELSE csSess
      /\ cursors' = IF csCur.id # 0 THEN 0 ELSE cursors
  BY DEF Close, closeImplicitSession, KilledAtServer
<1>2. StreamTypeOK /\ Shape /\ Owned /\ Ahead /\ Exact
  BY DEF StreamInv
<1>3. csErr' \in BOOLEAN
  BY DEF Close
<1>4. /\ csCur'.open = FALSE /\ csCur'.first = FALSE /\ csCur'.id = 0 /\ csCur'.pos = 0
      /\ csCur' = NoCursor
  BY <1>1 DEF NoCursor
<1>5. cursors = csCur.id /\ cursors' = 0
  BY <1>1, <1>2 DEF Owned
<1>6. StreamTypeOK'
  <2>1. NoCursor \in [open : BOOLEAN, id : 0 .. 1, first : BOOLEAN, batch : SUBSET (1 .. MaxLog),
                      pos : Positions, pbrt : PositionOrNone]
    <3>1. 0 \in Positions /\ None \in PositionOrNone
      BY StreamAssumption DEF Positions, PositionOrNone
    <3> QED
      BY <3>1 DEF NoCursor
  <2> QED
    BY <1>1, <1>2, <1>3, <1>5, <2>1 DEF StreamTypeOK
<1>7. Shape'
  BY <1>1, <1>2, <1>4 DEF Shape
<1>8. Owned'
  BY <1>1, <1>2, <1>4, <1>5 DEF Owned
<1>9. Ahead'
  <2>1. Len(log) \in Nat
    BY <1>2, StreamTypes
  <2> QED
    BY <1>1, <1>2, <1>4, <2>1 DEF Ahead, NothingRepeated
<1>10. Exact'
  <2>1. Reached' = Reached /\ Given' = Given
    BY <1>1 DEF Reached, Given
  <2> QED
    BY <1>1, <1>2, <1>4, <2>1 DEF Exact
<1> QED
  BY <1>6, <1>7, <1>8, <1>9, <1>10 DEF StreamInv

(* The stream is made, with the options of the application. *)
LEMMA NewChangeStreamStep ==
  ASSUME StreamInv, NEW v \in {"3.6", "4.0", "4.0.7"}, NEW o \in UserOptions,
         NEW explicit \in BOOLEAN, NewChangeStream(v, o, explicit)
  PROVE  StreamInv'
<1>1. /\ log' = log /\ version' = v /\ cso' = o /\ csTime' = csTime
      /\ sessTime' = sessTime /\ csCur' = csCur /\ csBatch' = csBatch /\ csTry' = csTry
      /\ csErr' = csErr /\ csFailures' = csFailures /\ from' = from /\ delivered' = delivered
      /\ cursors' = cursors /\ csPc = "new" /\ csPc' = "aggregate"
      /\ csSess' \in {"explicit", "implicit"}
      /\ csToken' = IF o.startAfter # None THEN o.startAfter ELSE o.resumeAfter
  BY DEF NewChangeStream
<1>2. StreamTypeOK /\ Shape /\ Owned /\ Ahead
  BY DEF StreamInv
<1>3. /\ csCur = NoCursor /\ csBatch = {} /\ from = None /\ delivered = <<>> /\ cursors = 0
      /\ csCur.open = FALSE /\ csCur.first = FALSE /\ csCur.id = 0 /\ csCur.pos = 0
  <2>1. csCur = NoCursor /\ csBatch = {}
    BY <1>1, <1>2 DEF Shape
  <2>2. from = None
    BY <1>1, <1>2 DEF Shape
  <2> QED
    BY <1>2, <2>1, <2>2 DEF Shape, Owned, NoCursor
<1>4. Len(log) \in Nat /\ Len(log) <= MaxLog /\ MaxLog \in Nat
  BY <1>2, StreamTypes
<1>5. /\ o \in [resumeAfter : PositionOrNone, startAfter : PositionOrNone, startAt : PositionOrNone]
      /\ o.startAfter <= Len(log) /\ o.resumeAfter <= Len(log)
      /\ o.startAfter \in PositionOrNone /\ o.resumeAfter \in PositionOrNone
  <2>1. \A p \in 0 .. Len(log) : p \in PositionOrNone /\ p <= Len(log)
    BY <1>4 DEF PositionOrNone, Positions
  <2>2. None \in PositionOrNone /\ None <= Len(log)
    BY <1>4 DEF PositionOrNone, None
  <2> QED
    BY <2>1, <2>2 DEF UserOptions, NoOptions
<1>6. csToken' \in PositionOrNone /\ csToken' <= Len(log) /\ (csToken' # None => StartsAt(o, csToken'))
  BY <1>1, <1>5 DEF StartsAt
<1>7. StreamTypeOK'
  <2>1. {csToken', csTime', sessTime', from'} \subseteq PositionOrNone
    BY <1>1, <1>2, <1>6 DEF StreamTypeOK
  <2> QED
    BY <1>1, <1>2, <1>5, <2>1 DEF StreamTypeOK
<1>8. Shape'
  BY <1>1, <1>3 DEF Shape
<1>9. Owned'
  BY <1>1, <1>3 DEF Owned
<1>10. Ahead'
  BY <1>1, <1>2, <1>3, <1>6 DEF Ahead, NothingRepeated
<1>11. Exact'
  BY <1>1, <1>3 DEF Exact
<1> QED
  BY <1>7, <1>8, <1>9, <1>10, <1>11 DEF StreamInv

(* What loopNext does with a batch, empty or not, of its cursor. *)
LEMMA LoopedStep ==
  ASSUME StreamInv, csPc = "loop", NEW cur, Looped(cur),
         cur \in [open : BOOLEAN, id : 0 .. 1, first : BOOLEAN, batch : SUBSET (1 .. MaxLog),
                 pos : Positions, pbrt : PositionOrNone],
         cur.open = TRUE, cur.first = FALSE, cursors' = cur.id, sessTime' \in PositionOrNone,
         cur.pos <= Len(log), cur.pbrt = PbrtOf(cur.pos), csToken <= cur.pos,
         \A e \in cur.batch : csToken < e /\ e <= cur.pos,
         version = "4.0.7" /\ from # None =>
           cur.batch = Between(log, Reached, cur.pos) /\ Reached <= cur.pos
  PROVE  StreamInv'
<1>1. /\ log' = log /\ version' = version /\ cso' = cso /\ csTime' = csTime /\ csSess' = csSess
      /\ csTry' = csTry /\ csErr' = csErr /\ csFailures' = csFailures /\ from' = from
      /\ delivered' = delivered /\ csCur' = cur
      /\ csToken' = IF cur.batch = {} /\ cur.id # 0 THEN updatePbrt(csToken, cur) ELSE csToken
      /\ csBatch' = IF cur.batch # {} THEN cur.batch ELSE csBatch
  BY DEF Looped
<1>2. /\ cur.batch # {} => csPc' = "deliver"
      /\ cur.batch = {} => csPc' = "idle" \/ csPc' = "loop"
  BY DEF Looped
<1>3. StreamTypeOK /\ Shape /\ Owned /\ Ahead /\ Exact
  BY DEF StreamInv
<1>4. csBatch = {} /\ from # None /\ csBatch' = cur.batch
  BY <1>1, <1>3 DEF Shape
<1>5. /\ Len(log) \in Nat /\ csToken \in Int /\ from \in Int /\ -1 <= csToken /\ -1 <= from
      /\ MaxLog \in Nat /\ cur.pos \in Int /\ 0 <= cur.pos /\ cur.batch \subseteq 1 .. MaxLog
      /\ csToken \in PositionOrNone /\ cur.pbrt \in PositionOrNone /\ cur.id \in 0 .. 1
  <2>1. csToken \in PositionOrNone /\ cur.pos \in Positions
    BY <1>3 DEF StreamTypeOK
  <2>2. cur.pos \in Int /\ 0 <= cur.pos
    BY <2>1, StreamAssumption DEF Positions
  <2> QED
    BY <1>3, <2>1, <2>2, StreamTypes
<1>6. csToken' = IF cur.batch = {} /\ cur.id # 0 /\ version = "4.0.7" THEN cur.pos ELSE csToken
  BY <1>1, <1>5 DEF updatePbrt, PbrtOf, None
<1>7. csToken <= csToken' /\ csToken' <= cur.pos /\ csToken' \in PositionOrNone /\ csToken' \in Int
  BY <1>1, <1>5, <1>6 DEF PositionOrNone
<1>8. StreamTypeOK'
  <2>1. {csToken', csTime', sessTime', from'} \subseteq PositionOrNone
    BY <1>1, <1>3, <1>7 DEF StreamTypeOK
  <2>2. csPc' \in {"new", "aggregate", "retry", "idle", "loop", "deliver", "resume", "failed",
                   "closed"}
    BY <1>2
  <2>3. csCur' \in [open : BOOLEAN, id : 0 .. 1, first : BOOLEAN, batch : SUBSET (1 .. MaxLog),
                    pos : Positions, pbrt : PositionOrNone]
    BY <1>1
  <2>4. cursors' \in 0 .. 1 /\ csBatch' \subseteq 1 .. MaxLog
    BY <1>4, <1>5
  <2> QED
    BY <1>1, <1>3, <2>1, <2>2, <2>3, <2>4 DEF StreamTypeOK
<1>9. Shape'
  BY <1>1, <1>2, <1>3, <1>4 DEF Shape
<1>10. Owned'
  BY <1>1, <1>2, <1>3, <1>4 DEF Owned
<1>11. Ahead'
  <2>1. csToken' <= Len(log') /\ from' <= Len(log') /\ csCur'.pos <= Len(log')
    BY <1>1, <1>3, <1>5, <1>7 DEF Ahead
  <2>2. csCur'.pbrt = IF version' = "4.0.7" THEN csCur'.pos ELSE None
    BY <1>1 DEF PbrtOf
  <2>3. NothingRepeated' /\ \A i \in DOMAIN delivered' : delivered'[i] <= csToken'
    <3>1. NothingRepeated /\ \A i \in DOMAIN delivered : delivered[i] <= csToken
      BY <1>3 DEF Ahead
    <3>2. \A i \in DOMAIN delivered : delivered[i] \in Int
      <4>1. delivered \in Seq(1 .. MaxLog)
        BY <1>3 DEF StreamTypeOK
      <4> QED
        BY <1>5, <4>1
    <3>3. \A i \in DOMAIN delivered : delivered[i] <= csToken'
      BY <1>5, <1>7, <3>1, <3>2
    <3> QED
      BY <1>1, <3>1, <3>3 DEF NothingRepeated
  <2>4. \A e \in csBatch' : csToken' < e /\ e <= csCur'.pos
    BY <1>1, <1>4, <1>6
  <2>5. csCur'.first = FALSE /\ csToken' <= csCur'.pos /\ csPc' \notin {"aggregate", "retry"}
    BY <1>1, <1>2, <1>7
  <2> QED
    BY <2>1, <2>2, <2>3, <2>4, <2>5 DEF Ahead, PbrtOf
<1>12. Exact'
  <2>1. SUFFICES ASSUME version = "4.0.7" PROVE Exact'
    BY <1>1 DEF Exact
  <2>2. /\ Given = Between(log, from, Reached) /\ (csToken # None => from <= csToken)
        /\ cur.batch = Between(log, Reached, cur.pos) /\ Reached <= cur.pos
    BY <1>3, <1>4, <2>1 DEF Exact
  <2>3. Reached \in Int /\ from <= Reached /\ 0 <= from
    BY <1>4, <1>5, <2>2 DEF Reached, None
  <2>4. Given' = Given
    BY <1>1 DEF Given
  <2>5. CASE cur.batch = {} /\ cur.id # 0
    <3>1. csToken' = cur.pos /\ csToken' # None /\ Reached' = cur.pos
      BY <1>5, <1>6, <2>1, <2>5 DEF Reached, None
    <3>2. Between(log, from, cur.pos) = Given
      <4>1. Between(log, from, cur.pos) = Between(log, from, Reached) \cup Between(log, Reached, cur.pos)
        BY <1>5, <2>2, <2>3, BetweenJoined
      <4> QED
        BY <2>2, <2>5, <4>1
    <3>3. Between(log, cur.pos, cur.pos) = {}
      BY <1>5, BetweenNothing
    <3>4. from <= cur.pos
      BY <1>5, <2>2, <2>3
    <3> QED
      BY <1>1, <1>2, <1>4, <1>5, <2>4, <2>5, <3>1, <3>2, <3>3, <3>4 DEF Exact
  <2>6. CASE ~(cur.batch = {} /\ cur.id # 0)
    <3>1. csToken' = csToken /\ Reached' = Reached
      BY <1>1, <1>6, <2>6 DEF Reached
    <3> QED
      BY <1>1, <1>2, <1>4, <2>2, <2>4, <2>6, <3>1 DEF Exact
  <2> QED
    BY <2>5, <2>6
<1> QED
  BY <1>8, <1>9, <1>10, <1>11, <1>12 DEF StreamInv

(* The first batch, which the cursor came with. *)
LEMMA FirstBatchStep ==
  ASSUME StreamInv, FirstBatch
  PROVE  StreamInv'
<1>1. PICK cur : cur = [csCur EXCEPT !.first = FALSE]
  OBVIOUS
<1>2. csPc = "loop" /\ csCur.first /\ Looped(cur) /\ sessTime' = sessTime /\ cursors' = cursors
  BY <1>1 DEF FirstBatch
<1>3. StreamTypeOK /\ Shape /\ Owned /\ Ahead /\ Exact
  BY DEF StreamInv
<1>4. csCur \in [open : BOOLEAN, id : 0 .. 1, first : BOOLEAN, batch : SUBSET (1 .. MaxLog),
                 pos : Positions, pbrt : PositionOrNone]
  BY <1>3 DEF StreamTypeOK
<1>5. /\ cur \in [open : BOOLEAN, id : 0 .. 1, first : BOOLEAN, batch : SUBSET (1 .. MaxLog),
                 pos : Positions, pbrt : PositionOrNone]
      /\ cur.open = csCur.open /\ cur.id = csCur.id /\ cur.first = FALSE
      /\ cur.batch = csCur.batch /\ cur.pos = csCur.pos /\ cur.pbrt = csCur.pbrt
  BY <1>1, <1>4
<1>6. csCur.open /\ csCur.id # 0
  BY <1>2, <1>3 DEF Shape, NoCursor
<1>7. cur.open = TRUE
  <2>1. csCur.open \in BOOLEAN
    BY <1>3, StreamTypes
  <2> QED
    BY <1>5, <1>6, <2>1
<1>8. /\ csCur.pos <= Len(log) /\ csCur.pbrt = PbrtOf(csCur.pos) /\ csToken <= csCur.pos
      /\ \A e \in csCur.batch : csToken < e /\ e <= csCur.pos
  BY <1>2, <1>3, <1>6 DEF Ahead
<1>9. version = "4.0.7" /\ from # None =>
        csCur.batch = Between(log, Reached, csCur.pos) /\ Reached <= csCur.pos
  BY <1>2, <1>3, <1>6 DEF Exact
<1>10. cursors' = cur.id /\ sessTime' \in PositionOrNone
  BY <1>2, <1>3, <1>5 DEF Owned, StreamTypeOK
<1> QED
  BY <1>2, <1>5, <1>7, <1>8, <1>9, <1>10, LoopedStep

(* Matching is what is between two places of the log. *)
LEMMA MatchingIsBetween ==
  ASSUME NEW p, NEW q
  PROVE  Matching(p, q) = Between(log, p, q)
BY DEF Matching, Between

(* A further batch, which begins where the last one ended. *)
LEMMA GetMoreStep ==
  ASSUME StreamInv, NEW q \in Positions, NEW ends \in BOOLEAN, GetMore(q, ends)
  PROVE  StreamInv'
<1>1. PICK cur : cur = [csCur EXCEPT !.batch = Matching(csCur.pos, q), !.pos = q, !.pbrt = PbrtOf(q),
                                     !.id = IF ends THEN 0 ELSE 1]
  OBVIOUS
<1>2. /\ csPc = "loop" /\ csCur.id # 0 /\ ~csCur.first /\ Looped(cur)
      /\ q \in csCur.pos .. Len(log) /\ sessTime' = Len(log)
      /\ cursors' = IF ends THEN 0 ELSE cursors
  BY <1>1 DEF GetMore
<1>3. StreamTypeOK /\ Shape /\ Owned /\ Ahead /\ Exact
  BY DEF StreamInv
<1>4. /\ Len(log) \in Nat /\ Len(log) <= MaxLog /\ MaxLog \in Nat /\ csToken \in Int /\ from \in Int
      /\ csCur.pos \in Int /\ 0 <= csCur.pos /\ q \in Int /\ csCur.pos <= q /\ q <= Len(log)
      /\ csCur.open \in BOOLEAN /\ csCur.first \in BOOLEAN /\ csCur.id \in 0 .. 1
  <2>1. /\ Len(log) \in Nat /\ Len(log) <= MaxLog /\ MaxLog \in Nat /\ csToken \in Int
        /\ from \in Int /\ csCur.pos \in Int /\ 0 <= csCur.pos
        /\ csCur.open \in BOOLEAN /\ csCur.first \in BOOLEAN /\ csCur.id \in 0 .. 1
    BY <1>3, StreamTypes
  <2> QED
    BY <1>2, <2>1
<1>5. csCur \in [open : BOOLEAN, id : 0 .. 1, first : BOOLEAN, batch : SUBSET (1 .. MaxLog),
                 pos : Positions, pbrt : PositionOrNone]
  BY <1>3 DEF StreamTypeOK
<1>6. Matching(csCur.pos, q) \subseteq 1 .. MaxLog /\ \A e \in Matching(csCur.pos, q) :
        e \in Int /\ csCur.pos < e /\ e <= q
  BY <1>4 DEF Matching
<1>7. PbrtOf(q) \in PositionOrNone
  BY DEF PbrtOf, PositionOrNone
<1>8. /\ cur \in [open : BOOLEAN, id : 0 .. 1, first : BOOLEAN, batch : SUBSET (1 .. MaxLog),
                 pos : Positions, pbrt : PositionOrNone]
      /\ cur.open = csCur.open /\ cur.first = csCur.first /\ cur.pos = q /\ cur.pbrt = PbrtOf(q)
      /\ cur.batch = Matching(csCur.pos, q) /\ cur.id = IF ends THEN 0 ELSE 1
  <2>1. PICK id : id = IF ends THEN 0 ELSE 1
    OBVIOUS
  <2>2. PICK b : b = Matching(csCur.pos, q)
    OBVIOUS
  <2>3. PICK t : t = PbrtOf(q)
    OBVIOUS
  <2>4. id \in 0 .. 1 /\ b \in SUBSET (1 .. MaxLog) /\ t \in PositionOrNone
    BY <1>6, <1>7, <2>1, <2>2, <2>3
  <2>5. cur = [csCur EXCEPT !.batch = b, !.pos = q, !.pbrt = t, !.id = id]
    BY <1>1, <2>1, <2>2, <2>3
  <2>6. /\ cur \in [open : BOOLEAN, id : 0 .. 1, first : BOOLEAN, batch : SUBSET (1 .. MaxLog),
                   pos : Positions, pbrt : PositionOrNone]
        /\ cur.open = csCur.open /\ cur.first = csCur.first /\ cur.pos = q /\ cur.pbrt = t
        /\ cur.batch = b /\ cur.id = id
    BY <1>5, <2>4, <2>5
  <2> QED
    BY <2>1, <2>2, <2>3, <2>6
<1>9. cur.open = TRUE /\ cur.first = FALSE
  <2>1. csCur.open
    BY <1>2, <1>3 DEF Shape, NoCursor
  <2> QED
    BY <1>2, <1>4, <1>8, <2>1
<1>10. cursors' = cur.id /\ sessTime' \in PositionOrNone
  <2>1. csCur.id = 1 /\ cursors = 1
    BY <1>2, <1>3, <1>4 DEF Owned
  <2>2. Len(log) \in PositionOrNone
    BY <1>3 DEF StreamTypeOK, PositionOrNone
  <2> QED
    BY <1>2, <1>8, <2>1, <2>2
<1>11. csToken <= csCur.pos
  BY <1>2, <1>3 DEF Ahead
<1>12. csToken <= cur.pos /\ cur.pos <= Len(log) /\ \A e \in cur.batch : csToken < e /\ e <= cur.pos
  BY <1>4, <1>6, <1>8, <1>11
<1>13. ASSUME version = "4.0.7", from # None
       PROVE  cur.batch = Between(log, Reached, cur.pos) /\ Reached <= cur.pos
  <2>1. csBatch = {} /\ csCur.open
    BY <1>2, <1>3 DEF Shape, NoCursor
  <2>2. Reached <= csCur.pos /\ {} = Between(log, Reached, csCur.pos)
    BY <1>2, <1>3, <1>13, <2>1 DEF Exact
  <2>3. Reached \in Int
    BY <1>4 DEF Reached
  <2>4. Between(log, Reached, q) = Between(log, Reached, csCur.pos) \cup Between(log, csCur.pos, q)
    BY <1>4, <2>2, <2>3, BetweenJoined
  <2>5. cur.batch = Between(log, csCur.pos, q)
    BY <1>8, MatchingIsBetween
  <2>6. cur.batch = Between(log, Reached, cur.pos)
    BY <1>8, <2>2, <2>4, <2>5
  <2> QED
    BY <1>4, <1>8, <2>2, <2>3, <2>6
<1> QED
  BY <1>2, <1>8, <1>9, <1>10, <1>12, <1>13, LoopedStep

(* The command for a further batch fails: the cursor is killed, to make    *)
(* another, or the stream has failed.                                      *)
LEMMA GetMoreFailsStep ==
  ASSUME StreamInv, NEW reply \in BOOLEAN, NEW resumable \in BOOLEAN, GetMoreFails(reply, resumable)
  PROVE  StreamInv'
<1>1. /\ log' = log /\ version' = version /\ cso' = cso /\ csToken' = csToken /\ csTime' = csTime
      /\ csSess' = csSess /\ csBatch' = csBatch /\ csTry' = csTry /\ from' = from
      /\ delivered' = delivered /\ csPc = "loop" /\ csCur.id # 0 /\ ~csCur.first
      /\ sessTime' \in {sessTime, Len(log)}
      /\ csFailures < MaxFailures /\ csFailures' = csFailures + 1
  BY DEF GetMoreFails, Fails
<1>2. \/ /\ csCur' = [csCur EXCEPT !.id = 0, !.batch = {}] /\ cursors' = 0 /\ csPc' = "resume"
         /\ csErr' = csErr
      \/ /\ csCur' = [csCur EXCEPT !.batch = {}] /\ cursors' = cursors /\ csPc' = "idle"
         /\ csErr' = TRUE
  BY <1>1 DEF GetMoreFails, KillCursor, KilledAtServer
<1>3. StreamTypeOK /\ Shape /\ Owned /\ Ahead /\ Exact
  BY DEF StreamInv
<1>4. csCur \in [open : BOOLEAN, id : 0 .. 1, first : BOOLEAN, batch : SUBSET (1 .. MaxLog),
                 pos : Positions, pbrt : PositionOrNone]
  BY <1>3 DEF StreamTypeOK
<1>5. /\ csCur' \in [open : BOOLEAN, id : 0 .. 1, first : BOOLEAN, batch : SUBSET (1 .. MaxLog),
                    pos : Positions, pbrt : PositionOrNone]
      /\ csCur'.open = csCur.open /\ csCur'.first = csCur.first /\ csCur'.pos = csCur.pos
      /\ csCur'.pbrt = csCur.pbrt /\ csCur'.batch = {} /\ csCur'.id \in {0, csCur.id}
      /\ csCur'.id = IF csPc' = "resume" THEN 0 ELSE csCur.id
  <2>1. CASE csCur' = [csCur EXCEPT !.id = 0, !.batch = {}] /\ csPc' = "resume"
    <3>1. {} \in SUBSET (1 .. MaxLog) /\ 0 \in 0 .. 1
      OBVIOUS
    <3>2. PICK cur : cur = [csCur EXCEPT !.id = 0, !.batch = {}]
      OBVIOUS
    <3>3. /\ cur \in [open : BOOLEAN, id : 0 .. 1, first : BOOLEAN, batch : SUBSET (1 .. MaxLog),
                     pos : Positions, pbrt : PositionOrNone]
          /\ cur.open = csCur.open /\ cur.first = csCur.first /\ cur.pos = csCur.pos
          /\ cur.pbrt = csCur.pbrt /\ cur.batch = {} /\ cur.id = 0
      BY <1>4, <3>1, <3>2
    <3> QED
      BY <2>1, <3>2, <3>3
  <2>2. CASE csCur' = [csCur EXCEPT !.batch = {}] /\ csPc' = "idle"
    <3>1. {} \in SUBSET (1 .. MaxLog) /\ csPc' # "resume"
      BY <2>2
    <3>2. PICK cur : cur = [csCur EXCEPT !.batch = {}]
      OBVIOUS
    <3>3. /\ cur \in [open : BOOLEAN, id : 0 .. 1, first : BOOLEAN, batch : SUBSET (1 .. MaxLog),
                     pos : Positions, pbrt : PositionOrNone]
          /\ cur.open = csCur.open /\ cur.first = csCur.first /\ cur.pos = csCur.pos
          /\ cur.pbrt = csCur.pbrt /\ cur.batch = {} /\ cur.id = csCur.id
      BY <1>4, <3>1, <3>2
    <3> QED
      BY <2>2, <3>1, <3>2, <3>3
  <2> QED
    BY <1>2, <2>1, <2>2
<1>6. csCur.open /\ csBatch = {} /\ from # None
  BY <1>1, <1>3 DEF Shape, NoCursor
<1>7. StreamTypeOK'
  <2>1. {csToken, csTime, sessTime, from} \subseteq PositionOrNone /\ Len(log) \in PositionOrNone
    BY <1>3 DEF StreamTypeOK, PositionOrNone
  <2>2. {csToken', csTime', sessTime', from'} \subseteq PositionOrNone
    BY <1>1, <2>1
  <2>3. csFailures' \in 0 .. MaxFailures
    BY <1>1, <1>3, StreamAssumption DEF StreamTypeOK
  <2>4. cursors' \in 0 .. 1 /\ csErr' \in BOOLEAN /\ csPc' \in {"idle", "resume"}
    <3>1. cursors \in 0 .. 1 /\ csErr \in BOOLEAN
      BY <1>3 DEF StreamTypeOK
    <3>2. csErr' \in BOOLEAN
      BY <1>2, <3>1, Zenon
    <3> QED
      BY <1>2, <3>1, <3>2
  <2> QED
    BY <1>1, <1>3, <1>5, <2>2, <2>3, <2>4 DEF StreamTypeOK
<1>8. Shape'
  BY <1>1, <1>2, <1>3, <1>5, <1>6 DEF Shape
<1>9. Owned'
  BY <1>1, <1>2, <1>3, <1>5, <1>6 DEF Owned
<1>10. Ahead'
  BY <1>1, <1>2, <1>3, <1>5, <1>6 DEF Ahead, PbrtOf, NothingRepeated
<1>11. Exact'
  <2>1. Reached' = Reached /\ Given' = Given
    BY <1>1 DEF Reached, Given
  <2>2. SUFFICES ASSUME version = "4.0.7" PROVE Exact'
    BY <1>1 DEF Exact
  <2>3. csToken # None /\ Reached <= csCur.pos /\ {} = Between(log, Reached, csCur.pos)
    BY <1>1, <1>3, <1>6, <2>2 DEF Exact
  <2>4. Given = Between(log, from, Reached) /\ from <= csToken
    BY <1>3, <1>6, <2>2, <2>3 DEF Exact
  <2> QED
    BY <1>1, <1>2, <1>5, <1>6, <2>1, <2>3, <2>4 DEF Exact
<1> QED
  BY <1>7, <1>8, <1>9, <1>10, <1>11 DEF StreamInv

(* A cursor is made: it starts where the application asked, or at the      *)
(* token.                                                                  *)
LEMMA AggregateSucceedsStep ==
  ASSUME StreamInv, NEW q \in Positions, AggregateSucceeds(q)
  PROVE  StreamInv'
<1>1. PICK p : p = StartPos(cso)
  OBVIOUS
<1>2. PICK cur : cur = [open |-> TRUE, id |-> 1, first |-> TRUE, batch |-> Matching(p, q), pos |-> q,
                        pbrt |-> PbrtOf(q)]
  OBVIOUS
<1>3. /\ log' = log /\ version' = version /\ cso' = cso /\ csSess' = csSess /\ csBatch' = csBatch
      /\ csTry' = csTry /\ csErr' = csErr /\ csFailures' = csFailures /\ delivered' = delivered
      /\ csPc \in {"aggregate", "retry"} /\ q \in p .. Len(log) /\ csCur' = cur
      /\ cursors' = cursors + 1 /\ sessTime' = Len(log) /\ csToken' = updatePbrt(csToken, cur)
      /\ from' = IF from = None THEN p ELSE from
      /\ csPc' = IF from = None THEN "idle" ELSE "loop"
      /\ csTime' \in {csTime, Len(log)}
  BY <1>1, <1>2 DEF AggregateSucceeds
<1>4. StreamTypeOK /\ Shape /\ Owned /\ Ahead /\ Exact
  BY DEF StreamInv
<1>5. /\ Len(log) \in Nat /\ Len(log) <= MaxLog /\ MaxLog \in Nat /\ csToken \in Int /\ -1 <= csToken
      /\ csToken <= MaxLog /\ from \in Int /\ -1 <= from /\ from <= MaxLog
  BY <1>4, StreamTypes
<1>6. p \in Int /\ 0 <= p /\ (csToken # None => p = csToken)
  <2>1. cso \in [resumeAfter : PositionOrNone, startAfter : PositionOrNone, startAt : PositionOrNone]
    BY <1>4 DEF StreamTypeOK
  <2>2. \A x \in PositionOrNone : x # None => x \in Int /\ 0 <= x
    BY <1>5 DEF PositionOrNone, Positions
  <2>3. p \in Int /\ 0 <= p
    BY <1>1, <1>5, <2>1, <2>2 DEF StartPos
  <2>4. csToken # None => StartsAt(cso, csToken)
    BY <1>3, <1>4 DEF Ahead
  <2>5. csToken # None => p = csToken
    BY <1>1, <2>4 DEF StartPos, StartsAt
  <2> QED
    BY <2>3, <2>5
<1>7. q \in Int /\ p <= q /\ q <= Len(log) /\ csToken <= p /\ p <= MaxLog
  BY <1>3, <1>5, <1>6 DEF None
<1>8. /\ Matching(p, q) \subseteq 1 .. MaxLog
      /\ \A e \in Matching(p, q) : e \in Int /\ p < e /\ e <= q
  BY <1>5, <1>6, <1>7 DEF Matching
<1>9. /\ csCur' \in [open : BOOLEAN, id : 0 .. 1, first : BOOLEAN, batch : SUBSET (1 .. MaxLog),
                    pos : Positions, pbrt : PositionOrNone]
      /\ csCur'.open = TRUE /\ csCur'.id = 1 /\ csCur'.first = TRUE /\ csCur'.pos = q
      /\ csCur'.batch = Matching(p, q) /\ csCur'.pbrt = PbrtOf(q)
  <2>1. PICK b : b = Matching(p, q)
    OBVIOUS
  <2>2. PICK t : t = PbrtOf(q)
    OBVIOUS
  <2>3. t \in PositionOrNone /\ b \in SUBSET (1 .. MaxLog)
    BY <1>8, <2>1, <2>2 DEF PbrtOf, PositionOrNone
  <2>4. cur = [open |-> TRUE, id |-> 1, first |-> TRUE, batch |-> b, pos |-> q, pbrt |-> t]
    BY <1>2, <2>1, <2>2
  <2>5. /\ cur \in [open : BOOLEAN, id : 0 .. 1, first : BOOLEAN, batch : SUBSET (1 .. MaxLog),
                   pos : Positions, pbrt : PositionOrNone]
        /\ cur.open = TRUE /\ cur.id = 1 /\ cur.first = TRUE /\ cur.pos = q
        /\ cur.batch = b /\ cur.pbrt = t
    BY <2>3, <2>4
  <2> QED
    BY <1>3, <2>1, <2>2, <2>5
<1>10. csToken' = IF Matching(p, q) = {} /\ version = "4.0.7" THEN q ELSE csToken
  BY <1>3, <1>6, <1>7, <1>9 DEF updatePbrt, PbrtOf, None
<1>11. csToken' \in Int /\ csToken <= csToken' /\ csToken' <= q
  BY <1>5, <1>6, <1>7, <1>10
<1>12. csBatch = {} /\ csCur.id = 0 /\ cursors = 0
  BY <1>3, <1>4 DEF Shape, Owned
<1>13. from' # None
  BY <1>3, <1>6 DEF None
<1>14. StreamTypeOK'
  <2>1. {csToken, csTime, sessTime, from} \subseteq PositionOrNone /\ Len(log) \in PositionOrNone
    BY <1>4 DEF StreamTypeOK, PositionOrNone
  <2>2. p \in PositionOrNone /\ q \in PositionOrNone
    BY <1>5, <1>6, <1>7 DEF PositionOrNone, Positions
  <2>3. {csToken', csTime', sessTime', from'} \subseteq PositionOrNone
    BY <1>3, <1>10, <2>1, <2>2
  <2>4. cursors' \in 0 .. 1
    BY <1>3, <1>12
  <2> QED
    BY <1>3, <1>4, <1>9, <2>3, <2>4 DEF StreamTypeOK
<1>15. Shape'
  BY <1>3, <1>4, <1>9, <1>12, <1>13 DEF Shape
<1>16. Owned'
  BY <1>3, <1>4, <1>9, <1>12 DEF Owned
<1>17. Ahead'
  <2>1. csToken' <= Len(log') /\ from' <= Len(log') /\ csCur'.pos <= Len(log')
    BY <1>3, <1>4, <1>5, <1>6, <1>7, <1>9, <1>11 DEF Ahead
  <2>2. csCur'.pbrt = IF version' = "4.0.7" THEN csCur'.pos ELSE None
    BY <1>3, <1>9 DEF PbrtOf
  <2>3. NothingRepeated' /\ \A i \in DOMAIN delivered' : delivered'[i] <= csToken'
    <3>1. NothingRepeated /\ \A i \in DOMAIN delivered : delivered[i] <= csToken
      BY <1>4 DEF Ahead
    <3>2. \A i \in DOMAIN delivered : delivered[i] \in Int
      <4>1. delivered \in Seq(1 .. MaxLog)
        BY <1>4 DEF StreamTypeOK
      <4> QED
        BY <1>5, <4>1
    <3>3. \A i \in DOMAIN delivered : delivered[i] <= csToken'
      BY <1>5, <1>11, <3>1, <3>2
    <3> QED
      BY <1>3, <3>1, <3>3 DEF NothingRepeated
  <2>4. csBatch' = {} /\ csPc' \notin {"aggregate", "retry"} /\ csToken' <= csCur'.pos
    BY <1>3, <1>9, <1>11, <1>12
  <2>5. \A e \in csCur'.batch : csToken' < e /\ e <= csCur'.pos
    BY <1>5, <1>6, <1>7, <1>8, <1>9, <1>10
  <2> QED
    BY <2>1, <2>2, <2>3, <2>4, <2>5 DEF Ahead, PbrtOf
<1>18. Exact'
  <2>1. SUFFICES ASSUME version = "4.0.7" PROVE Exact'
    BY <1>3 DEF Exact
  <2>2. Given' = Given
    BY <1>3 DEF Given
  <2>3. PICK f : f = from'
    OBVIOUS
  <2>4. PICK r : r = IF csToken = None THEN p ELSE csToken
    OBVIOUS
  <2>5. r = p
    BY <1>6, <2>4
  <2>6. f \in Int /\ 0 <= f /\ f <= p /\ Given = Between(log, f, p)
    <3>1. CASE from = None
      <4>1. f = p /\ delivered = <<>>
        BY <1>3, <1>4, <2>3, <3>1 DEF Shape
      <4>2. Given = {}
        BY <4>1 DEF Given
      <4> QED
        BY <1>6, <4>1, <4>2, BetweenNothing
    <3>2. CASE from # None
      <4>1. csToken # None /\ from <= csToken /\ Given = Between(log, from, Reached)
        BY <1>3, <1>4, <2>1, <3>2 DEF Exact
      <4>2. f = from /\ p = csToken /\ Reached = csToken
        BY <1>3, <1>6, <2>3, <3>2, <4>1 DEF Reached
      <4>3. 0 <= from
        BY <1>5, <3>2 DEF None
      <4> QED
        BY <1>5, <4>1, <4>2, <4>3
    <3> QED
      BY <3>1, <3>2
  <2>7. csPc' \notin {"resume", "aggregate", "retry"}
    BY <1>3
  <2>8. CASE Matching(p, q) = {}
    <3>1. csToken' = q /\ csToken' # None /\ Reached' = q
      BY <1>6, <1>7, <1>10, <2>1, <2>8 DEF Reached, None
    <3>2. Between(log, f, q) = Between(log, f, p) \cup Between(log, p, q)
      BY <1>6, <1>7, <2>6, BetweenJoined
    <3>3. Between(log, p, q) = {}
      BY <2>8, MatchingIsBetween
    <3>4. Given = Between(log, f, q) /\ f <= q /\ Between(log, q, q) = {}
      BY <1>6, <1>7, <2>6, <3>2, <3>3, BetweenNothing
    <3> QED
      BY <1>3, <1>7, <1>9, <1>12, <2>2, <2>3, <2>7, <2>8, <3>1, <3>4 DEF Exact
  <2>9. CASE Matching(p, q) # {}
    <3>1. csToken' = csToken
      BY <1>10, <2>9
    <3>2. Reached' = p
      <4>1. CASE csToken = None
        <5>1. from = None
          BY <1>3, <1>4, <2>1, <4>1 DEF Exact
        <5> QED
          BY <1>3, <3>1, <4>1, <5>1 DEF Reached
      <4>2. CASE csToken # None
        BY <1>6, <3>1, <4>2 DEF Reached
      <4> QED
        BY <4>1, <4>2
    <3>3. csCur'.batch = Between(log, p, q)
      BY <1>9, MatchingIsBetween
    <3>4. csToken' # None => f <= csToken'
      BY <1>6, <2>6, <3>1
    <3> QED
      BY <1>3, <1>7, <1>9, <1>12, <2>2, <2>3, <2>6, <2>7, <3>2, <3>3, <3>4 DEF Exact
  <2> QED
    BY <2>8, <2>9
<1> QED
  BY <1>14, <1>15, <1>16, <1>17, <1>18 DEF StreamInv

(* The event without an _id closes the stream, and is not given.           *)
LEMMA DeliverMissingStep ==
  ASSUME StreamInv, csPc = "deliver", csPc' = "idle", NEW e \in csBatch, csBatch' = csBatch \ {e},
         csErr' = TRUE, csCur' = NoCursor, cursors' = KilledAtServer(csCur), closeImplicitSession,
         UNCHANGED <<log, version, cso, csToken, csTime, sessTime, csTry, csFailures, from, delivered>>
  PROVE  StreamInv'
<1>1. /\ log' = log /\ version' = version /\ cso' = cso /\ csToken' = csToken /\ csTime' = csTime
      /\ sessTime' = sessTime /\ csTry' = csTry /\ csFailures' = csFailures
      /\ from' = from /\ delivered' = delivered
      /\ csSess' = IF csSess = "implicit" THEN "ended" ELSE csSess
      /\ cursors' = IF csCur.id # 0 THEN 0 ELSE cursors
  BY DEF closeImplicitSession, KilledAtServer
<1>2. StreamTypeOK /\ Shape /\ Owned /\ Ahead /\ Exact
  BY DEF StreamInv
<1>3. /\ csCur'.open = FALSE /\ csCur'.first = FALSE /\ csCur'.id = 0 /\ csCur'.pos = 0
      /\ csCur' = NoCursor
  BY DEF NoCursor
<1>4. cursors = csCur.id /\ cursors' = 0
  BY <1>1, <1>2 DEF Owned
<1>5. StreamTypeOK'
  <2>1. NoCursor \in [open : BOOLEAN, id : 0 .. 1, first : BOOLEAN, batch : SUBSET (1 .. MaxLog),
                      pos : Positions, pbrt : PositionOrNone]
    <3>1. 0 \in Positions /\ None \in PositionOrNone
      BY StreamAssumption DEF Positions, PositionOrNone
    <3> QED
      BY <3>1 DEF NoCursor
  <2>2. csErr' \in BOOLEAN
    OBVIOUS
  <2> QED
    BY <1>1, <1>2, <1>4, <2>1, <2>2 DEF StreamTypeOK
<1>6. Shape'
  BY <1>1, <1>2, <1>3 DEF Shape
<1>7. Owned'
  BY <1>1, <1>2, <1>3, <1>4 DEF Owned
<1>8. Ahead'
  <2>1. Len(log) \in Nat
    BY <1>2, StreamTypes
  <2> QED
    BY <1>1, <1>2, <1>3, <2>1 DEF Ahead, NothingRepeated
<1>9. Exact'
  <2>1. Reached' = Reached /\ Given' = Given
    BY <1>1 DEF Reached, Given
  <2> QED
    BY <1>1, <1>2, <1>3, <2>1 DEF Exact
<1> QED
  BY <1>5, <1>6, <1>7, <1>8, <1>9 DEF StreamInv

(* The earliest event of the batch is given, and the token is its own or,  *)
(* with the last one, that of the whole batch.                             *)
LEMMA DeliverEventStep ==
  ASSUME StreamInv, csPc = "deliver", csPc' = "idle",
         NEW e \in csBatch, \A f \in csBatch : e <= f, csBatch' = csBatch \ {e},
         delivered' = Append(delivered, e), csToken' = storeResumeToken(e, csBatch \ {e}),
         csErr' = FALSE, UNCHANGED <<csCur, cursors, csSess>>,
         UNCHANGED <<log, version, cso, csTime, sessTime, csTry, csFailures, from>>
  PROVE  StreamInv'
<1>1. /\ log' = log /\ version' = version /\ cso' = cso /\ csTime' = csTime /\ csSess' = csSess
      /\ sessTime' = sessTime /\ csTry' = csTry /\ csFailures' = csFailures
      /\ from' = from /\ csCur' = csCur /\ cursors' = cursors
  OBVIOUS
<1>2. StreamTypeOK /\ Shape /\ Owned /\ Ahead /\ Exact
  BY DEF StreamInv
<1>3. /\ Len(log) \in Nat /\ Len(log) <= MaxLog /\ MaxLog \in Nat /\ csToken \in Int /\ -1 <= csToken
      /\ csToken <= MaxLog /\ from \in Int /\ -1 <= from /\ from <= MaxLog
      /\ csCur.pos \in Int /\ 0 <= csCur.pos /\ csCur.pos <= MaxLog
      /\ csBatch \subseteq 1 .. MaxLog /\ delivered \in Seq(1 .. MaxLog)
  BY <1>2, StreamTypes
<1>4. csCur.open /\ ~csCur.first /\ from # None
  BY <1>2 DEF Shape
<1>5. /\ e \in Int /\ 1 <= e /\ e <= MaxLog /\ csToken < e /\ e <= csCur.pos /\ csCur.pos <= Len(log)
      /\ csCur.pbrt = IF version = "4.0.7" THEN csCur.pos ELSE None
  <2>1. csToken < e /\ e <= csCur.pos /\ csCur.pos <= Len(log) /\ csCur.pbrt = PbrtOf(csCur.pos)
    BY <1>2, <1>4 DEF Ahead
  <2> QED
    BY <1>3, <2>1 DEF PbrtOf
<1>6. PICK t : t = csToken'
  OBVIOUS
<1>7. /\ t = IF csBatch \ {e} = {} /\ version = "4.0.7" THEN csCur.pos ELSE e
      /\ t \in Int /\ e <= t /\ t <= csCur.pos /\ t # None
  BY <1>3, <1>5, <1>6 DEF storeResumeToken, None
<1>8. PICK d : d = Append(delivered, e)
  OBVIOUS
<1>9. /\ d \in Seq(1 .. MaxLog) /\ DOMAIN d = 1 .. Len(delivered) + 1 /\ Len(delivered) \in Nat
      /\ DOMAIN delivered = 1 .. Len(delivered)
      /\ d[Len(delivered) + 1] = e /\ \A i \in 1 .. Len(delivered) : d[i] = delivered[i]
  <2>1. e \in 1 .. MaxLog
    BY <1>3
  <2> QED
    BY <1>3, <1>8, <2>1
<1>10. \A i \in 1 .. Len(delivered) : delivered[i] \in Int /\ delivered[i] <= csToken
  <2>1. \A i \in DOMAIN delivered : delivered[i] <= csToken
    BY <1>2 DEF Ahead
  <2>2. \A i \in DOMAIN delivered : delivered[i] \in 1 .. MaxLog
    BY <1>3
  <2>3. \A x \in 1 .. MaxLog : x \in Int
    OBVIOUS
  <2> QED
    BY <1>9, <2>1, <2>2, <2>3
<1>11. StreamTypeOK'
  <2>1. {csToken, csTime, sessTime, from} \subseteq PositionOrNone
    BY <1>2 DEF StreamTypeOK
  <2>2. t \in PositionOrNone
    BY <1>3, <1>5, <1>7 DEF PositionOrNone, Positions
  <2>3. {csToken', csTime', sessTime', from'} \subseteq PositionOrNone
    BY <1>1, <1>6, <2>1, <2>2
  <2>4. csErr' \in BOOLEAN /\ csBatch' \subseteq 1 .. MaxLog /\ delivered' \in Seq(1 .. MaxLog)
    BY <1>3, <1>8, <1>9
  <2> QED
    BY <1>1, <1>2, <2>3, <2>4 DEF StreamTypeOK
<1>12. Shape'
  BY <1>1, <1>2, <1>4 DEF Shape
<1>13. Owned'
  BY <1>1, <1>2, <1>4 DEF Owned
<1>14. Ahead'
  <2>1. csToken' <= Len(log') /\ from' <= Len(log') /\ csCur'.pos <= Len(log')
    BY <1>1, <1>2, <1>3, <1>5, <1>6, <1>7 DEF Ahead
  <2>2. csCur'.pbrt = IF version' = "4.0.7" THEN csCur'.pos ELSE None
    BY <1>1, <1>5
  <2>3. \A i \in DOMAIN d : d[i] <= t
    <3>1. \A x \in Int : x <= csToken => x <= t
      BY <1>3, <1>5, <1>7
    <3>2. \A i \in 1 .. Len(delivered) : d[i] <= t
      BY <1>9, <1>10, <3>1
    <3>3. d[Len(delivered) + 1] <= t
      BY <1>7, <1>9
    <3>4. \A i \in DOMAIN d : i \in 1 .. Len(delivered) \/ i = Len(delivered) + 1
      BY <1>9
    <3> QED
      BY <3>2, <3>3, <3>4
  <2>4. \A i, j \in DOMAIN d : i < j => d[i] < d[j]
    <3>1. SUFFICES ASSUME NEW i \in DOMAIN d, NEW j \in DOMAIN d, i < j PROVE d[i] < d[j]
      OBVIOUS
    <3>2. i \in 1 .. Len(delivered) /\ j \in 1 .. Len(delivered) + 1
      BY <1>9, <3>1
    <3>3. CASE j = Len(delivered) + 1
      BY <1>3, <1>5, <1>9, <1>10, <3>2, <3>3
    <3>4. CASE j # Len(delivered) + 1
      <4>1. j \in 1 .. Len(delivered)
        BY <1>9, <3>2, <3>4
      <4>2. delivered[i] < delivered[j]
        BY <1>2, <1>9, <3>1, <3>2, <4>1 DEF Ahead, NothingRepeated
      <4> QED
        BY <1>9, <3>2, <4>1, <4>2
    <3> QED
      BY <3>3, <3>4
  <2>5. NothingRepeated' /\ \A i \in DOMAIN delivered' : delivered'[i] <= csToken'
    BY <1>6, <1>8, <2>3, <2>4 DEF NothingRepeated
  <2>6. \A f \in csBatch' : csToken' < f /\ f <= csCur'.pos
    <3>1. SUFFICES ASSUME NEW f \in csBatch, f # e PROVE t < f /\ f <= csCur.pos
      BY <1>1, <1>6
    <3>2. f \in Int /\ e <= f /\ t = e
      BY <1>3, <1>7, <3>1
    <3>3. f <= csCur.pos
      BY <1>2, <1>4 DEF Ahead
    <3> QED
      BY <1>5, <3>1, <3>2, <3>3
  <2>7. csPc' \notin {"aggregate", "retry"} /\ csToken' <= csCur'.pos /\ ~csCur'.first
    BY <1>1, <1>4, <1>6, <1>7
  <2> QED
    BY <2>1, <2>2, <2>5, <2>6, <2>7 DEF Ahead, PbrtOf
<1>15. Exact'
  <2>1. SUFFICES ASSUME version = "4.0.7" PROVE Exact'
    BY <1>1 DEF Exact
  <2>2. /\ Given = Between(log, from, Reached) /\ (csToken # None => from <= csToken)
        /\ csBatch = Between(log, Reached, csCur.pos)
    BY <1>2, <1>4, <2>1 DEF Exact
  <2>3. PICK r : r = Reached
    OBVIOUS
  <2>4. r \in Int /\ from <= r
    BY <1>3, <2>2, <2>3 DEF Reached
  <2>5. e \in Between(log, r, csCur.pos) /\ \A f \in Between(log, r, csCur.pos) : e <= f
    BY <2>2, <2>3
  <2>6. /\ Between(log, r, e) = {e} /\ Between(log, e, csCur.pos) = csBatch \ {e} /\ r < e
    BY <1>3, <2>2, <2>3, <2>4, <2>5, BetweenFirst
  <2>7. Between(log, from, e) = Given \cup {e}
    <3>1. Between(log, from, e) = Between(log, from, r) \cup Between(log, r, e)
      BY <1>3, <1>5, <2>4, <2>6, BetweenJoined
    <3> QED
      BY <2>2, <2>3, <2>6, <3>1
  <2>8. Given' = Given \cup {e}
    <3>1. {d[i] : i \in DOMAIN d} = {delivered[i] : i \in DOMAIN delivered} \cup {e}
      <4>1. \A i \in DOMAIN delivered : i \in DOMAIN d /\ d[i] = delivered[i]
        BY <1>9
      <4>2. \A i \in DOMAIN d : i \in DOMAIN delivered \/ d[i] = e
        BY <1>9
      <4>3. \E i \in DOMAIN d : d[i] = e
        BY <1>9
      <4> QED
        BY <4>1, <4>2, <4>3
    <3> QED
      BY <1>8, <3>1 DEF Given
  <2>9. Reached' = t
    BY <1>6, <1>7 DEF Reached
  <2>10. Given' = Between(log, from, t) /\ csBatch' = Between(log, t, csCur.pos)
    <3>1. CASE csBatch \ {e} = {}
      <4>1. t = csCur.pos
        BY <1>7, <2>1, <3>1
      <4>2. Between(log, from, t) = Between(log, from, e) \cup Between(log, e, t)
        BY <1>3, <1>5, <1>7, <2>4, <2>6, BetweenJoined
      <4>3. Between(log, t, csCur.pos) = {}
        BY <1>3, <4>1, BetweenNothing
      <4> QED
        BY <2>6, <2>7, <2>8, <3>1, <4>1, <4>2, <4>3
    <3>2. CASE csBatch \ {e} # {}
      <4>1. t = e
        BY <1>7, <3>2
      <4> QED
        BY <2>6, <2>7, <2>8, <4>1
    <3> QED
      BY <3>1, <3>2
  <2>11. from <= t
    BY <1>3, <1>5, <1>7, <2>4, <2>6
  <2>12. csCur.id # 0 => t <= csCur.pos
    BY <1>7
  <2> QED
    BY <1>1, <1>4, <1>6, <1>7, <2>9, <2>10, <2>11, <2>12 DEF Exact
<1> QED
  BY <1>11, <1>12, <1>13, <1>14, <1>15 DEF StreamInv

(* next hands out an event, or closes the stream. *)
LEMMA DeliverStep ==
  ASSUME StreamInv, NEW hasId \in BOOLEAN, Deliver(hasId)
  PROVE  StreamInv'
<1> DEFINE event == FirstEvent(csBatch)
           rest == csBatch \ {event}
           missing == ~hasId /\ ~(rest = {} /\ csCur.pbrt # None)
<1>1. missing \in BOOLEAN
  OBVIOUS
<1>2. /\ csPc = "deliver" /\ csPc' = "idle" /\ csBatch' = rest
      /\ delivered' = IF missing THEN delivered ELSE Append(delivered, event)
      /\ csToken' = IF missing THEN csToken ELSE storeResumeToken(event, rest)
      /\ csErr' = missing
      /\ IF missing THEN /\ csCur' = NoCursor /\ cursors' = KilledAtServer(csCur)
                         /\ closeImplicitSession
         ELSE UNCHANGED <<csCur, cursors, csSess>>
      /\ UNCHANGED <<log, version, cso, csTime, sessTime, csTry, csFailures, from>>
  BY Zenon DEF Deliver
<1> HIDE DEF missing
<1>3. event \in csBatch /\ \A f \in csBatch : event <= f
  <2>1. csBatch # {}
    BY <1>2 DEF StreamInv, Shape
  <2>2. csBatch \subseteq 1 .. MaxLog
    BY StreamTypes DEF StreamInv
  <2>3. csBatch \in SUBSET Nat
    BY <2>2
  <2> QED
    BY <2>1, <2>3, FirstEventIsLeast
<1> HIDE DEF event
<1>4. CASE missing
  <2>1. csErr' = TRUE
    BY <1>1, <1>2, <1>4
  <2>2. UNCHANGED <<log, version, cso, csToken, csTime, sessTime, csTry, csFailures, from, delivered>>
    BY <1>2, <1>4
  <2> QED
    BY <1>2, <1>3, <1>4, <2>1, <2>2, DeliverMissingStep
<1>5. CASE ~missing
  <2>1. csErr' = FALSE
    BY <1>1, <1>2, <1>5
  <2> QED
    BY <1>2, <1>3, <1>5, <2>1, DeliverEventStep
<1> QED
  BY <1>4, <1>5

-----------------------------------------------------------------------------
(* Every step of the stream, of the server and of the application keeps    *)
(* the invariant.                                                          *)
LEMMA StreamStep ==
  ASSUME StreamInv, [StreamNext]_csVars
  PROVE  StreamInv'
<1>1. ASSUME NEW match \in BOOLEAN, Write(match) PROVE StreamInv'
  BY <1>1, WriteStep
<1>2. CASE OtherReply
  BY <1>2, OtherReplyStep
<1>3. ASSUME NEW v \in {"3.6", "4.0", "4.0.7"}, NEW o \in UserOptions, NEW explicit \in BOOLEAN,
             NewChangeStream(v, o, explicit)
      PROVE  StreamInv'
  BY <1>3, NewChangeStreamStep
<1>4. CASE Resume
  BY <1>4, ResumeStep
<1>5. CASE ResumeFails
  BY <1>5, ResumeFailsStep
<1>6. ASSUME NEW q \in Positions, AggregateSucceeds(q) PROVE StreamInv'
  BY <1>6, AggregateSucceedsStep
<1>7. ASSUME NEW reply \in BOOLEAN, NEW retryable \in BOOLEAN, AggregateFails(reply, retryable)
      PROVE  StreamInv'
  BY <1>7, AggregateFailsStep
<1>8. ASSUME NEW nonBlocking \in BOOLEAN, NextCall(nonBlocking) PROVE StreamInv'
  BY <1>8, NextCallStep
<1>9. CASE FirstBatch
  BY <1>9, FirstBatchStep
<1>10. CASE Exhausted \/ ClosedCursor
  BY <1>10, NothingMoreStep
<1>11. ASSUME NEW q \in Positions, NEW ends \in BOOLEAN, GetMore(q, ends) PROVE StreamInv'
  BY <1>11, GetMoreStep
<1>12. ASSUME NEW reply \in BOOLEAN, NEW resumable \in BOOLEAN, GetMoreFails(reply, resumable)
       PROVE  StreamInv'
  BY <1>12, GetMoreFailsStep
<1>13. ASSUME NEW hasId \in BOOLEAN, Deliver(hasId) PROVE StreamInv'
  BY <1>13, DeliverStep
<1>14. CASE Close
  BY <1>14, CloseStep
<1>15. CASE UNCHANGED csVars
  <2>1. /\ log' = log /\ version' = version /\ cso' = cso /\ csToken' = csToken /\ csTime' = csTime
        /\ sessTime' = sessTime /\ csSess' = csSess /\ csCur' = csCur /\ csBatch' = csBatch
        /\ csPc' = csPc /\ csTry' = csTry /\ csErr' = csErr /\ csFailures' = csFailures
        /\ from' = from /\ delivered' = delivered /\ cursors' = cursors
    BY <1>15 DEF csVars
  <2>2. StreamTypeOK'
    <3>1. {csToken', csTime', sessTime', from'} \subseteq PositionOrNone
      BY <2>1 DEF StreamInv, StreamTypeOK
    <3> QED
      BY <2>1, <3>1 DEF StreamInv, StreamTypeOK
  <2>3. Shape' /\ Owned'
    BY <2>1 DEF StreamInv, Shape, Owned
  <2>4. Ahead'
    BY <2>1 DEF StreamInv, Ahead, PbrtOf, NothingRepeated
  <2>5. Exact'
    <3>1. Reached' = Reached /\ Given' = Given
      BY <2>1 DEF Reached, Given
    <3> QED
      BY <2>1, <3>1 DEF StreamInv, Exact
  <2> QED
    BY <2>2, <2>3, <2>4, <2>5 DEF StreamInv
<1> QED
  BY <1>1, <1>2, <1>3, <1>4, <1>5, <1>6, <1>7, <1>8, <1>9, <1>10, <1>11, <1>12, <1>13, <1>14, <1>15,
     Zenon DEF StreamNext

(* The invariant says what the application relies on. *)
LEMMA StreamInvIsExact ==
  ASSUME StreamInv
  PROVE  StreamIsExact
<1>1. StreamTypeOK /\ Shape /\ Owned /\ Ahead /\ Exact
  BY DEF StreamInv
<1>2. /\ csToken \in Int /\ -1 <= csToken /\ from \in Int /\ -1 <= from /\ MaxLog \in Nat
      /\ delivered \in Seq(1 .. MaxLog)
  BY <1>1, StreamTypes
<1>3. NothingRepeated /\ \A i \in DOMAIN delivered : delivered[i] <= csToken
  BY <1>1 DEF Ahead
<1>4. TokenPassesNothing
  <2>1. SUFFICES ASSUME version = "4.0.7", from # None PROVE Matching(from, csToken) \subseteq Given
    BY DEF TokenPassesNothing
  <2>2. 0 <= from
    BY <1>2, <2>1 DEF None
  <2>3. CASE csToken = None
    <3>1. csToken <= from
      BY <1>2, <2>2, <2>3 DEF None
    <3> QED
      BY <1>2, <3>1, BetweenNothing, MatchingIsBetween
  <2>4. CASE csToken # None
    <3>1. Given = Between(log, from, csToken)
      BY <1>1, <2>1, <2>4 DEF Exact, Reached
    <3> QED
      BY <3>1, MatchingIsBetween
  <2> QED
    BY <2>3, <2>4
<1>5. NothingSkipped
  <2>1. SUFFICES ASSUME version = "4.0.7", delivered # <<>>
                 PROVE  Given = Matching(from, delivered[Len(delivered)])
    BY DEF NothingSkipped
  <2>2. from # None
    BY <1>1, <2>1 DEF Shape
  <2>3. PICK n : n = Len(delivered)
    OBVIOUS
  <2>4. n \in Nat /\ n >= 1 /\ DOMAIN delivered = 1 .. n
    BY <1>2, <2>1, <2>3
  <2>5. PICK x : x = delivered[n]
    OBVIOUS
  <2>6. x \in 1 .. MaxLog /\ x <= csToken
    BY <1>2, <1>3, <2>3, <2>4, <2>5
  <2>7. csToken # None
    BY <1>2, <2>6 DEF None
  <2>8. Given = Between(log, from, csToken)
    BY <1>1, <2>1, <2>2, <2>7 DEF Exact, Reached
  <2>9. \A i \in 1 .. n : delivered[i] <= x
    <3>1. SUFFICES ASSUME NEW i \in 1 .. n PROVE delivered[i] <= x
      OBVIOUS
    <3>2. CASE i = n
      BY <2>5, <2>6, <3>2
    <3>3. CASE i # n
      <4>1. i < n
        BY <2>4, <3>1, <3>3
      <4>2. delivered[i] < delivered[n]
        BY <1>3, <2>4, <4>1 DEF NothingRepeated
      <4>3. delivered[i] \in 1 .. MaxLog
        BY <1>2, <2>3, <2>4
      <4> QED
        BY <2>5, <2>6, <4>2, <4>3
    <3> QED
      BY <3>2, <3>3
  <2>10. \A e \in Given : e <= x
    BY <2>4, <2>9 DEF Given
  <2>11. \A e \in Given : e \in Between(log, from, x)
    BY <1>2, <2>6, <2>8, <2>10 DEF Between
  <2>12. \A e \in Between(log, from, x) : e \in Given
    BY <1>2, <2>6, <2>8 DEF Between
  <2>13. Given = Between(log, from, x)
    BY <2>11, <2>12
  <2> QED
    BY <2>3, <2>5, <2>13, MatchingIsBetween
<1>6. NothingLeaked
  BY <1>1 DEF Owned, NothingLeaked
<1> QED
  BY <1>3, <1>4, <1>5, <1>6 DEF StreamIsExact

(* The inductive invariant of a change stream, for logs and numbers of     *)
(* failures of any size.                                                   *)
THEOREM StreamInvariant == StreamSpec => []StreamInv
<1>1. StreamInit => StreamInv
  BY StreamInitGood
<1>2. StreamInv /\ [StreamNext]_csVars => StreamInv'
  BY StreamStep
<1> QED
  BY <1>1, <1>2, PTL DEF StreamSpec

(* The variables of a change stream keep their types. *)
THEOREM StreamTypesStay == StreamSpec => []StreamTypeOK
<1>1. StreamInv => StreamTypeOK
  BY DEF StreamInv
<1> QED
  BY <1>1, StreamInvariant, PTL

(* However often a change stream is resumed, and whichever commands fail,  *)
(* its application gets no event twice or out of order; with post batch    *)
(* resume tokens it misses none and is shown no token past an event it did *)
(* not get; no cursor and no implicit session is left behind.              *)
THEOREM StreamLosesNothing == StreamSpec => []StreamIsExact
<1>1. StreamInv => StreamIsExact
  BY StreamInvIsExact
<1> QED
  BY <1>1, StreamInvariant, PTL

-----------------------------------------------------------------------------
(* The limits that the legacy messages can keep: those with a batch size,  *)
(* but for the one that listIndexes does not convert.                      *)
Batched == (lcBatchSize > 0 \/ lcLimit <= 0) /\ ~(lcKind = "listIndexes" /\ lcBatchSize = 1)

(* What the cursor knows of the server, whatever was asked for. *)
LegacyShape ==
  /\ lcKind # "find" => lcLimit = 0
  /\ lcReturned = lcSent /\ lcGot <= lcSent
  /\ lcPc = "new" => lcSent = 0 /\ lcGot = 0
  /\ lcFirst => lcGot = 0 /\ lcBatch <= lcSent
  /\ lcOpen => lcId
  /\ lcPc \in {"done", "closed"} => ~lcOpen

(* The server never sent more than was wanted, and it sent all of that     *)
(* when the id is 0 or the iteration has ended; nothing of it is dropped.  *)
LegacyCount ==
  Batched /\ lcPc # "new" =>
    /\ lcSent <= Wanted
    /\ lcPc \in {"idle", "failed"} /\ ~lcId => lcSent = Wanted
    /\ ~lcFirst => lcGot = lcSent
    /\ lcPc = "idle" /\ lcFirst => lcBatch = lcSent
    /\ lcPc = "done" => ~lcFirst /\ lcSent = Wanted
    /\ lcLimit < 0 => ~lcId

LegacyInv == LegacyTypeOK /\ LegacyShape /\ LegacyCount

(* The numbers of the cursor, one by one. *)
LEMMA LegacyTypes ==
  ASSUME LegacyTypeOK
  PROVE  /\ MaxTotal \in Nat /\ MaxLimit \in Nat /\ MaxBatch \in Nat /\ DefaultBatch \in Nat
         /\ lcTotal \in Int /\ 0 <= lcTotal /\ lcTotal <= MaxTotal
         /\ lcLimit \in Int /\ lcBatchSize \in Int /\ 0 <= lcBatchSize
         /\ lcSent \in Int /\ 0 <= lcSent /\ lcSent <= lcTotal
         /\ lcBatch \in Int /\ 0 <= lcBatch /\ lcReturned \in Int /\ lcGot \in Int /\ 0 <= lcGot
         /\ lcOpen \in BOOLEAN /\ lcId \in BOOLEAN /\ lcFirst \in BOOLEAN
BY LegacyAssumption DEF LegacyTypeOK

(* What a query is sent: as much as is wanted when the server keeps no     *)
(* cursor after it.                                                        *)
LEMMA FirstReply ==
  ASSUME NEW kind \in {"find", "listCollections", "listIndexes"}, NEW limit \in Int,
         NEW batchSize \in Nat, NEW total \in Nat, NEW keep \in BOOLEAN,
         kind # "find" => limit = 0, kind = "listCollections" => batchSize = 0,
         NEW n, n = FirstNumber(kind, limit, batchSize),
         NEW sent, sent = Smaller(total, IF n = 0 THEN DefaultBatch ELSE Abs(n)),
         IF n < 0 \/ n = 1 THEN ~keep ELSE sent < total => keep,
         NEW wanted, wanted = IF limit = 0 THEN total ELSE Smaller(Abs(limit), total)
  PROVE  /\ n \in Int /\ sent \in Int /\ 0 <= sent /\ sent <= total
         /\ (batchSize > 0 \/ limit <= 0) /\ ~(kind = "listIndexes" /\ batchSize = 1) =>
              /\ sent <= wanted /\ (~keep => sent = wanted) /\ (limit < 0 => ~keep)
              /\ TrimFirst(Abs(limit), sent) = sent
         /\ TrimFirst(Abs(limit), sent) \in 0 .. sent
<1>1. DefaultBatch \in Nat
  BY LegacyAssumption
<1>2. n \in Int
  BY DEF FirstNumber, FindNumber, calculateNumberToReturn, Smaller
<1>3. sent \in Int /\ 0 <= sent /\ sent <= total
  BY <1>1, <1>2 DEF Smaller, Abs
<1>4. TrimFirst(Abs(limit), sent) \in 0 .. sent
  BY <1>3 DEF TrimFirst, Smaller, Abs
<1>5. ASSUME batchSize > 0 \/ limit <= 0, ~(kind = "listIndexes" /\ batchSize = 1)
      PROVE  /\ sent <= wanted /\ (~keep => sent = wanted) /\ (limit < 0 => ~keep)
             /\ TrimFirst(Abs(limit), sent) = sent
  <2>1. CASE limit < 0
    <3>1. n = limit /\ kind = "find"
      BY <2>1 DEF FirstNumber, FindNumber, calculateNumberToReturn
    <3>2. ~keep
      BY <2>1, <3>1
    <3>3. PICK m : m = Abs(limit)
      OBVIOUS
    <3>4. m \in Int /\ m > 0 /\ limit # 0 /\ n # 0 /\ Abs(n) = m
      BY <2>1, <3>1, <3>3 DEF Abs
    <3>5. sent = Smaller(total, m) /\ wanted = Smaller(m, total)
      BY <3>3, <3>4
    <3>6. wanted = sent /\ sent <= m
      BY <3>4, <3>5 DEF Smaller
    <3>7. TrimFirst(m, sent) = sent
      BY <1>3, <3>4, <3>6 DEF Smaller, TrimFirst
    <3> QED
      BY <1>3, <3>2, <3>3, <3>6, <3>7
  <2>2. CASE limit = 0
    <3>1. n \in Nat /\ n # 1
      BY <1>5, <2>2 DEF FirstNumber, FindNumber, calculateNumberToReturn
    <3> QED
      BY <1>1, <1>3, <2>2, <3>1 DEF Smaller, Abs, TrimFirst
  <2>3. CASE limit > 0
    <3>1. n \in Nat /\ n > 0 /\ n <= limit /\ (n = 1 => limit = 1)
      BY <1>5, <2>3 DEF FirstNumber, FindNumber, calculateNumberToReturn, Smaller
    <3> QED
      BY <1>1, <1>3, <2>3, <3>1 DEF Smaller, Abs, TrimFirst
  <2> QED
    BY <2>1, <2>2, <2>3
<1> QED
  BY <1>2, <1>3, <1>4, <1>5

(* The query and its first batch. *)
LEMMA QueryStep ==
  ASSUME LegacyInv, NEW kind \in {"find", "listCollections", "listIndexes"},
         NEW limit \in -MaxLimit .. MaxLimit, NEW batchSize \in 0 .. MaxBatch,
         NEW total \in 0 .. MaxTotal, NEW keep \in BOOLEAN,
         Query(kind, limit, batchSize, total, keep)
  PROVE  LegacyInv'
<1>1. PICK n : n = FirstNumber(kind, limit, batchSize)
  OBVIOUS
<1>2. PICK sent : sent = Smaller(total, IF n = 0 THEN DefaultBatch ELSE Abs(n))
  OBVIOUS
<1>3. /\ lcPc' = "idle" /\ lcKind' = kind /\ lcLimit' = limit /\ lcBatchSize' = batchSize
      /\ lcTotal' = total /\ lcSent' = sent /\ lcOpen' = keep /\ lcId' = keep /\ lcFirst' = TRUE
      /\ lcReturned' = sent /\ lcBatch' = TrimFirst(Abs(limit), sent) /\ lcGot' = 0
      /\ kind # "find" => limit = 0
      /\ kind = "listCollections" => batchSize = 0
      /\ IF n < 0 \/ n = 1 THEN ~keep ELSE sent < total => keep
  BY <1>1, <1>2 DEF Query
<1>4. /\ MaxTotal \in Nat /\ MaxLimit \in Nat /\ MaxBatch \in Nat /\ limit \in Int
      /\ batchSize \in Nat /\ total \in Nat
  BY LegacyAssumption
<1>5. PICK wanted : wanted = IF limit = 0 THEN total ELSE Smaller(Abs(limit), total)
  OBVIOUS
<1>6. /\ n \in Int /\ sent \in Int /\ 0 <= sent /\ sent <= total
      /\ (batchSize > 0 \/ limit <= 0) /\ ~(kind = "listIndexes" /\ batchSize = 1) =>
           /\ sent <= wanted /\ (~keep => sent = wanted) /\ (limit < 0 => ~keep)
           /\ TrimFirst(Abs(limit), sent) = sent
      /\ TrimFirst(Abs(limit), sent) \in 0 .. sent
  BY <1>1, <1>2, <1>3, <1>4, <1>5, FirstReply
<1>7. LegacyTypeOK'
  <2>1. sent \in 0 .. total /\ sent \in 0 .. MaxTotal /\ lcBatch' \in 0 .. MaxTotal /\ 0 \in 0 .. MaxTotal
    BY <1>3, <1>4, <1>6
  <2>2. lcOpen' \in BOOLEAN /\ lcId' \in BOOLEAN /\ lcFirst' \in BOOLEAN
    BY <1>3
  <2> QED
    BY <1>3, <2>1, <2>2 DEF LegacyTypeOK
<1>8. LegacyShape'
  <2>1. lcBatch' <= sent
    BY <1>3, <1>6
  <2> QED
    BY <1>3, <1>6, <2>1 DEF LegacyShape
<1>9. LegacyCount'
  <2>1. Wanted' = wanted
    BY <1>3, <1>5 DEF Wanted
  <2> QED
    BY <1>3, <1>6, <2>1 DEF LegacyCount, Batched
<1> QED
  BY <1>7, <1>8, <1>9 DEF LegacyInv

(* The caller takes the first batch. *)
LEMMA TakeStep ==
  ASSUME LegacyInv, Take
  PROVE  LegacyInv'
<1>1. /\ lcKind' = lcKind /\ lcTotal' = lcTotal /\ lcLimit' = lcLimit /\ lcBatchSize' = lcBatchSize
      /\ lcSent' = lcSent /\ lcOpen' = lcOpen /\ lcId' = lcId /\ lcReturned' = lcReturned
      /\ lcPc' = lcPc /\ lcPc = "idle" /\ lcFirst /\ lcFirst' = FALSE /\ lcGot' = lcBatch
      /\ lcBatch' = 0
  BY DEF Take
<1>2. LegacyTypeOK /\ LegacyShape /\ LegacyCount
  BY DEF LegacyInv
<1>3. LegacyTypeOK'
  <2>1. 0 \in 0 .. MaxTotal
    BY LegacyAssumption
  <2>2. lcFirst' \in BOOLEAN
    BY <1>1, Zenon
  <2> QED
    BY <1>1, <1>2, <2>1, <2>2 DEF LegacyTypeOK
<1>4. LegacyShape'
  BY <1>1, <1>2 DEF LegacyShape
<1>5. LegacyCount'
  <2>1. Wanted' = Wanted /\ Batched' = Batched
    BY <1>1 DEF Wanted, Batched
  <2> QED
    BY <1>1, <1>2, <2>1 DEF LegacyCount
<1> QED
  BY <1>3, <1>4, <1>5 DEF LegacyInv

(* The limit is reached: the cursor is closed, and all was sent. *)
LEMMA CloseAtLimitStep ==
  ASSUME LegacyInv, CloseAtLimit
  PROVE  LegacyInv'
<1>1. /\ lcKind' = lcKind /\ lcTotal' = lcTotal /\ lcLimit' = lcLimit /\ lcBatchSize' = lcBatchSize
      /\ lcSent' = lcSent /\ lcReturned' = lcReturned /\ lcGot' = lcGot /\ lcFirst' = lcFirst
      /\ lcBatch' = lcBatch /\ lcPc = "idle" /\ ~lcFirst /\ lcId /\ PassesLimit /\ numToReturn <= 0
      /\ lcId' = FALSE /\ lcOpen' = FALSE /\ lcPc' = "done"
  BY DEF CloseAtLimit
<1>2. LegacyTypeOK /\ LegacyShape /\ LegacyCount
  BY DEF LegacyInv
<1>3. /\ lcTotal \in Int /\ lcLimit \in Int /\ lcSent \in Int /\ lcReturned \in Int
  BY <1>2, LegacyTypes
<1>4. LegacyTypeOK'
  <2>1. lcId' \in BOOLEAN /\ lcOpen' \in BOOLEAN
    BY <1>1
  <2> QED
    BY <1>1, <1>2, <2>1 DEF LegacyTypeOK
<1>5. LegacyShape'
  BY <1>1, <1>2 DEF LegacyShape
<1>6. Wanted <= lcSent
  <2>1. Abs(lcLimit) # 0 /\ Abs(lcLimit) - lcReturned <= 0 /\ lcReturned = lcSent
    BY <1>1, <1>2 DEF PassesLimit, numToReturn, LegacyShape
  <2> QED
    BY <1>3, <2>1 DEF Wanted, Smaller, Abs
<1>7. Wanted \in Int
  BY <1>3 DEF Wanted, Smaller, Abs
<1>8. LegacyCount'
  <2>1. Wanted' = Wanted /\ Batched' = Batched
    BY <1>1 DEF Wanted, Batched
  <2>2. Batched => lcSent = Wanted
    BY <1>1, <1>2, <1>3, <1>6, <1>7 DEF LegacyCount
  <2> QED
    BY <1>1, <1>2, <1>3, <2>1, <2>2 DEF LegacyCount
<1> QED
  BY <1>4, <1>5, <1>8 DEF LegacyInv

(* What a getMore is sent: never more than is left of the limit. *)
LEMMA NextReply ==
  ASSUME LegacyInv, lcPc = "idle", lcId, ~(PassesLimit /\ numToReturn <= 0),
         NEW sent, sent = Reply(numToReturn)
  PROVE  /\ sent \in Int /\ 0 <= sent /\ lcSent + sent <= lcTotal /\ Wanted \in Int
         /\ Batched => lcSent + sent <= Wanted
         /\ Batched /\ lcSent + sent = lcTotal => lcSent + sent = Wanted
<1>1. LegacyTypeOK /\ LegacyShape /\ LegacyCount
  BY DEF LegacyInv
<1>2. /\ DefaultBatch \in Nat /\ lcTotal \in Int /\ lcLimit \in Int /\ lcBatchSize \in Int
      /\ 0 <= lcBatchSize /\ lcSent \in Int /\ 0 <= lcSent /\ lcSent <= lcTotal
      /\ lcReturned \in Int /\ lcReturned = lcSent
  BY <1>1, LegacyTypes DEF LegacyShape
<1>3. PICK n : n = numToReturn
  OBVIOUS
<1>4. PICK l : l = Abs(lcLimit)
  OBVIOUS
<1>5. /\ l \in Int /\ 0 <= l /\ (l = 0 <=> lcLimit = 0)
  BY <1>2, <1>4 DEF Abs
<1>6. /\ n \in Int
      /\ l # 0 /\ lcSent + lcBatchSize > l => n = l - lcSent /\ n > 0
      /\ ~(l # 0 /\ lcSent + lcBatchSize > l) => n = lcBatchSize
  BY <1>2, <1>3, <1>4, <1>5 DEF numToReturn, PassesLimit
<1>7. sent = Smaller(lcTotal - lcSent, IF n = 0 THEN DefaultBatch ELSE n)
  BY <1>2, <1>3, <1>6 DEF Reply, Abs
<1>8. sent \in Int /\ 0 <= sent /\ sent <= lcTotal - lcSent /\ (n # 0 => sent <= n)
  BY <1>2, <1>6, <1>7 DEF Smaller
<1>9. Wanted = IF l = 0 THEN lcTotal ELSE Smaller(l, lcTotal)
  BY <1>4, <1>5 DEF Wanted
<1>10. Wanted \in Int /\ Wanted <= lcTotal
  BY <1>2, <1>5, <1>9 DEF Smaller
<1>11. ASSUME Batched PROVE lcSent + sent <= Wanted
  <2>1. CASE l = 0
    BY <1>2, <1>8, <1>9, <2>1
  <2>2. CASE l # 0
    <3>1. lcLimit > 0 /\ lcBatchSize > 0
      BY <1>1, <1>2, <1>5, <1>11, <2>2 DEF LegacyCount, Batched
    <3>2. lcSent + n <= l /\ n > 0
      BY <1>2, <1>5, <1>6, <2>2, <3>1
    <3>3. lcSent + sent <= l
      BY <1>2, <1>5, <1>6, <1>8, <3>2
    <3> QED
      BY <1>2, <1>5, <1>8, <1>9, <2>2, <3>3 DEF Smaller
  <2> QED
    BY <2>1, <2>2
<1> QED
  BY <1>2, <1>8, <1>10, <1>11

(* A further batch, and the kill at the limit. *)
LEMMA LegacyGetMoreStep ==
  ASSUME LegacyInv, NEW keep \in BOOLEAN, legacyGetMore(keep)
  PROVE  LegacyInv'
<1>1. PICK sent : sent = Reply(numToReturn)
  OBVIOUS
<1>2. PICK kill \in BOOLEAN : kill <=> KillAtLimit(lcReturned + sent)
  OBVIOUS
<1>3. /\ lcKind' = lcKind /\ lcTotal' = lcTotal /\ lcLimit' = lcLimit /\ lcBatchSize' = lcBatchSize
      /\ lcFirst' = lcFirst /\ lcBatch' = lcBatch /\ lcPc' = lcPc
      /\ lcPc = "idle" /\ ~lcFirst /\ lcId /\ ~(PassesLimit /\ numToReturn <= 0)
      /\ lcSent' = lcSent + sent /\ lcReturned' = lcReturned + sent /\ lcGot' = lcGot + sent
      /\ lcId' = keep /\ (lcSent + sent < lcTotal => keep)
  BY <1>1 DEF legacyGetMore, MayKeep
<1>4. lcOpen' \in BOOLEAN /\ (lcOpen' => keep)
  BY DEF legacyGetMore
<1>5. LegacyTypeOK /\ LegacyShape /\ LegacyCount
  BY DEF LegacyInv
<1>6. /\ MaxTotal \in Nat /\ lcTotal \in Int /\ lcTotal <= MaxTotal /\ lcLimit \in Int
      /\ lcSent \in Int /\ 0 <= lcSent /\ lcSent <= lcTotal /\ lcGot \in Int /\ 0 <= lcGot
      /\ lcReturned = lcSent /\ lcGot <= lcSent
  BY <1>5, LegacyTypes DEF LegacyShape
<1>7. /\ sent \in Int /\ 0 <= sent /\ lcSent + sent <= lcTotal /\ Wanted \in Int
      /\ Batched => lcSent + sent <= Wanted
      /\ Batched /\ lcSent + sent = lcTotal => lcSent + sent = Wanted
  BY <1>1, <1>3, NextReply
<1>8. LegacyTypeOK'
  <2>1. lcSent' \in 0 .. lcTotal' /\ lcReturned' \in 0 .. MaxTotal /\ lcGot' \in 0 .. MaxTotal
    BY <1>3, <1>6, <1>7
  <2>2. lcId' \in BOOLEAN
    BY <1>3
  <2> QED
    BY <1>3, <1>4, <1>5, <2>1, <2>2 DEF LegacyTypeOK
<1>9. LegacyShape'
  <2>1. lcReturned' = lcSent' /\ lcGot' <= lcSent'
    BY <1>3, <1>6, <1>7
  <2>2. lcOpen' => lcId'
    BY <1>3, <1>4
  <2> QED
    BY <1>3, <1>5, <2>1, <2>2 DEF LegacyShape
<1>10. LegacyCount'
  <2>1. Wanted' = Wanted /\ Batched' = Batched
    BY <1>3 DEF Wanted, Batched
  <2>2. SUFFICES ASSUME Batched PROVE LegacyCount'
    BY <2>1 DEF LegacyCount
  <2>3. lcGot = lcSent /\ ~(lcLimit < 0)
    BY <1>3, <1>5, <2>2 DEF LegacyCount
  <2>4. lcSent' <= Wanted /\ lcGot' = lcSent' /\ (~keep => lcSent' = Wanted)
    BY <1>3, <1>6, <1>7, <2>2, <2>3
  <2> QED
    BY <1>3, <2>1, <2>3, <2>4 DEF LegacyCount
<1> QED
  BY <1>8, <1>9, <1>10 DEF LegacyInv

(* A getMore fails, or the id was 0: nothing but the place changes. *)
LEMMA LegacyEndStep ==
  ASSUME LegacyInv, LegacyGetMoreFails \/ LegacyExhausted
  PROVE  LegacyInv'
<1>1. /\ lcKind' = lcKind /\ lcTotal' = lcTotal /\ lcLimit' = lcLimit /\ lcBatchSize' = lcBatchSize
      /\ lcSent' = lcSent /\ lcReturned' = lcReturned /\ lcGot' = lcGot /\ lcFirst' = lcFirst
      /\ lcBatch' = lcBatch /\ lcOpen' = lcOpen /\ lcId' = lcId /\ lcPc = "idle" /\ ~lcFirst
      /\ (lcPc' = "failed" /\ lcId) \/ (lcPc' = "done" /\ ~lcId)
  BY DEF LegacyGetMoreFails, LegacyExhausted
<1>2. LegacyTypeOK /\ LegacyShape /\ LegacyCount
  BY DEF LegacyInv
<1>3. LegacyTypeOK'
  BY <1>1, <1>2 DEF LegacyTypeOK
<1>4. LegacyShape'
  BY <1>1, <1>2 DEF LegacyShape
<1>5. LegacyCount'
  <2>1. Wanted' = Wanted /\ Batched' = Batched
    BY <1>1 DEF Wanted, Batched
  <2> QED
    BY <1>1, <1>2, <2>1 DEF LegacyCount
<1> QED
  BY <1>3, <1>4, <1>5 DEF LegacyInv

(* The application closes the cursor, wherever it stands. *)
LEMMA LegacyCloseStep ==
  ASSUME LegacyInv, LegacyClose
  PROVE  LegacyInv'
<1>1. /\ lcKind' = lcKind /\ lcTotal' = lcTotal /\ lcLimit' = lcLimit /\ lcBatchSize' = lcBatchSize
      /\ lcSent' = lcSent /\ lcReturned' = lcReturned /\ lcGot' = lcGot /\ lcFirst' = lcFirst
      /\ lcBatch' = 0 /\ lcId' = FALSE /\ lcPc # "new" /\ lcPc' = "closed"
  BY DEF LegacyClose
<1>2. LegacyTypeOK /\ LegacyShape /\ LegacyCount
  BY DEF LegacyInv
<1>3. lcOpen' \in BOOLEAN /\ ~lcOpen'
  BY <1>2 DEF LegacyClose, LegacyShape
<1>4. lcSent \in Int /\ 0 <= lcSent /\ MaxTotal \in Nat
  BY <1>2, LegacyTypes
<1>5. LegacyTypeOK'
  <2>1. 0 \in 0 .. MaxTotal
    BY <1>4
  <2>2. lcId' \in BOOLEAN
    BY <1>1, Zenon
  <2> QED
    BY <1>1, <1>2, <1>3, <2>1, <2>2 DEF LegacyTypeOK
<1>6. LegacyShape'
  BY <1>1, <1>2, <1>3, <1>4 DEF LegacyShape
<1>7. LegacyCount'
  <2>1. Wanted' = Wanted /\ Batched' = Batched
    BY <1>1 DEF Wanted, Batched
  <2> QED
    BY <1>1, <1>2, <2>1 DEF LegacyCount
<1> QED
  BY <1>5, <1>6, <1>7 DEF LegacyInv

(* Every step of a legacy cursor keeps the invariant. *)
LEMMA LegacyStep ==
  ASSUME LegacyInv, [LegacyNext]_lcVars
  PROVE  LegacyInv'
<1>1. ASSUME NEW kind \in {"find", "listCollections", "listIndexes"},
             NEW limit \in -MaxLimit .. MaxLimit, NEW batchSize \in 0 .. MaxBatch,
             NEW total \in 0 .. MaxTotal, NEW keep \in BOOLEAN,
             Query(kind, limit, batchSize, total, keep)
      PROVE  LegacyInv'
  BY <1>1, QueryStep
<1>2. CASE Take
  BY <1>2, TakeStep
<1>3. CASE CloseAtLimit
  BY <1>3, CloseAtLimitStep
<1>4. ASSUME NEW keep \in BOOLEAN, legacyGetMore(keep) PROVE LegacyInv'
  BY <1>4, LegacyGetMoreStep
<1>5. CASE LegacyGetMoreFails \/ LegacyExhausted
  BY <1>5, LegacyEndStep
<1>6. CASE LegacyClose
  BY <1>6, LegacyCloseStep
<1>7. CASE UNCHANGED lcVars
  <2>1. /\ lcKind' = lcKind /\ lcTotal' = lcTotal /\ lcLimit' = lcLimit
        /\ lcBatchSize' = lcBatchSize /\ lcSent' = lcSent /\ lcOpen' = lcOpen /\ lcId' = lcId
        /\ lcFirst' = lcFirst /\ lcBatch' = lcBatch /\ lcReturned' = lcReturned /\ lcGot' = lcGot
        /\ lcPc' = lcPc
    BY <1>7 DEF lcVars
  <2>2. Wanted' = Wanted /\ Batched' = Batched
    BY <2>1 DEF Wanted, Batched
  <2> QED
    BY <2>1, <2>2 DEF LegacyInv, LegacyTypeOK, LegacyShape, LegacyCount
<1> QED
  BY <1>1, <1>2, <1>3, <1>4, <1>5, <1>6, <1>7, Zenon DEF LegacyNext

(* The inductive invariant of a legacy cursor, for results, limits and     *)
(* batch sizes of any size.                                                *)
THEOREM LegacyInvariant == LegacySpec => []LegacyInv
<1>1. LegacyInit => LegacyInv
  <2>1. SUFFICES ASSUME LegacyInit PROVE LegacyInv
    OBVIOUS
  <2>2. LegacyTypeOK
    <3>1. lcOpen \in BOOLEAN /\ lcId \in BOOLEAN /\ lcFirst \in BOOLEAN
      BY <2>1 DEF LegacyInit
    <3> QED
      BY <2>1, <3>1, LegacyAssumption DEF LegacyInit, LegacyTypeOK
  <2> QED
    BY <2>1, <2>2 DEF LegacyInit, LegacyInv, LegacyShape, LegacyCount
<1>2. LegacyInv /\ [LegacyNext]_lcVars => LegacyInv'
  BY LegacyStep
<1> QED
  BY <1>1, <1>2, PTL DEF LegacySpec

(* The variables of a legacy cursor keep their types. *)
THEOREM LegacyTypesStay == LegacySpec => []LegacyTypeOK
<1>1. LegacyInv => LegacyTypeOK
  BY DEF LegacyInv
<1> QED
  BY <1>1, LegacyInvariant, PTL

(* A legacy cursor with a batch size hands out what the limit allows and   *)
(* no document more, whatever the sizes of the replies, ends without an    *)
(* error only when it has handed out all of it, and leaves no cursor at    *)
(* the server when it has ended or was closed.                             *)
THEOREM LegacyKeepsLimit == LegacySpec => []LegacyCursorIsExact
<1>1. LegacyInv => LegacyCursorIsExact
  <2>1. SUFFICES ASSUME LegacyInv PROVE LegacyCursorIsExact
    OBVIOUS
  <2>2. LegacyTypeOK /\ LegacyShape /\ LegacyCount
    BY <2>1 DEF LegacyInv
  <2>3. /\ lcTotal \in Int /\ 0 <= lcTotal /\ lcLimit \in Int /\ lcSent \in Int /\ lcGot \in Int
        /\ lcGot <= lcSent
    BY <2>2, LegacyTypes DEF LegacyShape
  <2>4. Wanted \in Int /\ 0 <= Wanted
    BY <2>3 DEF Wanted, Smaller, Abs
  <2>5. Batched => lcGot <= Wanted
    <3>1. CASE lcPc = "new"
      BY <2>2, <2>4, <3>1 DEF LegacyShape
    <3>2. CASE lcPc # "new"
      BY <2>2, <2>3, <2>4, <3>2 DEF LegacyCount
    <3> QED
      BY <3>1, <3>2
  <2>6. Batched /\ lcPc = "done" => lcGot = Wanted
    BY <2>2 DEF LegacyCount
  <2>7. BatchedLimit
    BY <2>5, <2>6 DEF BatchedLimit, Batched
  <2>8. NoCursorLeft
    BY <2>2 DEF NoCursorLeft, LegacyShape
  <2> QED
    BY <2>7, <2>8 DEF LegacyCursorIsExact
<1> QED
  BY <1>1, LegacyInvariant, PTL

-----------------------------------------------------------------------------
(* Bulk writes.                                                            *)

(* The models whose batch is still to come, those of the batch that runs,  *)
(* and those of which results and errors were merged.                      *)
Left == UNION bwBatches
Pending == IF bwPc \in {"command", "merge"} THEN bwBatch ELSE {}
Merged == Indexes \ (Left \cup Pending)

OneKind(b) == \A i, j \in b : bwModels[i] = bwModels[j]

(* The batches share no model and have one kind each; what ordering says   *)
(* of them.                                                                *)
Apart ==
  /\ \A b \in bwBatches \cup {bwBatch} : OneKind(b)
  /\ \A b, c \in bwBatches : b # c => b \cap c = {}
  /\ {} \notin bwBatches /\ (bwPc \in {"command", "merge"} => bwBatch # {})
  /\ Pending \cap Left = {}
  /\ bwOrdered => /\ \A i \in Merged, j \in Left \cup Pending : i < j
                  /\ \A i \in Pending, j \in Left : i < j

(* What was not sent did not run, and a command was sent before another if *)
(* its models come first.                                                  *)
Sent ==
  /\ \A i \in Left \cup bwRest : ran[i] = "none"
  /\ \A i \in Indexes : ran[i] = "upserted" => bwModels[i] \in Updates
  /\ bwPc = "idle" =>
       bwModels = <<>> /\ bwBatches = {} /\ bwBatch = {} /\ bwResult = NoResult /\ bwErr = NoErr
  /\ bwPc = "command" =>
       /\ bwOp.err = "none" /\ bwRest # {} /\ bwOp.offset = Cardinality(bwBatch \ bwRest)
       /\ \A i \in bwBatch \ bwRest, j \in bwRest : i < j
  /\ bwPc # "command" => bwRest = {}
  /\ IsFiniteSet(bwOp.res.upserted)

(* Of a call that is not acknowledged no errors of models are known.       *)
Silent ==
  ~bwAck =>
    /\ bwPc \in {"command", "merge"} => bwOp.errors = {} /\ bwOp.wce = FALSE
    /\ bwErr.errors = {} /\ bwErr.wce = FALSE /\ bwPc # "exception"

(* Which errors are known, of the operation and of the call, where it is   *)
(* acknowledged.                                                           *)
Failures ==
  /\ OrderedStops
  /\ bwOrdered /\ bwPc \in {"execute", "command"} => \A i \in Indexes : ran[i] # "failed"
  /\ bwOrdered /\ bwPc = "merge" => \A i \in Merged : ran[i] # "failed"
  /\ bwPc \in {"command", "merge"} => bwOp.err # "unacknowledged"
  /\ bwPc \in {"command", "merge"} /\ bwOp.err = "none" =>
       /\ At(bwBatch, bwOp.errors) = {i \in bwBatch : ran[i] = "failed"}
       /\ ~bwOrdered => \A i \in bwBatch \ bwRest : ran[i] # "none"
  /\ bwPc \in {"nil", "exception"} => bwErr.last = "none" /\ (~bwOrdered => bwBatches = {})
  /\ bwPc = "nil" => bwBatches = {}
  /\ bwOrdered /\ bwPc \in {"execute", "command", "merge"} => bwErr.last = "none"
  /\ bwErr.last = "none" =>
       /\ bwErr.errors = {i \in Merged : ran[i] = "failed"}
       /\ ~bwOrdered => \A i \in Merged : ran[i] # "none"

Done(models, fates, ks) == {i \in models : ran[i] \in fates /\ bwModels[i] \in ks}

(* The counts of the operation and of the call, where batches are not      *)
(* split; at first those that were upserted are matched, too.              *)
Counted ==
  Unsplit =>
    /\ bwPc = "command" => bwRest = bwBatch
    /\ bwPc = "merge" /\ bwOp.err = "none" =>
         /\ bwOp.res.n = Cardinality(Done(bwBatch, {"done", "upserted"}, ModelKinds))
         /\ bwOp.res.modified = Cardinality(Done(bwBatch, {"done"}, Updates))
         /\ Cardinality(bwOp.res.upserted) = Cardinality(Done(bwBatch, {"upserted"}, ModelKinds))
         /\ At(bwBatch, bwOp.res.upserted) = Done(bwBatch, {"upserted"}, ModelKinds)
    /\ bwPc \in {"execute", "command", "merge"} /\ bwErr.last = "none" =>
         /\ bwResult.inserted = Cardinality(Done(Merged, {"done"}, {"insert"}))
         /\ bwResult.deleted = Cardinality(Done(Merged, {"done"}, Deletes))
         /\ bwResult.matched = Cardinality(Done(Merged, {"done", "upserted"}, Updates))
         /\ bwResult.modified = Cardinality(Done(Merged, {"done"}, Updates))
         /\ bwResult.upserted = Cardinality(Done(Merged, {"upserted"}, Updates))
         /\ bwResult.ids = Done(Merged, {"upserted"}, Updates)
    /\ bwPc = "nil" => CountsAreExact
BulkInv == BulkTypeOK /\ Apart /\ Sent /\ Silent /\ (bwAck => Failures /\ Counted)

-----------------------------------------------------------------------------
(* Two parts of a finite set are counted one after the other. *)
LEMMA CountOfParts ==
  ASSUME NEW A, NEW B, IsFiniteSet(A), IsFiniteSet(B), A \cap B = {}
  PROVE  Cardinality(A \cup B) = Cardinality(A) + Cardinality(B)
<1>1. Cardinality(A \cap B) = 0
  BY FS_EmptySet
<1>2. Cardinality(A) \in Nat /\ Cardinality(B) \in Nat
  BY FS_CardinalityType
<1>3. Cardinality(A \cup B) = Cardinality(A) + Cardinality(B) - Cardinality(A \cap B)
  BY FS_Union
<1> QED
  BY <1>1, <1>2, <1>3

(* A set of natural numbers has a least one. *)
LEMMA LeastModel ==
  ASSUME NEW T \in SUBSET Nat, T # {}
  PROVE  Min(T) \in T
<1> DEFINE R == OpToRel(<, Nat)
<1>1. IsWellFoundedOn(R, Nat)
  BY NatLessThanWellFounded
<1>2. \A x, y \in Nat : <<y, x>> \in R <=> y < x
  BY DEF OpToRel
<1> HIDE DEF R
<1>3. \E x \in T : \A y \in T : ~(<<y, x>> \in R)
  BY <1>1, WFMin
<1>4. PICK x \in T : \A y \in T : ~(<<y, x>> \in R)
  BY <1>3
<1>5. x \in Nat /\ \A y \in T : y \in Nat /\ ~(y < x)
  BY <1>2, <1>4
<1>6. \A y \in T : x <= y
  BY <1>5
<1> QED
  BY <1>6 DEF Min

(* A later model has a greater position. *)
LEMMA PositionGrows ==
  ASSUME NEW S \in SUBSET Nat, IsFiniteSet(S)
  PROVE  /\ \A i : Position(i, S) \in Nat
         /\ \A i, j \in S : i < j => Position(i, S) < Position(j, S)
<1>1. \A i : IsFiniteSet({k \in S : k < i}) /\ Position(i, S) \in Nat
  <2> TAKE i
  <2>1. {k \in S : k < i} \in SUBSET S
    OBVIOUS
  <2>2. IsFiniteSet({k \in S : k < i})
    BY <2>1, FS_Subset
  <2> QED
    BY <2>2, FS_CardinalityType DEF Position
<1>2. ASSUME NEW i \in S, NEW j \in S, i < j
      PROVE  Position(i, S) < Position(j, S)
  <2> DEFINE A == {k \in S : k < i}
             B == {k \in S : k < j}
  <2>1. A \in SUBSET B
    <3>1. i \in Nat /\ j \in Nat /\ S \subseteq Nat
      OBVIOUS
    <3>2. \A k \in S : k < i => k < j
      BY <1>2, <3>1
    <3> QED
      BY <3>2
  <2>2. A # B
    <3>1. i \in B /\ i \notin A
      BY <1>2
    <3> QED
      BY <3>1
  <2>3. IsFiniteSet(B) /\ Cardinality(A) \in Nat /\ Cardinality(B) \in Nat
    BY <1>1 DEF Position
  <2>4. Position(i, S) = Cardinality(A) /\ Position(j, S) = Cardinality(B)
    BY DEF Position
  <2> HIDE DEF A, B
  <2>5. Cardinality(A) <= Cardinality(B) /\ (Cardinality(B) = Cardinality(A) => B = A)
    BY <2>1, <2>3, FS_Subset
  <2> QED
    BY <2>2, <2>3, <2>4, <2>5
<1> QED
  BY <1>1, <1>2

(* A position names one model. *)
LEMMA PositionIsUnique ==
  ASSUME NEW S \in SUBSET Nat, IsFiniteSet(S), NEW i \in S, NEW j \in S, Position(i, S) = Position(j, S)
  PROVE  i = j
<1>1. i \in Nat /\ j \in Nat
  OBVIOUS
<1>2. /\ Position(i, S) \in Nat
      /\ i < j => Position(i, S) < Position(j, S)
      /\ j < i => Position(j, S) < Position(i, S)
  BY PositionGrows
<1>3. ~(i < j) /\ ~(j < i)
  BY <1>2
<1> QED
  BY <1>1, <1>3

(* Models are found at their places, and as many places as models.         *)
LEMMA PlacesFindModels ==
  ASSUME NEW S \in SUBSET Nat, IsFiniteSet(S), NEW T \in SUBSET S
  PROVE  /\ At(S, Places(T, S)) = T /\ Places(T, S) \in SUBSET Nat
         /\ Cardinality(Places(T, S)) = Cardinality(T) /\ IsFiniteSet(Places(T, S))
<1> DEFINE f == [i \in T |-> Position(i, S)]
<1>1. \A i \in S : Position(i, S) \in Nat
  BY PositionGrows
<1>2. \A i, j \in S : Position(i, S) = Position(j, S) => i = j
  BY PositionIsUnique
<1>3. At(S, Places(T, S)) = T
  BY <1>2 DEF At, Places
<1>4. Places(T, S) \in SUBSET Nat
  BY <1>1 DEF Places
<1>5. f \in Bijection(T, Places(T, S))
  BY <1>2 DEF Bijection, Injection, Surjection, IsInjective, Places
<1>6. IsFiniteSet(T)
  BY FS_Subset
<1>7. Cardinality(Places(T, S)) = Cardinality(T) /\ IsFiniteSet(Places(T, S))
  BY <1>5, <1>6, FS_Bijection DEF ExistsBijection
<1> QED
  BY <1>3, <1>4, <1>7

(* A command is a first part of what is left of a batch, and all of it if  *)
(* that is not too much.                                                   *)
LEMMA CommandIsFirst ==
  ASSUME NEW R \in SUBSET Nat, IsFiniteSet(R)
  PROVE  /\ AdvanceBatch(R) \subseteq R
         /\ \A i \in AdvanceBatch(R), j \in R \ AdvanceBatch(R) : i < j
         /\ Cardinality(R) <= MaxBatchCount => AdvanceBatch(R) = R
<1>1. AdvanceBatch(R) \subseteq R
  BY DEF AdvanceBatch
<1>2. ASSUME NEW i \in AdvanceBatch(R), NEW j \in R \ AdvanceBatch(R)
      PROVE  i < j
  <2>1. Position(i, R) < MaxBatchCount /\ ~(Position(j, R) < MaxBatchCount) /\ i \in R
    BY <1>2 DEF AdvanceBatch
  <2>2. Position(i, R) \in Nat /\ Position(j, R) \in Nat /\ MaxBatchCount \in Nat
    BY PositionGrows, BulkAssumption
  <2>3. j < i => Position(j, R) < Position(i, R)
    BY <2>1, PositionGrows
  <2>4. i # j
    BY <2>1
  <2>5. i \in Nat /\ j \in Nat
    BY <2>1
  <2>6. ~(j < i)
    BY <2>1, <2>2, <2>3
  <2> QED
    BY <2>4, <2>5, <2>6
<1>3. ASSUME Cardinality(R) <= MaxBatchCount, NEW i \in R
      PROVE  Position(i, R) < MaxBatchCount
  <2> DEFINE A == {k \in R : k < i}
  <2>1. A \in SUBSET R /\ i \notin A
    OBVIOUS
  <2>2. Position(i, R) = Cardinality(A) /\ Position(i, R) \in Nat
    BY PositionGrows DEF Position
  <2> HIDE DEF A
  <2>3. Cardinality(A) <= Cardinality(R) /\ Cardinality(A) # Cardinality(R)
    BY <2>1, FS_Subset
  <2>4. Cardinality(R) \in Nat /\ MaxBatchCount \in Nat
    BY FS_CardinalityType, BulkAssumption
  <2> QED
    BY <1>3, <2>2, <2>3, <2>4
<1>4. Cardinality(R) <= MaxBatchCount => AdvanceBatch(R) = R
  BY <1>3 DEF AdvanceBatch
<1> QED
  BY <1>1, <1>2, <1>4

(* The places of the errors of a command, shifted by what was sent before, *)
(* are the places of the same models in the batch.                         *)
LEMMA ShiftedFindModels ==
  ASSUME NEW B \in SUBSET Nat, IsFiniteSet(B), NEW R \in SUBSET B,
         \A i \in B \ R, j \in R : i < j,
         NEW T \in SUBSET AdvanceBatch(R)
  PROVE  /\ At(B, ShiftErrors(Places(T, AdvanceBatch(R)), Cardinality(B \ R))) = T
         /\ ShiftErrors(Places(T, AdvanceBatch(R)), Cardinality(B \ R)) \in SUBSET Nat
<1> DEFINE C == AdvanceBatch(R)
           n == Cardinality(B \ R)
<1>1. IsFiniteSet(R) /\ IsFiniteSet(B \ R) /\ n \in Nat
  BY FS_Subset, FS_Difference, FS_CardinalityType
<1>2. /\ C \subseteq R /\ \A i \in C, j \in R \ C : i < j
  BY <1>1, CommandIsFirst
<1>3. IsFiniteSet(C) /\ C \in SUBSET Nat
  BY <1>1, <1>2, FS_Subset
<1> HIDE DEF C
<1>4. ASSUME NEW i \in C
      PROVE  Position(i, B) = Position(i, C) + n
  <2> DEFINE before == {k \in C : k < i}
  <2>1. {k \in B : k < i} = before \cup (B \ R)
    <3>1. i \in R /\ i \in Nat
      BY <1>2, <1>4
    <3>2. ASSUME NEW k \in B, k < i
          PROVE  k \in before \/ k \in B \ R
      <4>1. k \in Nat
        OBVIOUS
      <4>2. k \in R \ C => i < k
        BY <1>2, <1>4
      <4>3. k \notin R \ C
        BY <3>1, <3>2, <4>1, <4>2
      <4> QED
        BY <3>2, <4>3
    <3>3. \A k \in B \ R : k < i
      BY <3>1
    <3>4. C \subseteq B
      BY <1>2
    <3> QED
      BY <3>2, <3>3, <3>4
  <2>2. IsFiniteSet(before)
    BY <1>3, FS_Subset
  <2>3. before \cap (B \ R) = {}
    BY <1>2
  <2>4. Position(i, C) = Cardinality(before) /\ Position(i, B) = Cardinality(before \cup (B \ R))
    BY <2>1 DEF Position
  <2> HIDE DEF before
  <2> QED
    BY <1>1, <2>2, <2>3, <2>4, CountOfParts
<1>5. \A i \in C : Position(i, C) \in Nat
  BY <1>3, PositionGrows
<1>6. ShiftErrors(Places(T, C), n) = Places(T, B)
  <2>1. T \subseteq C
    BY DEF C
  <2>2. \A i \in T : Position(i, B) = Position(i, C) + n
    BY <1>4, <2>1
  <2> QED
    BY <2>2 DEF ShiftErrors, Places
<1>7. T \in SUBSET B
  BY <1>2 DEF C
<1>8. At(B, Places(T, B)) = T /\ Places(T, B) \in SUBSET Nat
  BY <1>7, PlacesFindModels
<1> QED
  BY <1>6, <1>8 DEF C

-----------------------------------------------------------------------------
(* The indexes of a call are finitely many numbers. *)
LEMMA CallFacts ==
  ASSUME NEW ks \in Calls
  PROVE  /\ DOMAIN ks \in SUBSET Nat /\ IsFiniteSet(DOMAIN ks)
         /\ \A i \in DOMAIN ks : ks[i] \in ModelKinds
<1>1. PICK m \in 0 .. MaxModels : ks \in [1 .. m -> ModelKinds]
  BY DEF Calls
<1>2. DOMAIN ks = 1 .. m /\ m \in Int
  BY <1>1, BulkAssumption
<1>3. IsFiniteSet(1 .. m)
  BY <1>2, FS_Interval
<1>4. \A i \in 1 .. m : ks[i] \in ModelKinds
  BY <1>1
<1> QED
  BY <1>2, <1>3, <1>4

(* So are those of any part of it. *)
LEMMA PartsAreFinite ==
  ASSUME BulkTypeOK, NEW S \in SUBSET Indexes
  PROVE  S \in SUBSET Nat /\ IsFiniteSet(S) /\ Cardinality(S) \in Nat
<1>1. Indexes \in SUBSET Nat /\ IsFiniteSet(Indexes)
  BY CallFacts DEF BulkTypeOK, Indexes
<1>2. IsFiniteSet(S)
  BY <1>1, FS_Subset
<1> QED
  BY <1>1, <1>2, FS_CardinalityType

(* An operation, a result and an error as they are made.                   *)
LEMMA NewRecords ==
  /\ NoOperation.res = NoCounts /\ NoOperation.errors = {} /\ NoOperation.wce = FALSE
  /\ NoOperation.offset = 0 /\ NoOperation.err = "none" /\ NoCounts.upserted = {}
  /\ NoErr.errors = {} /\ NoErr.wce = FALSE /\ NoErr.last = "none"
  /\ NoResult.inserted = 0 /\ NoResult.matched = 0 /\ NoResult.modified = 0
  /\ NoResult.deleted = 0 /\ NoResult.upserted = 0 /\ NoResult.ids = {}
BY DEF NoOperation, NoCounts, NoErr, NoResult

(* The types of operations.                                                *)
OpType == [res : [n : Nat, modified : Nat, upserted : SUBSET Nat], errors : SUBSET Nat,
           wce : BOOLEAN, offset : Nat, err : ErrorKinds]

(* A new operation has that type. *)
LEMMA NewOperation == NoOperation \in OpType
BY DEF NoOperation, NoCounts, OpType, ErrorKinds

(* Nothing was done with no models. *)
LEMMA NoneDone ==
  ASSUME NEW fates, NEW ks
  PROVE  Done({}, fates, ks) = {} /\ Cardinality(Done({}, fates, ks)) = 0
<1>1. Done({}, fates, ks) = {}
  BY DEF Done
<1> QED
  BY <1>1, FS_EmptySet

(* A call that was not made is in the invariant. *)
LEMMA BulkInitGood == BulkInit => BulkInv
<1> SUFFICES ASSUME BulkInit PROVE BulkInv
  OBVIOUS
<1>1. bwModels = <<>> /\ Indexes = {} /\ bwBatches = {} /\ bwBatch = {} /\ bwRest = {} /\ ran = <<>>
  BY DEF BulkInit, Indexes
<1>2. bwOp = NoOperation /\ bwResult = NoResult /\ bwErr = NoErr /\ bwPc = "idle" /\ bwOrdered = TRUE /\ bwAck = TRUE
  BY DEF BulkInit
<1>3. Left = {} /\ Pending = {} /\ Merged = {}
  BY <1>1, <1>2 DEF Left, Pending, Merged
<1>4. BulkTypeOK
  <2>1. bwModels \in Calls
    <3>1. <<>> \in [1 .. 0 -> ModelKinds]
      OBVIOUS
    <3>2. 0 \in 0 .. MaxModels
      BY BulkAssumption
    <3> QED
      BY <1>1, <3>1, <3>2 DEF Calls
  <2>2. ran \in [Indexes -> Fates]
    BY <1>1
  <2>3. bwOp \in OpType
    BY <1>2, NewOperation
  <2>4. /\ bwResult \in [inserted : Nat, matched : Int, modified : Nat, deleted : Nat, upserted : Nat,
                         ids : SUBSET Indexes]
        /\ bwErr \in [errors : SUBSET Indexes, wce : BOOLEAN, last : ErrorKinds]
    BY <1>2 DEF NoResult, NoErr, ErrorKinds
  <2> QED
    BY <1>1, <1>2, <2>1, <2>2, <2>3, <2>4 DEF BulkTypeOK, OpType
<1>5. Apart
  BY <1>1, <1>2, <1>3 DEF Apart, OneKind
<1>6. Sent
  BY <1>1, <1>2, <1>3, NewRecords, FS_EmptySet DEF Sent
<1>7. Failures
  BY <1>1, <1>2, <1>3, NewRecords DEF Failures, OrderedStops
<1>8. Counted
  BY <1>2 DEF Counted
<1>9. Silent
  BY <1>2 DEF Silent
<1> QED
  BY <1>4, <1>5, <1>6, <1>7, <1>8, <1>9 DEF BulkInv

-----------------------------------------------------------------------------
(* Batches are parts of the call with one kind each, and share no model.   *)
LEMMA BatchesAreParts ==
  ASSUME NEW ks \in Calls, NEW bs \in {createOrderedBatches(ks), createBatches(ks)}
  PROVE  /\ bs \subseteq SUBSET DOMAIN ks /\ {} \notin bs /\ UNION bs = DOMAIN ks
         /\ \A b \in bs : \A i, j \in b : ks[i] = ks[j]
         /\ \A b, c \in bs : b # c => b \cap c = {}
<1>1. DOMAIN ks \in SUBSET Nat
  BY CallFacts
<1>2. CASE bs = createBatches(ks)
  <2> DEFINE B(i) == {j \in DOMAIN ks : ks[j] = ks[i]}
  <2>1. bs = {B(i) : i \in DOMAIN ks}
    BY <1>2 DEF createBatches
  <2>2. \A i \in DOMAIN ks : i \in B(i) /\ B(i) \subseteq DOMAIN ks
    OBVIOUS
  <2>3. \A i \in DOMAIN ks : \A j, k \in B(i) : ks[j] = ks[k]
    OBVIOUS
  <2>4. \A i, j \in DOMAIN ks : B(i) # B(j) => B(i) \cap B(j) = {}
    OBVIOUS
  <2> HIDE DEF B
  <2> QED
    BY <2>1, <2>2, <2>3, <2>4
<1>3. CASE bs = createOrderedBatches(ks)
  <2> DEFINE Span(i, j) == {k \in DOMAIN ks : (i <= k /\ k <= j) \/ (j <= k /\ k <= i)}
             B(i) == {j \in DOMAIN ks : \A k \in Span(i, j) : ks[k] = ks[i]}
  <2>1. bs = {B(i) : i \in DOMAIN ks}
    BY <1>3 DEF createOrderedBatches, KindRuns
  <2>2. \A i \in DOMAIN ks : i \in B(i) /\ B(i) \subseteq DOMAIN ks
    <3>1. ASSUME NEW i \in DOMAIN ks, NEW k \in Span(i, i)
          PROVE  k = i
      <4>1. i \in Nat /\ k \in Nat
        BY <1>1
      <4> QED
        BY <4>1
    <3> QED
      BY <3>1
  <2>3. \A i \in DOMAIN ks : \A j \in B(i) : ks[j] = ks[i]
    <3>1. ASSUME NEW i \in DOMAIN ks, NEW j \in DOMAIN ks
          PROVE  j \in Span(i, j)
      <4>1. i \in Nat /\ j \in Nat
        BY <1>1
      <4> QED
        BY <4>1
    <3> QED
      BY <3>1
  <2>4. ASSUME NEW i \in DOMAIN ks, NEW j \in B(i), NEW l \in B(j)
        PROVE  l \in B(i)
    <3>1. i \in Nat /\ j \in Nat /\ l \in Nat /\ l \in DOMAIN ks
      BY <1>1
    <3>2. ASSUME NEW k \in Span(i, l)
          PROVE  k \in Span(i, j) \/ k \in Span(j, l)
      <4>1. k \in Nat
        BY <1>1
      <4> QED
        BY <3>1, <3>2, <4>1
    <3>3. ks[j] = ks[i]
      BY <2>3
    <3> QED
      BY <3>1, <3>2, <3>3
  <2>5. ASSUME NEW i \in DOMAIN ks, NEW j \in B(i)
        PROVE  i \in B(j)
    <3>1. Span(j, i) = Span(i, j)
      OBVIOUS
    <3>2. ks[j] = ks[i]
      BY <2>3
    <3> QED
      BY <3>1, <3>2
  <2> HIDE DEF B
  <2>6. \A i, j \in DOMAIN ks : B(i) # B(j) => B(i) \cap B(j) = {}
    <3>1. SUFFICES ASSUME NEW i \in DOMAIN ks, NEW j \in DOMAIN ks, NEW l \in B(i) \cap B(j)
                   PROVE  B(i) = B(j)
      OBVIOUS
    <3>2. l \in DOMAIN ks /\ i \in B(l) /\ j \in B(l)
      BY <2>2, <2>5
    <3>3. B(i) \subseteq B(l) /\ B(l) \subseteq B(i) /\ B(j) \subseteq B(l) /\ B(l) \subseteq B(j)
      BY <2>4, <3>2
    <3> QED
      BY <3>3
  <2> QED
    BY <2>1, <2>2, <2>3, <2>6
<1> QED
  BY <1>2, <1>3

(* The call is made: all of it is left. *)
LEMMA BulkStartStep ==
  ASSUME BulkInv, NEW ks \in Calls, NEW ordered \in BOOLEAN, NEW ack \in BOOLEAN,
         BulkStart(ks, ordered, ack)
  PROVE  BulkInv'
<1>1. BulkTypeOK /\ Sent
  BY DEF BulkInv
<1>2. /\ bwPc = "idle" /\ bwPc' = "execute" /\ bwModels' = ks /\ bwOrdered' = ordered /\ bwAck' = ack
      /\ ran' = [i \in DOMAIN ks |-> "none"]
      /\ bwBatches' \in {createOrderedBatches(ks), createBatches(ks)}
      /\ bwBatch' = bwBatch /\ bwRest' = bwRest /\ bwOp' = bwOp /\ bwResult' = bwResult /\ bwErr' = bwErr
  BY DEF BulkStart
<1>3. bwBatch = {} /\ bwRest = {} /\ bwResult = NoResult /\ bwErr = NoErr /\ Indexes' = DOMAIN ks
  BY <1>1, <1>2 DEF Sent, BulkTypeOK, Indexes
<1>4. /\ bwBatches' \subseteq SUBSET DOMAIN ks /\ {} \notin bwBatches' /\ UNION bwBatches' = DOMAIN ks
      /\ \A b \in bwBatches' : \A i, j \in b : ks[i] = ks[j]
      /\ \A b, c \in bwBatches' : b # c => b \cap c = {}
  BY <1>2, BatchesAreParts
<1>5. Left' = DOMAIN ks /\ Pending' = {} /\ Merged' = {}
  BY <1>2, <1>3, <1>4 DEF Left, Pending, Merged
<1>6. \A i \in DOMAIN ks : ran'[i] = "none"
  BY <1>2
<1>7. BulkTypeOK'
  <2>1. ran' \in [Indexes' -> Fates]
    BY <1>2, <1>3 DEF Fates
  <2>2. /\ bwResult' \in [inserted : Nat, matched : Int, modified : Nat, deleted : Nat, upserted : Nat,
                          ids : SUBSET Indexes']
        /\ bwErr' \in [errors : SUBSET Indexes', wce : BOOLEAN, last : ErrorKinds]
    BY <1>2, <1>3 DEF NoResult, NoErr, ErrorKinds
  <2>3. bwOp' \in OpType
    BY <1>1, <1>2 DEF BulkTypeOK, OpType
  <2> QED
    BY <1>2, <1>3, <1>4, <2>1, <2>2, <2>3 DEF BulkTypeOK, OpType
<1>8. Apart'
  BY <1>2, <1>3, <1>4, <1>5 DEF Apart, OneKind
<1>9. Sent'
  <2>1. IsFiniteSet(bwOp.res.upserted)
    BY <1>1 DEF Sent
  <2> QED
    BY <1>2, <1>3, <1>5, <1>6, <2>1 DEF Sent
<1>10. Failures'
  BY <1>2, <1>3, <1>5, <1>6, NewRecords DEF Failures, OrderedStops
<1>11. Counted'
  <2>1. \A fates, kinds : Done(Merged, fates, kinds)' = {}
    BY <1>5 DEF Done
  <2>2. Cardinality({}) = 0
    BY FS_EmptySet
  <2> QED
    BY <1>2, <1>3, <2>1, <2>2, NewRecords DEF Counted
<1>12. Silent'
  BY <1>2, <1>3, NewRecords DEF Silent
<1> QED
  BY <1>7, <1>8, <1>9, <1>10, <1>11, <1>12 DEF BulkInv

(* A batch is taken: what was left becomes what runs. *)
LEMMA RunBatchStep ==
  ASSUME BulkInv, NEW b \in bwBatches, RunBatch(b)
  PROVE  BulkInv'
<1>0. bwAck => Failures /\ Counted
  BY DEF BulkInv
<1>1. BulkTypeOK /\ Apart /\ Sent /\ Silent
  BY DEF BulkInv
<1>2. /\ bwPc = "execute" /\ bwPc' = "command" /\ bwBatch' = b /\ bwBatches' = bwBatches \ {b}
      /\ bwRest' = b /\ bwOp' = NoOperation
      /\ bwModels' = bwModels /\ bwOrdered' = bwOrdered /\ bwAck' = bwAck
      /\ bwResult' = bwResult /\ bwErr' = bwErr /\ ran' = ran
  BY DEF RunBatch, callVars
<1>3. Indexes' = Indexes /\ b \subseteq Indexes /\ b # {}
  BY <1>1, <1>2 DEF Indexes, BulkTypeOK, Apart
<1>4. \A c \in bwBatches \ {b} : b \cap c = {}
  BY <1>1 DEF Apart
<1>5. Left = Left' \cup b /\ Left' \cap b = {} /\ Pending = {} /\ Pending' = b /\ Merged' = Merged
  <2>1. Left = Left' \cup b /\ Left' \cap b = {}
    BY <1>2, <1>4 DEF Left
  <2>2. Pending = {} /\ Pending' = b
    BY <1>2 DEF Pending
  <2> QED
    BY <1>3, <2>1, <2>2 DEF Merged
<1>6. BulkTypeOK'
  <2>1. bwOp' \in OpType
    BY <1>2, NewOperation
  <2>2. bwBatches' \subseteq SUBSET Indexes
    BY <1>1, <1>2 DEF BulkTypeOK
  <2> QED
    BY <1>1, <1>2, <1>3, <2>1, <2>2 DEF BulkTypeOK, OpType
<1>7. Apart'
  <2>1. /\ \A c \in bwBatches' \cup {bwBatch'} : OneKind(c)'
        /\ \A c, d \in bwBatches' : c # d => c \cap d = {}
        /\ {} \notin bwBatches' /\ bwBatch' # {} /\ Pending' \cap Left' = {}
    BY <1>1, <1>2, <1>3, <1>5 DEF Apart, OneKind
  <2>2. bwOrdered => \A i \in Merged, j \in Left' \cup Pending' : i < j
    BY <1>1, <1>5 DEF Apart
  <2>3. bwOrdered => \A i \in b, j \in Left' : i < j
    BY <1>2 DEF RunBatch, Precedes, Left
  <2> QED
    BY <1>2, <1>5, <2>1, <2>2, <2>3 DEF Apart
<1>8. Sent'
  <2>1. \A i \in Left' \cup bwRest' : ran[i] = "none"
    BY <1>1, <1>2, <1>5 DEF Sent
  <2>2. bwOp'.err = "none" /\ bwOp'.offset = 0
    BY <1>2, NewRecords
  <2>3. Cardinality(b \ b) = 0
    BY FS_EmptySet
  <2>4. IsFiniteSet(bwOp'.res.upserted)
    BY <1>2, NewRecords, FS_EmptySet
  <2> QED
    BY <1>1, <1>2, <1>3, <2>1, <2>2, <2>3, <2>4 DEF Sent
<1>9. ASSUME bwAck
      PROVE  Failures'
  <2>0. Failures /\ Counted
    BY <1>0, <1>9
  <2>1. At(bwBatch, bwOp.errors)' = {}
    BY <1>2, NewRecords DEF At
  <2>2. \A i \in b : ran[i] = "none"
    BY <1>1, <1>5 DEF Sent
  <2>3. OrderedStops'
    BY <1>1, <1>2, <1>3, <2>0 DEF Failures, OrderedStops
  <2>4. /\ bwOrdered => (\A i \in Indexes : ran[i] # "failed") /\ bwErr.last = "none"
        /\ bwErr.last = "none" =>
             /\ bwErr.errors = {i \in Merged : ran[i] = "failed"}
             /\ ~bwOrdered => \A i \in Merged : ran[i] # "none"
    BY <1>1, <1>2, <2>0 DEF Failures
  <2> QED
    BY <1>2, <1>3, <1>5, <2>1, <2>2, <2>3, <2>4, NewRecords DEF Failures
<1>10. ASSUME bwAck
      PROVE  Counted'
  <2>0. Failures /\ Counted
    BY <1>0, <1>10
  <2>1. Unsplit' <=> Unsplit
    BY <1>2, <1>3 DEF Unsplit
  <2>2. \A fates, kinds : Done(Merged, fates, kinds)' = Done(Merged, fates, kinds)
    BY <1>2, <1>5 DEF Done
  <2> QED
    BY <1>1, <1>2, <2>0, <2>1, <2>2 DEF Counted
<1>11. Silent'
  BY <1>1, <1>2, NewRecords DEF Silent
<1> QED
  BY <1>2, <1>6, <1>7, <1>8, <1>9, <1>10, <1>11 DEF BulkInv

(* A command fails as a whole: the operation knows of nothing else. *)
LEMMA CommandErrorStep ==
  ASSUME BulkInv, CommandError
  PROVE  BulkInv'
<1>0. bwAck => Failures /\ Counted
  BY DEF BulkInv
<1>1. BulkTypeOK /\ Apart /\ Sent /\ Silent
  BY DEF BulkInv
<1>2. /\ bwPc = "command" /\ bwPc' = "merge" /\ bwRest' = {} /\ bwOp' = [NoOperation EXCEPT !.err = "error"]
      /\ bwModels' = bwModels /\ bwOrdered' = bwOrdered /\ bwAck' = bwAck
      /\ bwResult' = bwResult /\ bwErr' = bwErr
      /\ ran' = ran /\ bwBatches' = bwBatches /\ bwBatch' = bwBatch
  BY DEF CommandError, callVars
<1>3. bwOp' \in OpType /\ bwOp'.err = "error" /\ bwOp'.res = NoCounts
      /\ bwOp'.errors = {} /\ bwOp'.wce = FALSE
  BY <1>2, NewOperation, NewRecords DEF OpType, ErrorKinds
<1>4. Indexes' = Indexes /\ Left' = Left /\ Pending' = Pending /\ Merged' = Merged
  BY <1>2 DEF Indexes, Left, Pending, Merged
<1>5. BulkTypeOK'
  BY <1>1, <1>2, <1>3, <1>4 DEF BulkTypeOK, OpType
<1>6. Apart'
  BY <1>1, <1>2, <1>4 DEF Apart, OneKind
<1>7. Sent'
  BY <1>1, <1>2, <1>3, <1>4, NewRecords, FS_EmptySet DEF Sent
<1>8. ASSUME bwAck
      PROVE  Failures'
  <2>0. Failures /\ Counted
    BY <1>0, <1>8
  <2>1. OrderedStops'
    BY <1>1, <1>2, <1>4, <2>0 DEF Failures, OrderedStops
  <2>2. /\ bwOrdered => (\A i \in Indexes : ran[i] # "failed") /\ bwErr.last = "none"
        /\ bwErr.last = "none" =>
             /\ bwErr.errors = {i \in Merged : ran[i] = "failed"}
             /\ ~bwOrdered => \A i \in Merged : ran[i] # "none"
    BY <1>1, <1>2, <2>0 DEF Failures
  <2>3. Merged \subseteq Indexes
    BY DEF Merged
  <2> QED
    BY <1>2, <1>3, <1>4, <2>1, <2>2, <2>3 DEF Failures
<1>9. ASSUME bwAck
      PROVE  Counted'
  <2>0. Failures /\ Counted
    BY <1>0, <1>9
  <2>1. Unsplit' <=> Unsplit
    BY <1>2, <1>4 DEF Unsplit
  <2>2. \A fates, kinds : Done(Merged, fates, kinds)' = Done(Merged, fates, kinds)
    BY <1>2, <1>4 DEF Done
  <2> QED
    BY <1>1, <1>2, <1>3, <2>0, <2>1, <2>2 DEF Counted
<1>10. Silent'
  BY <1>1, <1>2, <1>3 DEF Silent
<1> QED
  BY <1>2, <1>5, <1>6, <1>7, <1>8, <1>9, <1>10 DEF BulkInv

(* What a server may answer to a command. *)
LEMMA OutcomeFacts ==
  ASSUME NEW C, NEW o \in Outcomes(C)
  PROVE  /\ DOMAIN o = C /\ \A i \in C : o[i] \in Fates
         /\ \A i \in C : o[i] = "upserted" => bwModels[i] \in Updates
         /\ ~bwOrdered => \A i \in C : o[i] # "none"
         /\ bwOrdered => \A i, j \in C : i < j /\ o[i] = "failed" => o[j] = "none"
<1>1. o \in [C -> Fates]
  BY DEF Outcomes
<1>2. \A i \in C : IF bwOrdered /\ \E j \in C : j < i /\ o[j] = "failed" THEN o[i] = "none"
                   ELSE o[i] \in {"done", "failed"} \cup IF bwModels[i] \in Updates THEN {"upserted"} ELSE {}
  BY DEF Outcomes
<1> QED
  BY <1>1, <1>2

(* Where no batch is split, a batch is one command. *)
LEMMA UnsplitIsOneCommand ==
  ASSUME BulkTypeOK, Apart, Unsplit, bwPc = "command"
  PROVE  AdvanceBatch(bwBatch) = bwBatch
<1>1. PICK i \in bwBatch : TRUE
  BY DEF Apart
<1> DEFINE alike == {j \in Indexes : bwModels[j] = bwModels[i]}
<1>2. i \in Indexes /\ bwBatch \in SUBSET Indexes /\ alike \in SUBSET Indexes
  BY DEF BulkTypeOK
<1>3. bwBatch \in SUBSET alike
  BY <1>2 DEF Apart, OneKind
<1>4. Cardinality(alike) <= MaxBatchCount
  BY <1>2 DEF Unsplit
<1> HIDE DEF alike
<1>5. IsFiniteSet(alike) /\ Cardinality(alike) \in Nat
  BY <1>2, PartsAreFinite
<1>6. bwBatch \in SUBSET Nat /\ IsFiniteSet(bwBatch) /\ Cardinality(bwBatch) \in Nat
  BY <1>2, PartsAreFinite
<1>7. Cardinality(bwBatch) <= Cardinality(alike)
  BY <1>3, <1>5, FS_Subset
<1>8. Cardinality(bwBatch) <= MaxBatchCount
  BY <1>4, <1>5, <1>6, <1>7, BulkAssumption
<1> QED
  BY <1>6, <1>8, CommandIsFirst

(* The counts of a reply have their types. *)
LEMMA ReplyTypes ==
  ASSUME BulkTypeOK, NEW C \in SUBSET Indexes, NEW o, DOMAIN o = C
  PROVE  /\ ReplyCounts(o).n = Cardinality({i \in C : o[i] \in {"done", "upserted"}})
         /\ ReplyCounts(o).modified = Cardinality({i \in C : o[i] = "done" /\ bwModels[i] \in Updates})
         /\ ReplyCounts(o).upserted = Places({i \in C : o[i] = "upserted"}, C)
         /\ ReplyCounts(o) \in [n : Nat, modified : Nat, upserted : SUBSET Nat]
         /\ IsFiniteSet(ReplyCounts(o).upserted)
<1> DEFINE a == {i \in C : o[i] \in {"done", "upserted"}}
           m == {i \in C : o[i] = "done" /\ bwModels[i] \in Updates}
           u == {i \in C : o[i] = "upserted"}
<1>1. /\ Having(o, {"done", "upserted"}) = a /\ Having(o, {"upserted"}) = u
      /\ {i \in Having(o, {"done"}) : bwModels[i] \in Updates} = m
  BY DEF Having
<1>2. a \in SUBSET Indexes /\ m \in SUBSET Indexes /\ u \in SUBSET C
  OBVIOUS
<1> HIDE DEF a, m, u
<1>3. Cardinality(a) \in Nat /\ Cardinality(m) \in Nat
  BY <1>2, PartsAreFinite
<1>4. Places(u, C) \in SUBSET Nat /\ IsFiniteSet(Places(u, C))
  <2>1. C \in SUBSET Nat /\ IsFiniteSet(C)
    BY PartsAreFinite
  <2> QED
    BY <1>2, <2>1, PlacesFindModels
<1>5. ReplyCounts(o) = [n |-> Cardinality(a), modified |-> Cardinality(m), upserted |-> Places(u, C)]
  BY <1>1 DEF ReplyCounts
<1> QED
  BY <1>3, <1>4, <1>5 DEF a, m, u

(* A command and its reply: the errors of the operation are again those of *)
(* the models of its batch that failed.                                    *)
LEMMA RoundTripStep ==
  ASSUME BulkInv, NEW o \in Outcomes(AdvanceBatch(bwRest)), NEW wce \in BOOLEAN, RoundTrip(o, wce)
  PROVE  BulkInv'
<1>1. BulkTypeOK /\ Apart /\ Sent /\ Failures /\ Counted /\ bwAck
  BY DEF BulkInv, RoundTrip
<1>2. PICK C : C = AdvanceBatch(bwRest)
  OBVIOUS
<1>3. PICK failed : failed = Having(o, {"failed"})
  OBVIOUS
<1>4. PICK errs : errs = ShiftErrors(Places(failed, C), bwOp.offset)
  OBVIOUS
<1>5. PICK res : res = ReplyCounts(o)
  OBVIOUS
<1>6. PICK errors : errors = IF ReturnsEarly(o) THEN errs ELSE bwOp.errors \cup errs
  OBVIOUS
<1>7. PICK concern : concern = IF failed # {} \/ wce THEN wce ELSE bwOp.wce
  OBVIOUS
<1>8. PICK offset : offset = bwOp.offset + Cardinality(C)
  OBVIOUS
<1>9. /\ bwPc = "command" /\ bwPc' = IF bwRest' = {} THEN "merge" ELSE "command"
      /\ ran' = [i \in Indexes |-> IF i \in C THEN o[i] ELSE ran[i]]
      /\ bwRest' = IF ReturnsEarly(o) THEN {} ELSE bwRest \ C
      /\ bwModels' = bwModels /\ bwOrdered' = bwOrdered /\ bwAck' = bwAck
      /\ bwResult' = bwResult /\ bwErr' = bwErr
      /\ bwBatches' = bwBatches /\ bwBatch' = bwBatch
  BY <1>2 DEF RoundTrip, callVars
<1>10. bwOp' = [res |-> res, errors |-> errors, wce |-> concern, offset |-> offset, err |-> "none"]
  BY <1>2, <1>3, <1>4, <1>5, <1>6, <1>7, <1>8 DEF RoundTrip, ProcessResponse
<1>11. /\ bwOp'.res = res /\ bwOp'.errors = errors /\ bwOp'.offset = offset /\ bwOp'.err = "none"
  BY <1>10
<1>12. /\ bwBatch \in SUBSET Nat /\ IsFiniteSet(bwBatch) /\ bwBatch \subseteq Indexes
       /\ bwRest \in SUBSET bwBatch /\ bwRest \in SUBSET Nat /\ IsFiniteSet(bwRest)
       /\ bwOp.offset = Cardinality(bwBatch \ bwRest)
       /\ \A i \in bwBatch \ bwRest, j \in bwRest : i < j
  <2>1. bwBatch \in SUBSET Indexes /\ bwRest \in SUBSET bwBatch
    BY <1>1 DEF BulkTypeOK
  <2>2. bwRest \in SUBSET Indexes
    BY <2>1
  <2> QED
    BY <1>1, <1>9, <2>1, <2>2, PartsAreFinite DEF Sent
<1>13. C \subseteq bwRest /\ \A i \in C, j \in bwRest \ C : i < j
  BY <1>2, <1>12, CommandIsFirst
<1>14. /\ DOMAIN o = C /\ \A i \in C : o[i] \in Fates
       /\ \A i \in C : o[i] = "upserted" => bwModels[i] \in Updates
       /\ ~bwOrdered => \A i \in C : o[i] # "none"
       /\ bwOrdered => \A i, j \in C : i < j /\ o[i] = "failed" => o[j] = "none"
  BY <1>2, OutcomeFacts
<1>15. failed = {i \in C : o[i] = "failed"} /\ (ReturnsEarly(o) <=> bwOrdered /\ failed # {})
  BY <1>3, <1>14 DEF Having, ReturnsEarly
<1>16. At(bwBatch, errs) = failed /\ errs \in SUBSET Nat
  <2>1. failed \in SUBSET AdvanceBatch(bwRest)
    BY <1>2, <1>15
  <2>2. errs = ShiftErrors(Places(failed, AdvanceBatch(bwRest)), Cardinality(bwBatch \ bwRest))
    BY <1>2, <1>4, <1>12
  <2> QED
    BY <1>12, <2>1, <2>2, ShiftedFindModels
<1>17. /\ Indexes' = Indexes /\ Left' = Left /\ Pending = bwBatch /\ Pending' = bwBatch /\ Merged' = Merged
       /\ bwPc' \in {"command", "merge"}
  BY <1>9 DEF Indexes, Left, Pending, Merged
<1>18. \A i \in Indexes : ran'[i] = IF i \in C THEN o[i] ELSE ran[i]
  BY <1>9
<1>19. /\ Left \cap C = {} /\ Merged \cap C = {} /\ Merged \subseteq Indexes /\ Left \subseteq Indexes
  BY <1>1, <1>12, <1>13, <1>17 DEF Apart, Merged, Left, BulkTypeOK
<1>20. /\ \A i \in Left \cup bwRest : ran[i] = "none"
       /\ bwOrdered => \A i \in Indexes : ran[i] # "failed"
       /\ At(bwBatch, bwOp.errors) = {i \in bwBatch : ran[i] = "failed"}
       /\ ~bwOrdered => \A i \in bwBatch \ bwRest : ran[i] # "none"
  BY <1>1, <1>9 DEF Sent, Failures
<1>21. BulkTypeOK'
  <2>1. ran' \in [Indexes -> Fates]
    BY <1>1, <1>9, <1>14 DEF BulkTypeOK
  <2>2. bwRest' \subseteq bwBatch
    BY <1>9, <1>12
  <2>3. C \in SUBSET Indexes
    BY <1>12, <1>13
  <2>4. res \in [n : Nat, modified : Nat, upserted : SUBSET Nat]
    BY <1>1, <1>5, <1>14, <2>3, ReplyTypes
  <2>5. errors \in SUBSET Nat /\ offset \in Nat
    <3>1. bwOp.errors \in SUBSET Nat /\ bwOp.offset \in Nat
      BY <1>1 DEF BulkTypeOK
    <3>2. Cardinality(C) \in Nat
      BY <1>1, <2>3, PartsAreFinite
    <3>3. errors \in SUBSET Nat
      BY <1>6, <1>16, <3>1
    <3>4. offset \in Nat
      BY <1>8, <3>1, <3>2
    <3> QED
      BY <3>3, <3>4
  <2>6. concern \in BOOLEAN
    <3>1. bwOp.wce \in BOOLEAN
      BY <1>1 DEF BulkTypeOK
    <3> QED
      BY <1>7, <3>1
  <2>7. bwOp' \in OpType
    BY <1>10, <2>4, <2>5, <2>6 DEF OpType, ErrorKinds
  <2>8. bwPc' \in {"idle", "execute", "command", "merge", "nil", "exception", "error", "unacknowledged"}
    BY <1>17
  <2> QED
    BY <1>1, <1>9, <1>17, <2>1, <2>2, <2>7, <2>8 DEF BulkTypeOK, OpType
<1>22. Apart'
  BY <1>1, <1>9, <1>17 DEF Apart, OneKind
<1>23. Sent'
  <2>1. \A i \in Left \cup bwRest' : ran'[i] = "none"
    <3>1. \A i \in Left \cup bwRest' : i \notin C /\ i \in Left \cup bwRest /\ i \in Indexes
      BY <1>9, <1>12, <1>19
    <3> QED
      BY <1>18, <1>20, <3>1
  <2>2. \A i \in Indexes : ran'[i] = "upserted" => bwModels[i] \in Updates
    BY <1>1, <1>14, <1>18 DEF Sent
  <2>3. ASSUME bwRest' # {}
        PROVE  /\ offset = Cardinality(bwBatch \ bwRest')
               /\ \A i \in bwBatch \ bwRest', j \in bwRest' : i < j
    <3>1. bwRest' = bwRest \ C
      BY <1>9, <2>3
    <3>2. bwBatch \ bwRest' = (bwBatch \ bwRest) \cup C /\ (bwBatch \ bwRest) \cap C = {}
      BY <1>12, <1>13, <3>1
    <3>3. IsFiniteSet(bwBatch \ bwRest) /\ IsFiniteSet(C)
      BY <1>12, <1>13, FS_Subset, FS_Difference
    <3>4. offset = Cardinality(bwBatch \ bwRest')
      BY <1>8, <1>12, <3>2, <3>3, CountOfParts
    <3>5. \A i \in bwBatch \ bwRest', j \in bwRest' : i < j
      BY <1>12, <1>13, <3>1, <3>2
    <3> QED
      BY <3>4, <3>5
  <2>4. IsFiniteSet(res.upserted)
    <3>1. C \in SUBSET Indexes
      BY <1>12, <1>13
    <3> QED
      BY <1>1, <1>5, <1>14, <3>1, ReplyTypes
  <2> QED
    BY <1>9, <1>11, <1>17, <2>1, <2>2, <2>3, <2>4 DEF Sent
<1>24. Failures'
  <2>1. ASSUME bwOrdered, NEW i \in Indexes, NEW j \in Indexes, i < j, ran'[i] = "failed"
        PROVE  ran'[j] = "none"
    <3>1. i \in C /\ o[i] = "failed"
      BY <1>18, <1>20, <2>1
    <3>2. CASE j \in C
      BY <1>14, <1>18, <2>1, <3>1, <3>2
    <3>3. CASE j \notin C
      <4>1. i \in Nat /\ j \in Nat
        <5>1. Indexes \in SUBSET Indexes
          OBVIOUS
        <5>2. Indexes \in SUBSET Nat
          BY <1>1, <5>1, PartsAreFinite
        <5> QED
          BY <5>2
      <4>2. j \notin Merged
        <5>1. j \in Merged => j < i
          BY <1>1, <1>12, <1>13, <1>17, <2>1, <3>1 DEF Apart
        <5> QED
          BY <2>1, <4>1, <5>1
      <4>3. j \notin bwBatch \ bwRest
        <5>1. j \in bwBatch \ bwRest => j < i
          BY <1>12, <1>13, <3>1
        <5> QED
          BY <2>1, <4>1, <5>1
      <4>4. j \in Left \cup bwRest
        BY <1>17, <2>1, <4>2, <4>3 DEF Merged
      <4> QED
        BY <1>18, <1>20, <3>3, <4>4
    <3> QED
      BY <3>2, <3>3
  <2>2. OrderedStops'
    BY <1>9, <1>17, <2>1 DEF OrderedStops
  <2>3. bwOrdered /\ bwPc' = "command" => \A i \in Indexes : ran'[i] # "failed"
    <3>1. bwOrdered /\ bwPc' = "command" => failed = {}
      BY <1>9, <1>15
    <3> QED
      BY <1>15, <1>18, <1>20, <3>1
  <2>4. bwOrdered => \A i \in Merged : ran'[i] # "failed"
    BY <1>18, <1>19, <1>20
  <2>5. At(bwBatch, errors) = {i \in bwBatch : ran'[i] = "failed"}
    <3>1. {i \in bwBatch : ran'[i] = "failed"} = failed \cup {i \in bwBatch : ran[i] = "failed"}
      <4>1. \A i \in bwBatch : ran'[i] = "failed" <=> i \in failed \/ ran[i] = "failed"
        BY <1>12, <1>13, <1>15, <1>18, <1>20
      <4>2. failed \subseteq bwBatch
        BY <1>12, <1>13, <1>15
      <4> QED
        BY <4>1, <4>2
    <3>2. CASE ReturnsEarly(o)
      <4>1. errors = errs /\ {i \in bwBatch : ran[i] = "failed"} = {}
        BY <1>6, <1>12, <1>15, <1>20, <3>2
      <4> QED
        BY <1>16, <3>1, <4>1
    <3>3. CASE ~ReturnsEarly(o)
      <4>1. At(bwBatch, errors) = At(bwBatch, bwOp.errors) \cup At(bwBatch, errs)
        BY <1>6, <3>3 DEF At
      <4> QED
        BY <1>16, <1>20, <3>1, <4>1
    <3> QED
      BY <3>2, <3>3
  <2>6. ~bwOrdered => \A i \in bwBatch \ bwRest' : ran'[i] # "none"
    <3>1. ~bwOrdered => bwRest' = bwRest \ C
      BY <1>9, <1>15
    <3> QED
      BY <1>12, <1>14, <1>18, <1>20, <3>1
  <2>7. /\ bwOrdered => bwErr.last = "none"
        /\ bwErr.last = "none" =>
             /\ bwErr.errors = {i \in Merged : ran'[i] = "failed"}
             /\ ~bwOrdered => \A i \in Merged : ran'[i] # "none"
    <3>1. \A i \in Merged : ran'[i] = ran[i]
      BY <1>18, <1>19
    <3>2. /\ bwOrdered => bwErr.last = "none"
          /\ bwErr.last = "none" =>
               /\ bwErr.errors = {i \in Merged : ran[i] = "failed"}
               /\ ~bwOrdered => \A i \in Merged : ran[i] # "none"
      BY <1>1, <1>9 DEF Failures
    <3>3. {i \in Merged : ran'[i] = "failed"} = {i \in Merged : ran[i] = "failed"}
      BY <3>1
    <3> QED
      BY <3>1, <3>2, <3>3
  <2>8. bwPc' \notin {"nil", "exception", "execute"}
    BY <1>17
  <2>9. At(bwBatch, bwOp.errors)' = At(bwBatch, errors)
    BY <1>9, <1>11 DEF At
  <2> QED
    BY <1>9, <1>11, <1>17, <2>2, <2>3, <2>4, <2>5, <2>6, <2>7, <2>8, <2>9 DEF Failures
<1>25. Counted'
  <2>1. Unsplit' <=> Unsplit
    BY <1>9, <1>17 DEF Unsplit
  <2>2. \A fates, kinds : Done(Merged, fates, kinds)' = Done(Merged, fates, kinds)
    <3>1. \A i \in Merged : ran'[i] = ran[i]
      BY <1>18, <1>19
    <3> QED
      BY <1>9, <1>17, <3>1 DEF Done
  <2>3. ASSUME Unsplit
        PROVE  /\ bwPc' = "merge"
               /\ res.n = Cardinality(Done(bwBatch, {"done", "upserted"}, ModelKinds)')
               /\ res.modified = Cardinality(Done(bwBatch, {"done"}, Updates)')
               /\ Cardinality(res.upserted) = Cardinality(Done(bwBatch, {"upserted"}, ModelKinds)')
               /\ At(bwBatch, res.upserted) = Done(bwBatch, {"upserted"}, ModelKinds)'
    <3>1. bwRest = bwBatch
      BY <1>1, <1>9, <2>3 DEF Counted
    <3>2. C = bwBatch
      BY <1>1, <1>2, <1>9, <2>3, <3>1, UnsplitIsOneCommand
    <3>3. bwPc' = "merge"
      BY <1>9, <3>1, <3>2
    <3>4. /\ res.n = Cardinality({i \in C : o[i] \in {"done", "upserted"}})
          /\ res.modified = Cardinality({i \in C : o[i] = "done" /\ bwModels[i] \in Updates})
          /\ res.upserted = Places({i \in C : o[i] = "upserted"}, C)
      <4>1. C \in SUBSET Indexes /\ DOMAIN o = C
        BY <1>12, <1>14, <3>2
      <4> QED
        BY <1>1, <1>5, <4>1, ReplyTypes
    <3>5. \A i \in C : ran'[i] = o[i] /\ bwModels[i] \in ModelKinds
      BY <1>1, <1>12, <1>18, <3>2, CallFacts DEF BulkTypeOK, Indexes
    <3>6. /\ Done(bwBatch, {"done", "upserted"}, ModelKinds)' = {i \in C : o[i] \in {"done", "upserted"}}
          /\ Done(bwBatch, {"done"}, Updates)' = {i \in C : o[i] = "done" /\ bwModels[i] \in Updates}
          /\ Done(bwBatch, {"upserted"}, ModelKinds)' = {i \in C : o[i] = "upserted"}
      BY <1>9, <3>2, <3>5 DEF Done
    <3>7. PICK u : u = {i \in C : o[i] = "upserted"}
      OBVIOUS
    <3>8. u \in SUBSET C /\ C \in SUBSET Nat /\ IsFiniteSet(C)
      BY <1>12, <3>2, <3>7
    <3>9. At(C, Places(u, C)) = u /\ Cardinality(Places(u, C)) = Cardinality(u)
      BY <3>8, PlacesFindModels
    <3> QED
      BY <3>2, <3>3, <3>4, <3>6, <3>7, <3>9
  <2>4. At(bwBatch, bwOp.res.upserted)' = At(bwBatch, res.upserted)
    BY <1>9, <1>11 DEF At
  <2> QED
    BY <1>1, <1>9, <1>11, <1>17, <2>1, <2>2, <2>3, <2>4 DEF Counted
<1>26. Silent'
  BY <1>1, <1>9 DEF Silent
<1> QED
  BY <1>21, <1>22, <1>23, <1>24, <1>25, <1>26 DEF BulkInv

(* A command that is not acknowledged: the operation learns nothing. *)
LEMMA UnacknowledgedStep ==
  ASSUME BulkInv, NEW o \in Outcomes(AdvanceBatch(bwRest)) \cup {Lost(AdvanceBatch(bwRest))},
         NEW opMsg \in BOOLEAN, UnacknowledgedRoundTrip(o, opMsg)
  PROVE  BulkInv'
<1>1. BulkTypeOK /\ Apart /\ Sent /\ Silent /\ ~bwAck
  BY DEF BulkInv, UnacknowledgedRoundTrip
<1>2. PICK C : C = AdvanceBatch(bwRest)
  OBVIOUS
<1>3. PICK err : err = IF opMsg /\ bwRest \ C = {} THEN "unacknowledged" ELSE "none"
  OBVIOUS
<1>4. PICK offset : offset = bwOp.offset + Cardinality(C)
  OBVIOUS
<1>5. /\ bwPc = "command" /\ bwPc' = IF bwRest' = {} THEN "merge" ELSE "command"
      /\ ran' = [i \in Indexes |-> IF i \in C THEN o[i] ELSE ran[i]]
      /\ bwRest' = bwRest \ C
      /\ bwModels' = bwModels /\ bwOrdered' = bwOrdered /\ bwAck' = bwAck /\ bwResult' = bwResult
      /\ bwErr' = bwErr /\ bwBatches' = bwBatches /\ bwBatch' = bwBatch
  BY <1>2 DEF UnacknowledgedRoundTrip, callVars
<1>6. bwOp' = [NoOperation EXCEPT !.offset = offset, !.err = err]
  BY <1>2, <1>3, <1>4 DEF UnacknowledgedRoundTrip
<1>7. bwOp' = [res |-> NoCounts, errors |-> {}, wce |-> FALSE, offset |-> offset, err |-> err]
  BY <1>6 DEF NoOperation
<1>8. /\ bwBatch \in SUBSET Indexes /\ bwRest \in SUBSET bwBatch /\ bwRest \in SUBSET Nat
      /\ IsFiniteSet(bwBatch) /\ IsFiniteSet(bwRest) /\ bwOp.offset = Cardinality(bwBatch \ bwRest)
      /\ \A i \in bwBatch \ bwRest, j \in bwRest : i < j
  <2>1. bwBatch \in SUBSET Indexes /\ bwRest \in SUBSET bwBatch
    BY <1>1 DEF BulkTypeOK
  <2>2. bwRest \in SUBSET Indexes
    BY <2>1
  <2> QED
    BY <1>1, <1>5, <2>1, <2>2, PartsAreFinite DEF Sent
<1>9. C \in SUBSET bwRest /\ \A i \in C, j \in bwRest \ C : i < j
  BY <1>2, <1>8, CommandIsFirst
<1>10. /\ \A i \in C : o[i] \in Fates
       /\ \A i \in C : o[i] = "upserted" => bwModels[i] \in Updates
  <2>1. CASE o \in Outcomes(C)
    BY <2>1, OutcomeFacts
  <2>2. CASE o = Lost(C)
    BY <2>2 DEF Lost, Fates
  <2> QED
    BY <1>2, <2>1, <2>2
<1>11. /\ Indexes' = Indexes /\ Left' = Left /\ Pending = bwBatch /\ Pending' = bwBatch /\ Merged' = Merged
       /\ bwPc' \in {"command", "merge"}
  BY <1>5 DEF Indexes, Left, Pending, Merged
<1>12. \A i \in Indexes : ran'[i] = IF i \in C THEN o[i] ELSE ran[i]
  BY <1>5
<1>13. BulkTypeOK'
  <2>1. ran' \in [Indexes -> Fates]
    BY <1>1, <1>5, <1>10 DEF BulkTypeOK
  <2>2. C \in SUBSET Indexes
    BY <1>8, <1>9
  <2>3. bwOp.offset \in Nat /\ Cardinality(C) \in Nat
    BY <1>1, <2>2, PartsAreFinite DEF BulkTypeOK
  <2>4. offset \in Nat
    BY <1>4, <2>3
  <2>5. bwOp' \in OpType
    BY <1>3, <1>7, <2>4 DEF OpType, ErrorKinds, NoCounts
  <2>6. bwRest' \subseteq bwBatch
    BY <1>5, <1>8
  <2> QED
    BY <1>1, <1>5, <1>11, <2>1, <2>5, <2>6 DEF BulkTypeOK, OpType
<1>14. Apart'
  BY <1>1, <1>5, <1>11 DEF Apart, OneKind
<1>15. Sent'
  <2>1. \A i \in Left \cup bwRest' : ran'[i] = "none"
    <3>1. \A i \in Left \cup bwRest' : i \notin C /\ i \in Left \cup bwRest /\ i \in Indexes
      BY <1>1, <1>5, <1>8, <1>9, <1>11 DEF Apart, Left, BulkTypeOK
    <3> QED
      BY <1>1, <1>12, <3>1 DEF Sent
  <2>2. \A i \in Indexes : ran'[i] = "upserted" => bwModels[i] \in Updates
    BY <1>1, <1>10, <1>12 DEF Sent
  <2>3. bwRest' # {} => err = "none"
    BY <1>3, <1>5
  <2>4. /\ offset = Cardinality(bwBatch \ bwRest')
        /\ \A i \in bwBatch \ bwRest', j \in bwRest' : i < j
    <3>1. bwBatch \ bwRest' = (bwBatch \ bwRest) \cup C /\ (bwBatch \ bwRest) \cap C = {}
      BY <1>5, <1>8, <1>9
    <3>2. IsFiniteSet(bwBatch \ bwRest) /\ IsFiniteSet(C)
      BY <1>8, <1>9, FS_Subset, FS_Difference
    <3>3. offset = Cardinality(bwBatch \ bwRest')
      BY <1>4, <1>8, <3>1, <3>2, CountOfParts
    <3>4. \A i \in bwBatch \ bwRest', j \in bwRest' : i < j
      BY <1>5, <1>8, <1>9, <3>1
    <3> QED
      BY <3>3, <3>4
  <2>5. IsFiniteSet(bwOp'.res.upserted) /\ bwOp'.err = err /\ bwOp'.offset = offset
    BY <1>7, FS_EmptySet DEF NoCounts
  <2> QED
    BY <1>5, <1>11, <2>1, <2>2, <2>3, <2>4, <2>5 DEF Sent
<1>16. Silent'
  BY <1>1, <1>5, <1>7, <1>11 DEF Silent
<1> QED
  BY <1>1, <1>5, <1>13, <1>14, <1>15, <1>16 DEF BulkInv

(* The models of two parts are counted one after the other. *)
LEMMA DoneOfParts ==
  ASSUME BulkTypeOK, NEW A \in SUBSET Indexes, NEW B \in SUBSET Indexes, A \cap B = {}, NEW fates, NEW ks
  PROVE  /\ Done(A \cup B, fates, ks) = Done(A, fates, ks) \cup Done(B, fates, ks)
         /\ Cardinality(Done(A \cup B, fates, ks)) =
              Cardinality(Done(A, fates, ks)) + Cardinality(Done(B, fates, ks))
<1>1. PICK a : a = Done(A, fates, ks)
  OBVIOUS
<1>2. PICK b : b = Done(B, fates, ks)
  OBVIOUS
<1>3. a \in SUBSET Indexes /\ b \in SUBSET Indexes /\ a \cap b = {}
  BY <1>1, <1>2 DEF Done
<1>4. Done(A \cup B, fates, ks) = a \cup b
  BY <1>1, <1>2 DEF Done
<1>5. IsFiniteSet(a) /\ IsFiniteSet(b)
  BY <1>3, PartsAreFinite
<1>6. Cardinality(a \cup b) = Cardinality(a) + Cardinality(b)
  BY <1>3, <1>5, CountOfParts
<1> QED
  BY <1>1, <1>2, <1>4, <1>6

(* What the counts of an operation are counts of, by the kind of its       *)
(* batch.                                                                  *)
LEMMA DoneOfKind ==
  ASSUME BulkTypeOK, Sent, NEW k, \A i \in bwBatch : bwModels[i] = k
  PROVE  /\ Done(bwBatch, {"done"}, {"insert"}) =
              IF k = "insert" THEN Done(bwBatch, {"done", "upserted"}, ModelKinds) ELSE {}
         /\ Done(bwBatch, {"done"}, Deletes) =
              IF k \in Deletes THEN Done(bwBatch, {"done", "upserted"}, ModelKinds) ELSE {}
         /\ Done(bwBatch, {"done", "upserted"}, Updates) =
              IF k \in Updates THEN Done(bwBatch, {"done", "upserted"}, ModelKinds) ELSE {}
         /\ k \notin Updates => Done(bwBatch, {"done"}, Updates) = {}
         /\ Done(bwBatch, {"upserted"}, Updates) =
              IF k \in Updates THEN Done(bwBatch, {"upserted"}, ModelKinds) ELSE {}
<1>1. \A i \in bwBatch : bwModels[i] = k /\ k \in ModelKinds /\ (ran[i] = "upserted" => k \in Updates)
  BY CallFacts DEF BulkTypeOK, Sent, Indexes
<1>2. Updates \cap Deletes = {} /\ "insert" \notin Updates
  BY DEF Updates, Deletes
<1> QED
  BY <1>1, <1>2 DEF Done

(* The result with the counts of an operation in it.                       *)
LEMMA MergedResult ==
  ASSUME BulkTypeOK, Sent, NEW k, k = bwModels[Min(bwBatch)]
  PROVE  LET r == bwResult
             c == bwOp.res
             m == mergeResults(bwResult)
         IN  /\ m.inserted = r.inserted + IF k = "insert" THEN c.n ELSE 0
             /\ m.matched = r.matched + IF k \in Updates THEN c.n ELSE 0
             /\ m.modified = r.modified + IF k \in Updates THEN c.modified ELSE 0
             /\ m.deleted = r.deleted + IF k \in Deletes THEN c.n ELSE 0
             /\ m.upserted = r.upserted + IF k \in Updates THEN Cardinality(c.upserted) ELSE 0
             /\ m.ids = r.ids \cup IF k \in Updates THEN At(bwBatch, c.upserted) ELSE {}
             /\ m \in [inserted : Nat, matched : Int, modified : Nat, deleted : Nat, upserted : Nat,
                       ids : SUBSET Indexes]
<1>1. PICK n1 : n1 = bwResult.inserted + IF k = "insert" THEN bwOp.res.n ELSE 0
  OBVIOUS
<1>2. PICK n2 : n2 = bwResult.matched + IF k \in Updates THEN bwOp.res.n ELSE 0
  OBVIOUS
<1>3. PICK n3 : n3 = bwResult.modified + IF k \in Updates THEN bwOp.res.modified ELSE 0
  OBVIOUS
<1>4. PICK n4 : n4 = bwResult.deleted + IF k \in Deletes THEN bwOp.res.n ELSE 0
  OBVIOUS
<1>5. PICK n5 : n5 = bwResult.upserted + IF k \in Updates THEN Cardinality(bwOp.res.upserted) ELSE 0
  OBVIOUS
<1>6. PICK s : s = bwResult.ids \cup IF k \in Updates THEN At(bwBatch, bwOp.res.upserted) ELSE {}
  OBVIOUS
<1>7. mergeResults(bwResult) = [inserted |-> n1, matched |-> n2, modified |-> n3, deleted |-> n4,
                                upserted |-> n5, ids |-> s]
  BY <1>1, <1>2, <1>3, <1>4, <1>5, <1>6 DEF mergeResults
<1>8. /\ bwResult.inserted \in Nat /\ bwResult.matched \in Int /\ bwResult.modified \in Nat
      /\ bwResult.deleted \in Nat /\ bwResult.upserted \in Nat /\ bwResult.ids \in SUBSET Indexes
      /\ bwOp.res.n \in Nat /\ bwOp.res.modified \in Nat /\ bwBatch \subseteq Indexes
  BY DEF BulkTypeOK
<1>9. Cardinality(bwOp.res.upserted) \in Nat
  BY FS_CardinalityType DEF Sent
<1>10. n1 \in Nat /\ n2 \in Int /\ n3 \in Nat /\ n4 \in Nat /\ n5 \in Nat
  BY <1>1, <1>2, <1>3, <1>4, <1>5, <1>8, <1>9
<1>11. s \in SUBSET Indexes
  BY <1>6, <1>8 DEF At
<1> QED
  BY <1>1, <1>2, <1>3, <1>4, <1>5, <1>6, <1>7, <1>10, <1>11

(* A batch is merged into the result and the errors of the call. *)
LEMMA MergeBatchStep ==
  ASSUME BulkInv, MergeBatch
  PROVE  BulkInv'
<1>0. bwAck => Failures /\ Counted
  BY DEF BulkInv
<1>1. BulkTypeOK /\ Apart /\ Sent /\ Silent
  BY DEF BulkInv
<1>2. /\ bwPc = "merge" /\ bwPc' = IF ~Stops THEN "execute" ELSE IF bwOp.err = "error" THEN "error" ELSE "exception"
      /\ bwResult' = IF bwOp.err = "none" THEN mergeResults(bwResult) ELSE bwResult
      /\ bwModels' = bwModels /\ bwOrdered' = bwOrdered /\ bwAck' = bwAck
      /\ bwBatches' = bwBatches /\ bwBatch' = bwBatch
      /\ bwRest' = bwRest /\ bwOp' = bwOp /\ ran' = ran
  BY DEF MergeBatch, callVars
<1>3. PICK e : e = bwErr.errors \cup At(bwBatch, bwOp.errors)
  OBVIOUS
<1> DEFINE last == IF bwOp.err = "none" THEN bwErr.last ELSE bwOp.err
<1>4. last \in ErrorKinds /\ bwOp.wce \in BOOLEAN
  BY <1>1 DEF BulkTypeOK
<1>5. last = "none" <=> bwErr.last = "none" /\ bwOp.err = "none"
  OBVIOUS
<1>6. bwErr' = [errors |-> e, wce |-> bwOp.wce, last |-> last]
  BY <1>3 DEF MergeBatch
<1> HIDE DEF last
<1>7. bwErr'.errors = e /\ bwErr'.last = last /\ bwErr'.wce = bwOp.wce
  BY <1>6
<1>8. /\ bwBatch \subseteq Indexes /\ bwBatch # {} /\ bwRest = {} /\ bwBatch \cap Left = {}
      /\ Left \subseteq Indexes
  BY <1>1, <1>2 DEF BulkTypeOK, Apart, Sent, Pending, Left
<1>9. /\ Indexes' = Indexes /\ Left' = Left /\ Pending = bwBatch /\ Pending' = {}
      /\ Merged' = Merged \cup bwBatch /\ Merged \cap bwBatch = {} /\ Merged \subseteq Indexes
      /\ Indexes = Merged \cup bwBatch \cup Left
  <2>1. Indexes' = Indexes /\ Left' = Left /\ Pending = bwBatch /\ Pending' = {}
    BY <1>2 DEF Indexes, Left, Pending
  <2> QED
    BY <1>8, <2>1 DEF Merged
<1>10. PICK k : k = bwModels[Min(bwBatch)]
  OBVIOUS
<1>11. \A i \in bwBatch : bwModels[i] = k
  <2>1. bwBatch \in SUBSET Indexes
    BY <1>8
  <2>2. bwBatch \in SUBSET Nat
    BY <1>1, <2>1, PartsAreFinite
  <2>3. Min(bwBatch) \in bwBatch
    BY <1>8, <2>2, LeastModel
  <2> QED
    BY <1>1, <1>10, <2>3 DEF Apart, OneKind
<1>12. BulkTypeOK'
  <2>1. bwErr' \in [errors : SUBSET Indexes, wce : BOOLEAN, last : ErrorKinds]
    <3>1. e \in SUBSET Indexes
      BY <1>1, <1>3, <1>8 DEF BulkTypeOK, At
    <3> QED
      BY <1>4, <1>6, <3>1
  <2>2. bwResult' \in [inserted : Nat, matched : Int, modified : Nat, deleted : Nat, upserted : Nat,
                       ids : SUBSET Indexes]
    <3>1. CASE bwOp.err # "none"
      BY <1>1, <1>2, <3>1 DEF BulkTypeOK
    <3>2. CASE bwOp.err = "none"
      BY <1>1, <1>2, <1>10, <3>2, MergedResult
    <3> QED
      BY <3>1, <3>2
  <2>3. bwPc' \in {"idle", "execute", "command", "merge", "nil", "exception", "error", "unacknowledged"}
    BY <1>2
  <2> QED
    BY <1>1, <1>2, <1>9, <2>1, <2>2, <2>3 DEF BulkTypeOK
<1>13. Apart'
  <2>1. bwOrdered => \A i \in Merged', j \in Left : i < j
    BY <1>1, <1>9 DEF Apart
  <2>2. bwPc' \notin {"command", "merge"}
    BY <1>2
  <2> QED
    BY <1>1, <1>2, <1>9, <2>1, <2>2 DEF Apart, OneKind
<1>14. Sent'
  <2>1. bwPc' \notin {"command", "idle"}
    BY <1>2
  <2> QED
    BY <1>1, <1>2, <1>8, <1>9, <2>1 DEF Sent
<1>15. ASSUME bwAck
      PROVE  Failures'
  <2>0. Failures /\ Counted
    BY <1>0, <1>15
  <2>1. /\ OrderedStops /\ bwOp.err # "unacknowledged"
        /\ bwOrdered => (\A i \in Merged : ran[i] # "failed") /\ bwErr.last = "none"
        /\ bwOp.err = "none" =>
             /\ At(bwBatch, bwOp.errors) = {i \in bwBatch : ran[i] = "failed"}
             /\ ~bwOrdered => \A i \in bwBatch : ran[i] # "none"
        /\ bwErr.last = "none" =>
             /\ bwErr.errors = {i \in Merged : ran[i] = "failed"}
             /\ ~bwOrdered => \A i \in Merged : ran[i] # "none"
    BY <1>1, <1>2, <1>8, <2>0 DEF Failures
  <2>2. \A i \in Left : ran[i] = "none"
    BY <1>1 DEF Sent
  <2>3. bwOrdered /\ bwPc' = "execute" => (\A i \in Indexes : ran[i] # "failed") /\ last = "none"
    <3>1. SUFFICES ASSUME bwOrdered, bwPc' = "execute"
                   PROVE  (\A i \in Indexes : ran[i] # "failed") /\ last = "none"
      OBVIOUS
    <3>2. bwOp.err = "none" /\ bwOp.errors = {}
      BY <1>1, <1>2, <2>1, <3>1 DEF Stops, BulkTypeOK, ErrorKinds
    <3>3. {i \in bwBatch : ran[i] = "failed"} = {}
      BY <2>1, <3>2 DEF At
    <3> QED
      BY <1>5, <1>9, <2>1, <2>2, <3>1, <3>2, <3>3
  <2>4. bwPc' = "exception" => bwOrdered /\ last = "none"
    <3>1. bwPc' = "exception" => bwOrdered /\ bwOp.err = "none"
      BY <1>1, <1>2, <2>1 DEF Stops, BulkTypeOK, ErrorKinds
    <3> QED
      BY <1>5, <2>1, <3>1
  <2>5. last = "none" =>
          /\ e = {i \in Merged' : ran[i] = "failed"}
          /\ ~bwOrdered => \A i \in Merged' : ran[i] # "none"
    <3>1. SUFFICES ASSUME last = "none"
                   PROVE  /\ e = {i \in Merged' : ran[i] = "failed"}
                          /\ ~bwOrdered => \A i \in Merged' : ran[i] # "none"
      OBVIOUS
    <3>2. bwErr.last = "none" /\ bwOp.err = "none"
      BY <1>5, <3>1
    <3>3. e = {i \in Merged : ran[i] = "failed"} \cup {i \in bwBatch : ran[i] = "failed"}
      BY <1>3, <2>1, <3>2
    <3> QED
      BY <1>9, <2>1, <3>2, <3>3
  <2>6. OrderedStops'
    BY <1>2, <1>9, <2>1 DEF OrderedStops
  <2>7. bwPc' \notin {"nil", "command", "merge"}
    BY <1>2
  <2> QED
    BY <1>2, <1>7, <1>9, <2>3, <2>4, <2>5, <2>6, <2>7 DEF Failures
<1>16. ASSUME bwAck
      PROVE  Counted'
  <2>0. Failures /\ Counted
    BY <1>0, <1>16
  <2>1. Unsplit' <=> Unsplit
    BY <1>2, <1>9 DEF Unsplit
  <2>2. \A fates, kinds : Done(Merged, fates, kinds)' = Done(Merged \cup bwBatch, fates, kinds)
    BY <1>2, <1>9 DEF Done
  <2>3. ASSUME Unsplit, last = "none"
        PROVE  /\ bwResult'.inserted = Cardinality(Done(Merged \cup bwBatch, {"done"}, {"insert"}))
               /\ bwResult'.deleted = Cardinality(Done(Merged \cup bwBatch, {"done"}, Deletes))
               /\ bwResult'.matched = Cardinality(Done(Merged \cup bwBatch, {"done", "upserted"}, Updates))
               /\ bwResult'.modified = Cardinality(Done(Merged \cup bwBatch, {"done"}, Updates))
               /\ bwResult'.upserted = Cardinality(Done(Merged \cup bwBatch, {"upserted"}, Updates))
               /\ bwResult'.ids = Done(Merged \cup bwBatch, {"upserted"}, Updates)
    <3>1. bwErr.last = "none" /\ bwOp.err = "none" /\ bwResult' = mergeResults(bwResult)
      BY <1>2, <1>5, <2>3
    <3>2. /\ bwResult.inserted = Cardinality(Done(Merged, {"done"}, {"insert"}))
          /\ bwResult.deleted = Cardinality(Done(Merged, {"done"}, Deletes))
          /\ bwResult.matched = Cardinality(Done(Merged, {"done", "upserted"}, Updates))
          /\ bwResult.modified = Cardinality(Done(Merged, {"done"}, Updates))
          /\ bwResult.upserted = Cardinality(Done(Merged, {"upserted"}, Updates))
          /\ bwResult.ids = Done(Merged, {"upserted"}, Updates)
      BY <1>1, <1>2, <2>0, <2>3, <3>1 DEF Counted
    <3>3. /\ bwOp.res.n = Cardinality(Done(bwBatch, {"done", "upserted"}, ModelKinds))
          /\ bwOp.res.modified = Cardinality(Done(bwBatch, {"done"}, Updates))
          /\ Cardinality(bwOp.res.upserted) = Cardinality(Done(bwBatch, {"upserted"}, ModelKinds))
          /\ At(bwBatch, bwOp.res.upserted) = Done(bwBatch, {"upserted"}, ModelKinds)
      BY <1>1, <1>2, <2>0, <2>3, <3>1 DEF Counted
    <3>4. /\ bwResult'.inserted = bwResult.inserted + IF k = "insert" THEN bwOp.res.n ELSE 0
          /\ bwResult'.matched = bwResult.matched + IF k \in Updates THEN bwOp.res.n ELSE 0
          /\ bwResult'.modified = bwResult.modified + IF k \in Updates THEN bwOp.res.modified ELSE 0
          /\ bwResult'.deleted = bwResult.deleted + IF k \in Deletes THEN bwOp.res.n ELSE 0
          /\ bwResult'.upserted = bwResult.upserted + IF k \in Updates THEN Cardinality(bwOp.res.upserted) ELSE 0
          /\ bwResult'.ids = bwResult.ids \cup IF k \in Updates THEN At(bwBatch, bwOp.res.upserted) ELSE {}
      BY <1>1, <1>10, <3>1, MergedResult
    <3>5. /\ Done(bwBatch, {"done"}, {"insert"}) =
               IF k = "insert" THEN Done(bwBatch, {"done", "upserted"}, ModelKinds) ELSE {}
          /\ Done(bwBatch, {"done"}, Deletes) =
               IF k \in Deletes THEN Done(bwBatch, {"done", "upserted"}, ModelKinds) ELSE {}
          /\ Done(bwBatch, {"done", "upserted"}, Updates) =
               IF k \in Updates THEN Done(bwBatch, {"done", "upserted"}, ModelKinds) ELSE {}
          /\ k \notin Updates => Done(bwBatch, {"done"}, Updates) = {}
          /\ Done(bwBatch, {"upserted"}, Updates) =
               IF k \in Updates THEN Done(bwBatch, {"upserted"}, ModelKinds) ELSE {}
      BY <1>1, <1>11, DoneOfKind
    <3>6. Cardinality({}) = 0
      BY FS_EmptySet
    <3>7. Merged \in SUBSET Indexes /\ bwBatch \in SUBSET Indexes /\ Merged \cap bwBatch = {}
      BY <1>8, <1>9
    <3>8. \A fates, kinds :
            /\ Done(Merged \cup bwBatch, fates, kinds) = Done(Merged, fates, kinds) \cup Done(bwBatch, fates, kinds)
            /\ Cardinality(Done(Merged \cup bwBatch, fates, kinds)) =
                 Cardinality(Done(Merged, fates, kinds)) + Cardinality(Done(bwBatch, fates, kinds))
      BY <1>1, <3>7, DoneOfParts
    <3>9. bwResult'.inserted = Cardinality(Done(Merged \cup bwBatch, {"done"}, {"insert"}))
      <4>1. Cardinality(Done(bwBatch, {"done"}, {"insert"})) = IF k = "insert" THEN bwOp.res.n ELSE 0
        BY <3>3, <3>5, <3>6
      <4>2. Cardinality(Done(Merged \cup bwBatch, {"done"}, {"insert"})) =
              Cardinality(Done(Merged, {"done"}, {"insert"})) + Cardinality(Done(bwBatch, {"done"}, {"insert"}))
        BY <3>8
      <4> QED
        BY <3>2, <3>4, <4>1, <4>2
    <3>10. bwResult'.deleted = Cardinality(Done(Merged \cup bwBatch, {"done"}, Deletes))
      <4>1. Cardinality(Done(bwBatch, {"done"}, Deletes)) = IF k \in Deletes THEN bwOp.res.n ELSE 0
        BY <3>3, <3>5, <3>6
      <4> QED
        BY <3>2, <3>4, <3>8, <4>1
    <3>11. bwResult'.matched = Cardinality(Done(Merged \cup bwBatch, {"done", "upserted"}, Updates))
      <4>1. Cardinality(Done(bwBatch, {"done", "upserted"}, Updates)) = IF k \in Updates THEN bwOp.res.n ELSE 0
        BY <3>3, <3>5, <3>6
      <4> QED
        BY <3>2, <3>4, <3>8, <4>1
    <3>12. bwResult'.modified = Cardinality(Done(Merged \cup bwBatch, {"done"}, Updates))
      <4>1. Cardinality(Done(bwBatch, {"done"}, Updates)) = IF k \in Updates THEN bwOp.res.modified ELSE 0
        BY <3>3, <3>5, <3>6
      <4> QED
        BY <3>2, <3>4, <3>8, <4>1
    <3>13. bwResult'.upserted = Cardinality(Done(Merged \cup bwBatch, {"upserted"}, Updates))
      <4>1. Cardinality(Done(bwBatch, {"upserted"}, Updates)) =
              IF k \in Updates THEN Cardinality(bwOp.res.upserted) ELSE 0
        BY <3>3, <3>5, <3>6
      <4> QED
        BY <3>2, <3>4, <3>8, <4>1
    <3>14. bwResult'.ids = Done(Merged \cup bwBatch, {"upserted"}, Updates)
      <4>1. Done(bwBatch, {"upserted"}, Updates) = IF k \in Updates THEN At(bwBatch, bwOp.res.upserted) ELSE {}
        BY <3>3, <3>5
      <4> QED
        BY <3>2, <3>4, <3>8, <4>1
    <3> QED
      BY <3>9, <3>10, <3>11, <3>12, <3>13, <3>14
  <2>4. bwPc' \notin {"command", "merge", "nil"}
    BY <1>2
  <2> QED
    BY <1>7, <2>1, <2>2, <2>3, <2>4 DEF Counted
<1>17. Silent'
  <2>1. ~bwAck => bwOp.errors = {} /\ bwOp.wce = FALSE /\ bwErr.errors = {}
    BY <1>1, <1>2 DEF Silent
  <2>2. ~bwAck => e = {} /\ bwPc' # "exception"
    BY <1>2, <1>3, <2>1 DEF At, Stops
  <2> QED
    BY <1>2, <1>7, <2>1, <2>2 DEF Silent
<1> QED
  BY <1>2, <1>12, <1>13, <1>14, <1>15, <1>16, <1>17 DEF BulkInv

(* The call returns: all of it is merged. *)
LEMMA BulkReturnStep ==
  ASSUME BulkInv, BulkReturn
  PROVE  BulkInv'
<1>0. bwAck => Failures /\ Counted
  BY DEF BulkInv
<1>1. BulkTypeOK /\ Apart /\ Sent /\ Silent
  BY DEF BulkInv
<1>2. /\ bwPc = "execute" /\ bwBatches = {} /\ bwResult' = CorrectMatched(bwResult)
      /\ bwPc' = IF bwErr.last # "none" THEN bwErr.last
                 ELSE IF bwErr.errors # {} \/ bwErr.wce THEN "exception" ELSE "nil"
      /\ bwModels' = bwModels /\ bwOrdered' = bwOrdered /\ bwAck' = bwAck
      /\ bwBatches' = bwBatches /\ bwBatch' = bwBatch
      /\ bwRest' = bwRest /\ bwOp' = bwOp /\ bwErr' = bwErr /\ ran' = ran
  BY DEF BulkReturn, callVars
<1>3. bwPc' \in {"error", "unacknowledged", "exception", "nil"}
  BY <1>1, <1>2 DEF BulkTypeOK, ErrorKinds
<1>4. /\ Indexes' = Indexes /\ Left = {} /\ Left' = {} /\ Pending = {} /\ Pending' = {}
      /\ Merged = Indexes /\ Merged' = Indexes
  BY <1>2, <1>3 DEF Indexes, Left, Pending, Merged
<1>5. /\ bwResult.inserted \in Nat /\ bwResult.matched \in Int /\ bwResult.modified \in Nat
      /\ bwResult.deleted \in Nat /\ bwResult.upserted \in Nat /\ bwResult.ids \in SUBSET Indexes
  BY <1>1 DEF BulkTypeOK
<1>6. PICK m : m = bwResult.matched - bwResult.upserted
  OBVIOUS
<1>7. m \in Int
  BY <1>5, <1>6
<1>8. bwResult' = [bwResult EXCEPT !.matched = m]
  BY <1>2, <1>6 DEF CorrectMatched
<1>9. /\ bwResult' \in [inserted : Nat, matched : Int, modified : Nat, deleted : Nat, upserted : Nat,
                        ids : SUBSET Indexes]
      /\ bwResult'.matched = m /\ bwResult'.inserted = bwResult.inserted /\ bwResult'.ids = bwResult.ids
      /\ bwResult'.modified = bwResult.modified /\ bwResult'.deleted = bwResult.deleted
  BY <1>1, <1>7, <1>8 DEF BulkTypeOK
<1>10. BulkTypeOK'
  BY <1>1, <1>2, <1>4, <1>9, <1>3 DEF BulkTypeOK
<1>11. Apart'
  BY <1>1, <1>2, <1>4, <1>3 DEF Apart, OneKind
<1>12. Sent'
  BY <1>1, <1>2, <1>4, <1>3 DEF Sent
<1>13. ASSUME bwAck
      PROVE  Failures'
  <2>0. Failures /\ Counted
    BY <1>0, <1>13
  <2>1. OrderedStops'
    BY <1>1, <1>2, <1>4, <2>0 DEF Failures, OrderedStops
  <2>2. bwPc' \in {"nil", "exception"} => bwErr.last = "none"
    BY <1>1, <1>2 DEF BulkTypeOK, ErrorKinds
  <2> QED
    BY <1>1, <1>2, <1>3, <1>4, <2>0, <2>1, <2>2 DEF Failures
<1>14. ASSUME bwAck
      PROVE  Counted'
  <2>0. Failures /\ Counted
    BY <1>0, <1>14
  <2>1. Unsplit' <=> Unsplit
    BY <1>2, <1>4 DEF Unsplit
  <2>2. bwPc' = "nil" => bwErr.last = "none"
    BY <1>1, <1>2 DEF BulkTypeOK, ErrorKinds
  <2>3. ASSUME Unsplit, bwPc' = "nil"
        PROVE  CountsAreExact'
    <3>1. /\ bwResult.inserted = Cardinality(Done(Indexes, {"done"}, {"insert"}))
          /\ bwResult.deleted = Cardinality(Done(Indexes, {"done"}, Deletes))
          /\ bwResult.matched = Cardinality(Done(Indexes, {"done", "upserted"}, Updates))
          /\ bwResult.modified = Cardinality(Done(Indexes, {"done"}, Updates))
          /\ bwResult.upserted = Cardinality(Done(Indexes, {"upserted"}, Updates))
          /\ bwResult.ids = Done(Indexes, {"upserted"}, Updates)
      BY <1>1, <1>2, <1>4, <2>0, <2>2, <2>3 DEF Counted
    <3>2. PICK d : d = Done(Indexes, {"done"}, Updates)
      OBVIOUS
    <3>3. PICK u : u = Done(Indexes, {"upserted"}, Updates)
      OBVIOUS
    <3>4. /\ Done(Indexes, {"done", "upserted"}, Updates) = d \cup u /\ d \cap u = {}
          /\ d \in SUBSET Indexes /\ u \in SUBSET Indexes
      BY <3>2, <3>3 DEF Done
    <3>5. IsFiniteSet(d) /\ IsFiniteSet(u) /\ Cardinality(d) \in Nat /\ Cardinality(u) \in Nat
      BY <1>1, <3>4, PartsAreFinite
    <3>6. Cardinality(d \cup u) = Cardinality(d) + Cardinality(u)
      BY <3>4, <3>5, CountOfParts
    <3>7. m = Cardinality(d)
      <4>1. bwResult.matched = Cardinality(d) + Cardinality(u) /\ bwResult.upserted = Cardinality(u)
        BY <3>1, <3>3, <3>4, <3>6
      <4> QED
        BY <1>6, <3>5, <4>1
    <3>8. \A kinds : {i \in Which({"done"})' : bwModels[i] \in kinds} = Done(Indexes, {"done"}, kinds)
      BY <1>2, <1>4 DEF Which, Done
    <3>9. Which({"upserted"})' = u
      <4>1. \A i \in Indexes : ran[i] = "upserted" => bwModels[i] \in Updates
        BY <1>1 DEF Sent
      <4> QED
        BY <1>2, <1>4, <3>3, <4>1 DEF Which, Done
    <3> QED
      BY <1>2, <1>9, <3>1, <3>2, <3>3, <3>7, <3>8, <3>9 DEF CountsAreExact
  <2> QED
    BY <1>3, <2>1, <2>3 DEF Counted
<1>15. Silent'
  BY <1>1, <1>2, <1>3 DEF Silent, BulkTypeOK, ErrorKinds
<1> QED
  BY <1>2, <1>10, <1>11, <1>12, <1>13, <1>14, <1>15 DEF BulkInv

(* Every step of a bulk write keeps the invariant. *)
LEMMA BulkStep ==
  ASSUME BulkInv, [BulkNext]_bwVars
  PROVE  BulkInv'
<1>1. ASSUME NEW ks \in Calls, NEW ordered \in BOOLEAN, NEW ack \in BOOLEAN,
             BulkStart(ks, ordered, ack)
      PROVE  BulkInv'
  BY <1>1, BulkStartStep
<1>2. ASSUME NEW b \in bwBatches, RunBatch(b)
      PROVE  BulkInv'
  BY <1>2, RunBatchStep
<1>3. ASSUME NEW o \in Outcomes(AdvanceBatch(bwRest)), NEW wce \in BOOLEAN, RoundTrip(o, wce)
      PROVE  BulkInv'
  BY <1>3, RoundTripStep
<1>4. CASE CommandError
  BY <1>4, CommandErrorStep
<1>5. CASE MergeBatch
  BY <1>5, MergeBatchStep
<1>6. CASE BulkReturn
  BY <1>6, BulkReturnStep
<1>7. CASE UNCHANGED bwVars
  BY <1>7 DEF bwVars, callVars, Silent, BulkInv, BulkTypeOK, Apart, Sent, Failures, Counted, Left, Pending, Merged, Indexes,
              OneKind, OrderedStops, At, Position, Unsplit, Done, CountsAreExact, Which
<1>8. ASSUME NEW o \in Outcomes(AdvanceBatch(bwRest)) \cup {Lost(AdvanceBatch(bwRest))},
             NEW opMsg \in BOOLEAN, UnacknowledgedRoundTrip(o, opMsg)
      PROVE  BulkInv'
  BY <1>8, UnacknowledgedStep
<1> QED
  BY <1>1, <1>2, <1>3, <1>4, <1>5, <1>6, <1>7, <1>8 DEF BulkNext

(* The invariant says what the outcome is. *)
LEMMA BulkInvOutcome ==
  ASSUME BulkInv
  PROVE  BulkOutcome
<1>1. BulkTypeOK /\ Apart /\ Sent /\ Silent /\ (bwAck => Failures /\ Counted)
  BY DEF BulkInv
<1>2. OrderedStops
  BY <1>1 DEF Failures, OrderedStops
<1>3. ErrorsNameTheirModels
  <2>1. SUFFICES ASSUME bwPc = "exception"
                 PROVE  bwErr.errors = Which({"failed"}) /\ (~bwOrdered => Which({"none"}) = {})
    BY DEF ErrorsNameTheirModels
  <2>2. /\ bwErr.errors = {i \in Merged : ran[i] = "failed"}
        /\ ~bwOrdered => bwBatches = {} /\ \A i \in Merged : ran[i] # "none"
    BY <1>1, <2>1 DEF Failures, Silent
  <2>3. \A i \in Left : ran[i] = "none"
    BY <1>1 DEF Sent
  <2>4. Merged = Indexes \ Left
    BY <2>1 DEF Merged, Pending
  <2>5. ~bwOrdered => Left = {}
    BY <2>2 DEF Left
  <2> QED
    BY <2>2, <2>3, <2>4, <2>5 DEF Which
<1>4. RetriesWriteOne
  BY <1>1 DEF Apart, OneKind, RetriesWriteOne, canRetry
<1>5. UnsplitCounts
  BY <1>1 DEF Counted, UnsplitCounts
<1> QED
  BY <1>2, <1>3, <1>4, <1>5 DEF BulkOutcome

(* The inductive invariant of a bulk write. *)
THEOREM BulkInvariant == BulkSpec => []BulkInv
<1>1. BulkInv /\ [BulkNext]_bwVars => BulkInv'
  BY BulkStep
<1> QED
  BY <1>1, BulkInitGood, PTL DEF BulkSpec

(* For calls of any size and any batch size of the server: a bulk write    *)
(* that is ordered and acknowledged runs nothing after a failure, errors   *)
(* name the models that failed, models are retried if they write one       *)
(* document, and acknowledged counts are exact where no batch is split.    *)
THEOREM BulkDoesAsTold == BulkSpec => []BulkOutcome
<1>1. BulkInv => BulkOutcome
  BY BulkInvOutcome
<1> QED
  BY <1>1, BulkInvariant, PTL

(* The variables of a bulk write keep their types. *)
THEOREM BulkTypesStay == BulkSpec => []BulkTypeOK
<1>1. BulkInv => BulkTypeOK
  BY DEF BulkInv
<1> QED
  BY <1>1, BulkInvariant, PTL
=============================================================================
