---------------------------- MODULE ChangeStream ----------------------------
(***************************************************************************)
(* A change stream (mongo/change_stream.go) on the batch cursor it         *)
(* iterates (x/mongo/driver/batch_cursor.go): the resume token it keeps,   *)
(* the operation time it falls back on, and how it opens a new cursor when *)
(* one fails with a resumable error.                                       *)
(*                                                                         *)
(* The server is external: a log that grows, of which some entries match   *)
(* the pipeline. A resume token is the position in the log it stands for;  *)
(* an operation time is the length of the log at that time. Servers before *)
(* 4.0.7 send no post batch resume token, and servers before 4.0 take no   *)
(* startAtOperationTime. A batch is in the order of the log, so that it is *)
(* the set of its positions, taken from the smallest on.                   *)
(***************************************************************************)
EXTENDS Integers, Sequences, FiniteSets

CONSTANTS
  MaxLog,     \* bound of the entries of the log
  MaxFailures \* bound of the failed commands
ASSUME StreamAssumption == MaxLog \in Nat /\ MaxFailures \in Nat

VARIABLES
  log,       \* whether each entry matches the pipeline
  version,   \* "3.6", "4.0" or "4.0.7", "none" before the stream is made
  cso,       \* cs.options: resumeAfter, startAfter and startAtOperationTime
  csToken,   \* cs.resumeToken
  csTime,    \* cs.operationTime
  sessTime,  \* cs.sess.OperationTime
  csSess,    \* the session: "implicit", "explicit" or "ended"
  csCur,     \* the batch cursor
  csBatch,   \* cs.batch
  csPc, csTry, csErr, csFailures,
  from,      \* where the application asked the stream to start
  delivered, \* entries that it was given
  cursors    \* cursors at the server that no killCursors was sent for

csVars == <<log, version, cso, csToken, csTime, sessTime, csSess, csCur, csBatch, csPc, csTry, csErr,
            csFailures, from, delivered, cursors>>

None == -1
Positions == 0 .. MaxLog
PositionOrNone == Positions \cup {None}
NoOptions == [resumeAfter |-> None, startAfter |-> None, startAt |-> None]
NoCursor == [open |-> FALSE, id |-> 0, first |-> FALSE, batch |-> {}, pos |-> 0, pbrt |-> None]

StreamTypeOK ==
  /\ log \in Seq(BOOLEAN) /\ Len(log) \in Positions /\ version \in {"none", "3.6", "4.0", "4.0.7"}
  /\ cso \in [resumeAfter : PositionOrNone, startAfter : PositionOrNone, startAt : PositionOrNone]
  /\ {csToken, csTime, sessTime, from} \subseteq PositionOrNone
  /\ csSess \in {"none", "implicit", "explicit", "ended"} /\ cursors \in 0 .. 1
  /\ csCur \in [open : BOOLEAN, id : 0 .. 1, first : BOOLEAN, batch : SUBSET (1 .. MaxLog),
                 pos : Positions, pbrt : PositionOrNone]
  /\ csBatch \subseteq 1 .. MaxLog /\ delivered \in Seq(1 .. MaxLog)
  /\ csTry \in BOOLEAN /\ csErr \in BOOLEAN /\ csFailures \in 0 .. MaxFailures
  /\ csPc \in {"new", "aggregate", "retry", "idle", "loop", "deliver", "resume", "failed", "closed"}

StreamInit ==
  /\ log = <<>> /\ version = "none" /\ cso = NoOptions /\ csToken = None /\ csTime = None
  /\ sessTime = None /\ csSess = "none" /\ csCur = NoCursor /\ csBatch = {} /\ csPc = "new"
  /\ csTry = FALSE /\ csErr = FALSE /\ csFailures = 0 /\ from = None /\ delivered = <<>> /\ cursors = 0

streamVars == <<version, cso, csToken, csTime, csSess, csCur, csBatch, csPc, csTry, csErr, from,
                delivered, cursors>>

(* Something is written, at the server.                                    *)
Write(match) ==
  /\ Len(log) < MaxLog /\ log' = Append(log, match)
  /\ UNCHANGED <<streamVars, sessTime, csFailures>>

(* Another operation of an explicit session gets a reply.                  *)
OtherReply ==
  /\ csSess = "explicit" /\ sessTime' = Len(log)
  /\ UNCHANGED <<log, streamVars, csFailures>>
-----------------------------------------------------------------------------
(* newChangeStream: the session, the options and the first resume token.   *)
NewChangeStream(v, o, explicit) ==
  /\ csPc = "new" /\ csPc' = "aggregate"
  /\ version' = v /\ cso' = o
  /\ csSess' = IF explicit THEN "explicit" ELSE "implicit"
  /\ csToken' = IF o.startAfter # None THEN o.startAfter ELSE o.resumeAfter
  /\ UNCHANGED <<log, csTime, sessTime, csCur, csBatch, csTry, csErr, csFailures, from, delivered, cursors>>

(* replaceOptions: the token if there is one, else the operation time of   *)
(* the session, or the time the user gave.                                 *)
ResumeTime == IF csTime # None THEN sessTime ELSE cso.startAt
replaceOptions ==
  IF csToken # None THEN [NoOptions EXCEPT !.resumeAfter = csToken]
  ELSE IF version # "3.6" /\ (sessTime # None \/ cso.startAt # None)
  THEN [NoOptions EXCEPT !.startAt = ResumeTime]
  ELSE NoOptions

(* executeOperation when resuming: a server is selected, or none is, and   *)
(* the first stage of the pipeline is made again.                          *)
Resume ==
  /\ csPc = "resume" /\ csPc' = "aggregate" /\ cso' = replaceOptions
  /\ UNCHANGED <<log, version, csToken, csTime, sessTime, csSess, csCur, csBatch, csTry, csErr,
                 csFailures, from, delivered, cursors>>

(* A command fails before it gets a reply, or with one, which tells the    *)
(* session the time: updateOperationTime comes before the error.           *)
Fails(reply) ==
  /\ csFailures < MaxFailures /\ csFailures' = csFailures + 1
  /\ sessTime' = IF reply THEN Len(log) ELSE sessTime

(* closeImplicitSession *)
closeImplicitSession == csSess' = IF csSess = "implicit" THEN "ended" ELSE csSess

(* A cursor that is new starts where the options say; q is how far the     *)
(* server has looked when it replies.                                      *)
StartPos(o) ==
  IF o.startAfter # None THEN o.startAfter
  ELSE IF o.resumeAfter # None THEN o.resumeAfter
  ELSE IF o.startAt # None THEN o.startAt ELSE Len(log)
Matching(p, q) == {e \in p + 1 .. q : log[e]}
PbrtOf(q) == IF version = "4.0.7" THEN q ELSE None

(* updatePbrtFromCommand and storeResumeToken.                             *)
updatePbrt(token, cur) == IF cur.batch = {} /\ cur.pbrt # None THEN cur.pbrt ELSE token
StoresPbrt(event, rest) == IF csCur.pbrt # None THEN csCur.pbrt ELSE event
LeavesToEmptyBatch(event, rest) == IF csCur.pbrt # None THEN csToken ELSE event
ForgetsEvent(event, rest) == IF rest = {} /\ csCur.pbrt # None THEN csCur.pbrt ELSE csToken
storeResumeToken(event, rest) == IF rest = {} /\ csCur.pbrt # None THEN csCur.pbrt ELSE event

(* executeOperation after a successful aggregate: NewBatchCursor, and the  *)
(* operation time for a stream that has nothing else to resume from.       *)
AggregateSucceeds(q) ==
  LET p == StartPos(cso)
      cur == [open |-> TRUE, id |-> 1, first |-> TRUE, batch |-> Matching(p, q), pos |-> q,
              pbrt |-> PbrtOf(q)]
  IN  /\ csPc \in {"aggregate", "retry"} /\ q \in p .. Len(log)
      /\ csCur' = cur /\ cursors' = cursors + 1 /\ sessTime' = Len(log)
      /\ csToken' = updatePbrt(csToken, cur)
      /\ csTime' = IF cso = NoOptions /\ version # "3.6" /\ cur.batch = {} /\ csToken' = None
                   THEN Len(log) ELSE csTime
      /\ from' = IF from = None THEN p ELSE from
      /\ csPc' = IF from = None THEN "idle" ELSE "loop"
      /\ UNCHANGED <<log, version, cso, csSess, csBatch, csTry, csErr, csFailures, delivered>>

(* It fails: a retryable error is retried once, and newChangeStream or     *)
(* next fail with any other.                                               *)
AggregateFails(reply, retryable) ==
  /\ csPc \in {"aggregate", "retry"} /\ Fails(reply)
  /\ IF csPc = "aggregate" /\ retryable
     THEN csPc' = "retry" /\ UNCHANGED <<csSess, csErr>>
     ELSE IF from = None THEN csPc' = "failed" /\ csErr' = TRUE /\ closeImplicitSession
     ELSE csPc' = "idle" /\ csErr' = TRUE /\ UNCHANGED csSess
  /\ UNCHANGED <<log, version, cso, csToken, csTime, csCur, csBatch, csTry, from, delivered, cursors>>

(* Next and TryNext, up to loopNext.                                       *)
NextCall(nonBlocking) ==
  /\ ~csErr /\ (csPc = "idle" \/ (csPc = "closed" /\ csBatch = {}))
  /\ csTry' = nonBlocking
  /\ csPc' = IF csBatch = {} THEN "loop" ELSE "deliver"
  /\ UNCHANGED <<log, version, cso, csToken, csTime, sessTime, csSess, csCur, csBatch, csErr,
                 csFailures, from, delivered, cursors>>

(* What loopNext does with the batch that BatchCursor.Next leaves.         *)
Looped(cur) ==
  /\ csCur' = cur
  /\ csToken' = IF cur.batch = {} /\ cur.id # 0 THEN updatePbrt(csToken, cur) ELSE csToken
  /\ csBatch' = IF cur.batch # {} THEN cur.batch ELSE csBatch
  /\ csPc' = IF cur.batch # {} THEN "deliver"
             ELSE IF cur.id = 0 \/ csTry THEN "idle" ELSE "loop"
  /\ UNCHANGED <<log, version, cso, csTime, csSess, csTry, csErr, csFailures, from, delivered>>

(* BatchCursor.Next on the first batch, and on a cursor the server closed. *)
FirstBatch ==
  /\ csPc = "loop" /\ csCur.first
  /\ Looped([csCur EXCEPT !.first = FALSE]) /\ UNCHANGED <<sessTime, cursors>>
Exhausted ==
  /\ csPc = "loop" /\ csCur.open /\ ~csCur.first /\ csCur.id = 0 /\ csPc' = "idle"
  /\ UNCHANGED <<log, version, cso, csToken, csTime, sessTime, csSess, csCur, csBatch, csTry, csErr,
                 csFailures, from, delivered, cursors>>
ClosedCursor ==
  /\ csPc = "loop" /\ ~csCur.open /\ csPc' = "closed"
  /\ UNCHANGED <<log, version, cso, csToken, csTime, sessTime, csSess, csCur, csBatch, csTry, csErr,
                 csFailures, from, delivered, cursors>>

(* getMore *)
GetMore(q, ends) ==
  /\ csPc = "loop" /\ csCur.id # 0 /\ ~csCur.first
  /\ q \in csCur.pos .. Len(log)
  /\ sessTime' = Len(log) /\ cursors' = IF ends THEN 0 ELSE cursors
  /\ Looped([csCur EXCEPT !.batch = Matching(csCur.pos, q), !.pos = q, !.pbrt = PbrtOf(q),
                          !.id = IF ends THEN 0 ELSE 1])

(* getMore fails. Unless isResumableError, the stream has failed; else the *)
(* old cursor is killed and a new one is made. killCursors is sent once    *)
(* and its error is ignored, so that a cursor for which it fails is left   *)
(* to time out at the server: cursors counts those it was not sent for.    *)
KillCursor(cur) == [cur EXCEPT !.id = 0, !.batch = {}]
AbandonCursor(cur) == cursors
KilledAtServer(cur) == IF cur.id # 0 THEN 0 ELSE cursors
GetMoreFails(reply, resumable) ==
  /\ csPc = "loop" /\ csCur.id # 0 /\ ~csCur.first /\ Fails(reply)
  /\ ~reply => resumable
  /\ IF resumable
     THEN /\ csCur' = KillCursor(csCur) /\ cursors' = KilledAtServer(csCur)
          /\ csPc' = "resume" /\ UNCHANGED csErr
     ELSE /\ csCur' = [csCur EXCEPT !.batch = {}]
          /\ csPc' = "idle" /\ csErr' = TRUE /\ UNCHANGED cursors
  /\ UNCHANGED <<log, version, cso, csToken, csTime, csSess, csBatch, csTry, from, delivered>>

(* No server can be selected to resume on.                                 *)
ResumeFails ==
  /\ csPc = "resume" /\ csPc' = "idle" /\ csErr' = TRUE
  /\ UNCHANGED <<log, version, cso, csToken, csTime, sessTime, csSess, csCur, csBatch, csTry,
                 csFailures, from, delivered, cursors>>

(* next hands out the first event of the batch; one without an _id, where  *)
(* the token is taken from it, closes the stream.                          *)
FirstEvent(batch) == CHOOSE e \in batch : \A f \in batch : e <= f
Deliver(hasId) ==
  LET event == FirstEvent(csBatch)
      rest == csBatch \ {event}
      missing == ~hasId /\ ~(rest = {} /\ csCur.pbrt # None)
  IN  /\ csPc = "deliver" /\ csPc' = "idle" /\ csBatch' = rest
      /\ delivered' = IF missing THEN delivered ELSE Append(delivered, event)
      /\ csToken' = IF missing THEN csToken ELSE storeResumeToken(event, rest)
      /\ csErr' = missing
      /\ IF missing THEN /\ csCur' = NoCursor /\ cursors' = KilledAtServer(csCur)
                         /\ closeImplicitSession
         ELSE UNCHANGED <<csCur, cursors, csSess>>
      /\ UNCHANGED <<log, version, cso, csTime, sessTime, csTry, csFailures, from>>

Close ==
  /\ csPc = "idle" /\ csPc' = "closed"
  /\ csCur' = NoCursor /\ cursors' = KilledAtServer(csCur) /\ closeImplicitSession
  /\ csErr' = (csErr /\ ~csCur.open)
  /\ UNCHANGED <<log, version, cso, csToken, csTime, sessTime, csBatch, csTry, csFailures, from, delivered>>

UserOptions ==
  {NoOptions} \cup {[NoOptions EXCEPT !.resumeAfter = p] : p \in 0 .. Len(log)}
  \cup {[NoOptions EXCEPT !.startAfter = p] : p \in 0 .. Len(log)}
  \cup {[NoOptions EXCEPT !.startAt = p] : p \in 0 .. Len(log)}

StreamNext ==
  \/ \E match \in BOOLEAN : Write(match)
  \/ OtherReply
  \/ \E v \in {"3.6", "4.0", "4.0.7"}, o \in UserOptions, explicit \in BOOLEAN :
       (v = "3.6" => o.startAt = None) /\ NewChangeStream(v, o, explicit)
  \/ Resume \/ ResumeFails
  \/ \E q \in Positions : AggregateSucceeds(q)
  \/ \E reply, retryable \in BOOLEAN : AggregateFails(reply, retryable)
  \/ \E nonBlocking \in BOOLEAN : NextCall(nonBlocking)
  \/ FirstBatch \/ Exhausted \/ ClosedCursor
  \/ \E q \in Positions, ends \in BOOLEAN : GetMore(q, ends)
  \/ \E reply, resumable \in BOOLEAN : GetMoreFails(reply, resumable)
  \/ \E hasId \in BOOLEAN : Deliver(hasId)
  \/ Close

StreamSpec == StreamInit /\ [][StreamNext]_csVars
-----------------------------------------------------------------------------
Given == {delivered[i] : i \in DOMAIN delivered}

(* With a server that sends post batch resume tokens, the application is   *)
(* given every matching entry after the place where it asked to start, up  *)
(* to the last one it was given, however often the stream is resumed.      *)
NothingSkipped ==
  version = "4.0.7" /\ delivered # <<>> => Given = Matching(from, delivered[Len(delivered)])

(* The token that ResumeToken returns at any time, with such a server, is  *)
(* never past an event that the application has not been given: another    *)
(* stream that starts from it misses nothing.                              *)
TokenPassesNothing == version = "4.0.7" /\ from # None => Matching(from, csToken) \subseteq Given

(* With any server, no event is given twice or out of order.               *)
NothingRepeated == \A i, j \in DOMAIN delivered : i < j => delivered[i] < delivered[j]

(* Every cursor that the server keeps open was sent a killCursors before   *)
(* the stream makes a new one, is closed or could not be made; and no      *)
(* implicit session is left in the last two cases.                         *)
NothingLeaked ==
  /\ csPc \in {"resume", "aggregate", "retry", "failed", "closed"} => cursors = 0
  /\ csPc \in {"failed", "closed"} => csSess # "implicit"

(* However often a change stream is resumed, no event is given twice or    *)
(* out of order, the token of ResumeToken is past no event that was not    *)
(* given, with post batch resume tokens none is skipped, and no cursor is  *)
(* abandoned without killCursors and no implicit session is left open on   *)
(* any error path (change_stream.go, storeResumeToken,                     *)
(* updatePbrtFromCommand, replaceOptions and Close).                       *)
StreamIsExact == NothingSkipped /\ TokenPassesNothing /\ NothingRepeated /\ NothingLeaked
=============================================================================
