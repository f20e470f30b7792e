------------------------------ MODULE HttpCall ------------------------------
(***************************************************************************)
(* One call of the sidecar's HTTP client (stemd_client/http.c:           *)
(* http_perform): dial, send the head and the promised body in slices,      *)
(* read a status line and headers through one small buffer, then a body in   *)
(* one of three framings.  "Three framings are accepted on the way back,     *)
(* because getting this wrong is a silent truncation rather than an error"   *)
(* (http.c:20-24).                                                           *)
(*                                                                         *)
(* The wire is a sequence of tokens: a body token stands for some bytes of    *)
(* the entity, "end" for the end of a line, the others for what a line says. *)
(* A read returns any number of them; the peer may close or time out after    *)
(* any.  Left out: 204 and 304, over without a body when none is framed      *)
(* (http.c:385).                                                            *)
(***************************************************************************)
EXTENDS Integers, Sequences, SequencesExt

CONSTANTS HcRoom,      \* the buffer (HTTP_BUF), in tokens
          HcEntity,    \* the tokens of the largest entity
          HcUpload     \* the tokens of the largest request body

ASSUME HcAssumption == {HcRoom, HcEntity, HcUpload} \subseteq Nat

Word(t, v) == [t |-> t, v |-> v]
End == Word("end", 0)
Line(t, v) == <<Word(t, v), End>>
Entity(n) == [i \in 1..n |-> Word("body", i)]

\* A server's answers: the same entity in each framing, with the headers it sends,
\* in both orders when there are two, and a header that is longer than the buffer.
Chunk(e, a, b) == Line("size", b - a + 1) \o SubSeq(e, a, b) \o <<End>>
Chunks(e, k) == (IF k > 0 THEN Chunk(e, 1, k) ELSE <<>>) \o
                (IF k < Len(e) THEN Chunk(e, k + 1, Len(e)) ELSE <<>>) \o Line("size", 0)
Answers ==
  LET a(n, f, heads, body) == [n |-> n, framing |-> f, wire |-> Line("status", 200) \o heads \o <<End>> \o body]
      cl(n) == Line("length", n)
      te == Line("chunked", 0)
      long == [i \in 1..HcRoom + 1 |-> Word("other", 0)] \o <<End>>
  IN  UNION {{a(n, "length", cl(n), Entity(n)), a(n, "length", long \o cl(n), Entity(n)), a(n, "eof", Line("other", 0), Entity(n))} \cup
             {a(n, "chunked", h, Chunks(Entity(n), k) \o t \o <<End>>) :
                h \in {te, te \o cl(1), cl(1) \o te}, k \in 0..n, t \in {<<>>, Line("other", 0)}}
             : n \in 0..HcEntity}

VARIABLES
  hcPc,      \* where http_perform is
  hcUp,      \* [promised, left]: the request body
  hcAnswer,  \* what the server means to answer
  hcWire,    \* what has not been read from the socket yet
  hcOpen,    \* FALSE: the peer closed or a read timed out after what is on the wire
  hcBuf,     \* c.buf[0 .. c.len): what was read
  hcPos,     \* c.pos: the consumed prefix
  hcHeads,   \* [len, have, chunked]: what the headers said
  hcLeft,    \* drain_body's len
  hcPushed,  \* what the push callback was given
  hcStatus   \* the value returned

hcVars == <<hcPc, hcUp, hcAnswer, hcWire, hcOpen, hcBuf, hcPos, hcHeads, hcLeft, hcPushed, hcStatus>>
hcIn == <<hcWire, hcBuf, hcPos>>
hcSame == <<hcUp, hcAnswer, hcOpen>>

HcInit ==
  /\ hcPc = "dial" /\ hcOpen = TRUE
  /\ \E n \in 0..HcUpload : hcUp = [promised |-> n, left |-> n]
  /\ hcAnswer \in Answers /\ hcWire = <<>>
  /\ hcBuf = <<>> /\ hcPos = 0 /\ hcHeads = [len |-> 0, have |-> FALSE, chunked |-> FALSE]
  /\ hcLeft = 0 /\ hcPushed = <<>> /\ hcStatus = -1

Returns(status) == hcPc' = "done" /\ hcStatus' = status

-----------------------------------------------------------------------------
(* The request.                                                            *)

\* dial and the head: any of it fails, or the body is next.
HcDials ==
  /\ hcPc = "dial"
  /\ \/ hcPc' = "send" /\ UNCHANGED hcStatus
     \/ Returns(-1)
  /\ UNCHANGED <<hcSame, hcIn, hcHeads, hcLeft, hcPushed>>

\* A slice of the promised body: the pull gives some of what is wanted or nothing,
\* the write goes through or the peer is dead.
HcSlice ==
  /\ hcPc = "send" /\ hcUp.left > 0
  /\ \/ \E got \in 1..hcUp.left : hcUp' = [hcUp EXCEPT !.left = @ - got] /\ UNCHANGED <<hcPc, hcStatus>>
     \/ Returns(-1) /\ UNCHANGED hcUp
  /\ UNCHANGED <<hcAnswer, hcOpen, hcIn, hcHeads, hcLeft, hcPushed>>

\* The server has the whole request and answers, up to where it breaks off.
HcAnswers ==
  /\ hcPc = "send" /\ hcUp.left = 0
  /\ hcPc' = "status"
  /\ \/ hcWire' = hcAnswer.wire /\ hcOpen' = (hcAnswer.framing # "eof")
     \/ \E n \in 0..Len(hcAnswer.wire) - 1 : hcWire' = SubSeq(hcAnswer.wire, 1, n) /\ hcOpen' = FALSE
  /\ hcBuf' = <<>> /\ hcPos' = 0
  /\ UNCHANGED <<hcUp, hcAnswer, hcHeads, hcLeft, hcPushed, hcStatus>>

-----------------------------------------------------------------------------
(* The buffer.                                                             *)

Ahead == SubSeq(hcBuf, hcPos + 1, Len(hcBuf))
HasLine == \E i \in DOMAIN Ahead : Ahead[i] = End
LineLen == CHOOSE i \in DOMAIN Ahead : Ahead[i] = End /\ \A j \in 1..i - 1 : Ahead[j] # End
LineIs == IF LineLen = 1 THEN Word("blank", 0) ELSE Ahead[1]

WantsLine == hcPc \in {"status", "headers", "size", "chunkEnd", "trailers"}
WantsBody == hcPc = "toEof" \/ (hcPc \in {"length", "chunk"} /\ hcLeft > 0)
Starved == (WantsLine /\ ~HasLine) \/ (WantsBody /\ Ahead = <<>>)

\* conn_fill: what is consumed makes room only when the end of the buffer is
\* reached or nothing is left in it.
Kept == IF hcPos = Len(hcBuf) THEN <<>> ELSE IF Len(hcBuf) = HcRoom THEN Ahead ELSE hcBuf
HcFills ==
  /\ Starved /\ hcWire # <<>> /\ Len(Kept) < HcRoom
  /\ \E n \in 1..Len(hcWire) :
       /\ n <= HcRoom - Len(Kept)
       /\ hcBuf' = Kept \o SubSeq(hcWire, 1, n)
       /\ hcWire' = SubSeq(hcWire, n + 1, Len(hcWire))
  /\ hcPos' = IF Kept = hcBuf THEN hcPos ELSE 0
  /\ UNCHANGED <<hcSame, hcPc, hcHeads, hcLeft, hcPushed, hcStatus>>

\* Seeded fault: a body that stops short is taken for whole.
EndsShort(eof) == hcPc \in {"toEof", "length"} /\ eof

\* A line longer than the buffer, or a read with nothing to give: an error, except at
\* the end of a body that goes to EOF.  A timed-out read is an error there too.
EndsWell(eof) == hcPc = "toEof" /\ eof
HcStarves ==
  /\ Starved
  /\ \/ Len(Kept) = HcRoom /\ Returns(-1)
     \/ Len(Kept) < HcRoom /\ hcWire = <<>> /\ ~hcOpen
          /\ \E eof \in BOOLEAN : Returns(IF EndsWell(eof) THEN 200 ELSE -1)
  /\ UNCHANGED <<hcSame, hcIn, hcHeads, hcLeft, hcPushed>>

-----------------------------------------------------------------------------
(* The response.                                                           *)

Consume(n) == hcPos' = hcPos + n /\ UNCHANGED <<hcWire, hcBuf>>

\* Which framing the headers chose: chunked wins, then a length, then EOF.
Framing == CASE hcHeads.chunked -> "size" [] ~hcHeads.chunked /\ hcHeads.have -> "length" [] OTHER -> "toEof"

HcStatusLine ==
  /\ hcPc = "status" /\ HasLine /\ Consume(LineLen)
  /\ IF LineIs.t = "status" THEN hcPc' = "headers" /\ UNCHANGED hcStatus ELSE Returns(-1)
  /\ UNCHANGED <<hcSame, hcHeads, hcLeft, hcPushed>>

HcHeader ==
  /\ hcPc = "headers" /\ HasLine /\ Consume(LineLen)
  /\ \/ LineIs.t = "length" /\ hcHeads' = [hcHeads EXCEPT !.len = LineIs.v, !.have = TRUE] /\ UNCHANGED <<hcPc, hcLeft>>
     \/ LineIs.t = "chunked" /\ hcHeads' = [hcHeads EXCEPT !.chunked = TRUE] /\ UNCHANGED <<hcPc, hcLeft>>
     \/ LineIs.t = "other" /\ UNCHANGED <<hcHeads, hcPc, hcLeft>>
     \/ LineIs.t = "blank" /\ hcPc' = Framing /\ hcLeft' = hcHeads.len /\ UNCHANGED hcHeads
  /\ UNCHANGED <<hcSame, hcPushed, hcStatus>>

\* drain_body hands over what is in the buffer, up to its length; the sink may refuse.
HcHandsOver ==
  /\ WantsBody /\ Ahead # <<>>
  /\ LET have == IF hcPc = "toEof" \/ Len(Ahead) < hcLeft THEN Len(Ahead) ELSE hcLeft
     IN  \/ /\ hcPushed' = hcPushed \o SubSeq(Ahead, 1, have)
            /\ hcLeft' = IF hcPc = "toEof" THEN hcLeft ELSE hcLeft - have
            /\ Consume(have) /\ UNCHANGED <<hcPc, hcStatus>>
         \/ Returns(-1) /\ UNCHANGED <<hcIn, hcLeft, hcPushed>>
  /\ UNCHANGED <<hcSame, hcHeads>>

HcBodyDone ==
  /\ hcPc \in {"length", "chunk"} /\ hcLeft = 0
  /\ IF hcPc = "length" THEN Returns(200) ELSE hcPc' = "chunkEnd" /\ UNCHANGED hcStatus
  /\ UNCHANGED <<hcSame, hcIn, hcHeads, hcLeft, hcPushed>>

\* drain_chunked: the size line, the CRLF after the chunk, the trailers to the blank
\* line.  What follows is a size only if a size is what the line holds.
HcChunkLine ==
  /\ hcPc \in {"size", "chunkEnd", "trailers"} /\ HasLine /\ Consume(LineLen)
  /\ \/ /\ hcPc = "size" /\ LineIs.t = "size" /\ LineIs.v > 0
        /\ hcPc' = "chunk" /\ hcLeft' = LineIs.v /\ UNCHANGED hcStatus
     \/ /\ hcPc = "size" /\ (LineIs.t # "size" \/ LineIs.v = 0)
        /\ hcPc' = "trailers" /\ UNCHANGED <<hcLeft, hcStatus>>
     \/ hcPc = "chunkEnd" /\ hcPc' = "size" /\ UNCHANGED <<hcLeft, hcStatus>>
     \/ hcPc = "trailers" /\ LineIs.t = "blank" /\ Returns(200) /\ UNCHANGED hcLeft
     \/ hcPc = "trailers" /\ LineIs.t # "blank" /\ UNCHANGED <<hcPc, hcLeft, hcStatus>>
  /\ UNCHANGED <<hcSame, hcHeads, hcPushed>>

HcNext ==
  \/ HcDials \/ HcSlice \/ HcAnswers \/ HcFills \/ HcStarves \/ HcStatusLine
  \/ HcHeader \/ HcHandsOver \/ HcBodyDone \/ HcChunkLine

HcSpec == HcInit /\ [][HcNext]_hcVars

-----------------------------------------------------------------------------
(* Properties.                                                             *)

\* "Getting this wrong is a silent truncation rather than an error" (http.c:20-24): a
\* call that returns a status has sent every token it promised and given the callback the
\* entity, whole and once, however the reads cut it and wherever the peer broke off.
\* Only a body that ends with the connection cannot tell its end from a break, and it
\* still holds nothing but the entity's beginning.
WholeOrRefused ==
  /\ IsPrefix(hcPushed, Entity(hcAnswer.n))
  /\ hcStatus = 200 =>
       /\ hcUp.left = 0
       /\ hcAnswer.framing # "eof" => hcPushed = Entity(hcAnswer.n)
=============================================================================
