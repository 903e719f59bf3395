------------------------- MODULE HttpResponseParser -------------------------
(***************************************************************************)
(* HttpConnection::recvResponse with the response parser it drives, one    *)
(* character at a time, for every message and every way to cut it into     *)
(* reads.  A position in the buffer is known by the part of the message    *)
(* that begins there; lengths are counted in units of data.                *)
(***************************************************************************)
EXTENDS HttpClientMachine, Integers

CONSTANTS
  BufferSize,    \* GetHttpRequestBufferSize()
  MaxLength      \* bound: largest Content-Length and chunk size

VARIABLES
  receiver,      \* where recvResponse() is
  loop,          \* "head": the loop for the headers, "chunk": the loop for chunks
  client_parser, \* cs, mark, field_start, field_len, chunked, content_len, chunks_done
  rsp_error,     \* m_error # 0
  len,           \* bytes in the buffer that the parser left
  left,          \* bytes of the chunk still to read
  \* The headers as their delimiters divide them, whatever the parser does:
  at,            \* the part of the message, its first character or not, cut by a read or not
  word,          \* known words the name or the value may still be, and its length
  said,          \* known names and values that were read in full
  given          \* what the last callback was given

responseVars == <<receiver, loop, client_parser, rsp_error, len, left, at, word, said, given>>
localVars == <<loop, client_parser, rsp_error, len, left, at, word, said, given>>

-----------------------------------------------------------------------------
(* The reference: parts of the message, and the headers that matter *)

Words ==
  [length |-> <<"c", "o", "n", "t", "e", "n", "t", "-", "l", "e", "n", "g", "t", "h">>,
   encoding |-> <<"t", "r", "a", "n", "s", "f", "e", "r", "-",
                  "e", "n", "c", "o", "d", "i", "n", "g">>,
   chunked |-> <<"c">> \o Chunked]
Names == {"length", "encoding"}
\* The value a header announces something with.
Announces == [encoding |-> {"chunked"}, length |-> {}, other |-> {}]

AtStart == [part |-> "version", first |-> TRUE, cut |-> FALSE]
NoWord == [may |-> {}, n |-> 0, key |-> "other"]

\* The part the character after c belongs to.  A line that begins with white
\* space goes on with the value of the line before.
NextPart(c) ==
  LET p == at.part
  IN  CASE p = "version" /\ at.first /\ c \in Hexdigit -> "chunk"
        [] p = "version" /\ c = "SP" -> "status"
        [] p = "status" /\ c = "SP" -> "reason"
        [] p = "reason" /\ at.first -> "reason"
        [] p \in {"reason", "name", "blank", "value"} /\ c = "CR" -> "eol"
        [] p \in {"reason", "name", "blank", "value", "eol"} /\ c = "LF" -> "name"
        [] p = "name" /\ (c = ":" \/ (at.first /\ c \in Blank)) -> "blank"
        [] p = "blank" /\ c \notin Blank -> "value"
        [] OTHER -> p
\* The first character of a value is the one after the white space.
ThisPart(c) ==
  CASE at.part = "blank" /\ c \notin Blank -> "value"
    [] at.part = "name" /\ at.first /\ c \in White -> "blank"
    [] at.part = "version" /\ at.first /\ c \in Hexdigit -> "chunk"
    [] OTHER -> at.part
Begins(c) == at.first \/ ThisPart(c) # at.part
PartEnds(c) == NextPart(c) # ThisPart(c)

\* The known words that go on with c after n characters.
GoOn(of, n, c) ==
  LET may == {w \in of : n < Len(Words[w]) /\ c \in Letter(Words[w][n + 1])}
  IN  [word EXCEPT !.may = may, !.n = IF may = {} THEN 0 ELSE n + 1]
FullWord == {w \in word.may : Len(Words[w]) = word.n}
WordAfter(c) ==
  CASE at.part = "name" /\ c = ":" ->
         [may |-> {}, n |-> 0, key |-> IF FullWord = {} THEN "other" ELSE CHOOSE w \in FullWord : TRUE]
    [] ThisPart(c) = "name" -> GoOn(IF at.first THEN Names ELSE word.may, word.n, c)
    [] ThisPart(c) = "value" /\ ~PartEnds(c) ->
         GoOn(IF Begins(c) THEN Announces[word.key] ELSE word.may, word.n, c)
    [] OTHER -> [word EXCEPT !.may = {}, !.n = 0]
SaidAfter(c) ==
  IF ThisPart(c) \in {"name", "value"} /\ ~Begins(c) /\ PartEnds(c) THEN said \cup FullWord ELSE said

-----------------------------------------------------------------------------
(* The parser *)

\* httpclient_parser_init
InitialParser ==
  [cs |-> ResponseStart, mark |-> "front", field_start |-> "front", field_len |-> "zero",
   chunked |-> FALSE, content_len |-> -1, chunks_done |-> FALSE]

\* httpclient_parser_execute forgets its positions when it begins; in the loop
\* for chunks execute() initialises the parser every time.
Resumed(p) ==
  IF loop = "chunk" THEN InitialParser
  ELSE [p EXCEPT !.mark = "front", !.field_start = "front", !.field_len = "zero"]

\* MARK(.., p) at character c.  A part that begins makes the positions of the
\* one of its kind before it old.
Place(c) == IF Begins(c) THEN ThisPart(c) ELSE "inside"
Older(pos, c) == IF Begins(c) /\ pos = ThisPart(c) THEN "older" ELSE pos
Aged(p, c) == [p EXCEPT !.mark = Older(@, c), !.field_start = Older(@, c), !.field_len = Older(@, c)]

\* The actions that set content_len.  What Content-Length sets it to in the loop
\* for the headers is not used.
Sizes == IF loop = "chunk" THEN {"chunk_size", "write_content_len"} ELSE {"chunk_size"}

\* The parser after the actions of row at character c; n: what strtol() returns.
Acted(p, row, c, n) ==
  [Aged(p, c) EXCEPT
     !.cs = row.to,
     !.mark = IF Does(row, {"mark", "start_value"}) THEN Place(c) ELSE @,
     !.field_start = IF Does(row, {"start_field"}) THEN Place(c) ELSE @,
     !.field_len = IF Does(row, {"write_field"}) THEN p.field_start ELSE @,
     !.content_len = IF Does(row, Sizes) THEN n ELSE @,
     !.chunked = @ \/ Does(row, {"chunk_size", "trans_chunked"}),
     !.chunks_done = IF Does(row, {"chunk_size"}) THEN n <= 0 ELSE @]

\* What a callback is given that gets the text from position pos to character c.
TextFrom(pos, c) ==
  CASE ~PartEnds(c) -> "wrong"
    [] pos = ThisPart(c) -> "exact"
    [] pos = "front" /\ at.cut -> "tail"
    [] OTHER -> "wrong"

\* The callbacks with what they are given: on_response_http_field gets the name
\* of the field and its value, and drops a field whose name has length 0.
on_response_http_field(p, c) ==
  [of |-> IF ThisPart(c) = "value" THEN "field" ELSE "no field", value |-> TextFrom(p.mark, c),
   name |-> CASE p.field_len = "zero" -> "dropped"
              [] p.field_len = "name" /\ p.field_start = "name" -> "exact"
              [] p.field_len = "front" /\ p.field_start = "front" -> "tail"
              [] OTHER -> "wrong"]
Nothing == [of |-> "none", value |-> "exact"]
Given(row, p, c) ==
  CASE Does(row, {"write_value"}) -> on_response_http_field(p, c)
    [] Does(row, {"http_version", "status_code", "reason_phrase"}) ->
         [of |-> "line", value |-> TextFrom(p.mark, c)]
    [] OTHER -> Nothing

-----------------------------------------------------------------------------
(* HttpConnection::recvResponse *)

ResponseInit ==
  /\ receiver = "idle" /\ loop = "head" /\ client_parser = InitialParser /\ rsp_error = FALSE
  /\ len = 0 /\ left = 0 /\ at = AtStart /\ word = NoWord /\ said = {} /\ given = Nothing

\* recvResponse returns or throws; its parser and its buffer are gone.
Leave(result) ==
  /\ receiver' = result /\ loop' = "head" /\ client_parser' = InitialParser /\ rsp_error' = FALSE
  /\ len' = 0 /\ left' = 0 /\ at' = AtStart /\ word' = NoWord /\ said' = {} /\ given' = Nothing

\* The next read() before an execute(): in the loop for the headers execute()
\* goes on where it was but forgets its positions, in the loop for chunks it
\* begins anew.
ReadOn ==
  /\ receiver' = "reading"
  /\ client_parser' = Resumed(client_parser)
  /\ IF loop = "chunk" THEN at' = AtStart /\ word' = NoWord /\ said' = {}
     ELSE at' = [at EXCEPT !.cut = ~at.first] /\ UNCHANGED <<word, said>>
  /\ given' = Nothing
  /\ UNCHANGED <<loop, rsp_error, left>>

recvResponse == receiver = "idle" /\ receiver' = "reading" /\ UNCHANGED localVars

\* Mutant: the loop that reads the data of a chunk tries again.
ResponseReadFails_Again == receiver \in {"reading", "body"} /\ Leave("null")

\* read() <= 0, at any of the places that read.
ResponseReadFails == receiver \in {"reading", "chunk data", "body"} /\ Leave("null")

\* One character of the loop in httpclient_parser_execute, the first of them
\* when read() > 0.  The loop stops at an error and at the end of the headers.
ExecuteByte(row, c) ==
  /\ receiver \in {"reading", "parsing"}
  /\ row.to # Error
  /\ receiver' = IF Does(row, {"done"}) THEN "stopped" ELSE "parsing"
  /\ \E n \in IF Does(row, Sizes) THEN -1 .. MaxLength ELSE {0} :
       client_parser' = Acted(client_parser, row, c, n)
  /\ given' = Given(row, client_parser', c)
  /\ rsp_error' \in IF Does(row, {"http_version"}) THEN {rsp_error, TRUE} ELSE {rsp_error}
  /\ at' = [part |-> NextPart(c), first |-> PartEnds(c) \/ c = "LF", cut |-> at.cut /\ ~PartEnds(c)]
  /\ IF loop = "head" THEN word' = WordAfter(c) /\ said' = SaidAfter(c) ELSE UNCHANGED <<word, said>>
  /\ len' = 0
  /\ UNCHANGED <<loop, left>>
ExecuteError(row) == receiver \in {"reading", "parsing"} /\ row.to = Error /\ row.on # {} /\ Leave("null")

\* The buffer ends, or the loop stopped in a state that is not the final one.
BufferEnds ==
  /\ receiver = "parsing" \/ (receiver = "stopped" /\ client_parser.cs # ResponseFirstFinal)
  /\ IF rsp_error THEN Leave("null") ELSE ReadOn /\ len' = 0

\* The headers are read, and rest bytes are left.  Content-Length is what a
\* header of that name says; what is missing of the body may be below zero.
ContentLength == IF "length" \in said THEN 0 .. MaxLength ELSE {0}
HeadersRead ==
  /\ receiver = "stopped" /\ client_parser.cs = ResponseFirstFinal /\ loop = "head"
  /\ CASE rsp_error -> Leave("null")
       [] ~rsp_error /\ client_parser.chunked ->
            /\ receiver' = "reading" /\ loop' = "chunk" /\ client_parser' = InitialParser
            /\ len' \in 0 .. BufferSize - 1
            /\ at' = AtStart /\ word' = NoWord /\ said' = {} /\ given' = Nothing
            /\ UNCHANGED <<rsp_error, left>>
       [] OTHER -> \E length \in ContentLength, rest \in 0 .. BufferSize - 1 :
            IF length \in {0, rest} THEN Leave("response")
            ELSE /\ receiver' = "body" /\ left' = length - rest
                 /\ UNCHANGED <<loop, client_parser, rsp_error, len, at, word, said, given>>

\* read() > 0 for the rest of a body.  When more was in the buffer than the body
\* needs, the read goes past the end of the string, whatever that does.
ReadBody ==
  /\ receiver = "body"
  /\ Leave("response") \/ (left < 0 /\ Leave("crash"))

\* The header of a chunk is read, and rest bytes are left.  The size of the chunk
\* is compared with them; a size below zero is none to std::string.
ChunkHeader ==
  /\ receiver = "stopped" /\ client_parser.cs = ResponseFirstFinal /\ loop = "chunk"
  /\ LET size == client_parser.content_len
     IN  CASE rsp_error -> Leave("null")
           [] ~rsp_error /\ size < 0 -> Leave("throws")
           [] OTHER -> \E rest \in 0 .. BufferSize - 1 :
                IF size <= rest
                THEN IF client_parser.chunks_done THEN Leave("response") ELSE ReadOn /\ len' = rest - size
                ELSE /\ receiver' = "chunk data" /\ len' = 0 /\ left' = size
                     /\ UNCHANGED <<loop, client_parser, rsp_error, at, word, said, given>>

\* read() > 0 for the data of a chunk.
ReadChunk ==
  /\ receiver = "chunk data"
  /\ \E rt \in 1 .. left :
       /\ rt <= BufferSize
       /\ IF rt < left
          THEN /\ left' = left - rt
               /\ UNCHANGED <<receiver, loop, client_parser, rsp_error, len, at, word, said, given>>
          ELSE IF client_parser.chunks_done THEN Leave("response") ELSE ReadOn /\ len' = 0

ResponseReturned == receiver \in {"response", "null", "throws", "crash"}

\* The next response is received on a connection of its own.
NextResponse == ResponseReturned /\ Leave("idle")

ResponseNext ==
  \/ recvResponse \/ ResponseReadFails \/ BufferEnds \/ HeadersRead \/ ReadBody
  \/ ChunkHeader \/ ReadChunk \/ NextResponse
  \/ \E row \in ResponseRowsOf(client_parser.cs) :
       ExecuteError(row) \/ \E c \in row.on : ExecuteByte(row, c)

ResponseSpec == ResponseInit /\ [][ResponseNext]_responseVars

\* The thread goes on, a buffer ends, and the peer does not send for ever.
ResponseFairness ==
  /\ WF_responseVars(BufferEnds) /\ WF_responseVars(HeadersRead) /\ WF_responseVars(ChunkHeader)
  /\ SF_responseVars(ResponseReadFails)

-----------------------------------------------------------------------------
\* Every callback is given exactly the characters of the part it is for: the
\* status line's parts, and the name and the value of a header.  When a read
\* ended inside the part it is given those after that read, and a header whose
\* name a read separated from its value is dropped; it never gets the text of
\* another part.
ResponseTexts ==
  /\ given.of = "line" => given.value # "wrong"
  /\ given.of = "field" => given.value # "wrong" /\ given.name # "wrong"

\* When the headers of a response are read, the parser says that the body is
\* chunked if a Transfer-Encoding header said so, wherever the reads ended, and
\* says it of no response without that header.
ResponseFlags ==
  receiver = "stopped" /\ loop = "head" /\ at.part # "chunk" =>
    /\ client_parser.chunked => "encoding" \in said
    /\ "chunked" \in said => client_parser.chunked

\* Whatever a peer sends, recvResponse returns once reads fail or time out.
ResponseReturns == (receiver = "reading") ~> ResponseReturned
=============================================================================
