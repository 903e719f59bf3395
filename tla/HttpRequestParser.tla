------------------------- MODULE HttpRequestParser -------------------------
(***************************************************************************)
(* HttpSession::recvRequest with the request parser it drives, as          *)
(* HttpServer::handleClient calls it for one client after another.  The    *)
(* parser takes one character at a time; every character, and every way to *)
(* cut the message into reads, is possible.  A position in the buffer is   *)
(* known by the part of the message that begins there.                     *)
(***************************************************************************)
EXTENDS Http11Machine

VARIABLES
  session,       \* where recvRequest() is
  cs,            \* m_parser.cs
  uri_relaxed,   \* m_parser.uri_relaxed, which nothing initialises
  mark,          \* what m_parser.mark points at
  query_start,   \* what m_parser.query_start points at
  m_error,       \* m_error # 0
  \* The message as its delimiters divide it, whatever the parser does:
  part,          \* the part the next character belongs to,
  fresh,         \* whether it is the first character of the part,
  cut,           \* and whether a read ended inside the part.
  heard,         \* the parts whose callbacks were called
  text           \* the last of them, and what it was given

parserVars == <<cs, uri_relaxed, mark, query_start, m_error>>
messageVars == <<part, fresh, cut>>
requestVars == <<session, parserVars, messageVars, heard, text>>

-----------------------------------------------------------------------------
(* The reference: where the parts of a message begin *)

Letters == Upper \cup Lower
SchemeChars == Letters \cup Digit \cup {"+", "-", "."}

\* The part character c belongs to.  "scheme" is a target that may still turn
\* out to begin with a scheme and a colon.
PartOf(c) ==
  CASE part = "start" -> (IF c = "<" THEN "xml" ELSE IF c = "@" THEN "json" ELSE "method")
    [] part = "scheme" -> "target"
    [] OTHER -> part

\* The part the character after c belongs to.
PartAfter(c) ==
  CASE part \in {"start", "method"} /\ c = "SP" -> "target"
    [] part = "xml" /\ c \in Space \cup {"/", ">"} -> "body"
    [] part = "json" /\ c = "SP" -> "body"
    [] part \in {"target", "scheme", "path", "query", "fragment"} /\ c = "SP" -> "version"
    [] part \in {"target", "scheme", "path", "query"} /\ c = "#" -> "fragment"
    [] part \in {"target", "scheme", "path"} /\ c = "?" -> "query"
    [] part = "target" /\ fresh /\ c \in Letters -> "scheme"
    [] part = "scheme" /\ c \in SchemeChars -> "scheme"
    [] part = "scheme" /\ c = ":" -> "path"
    [] part = "version" /\ c \in {"CR", "LF"} -> "header"
    [] OTHER -> PartOf(c)
SamePart(c) == PartAfter(c) = PartOf(c) \/ (PartOf(c) = "target" /\ PartAfter(c) = "scheme")

\* What a callback gets that is called at character c with the text from
\* position pos on.
TextAt(pos, c) ==
  CASE SamePart(c) -> "wrong"
    [] pos = PartOf(c) -> "exact"
    [] pos = "front" /\ cut -> "tail"
    [] pos = "stale" -> "stale"
    [] OTHER -> "wrong"

-----------------------------------------------------------------------------
(* The parser *)

\* Positions once the actions of a row are executed at character c:
\* MARK(mark, p) and MARK(query_start, p).
Here(c) == IF fresh THEN PartOf(c) ELSE "inside"
MarkAfter(row, c) == IF Does(row, {"mark", "start_value"}) THEN Here(c) ELSE mark
QueryAfter(row, c) == IF Does(row, {"start_query"}) THEN Here(c) ELSE query_start

\* The callbacks, with the part of the request each one is for.
ParserCallback == [request_method |-> "method", request_path |-> "path", query_string |-> "query",
             request_uri |-> "uri", fragment |-> "fragment", http_version |-> "version"]
Called(row) == {ParserCallback[row.do[i]] : i \in {j \in DOMAIN row.do : row.do[j] \in DOMAIN ParserCallback}}

\* The callbacks that keep their text are on_request_method, on_request_path,
\* on_request_query and on_request_fragment.
NoText == [of |-> "none", is |-> "exact"]
Kept == {"method", "path", "query", "fragment"}
TextOf(row, c) ==
  IF Called(row) \cap Kept = {} THEN NoText
  ELSE LET p == CHOOSE p \in Called(row) : p \in Kept
       IN  [of |-> p, is |-> TextAt(IF p = "query" THEN QueryAfter(row, c) ELSE MarkAfter(row, c), c)]

\* The text may be no method.
on_request_method(row) ==
  IF "method" \in Called(row) THEN m_error' \in {m_error, TRUE} ELSE UNCHANGED m_error

-----------------------------------------------------------------------------
(* HttpSession::recvRequest *)

RequestInit ==
  /\ session = "idle"
  /\ cs = RequestStart /\ uri_relaxed = FALSE /\ mark = "front" /\ query_start = "unset"
  /\ m_error = FALSE
  /\ part = "start" /\ fresh = TRUE /\ cut = FALSE
  /\ heard = {} /\ text = NoText

\* new HttpRequestParser, whose http_parser_init leaves uri_relaxed as it is.
recvRequest ==
  /\ session = "idle"
  /\ session' = "reading"
  /\ uri_relaxed' \in BOOLEAN
  /\ UNCHANGED <<cs, mark, query_start, m_error, messageVars, heard, text>>

\* read() <= 0
RequestReadFails ==
  /\ session = "reading"
  /\ session' = "null"
  /\ UNCHANGED <<parserVars, messageVars, heard, text>>

\* One character of the loop in http_parser_execute, the first of them when
\* read() > 0.  At an error and at the end of the headers the loop stops, and
\* recvRequest returns; what is left in the buffer is gone.
ExecuteChar(row, c) ==
  /\ session \in {"reading", "parsing"}
  /\ cs' = row.to
  /\ mark' = MarkAfter(row, c)
  /\ query_start' = QueryAfter(row, c)
  /\ on_request_method(row)
  /\ heard' = heard \cup Called(row)
  /\ text' = TextOf(row, c)
  /\ part' = PartAfter(c)
  /\ fresh' = ~SamePart(c)
  /\ cut' = (cut /\ SamePart(c))
  /\ session' = CASE row.to = Error \/ (Does(row, {"done"}) /\ m_error) -> "null"
                 [] Does(row, {"done"}) /\ ~m_error -> "request"
                 [] OTHER -> "parsing"
  /\ UNCHANGED uri_relaxed

\* The buffer ends: hasError(), or the next read(), after which the parser has
\* forgotten its positions, but not the start of the query.
RequestBufferEnds ==
  /\ session = "parsing"
  /\ session' = IF m_error THEN "null" ELSE "reading"
  /\ mark' = "front"
  /\ query_start' = IF query_start = "unset" THEN "unset" ELSE "stale"
  /\ cut' = ~fresh
  /\ text' = NoText
  /\ UNCHANGED <<cs, uri_relaxed, m_error, part, fresh, heard>>

\* handleClient has answered the request or given up, and closes the connection
\* (a request never asks to keep it, for its headers are not kept); the parser
\* is gone, and the next client is served.
handleClient ==
  /\ session \in {"request", "null"}
  /\ session' = "idle"
  /\ cs' = RequestStart /\ uri_relaxed' = FALSE /\ mark' = "front" /\ query_start' = "unset"
  /\ m_error' = FALSE
  /\ part' = "start" /\ fresh' = TRUE /\ cut' = FALSE
  /\ heard' = {} /\ text' = NoText

RequestNext ==
  \/ recvRequest \/ RequestReadFails \/ RequestBufferEnds \/ handleClient
  \/ \E row \in RequestRowsOf(cs, uri_relaxed) : \E c \in row.on : ExecuteChar(row, c)

RequestSpec == RequestInit /\ [][RequestNext]_requestVars

-----------------------------------------------------------------------------
\* Every callback that keeps its text is given exactly the characters of its
\* part; when a read ended inside the part, those after that read.  Only the
\* start of the query, which survives the reads, may be stale.
RequestTexts == text.is \in {"exact", "tail"} \/ (text.of = "query" /\ text.is = "stale")

\* The request line is heard part by part in its order, and a request is handed
\* out only when it is complete: recvRequest implements RequestParts.
Promise == INSTANCE RequestParts
             WITH answer <- IF session \in {"request", "null"} THEN session ELSE "none"
PartsInOrder == Promise!Spec
=============================================================================
