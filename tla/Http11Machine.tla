--------------------------- MODULE Http11Machine ---------------------------
(***************************************************************************)
(* The generated request parser (http11_parser.cc): its states keep the    *)
(* numbers of the code, its rows are grouped by the rules of the grammar.  *)
(* Characters that every state of the machine treats alike are one member  *)
(* of Char, named by one of them or by their ASCII name.                   *)
(***************************************************************************)
EXTENDS Ragel

Digit == {"0", "1", "2", "3", "5"}        \* "3" is any of 3 4 6 7 8 9
Upper == {"A", "G", "H", "P", "T"}        \* "A": A-F, "G": the other letters
Lower == {"a", "g", "v"}                  \* "a": a-f, "g": the other letters
Xdigit == Digit \cup {"A", "a"}
\* Sub-delimiters and unreserved characters: "!" is any of ! $ & ' * _ ~ and
\* "(" any of ( ) , ; =.  "more" stands for { } ^, which belong to them when
\* parser->uri_relaxed is set.
Plain == {"!", "(", "+", "-", ".", "more"} \cup Digit \cup Upper \cup Lower
More == {"{", "}", "^"}
\* What the grammar's 0 - 31 leaves out of HTTP_CTL, which is NUL and DEL only;
\* "ctl" is also ` and |.
Low == {"STX", "ETX", "EOT", "ENQ", "ACK", "ctl", "VT"}
Token == Low \cup {"!", "#", "%", "+", "-", ".", "^"} \cup Digit \cup Upper \cup Lower
Space == {"TAB", "LF", "VT", "CR", "SP"}
Char == Token \cup Space \cup More
          \cup {"hi", "NUL", "DEL", "(", "quote", "/", ":", "<", ">", "?", "@", "[", "]"}
Content == Char \ {"NUL", "DEL", "LF", "CR"}
Pchar == Plain \cup {"hi", ":", "@"}

-----------------------------------------------------------------------------
(* Request line *)

MethodStart ==
  { Row(1, Digit \cup Upper, 2, <<"mark">>), Row(1, {"<"}, 194, <<"mark">>),
    Row(1, {"@"}, 198, <<"mark">>),
    Row(2, {"SP"}, 3, <<"request_method">>), Go(2, Digit \cup Upper, 175) }

\* A method has at most 20 characters.
MethodRest ==
  { Row(s, {"SP"}, 3, <<"request_method">>) : s \in 175..193 }
    \cup { Go(s, Digit \cup Upper, s + 1) : s \in 175..192 }

\* The path, and with it perhaps the URI, ends in state s.
PathEnd(s) ==
  { Row(s, {"SP"}, 4, <<"request_path", "request_uri">>),
    Row(s, {"#"}, 20, <<"request_path", "request_uri">>),
    Row(s, {"?"}, 29, <<"request_path">>) }
PathEmpty(s) ==
  { Row(s, {"SP"}, 4, <<"mark", "request_path", "request_uri">>),
    Row(s, {"#"}, 20, <<"mark", "request_path", "request_uri">>),
    Row(s, {"?"}, 29, <<"mark", "request_path">>) }
\* The rest of %XX, whose first digit is read in state s.
Pct(s, next) == { Go(s, Xdigit, s + 1), Go(s + 1, Xdigit, next) }

\* Mutant: the position of a path that begins with a slash is not taken.
URI_reference_NoMark ==
  PathEmpty(3) \cup
  { Row(3, (Plain \ (Upper \cup Lower)) \cup {"@"}, 19, <<"mark">>),
    Row(3, {"%"}, 24, <<"mark">>), Go(3, {"/"}, 33),
    Row(3, Upper \cup Lower, 173, <<"mark">>) }

URI_reference ==
  PathEmpty(3) \cup
  { Row(3, (Plain \ (Upper \cup Lower)) \cup {"@"}, 19, <<"mark">>),
    Row(3, {"%"}, 24, <<"mark">>), Row(3, {"/"}, 33, <<"mark">>),
    Row(3, Upper \cup Lower, 173, <<"mark">>) }

HTTP_Version ==
  { Row(4, {"H"}, 5, <<"mark">>), Go(5, {"T"}, 6), Go(6, {"T"}, 7),
    Go(7, {"P"}, 8), Go(8, {"/"}, 9), Go(9, {"1"}, 10), Go(10, {"."}, 11),
    Go(11, {"0", "1"}, 12),
    Row(12, {"LF"}, 13, <<"http_version">>), Row(12, {"CR"}, 17, <<"http_version">>) }

-----------------------------------------------------------------------------
(* Headers *)

HeaderStart ==
  { Row(13, Token, 14, <<"start_field">>), Row(13, {"LF"}, 348, <<"start_field", "done">>),
    Row(13, {"CR"}, 18, <<"start_field">>) }

message_header ==
  { Go(14, Token \cup {"LF", "CR"}, 14), Row(14, {":"}, 15, <<"write_field">>),
    Row(15, Content \ {"TAB", "SP"}, 16, <<"start_value">>),
    Row(15, {"TAB", "SP"}, 15, <<"start_value">>),
    Row(15, {"LF"}, 13, <<"start_value", "write_value">>),
    Row(15, {"CR"}, 17, <<"start_value", "write_value">>),
    Go(16, Content, 16), Row(16, {"LF"}, 13, <<"write_value">>),
    Row(16, {"CR"}, 17, <<"write_value">>), Go(17, {"LF"}, 13) }

\* Line ends are token characters, so that a header may go on after the last one.
RequestEnd ==
  { Go(348, Token \cup {"LF", "CR"}, 14), Row(348, {":"}, 15, <<"write_field">>),
    Go(18, Token \cup {"CR"}, 14), Row(18, {"LF"}, 348, <<"done">>),
    Row(18, {":"}, 15, <<"write_field">>) }

-----------------------------------------------------------------------------
(* URI *)

PathNoScheme ==
  PathEnd(19) \cup
  { Go(19, Plain \cup {"@"}, 19), Go(19, {"%"}, 24), Go(19, {"/"}, 26) }

FragmentStart ==
  { Row(20, Pchar \cup {"/", "?"}, 21, <<"mark">>),
    Row(20, {"SP"}, 4, <<"mark", "fragment">>), Row(20, {"%"}, 22, <<"mark">>) }

FragmentRest ==
  { Go(21, Pchar \cup {"/", "?"}, 21), Row(21, {"SP"}, 4, <<"fragment">>),
    Go(21, {"%"}, 22) } \cup Pct(22, 21)

\* Mutant: a path with more than one segment is not announced.
PathSegments_NoCallback ==
  Pct(24, 19) \cup
  { Row(26, {"SP"}, 4, <<"request_uri">>), Row(26, {"#"}, 20, <<"request_uri">>),
    Go(26, {"?"}, 29), Go(26, Pchar \cup {"/"}, 26), Go(26, {"%"}, 27) } \cup Pct(27, 26)

PathSegments ==
  Pct(24, 19) \cup PathEnd(26) \cup
  { Go(26, Pchar \cup {"/"}, 26), Go(26, {"%"}, 27) } \cup Pct(27, 26)

QueryStart ==
  { Row(29, Pchar \cup {"/", "?"}, 30, <<"start_query">>),
    Row(29, {"SP"}, 4, <<"start_query", "query_string", "request_uri">>),
    Row(29, {"#"}, 20, <<"start_query", "query_string", "request_uri">>),
    Row(29, {"%"}, 31, <<"start_query">>) }

QueryRest ==
  { Go(30, Pchar \cup {"/", "?"}, 30),
    Row(30, {"SP"}, 4, <<"query_string", "request_uri">>),
    Row(30, {"#"}, 20, <<"query_string", "request_uri">>), Go(30, {"%"}, 31) }
    \cup Pct(31, 30)

\* scheme ":" restarts the path after the colon.
Scheme ==
  PathEnd(173) \cup PathEmpty(174) \cup
  { Go(173, {"!", "(", "more", "@"}, 19), Go(173, {"%"}, 24),
    Go(173, {"+", "-", "."} \cup Digit \cup Upper \cup Lower, 173),
    Go(173, {"/"}, 26), Go(173, {":"}, 174),
    Row(174, Pchar, 26, <<"mark">>), Row(174, {"%"}, 27, <<"mark">>),
    Row(174, {"/"}, 33, <<"mark">>) }

(***************************************************************************)
(* The part of a URI from its first "/" on occurs twice in the machine: in *)
(* the request line (base 0), and in the JSON message (base 175), where    *)
(* only a space ends it.                                                   *)
(***************************************************************************)
Json == 175
Segment(b) == IF b = 0 THEN 26 ELSE 205
End(b, s) == IF b = 0 THEN PathEnd(s) ELSE {Row(s, {"SP"}, 199, <<"request_path">>)}

PathAbsolute(b) ==
  End(b, b + 33) \cup
  { Go(b + 33, Pchar, Segment(b)), Go(b + 33, {"%"}, Segment(b) + 1),
    Go(b + 33, {"/"}, b + 34) }

RegName(b) ==
  UNION { End(b, s) \cup
          { Go(s, Plain, b + 35), Go(s, {"%"}, b + 36), Go(s, {"/"}, Segment(b)),
            Go(s, {":"}, b + 38), Go(s, {"@"}, b + 42) } : s \in {b + 34, b + 35} }
    \cup {Go(b + 34, {"["}, b + 47)} \cup Pct(b + 36, b + 35)

PortOrUserinfo(b) ==
  End(b, b + 38) \cup
  { Go(b + 38, (Plain \ Digit) \cup {":"}, b + 39), Go(b + 38, {"%"}, b + 40),
    Go(b + 38, {"/"}, Segment(b)), Go(b + 38, Digit, b + 38), Go(b + 38, {"@"}, b + 42),
    Go(b + 39, Plain \cup {":"}, b + 39), Go(b + 39, {"%"}, b + 40),
    Go(b + 39, {"@"}, b + 42) } \cup Pct(b + 40, b + 39)

Host(b) ==
  UNION { End(b, s) \cup
          { Go(s, Plain, b + 43), Go(s, {"%"}, b + 44), Go(s, {"/"}, Segment(b)),
            Go(s, {":"}, b + 46) } : s \in {b + 42, b + 43} }
    \cup {Go(b + 42, {"["}, b + 47)} \cup Pct(b + 44, b + 43)

Port(b) ==
  End(b, b + 46) \cup { Go(b + 46, {"/"}, Segment(b)), Go(b + 46, Digit, b + 46) }

(* IP literals *)

Hex == {"A", "a"}
H16(s, next) ==
  { Go(i, Xdigit, i + 1) : i \in s..s + 2 } \cup { Go(i, {":"}, next) : i \in s..s + 3 }

\* A decimal octet that is not the last of an IPv4 address, or, with "]" for
\* sep, the last: its first digit in state s, the others in rest, rest + 1, ...
Octet(s, last, rest, sep, after) ==
  { Go(s, {"0", "3", "5"}, last), Go(s, {"1"}, rest), Go(s, {"2"}, rest + 2),
    Go(rest, Digit, rest + 1), Go(rest + 1, Digit, last), Go(rest + 2, {"0"}, rest + 3),
    Go(rest + 2, {"5"}, rest + 4), Go(rest + 3, Digit, last), Go(rest + 4, {"0"}, last) }
    \cup { Go(i, sep, after) : i \in {last, rest, rest + 1, rest + 2} }

\* A group of hex digits that may turn out to be the first octet of an IPv4
\* address: after one digit 0 or 3-9 (first), after two and three (tail), and
\* after a digit 1, 2 or a letter (dec, dec + 3, dec + 6).  ends: what may
\* follow the group.
Group(b, s, first, dec) ==
  { Go(s, {"0", "3", "5"}, first), Go(s, {"1"}, dec), Go(s, {"2"}, dec + 3),
    Go(s, Hex, dec + 6) }
Ends(states, colon, close) ==
  { Go(s, {":"}, colon) : s \in states } \cup { Go(s, {"]"}, c) : s \in states, c \in close }
HexGroup(b, first, tail, colon, close) ==
  { Go(first, {"."}, b + 55), Go(first, Xdigit, tail), Go(tail, Xdigit, tail + 1),
    Go(tail + 1, Xdigit, tail + 2) } \cup Ends({first} \cup tail..tail + 2, colon, close)
DecGroup(b, dec, tail, colon, close) ==
  { Go(dec, Digit, dec + 1), Go(dec, Hex, tail), Go(dec + 1, Digit, dec + 2),
    Go(dec + 1, Hex, tail + 1), Go(dec + 2, Xdigit, tail + 2), Go(dec + 3, {"0"}, dec + 4),
    Go(dec + 3, {"5"}, dec + 5), Go(dec + 3, Xdigit \ {"0", "5"}, tail),
    Go(dec + 4, Digit, dec + 2), Go(dec + 4, Hex, tail + 1), Go(dec + 5, {"0"}, dec + 2),
    Go(dec + 5, Xdigit \ {"0"}, tail + 1), Go(dec + 6, Xdigit, tail) }
    \cup { Go(s, {"."}, b + 55) : s \in dec..dec + 3 } \cup Ends(dec..dec + 6, colon, close)

\* The grammar's 6( h16 ":" ) is the character ACK and one group.
IP_literal(b) ==
  { Go(b + 47, {"ACK"}, b + 48), Go(b + 47, Xdigit, b + 91), Go(b + 47, {":"}, b + 167),
    Go(b + 47, {"v"}, b + 169), Go(b + 48, Xdigit, b + 49) }
    \cup H16(b + 49, b + 53) \cup Group(b, b + 53, b + 54, b + 84)

IPv4address(b) ==
  Octet(b + 55, b + 56, b + 72, {"."}, b + 57)
    \cup Octet(b + 57, b + 58, b + 67, {"."}, b + 59)
    \cup Octet(b + 59, b + 60, b + 62, {"]"}, b + 61)
    \cup End(b, b + 61) \cup { Go(b + 61, {"/"}, Segment(b)), Go(b + 61, {":"}, b + 46) }

ls32(b) ==
  HexGroup(b, b + 54, b + 77, b + 80, {}) \cup DecGroup(b, b + 84, b + 77, b + 80, {})
    \cup { Go(b + s, Xdigit, b + s + 1) : s \in 80..82 } \cup { Go(b + 83, Xdigit, b + 60) }
    \cup { Go(b + s, {"]"}, b + 61) : s \in 81..83 }

\* Groups before "::".  The last may repeat.
Groups(b) ==
  UNION { H16(b + s, b + s + 4) : s \in {91, 96, 101, 106, 111, 116, 121} }
    \cup { Go(b + s, Xdigit, b + s + 1) : s \in {95, 100, 105, 110, 115, 120} }
    \cup { Go(b + 95, {":"}, b + 166), Go(b + 100, {":"}, b + 165), Go(b + 105, {":"}, b + 164),
           Go(b + 110, {":"}, b + 163), Go(b + 115, {":"}, b + 151), Go(b + 120, {":"}, b + 150),
           Go(b + 125, Xdigit, b + 121), Go(b + 125, {":"}, b + 126) }

AfterColons(b) ==
  Group(b, b + 126, b + 127, b + 143) \cup HexGroup(b, b + 127, b + 128, b + 131, {b + 61})
    \cup { Go(b + 126, {"STX", "ETX"}, b + 48), Go(b + 126, {"]"}, b + 61) }

LastGroup(b) ==
  Group(b, b + 131, b + 132, b + 136) \cup HexGroup(b, b + 132, b + 133, b + 80, {b + 61})
    \cup DecGroup(b, b + 136, b + 133, b + 80, {b + 61})

AfterColonsDec(b) == DecGroup(b, b + 143, b + 128, b + 131, {b + 61})

TwoGroups(b) ==
  Group(b, b + 150, b + 127, b + 143) \cup Group(b, b + 151, b + 152, b + 156)
    \cup HexGroup(b, b + 152, b + 153, b + 131, {}) \cup DecGroup(b, b + 156, b + 153, b + 131, {})
    \cup { Go(b + s, {"STX", "ETX"}, b + 48) : s \in {150, 151} }

\* As above, the grammar's counts 2( ... ) to 5( ... ) are characters.
Counts(b) ==
  Group(b, b + 168, b + 127, b + 143) \cup
  { Go(b + 163, {"STX", "ETX"}, b + 48), Go(b + 163, Xdigit, b + 49),
    Go(b + 164, {"STX", "ETX"}, b + 48), Go(b + 165, {"ETX"}, b + 48),
    Go(b + 166, {"EOT"}, b + 48), Go(b + 167, {":"}, b + 168),
    Go(b + 168, {"STX", "ETX", "EOT", "ENQ"}, b + 48), Go(b + 168, {"]"}, b + 61) }

IPvFuture(b) ==
  { Go(b + 169, Xdigit, b + 170), Go(b + 170, {"."}, b + 171), Go(b + 170, Xdigit, b + 170),
    Go(b + 171, Plain \cup {":"}, b + 172), Go(b + 172, Plain \cup {":"}, b + 172),
    Go(b + 172, {"]"}, b + 61) }

-----------------------------------------------------------------------------
(* Messages that are no HTTP requests *)

SocketXML ==
  LET name == {"-", "."} \cup Digit \cup Upper \cup Lower
  IN  { Go(194, name, 195), Go(195, name, 195),
        Row(195, Space \cup {"/", ">"}, 196, <<"request_path">>),
        Go(196, Char \ {">"}, 196), Go(196, {">"}, 197),
        Go(197, Char \ {"NUL", ">"}, 196), Go(197, {">"}, 197),
        Row(197, {"NUL"}, 349, <<"xml", "done">>) }

SocketJSON ==
  { Row(s, {"SP"}, 199, <<"request_path">>) : s \in {198, 202} } \cup
  { Go(s, Plain \cup {"@"}, 202) : s \in {198, 202} } \cup
  { Go(198, {"%"}, 203), Go(198, {"/"}, 208), Row(199, {"{"}, 200, <<"mark">>),
    Go(200, Char \ {"}"}, 200), Go(200, {"}"}, 201),
    Go(201, Char \ {"NUL", "}"}, 200), Go(201, {"}"}, 201),
    Row(201, {"NUL"}, 349, <<"json", "done">>) }

JsonPath ==
  { Go(202, {"%"}, 203), Go(202, {"/"}, 205), Row(205, {"SP"}, 199, <<"request_path">>),
    Go(205, Pchar \cup {"/"}, 205), Go(205, {"%"}, 206) }
    \cup Pct(203, 202) \cup Pct(206, 205)
JsonPathAbsolute == PathAbsolute(Json)
JsonRegName == RegName(Json)
JsonPortOrUserinfo == PortOrUserinfo(Json)
JsonHost == Host(Json) \cup Port(Json)
JsonIPLiteral == IP_literal(Json)
JsonIPv4address == IPv4address(Json)
Jsonls32 == ls32(Json)
JsonGroups == Groups(Json)
JsonAfterColons == AfterColons(Json)
JsonLastGroup == LastGroup(Json)
JsonAfterColonsDec == AfterColonsDec(Json)
JsonTwoGroups == TwoGroups(Json)
JsonCounts == Counts(Json)
JsonIPvFuture == IPvFuture(Json)

-----------------------------------------------------------------------------
RequestRows ==
  UNION { MethodStart, MethodRest, URI_reference, HTTP_Version, HeaderStart,
          message_header, RequestEnd, PathNoScheme, FragmentStart, FragmentRest,
          PathSegments, QueryStart, QueryRest, Scheme, PathAbsolute(0), RegName(0),
          PortOrUserinfo(0), Host(0), Port(0), IP_literal(0), IPv4address(0), ls32(0),
          Groups(0), AfterColons(0), LastGroup(0), AfterColonsDec(0), TwoGroups(0),
          Counts(0), IPvFuture(0), SocketXML, SocketJSON, JsonPath, JsonPathAbsolute,
          JsonRegName, JsonPortOrUserinfo, JsonHost, JsonIPLiteral, JsonIPv4address,
          Jsonls32, JsonGroups, JsonAfterColons, JsonLastGroup, JsonAfterColonsDec,
          JsonTwoGroups, JsonCounts, JsonIPvFuture }

RequestStart == 1
RequestFirstFinal == 348

\* parser->uri_relaxed widens the rows that hold "more".
Widened(row, relaxed) ==
  [row EXCEPT !.on = (@ \ {"more"}) \cup (IF relaxed /\ "more" \in @ THEN More ELSE {})]
RequestRowsOf(s, relaxed) ==
  RowsOf({Widened(r, relaxed) : r \in {r \in RequestRows : r.from = s}}, s, Char)
=============================================================================
