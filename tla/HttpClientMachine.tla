------------------------- MODULE HttpClientMachine -------------------------
(***************************************************************************)
(* The generated response parser (httpclient_parser.cc), for responses and *)
(* for the header lines of chunks.  Its states keep the numbers of the     *)
(* code; characters that every state treats alike are one member of Byte.  *)
(* A small letter is either case, but "H", "P" and "T" are themselves.     *)
(***************************************************************************)
EXTENDS Ragel

Hexdigit == {"0", "a", "b", "c", "d", "e", "f"}      \* "0" is any digit
\* "!" is any other token character.
Tchar == Hexdigit \cup {"!", "-", ".", "g", "h", "H", "i", "k", "l", "n", "o", "P", "r", "s",
                        "t", "T", "u"}
Blank == {"HT", "SP"}
White == Blank \cup {"LF", "CR"}
Byte == Tchar \cup White \cup {"any", "/", ":", ";", "="}
Text == Byte \ {"LF", "CR"}
Letter(x) == {x} \cup (IF x = "t" THEN {"T"} ELSE IF x = "h" THEN {"H"} ELSE {})

-----------------------------------------------------------------------------
(* The header line of a chunk *)

LineEnd(s, do) == { Row(s, {"LF"}, 120, do \o <<"done">>), Row(s, {"CR"}, 3, do) }

\* The first characters of a response and of a chunk.
ResponseOrChunk ==
  { Row(1, Hexdigit, 2, <<"mark">>), Row(1, {"H"}, 8, <<"mark">>), Go(2, Hexdigit, 2),
    Row(2, {";"}, 4, <<"chunk_size">>) } \cup LineEnd(2, <<"chunk_size">>)

\* The header ends with the line feed; nothing follows it.
ResponseDone == { Row(3, {"LF"}, 120, <<"done">>) }

chunk_extension ==
  { Row(4, Tchar, 5, <<"start_field">>), Go(5, Tchar, 5),
    Row(5, {";"}, 4, <<"write_field", "start_value", "write_value">>),
    Row(5, {"="}, 6, <<"write_field", "start_value">>) }
    \cup LineEnd(5, <<"write_field", "start_value", "write_value">>)

chunk_ext_val ==
  { Row(6, Tchar, 7, <<"start_value">>), Go(7, Tchar, 7), Row(7, {";"}, 4, <<"write_value">>) }
    \cup LineEnd(7, <<"write_value">>)

-----------------------------------------------------------------------------
(* Status line and headers *)

Status_Line ==
  { Go(8, {"T"}, 9), Go(9, {"T"}, 10), Go(10, {"P"}, 11), Go(11, {"/"}, 12),
    Go(12, {"0"}, 13), Go(13, {"0"}, 13), Go(13, {"."}, 14), Go(14, {"0"}, 15),
    Go(15, {"0"}, 15), Row(15, {"SP"}, 16, <<"http_version">>),
    Row(16, {"0"}, 17, <<"mark">>), Go(17, {"0"}, 17), Row(17, {"SP"}, 18, <<"status_code">>),
    Row(18, Byte \ {"LF"}, 19, <<"mark">>), Go(19, Text, 19),
    Row(19, {"LF"}, 20, <<"reason_phrase">>), Row(19, {"CR"}, 24, <<"reason_phrase">>) }

\* A header begins in state s after the actions do, or the headers end; name
\* is where a header whose name begins with c goes on.
Header(s, other, name, do) ==
  { Row(s, other, 21, do \o <<"start_field">>),
    Row(s, Letter("t"), 44, do \o <<"start_field">>) }
    \cup { Row(s, {"c"}, n, do \o <<"start_field">>) : n \in name }
Other == Tchar \ {"c", "t", "T"}

HeaderOrEnd == Header(20, Other, {25}, <<>>) \cup { Row(20, {"LF"}, 120, <<"done">>), Go(20, {"CR"}, 3) }

\* A header begins after one that said close.
HeaderAfterClose == Header(43, Other, {25}, <<"close">>) \cup LineEnd(43, <<"close">>)

FieldName == { Go(21, Tchar, 21), Row(21, {":"}, 22, <<"write_field">>) }

\* In state s a value has not begun yet; first: characters with which the value
\* of a known header goes on in state known; lf, cr: where an empty value ends.
Value(s, first, known, lf, cr) ==
  { Row(s, Text \ (Blank \cup first), 23, <<"start_value">>), Row(s, Blank, s, <<"start_value">>),
    Row(s, {"LF"}, lf, <<"start_value", "write_value">>),
    Row(s, {"CR"}, cr, <<"start_value", "write_value">>) }
    \cup { Row(s, first, k, <<"start_value">>) : k \in known }
ValueEnd(s, do, lf, cr) == { Row(s, {"LF"}, lf, do), Row(s, {"CR"}, cr, do) }

\* Mutant: the position of a value is not taken at its first character.
FieldValue_NoStart ==
  ValueEnd(22, <<"start_value", "write_value">>, 20, 24)
    \cup ValueEnd(23, <<"write_value">>, 20, 24)
    \cup { Go(22, Text \ Blank, 23), Row(22, Blank, 22, <<"start_value">>),
           Go(23, Text, 23), Go(24, {"LF"}, 20) }

FieldValue == Value(22, {}, {}, 20, 24) \cup ValueEnd(23, <<"write_value">>, 20, 24)
                \cup { Go(23, Text, 23), Go(24, {"LF"}, 20) }

\* The name, or the value, read so far may be the beginning of word.
Name(s, word) ==
  UNION { { Go(s + i - 1, Letter(word[i]), s + i),
            Go(s + i - 1, Tchar \ Letter(word[i]), 21),
            Row(s + i - 1, {":"}, 22, <<"write_field">>) } : i \in DOMAIN word }
NameEnd(s, value) == { Go(s, Tchar, 21), Row(s, {":"}, value, <<"write_field">>) }
Word(s, word) ==
  UNION { ValueEnd(s + i - 1, <<"write_value">>, 20, 24) \cup
          { Go(s + i - 1, Letter(word[i]), s + i), Go(s + i - 1, Text \ Letter(word[i]), 23) }
          : i \in DOMAIN word }

ConName == Name(25, <<"o", "n">>) \cup
  { Go(27, {"n"}, 28), Go(27, Letter("t"), 101), Go(27, Tchar \ {"n", "t", "T"}, 21),
    Row(27, {":"}, 22, <<"write_field">>) }
ConnectionName == Name(28, <<"e", "c", "t", "i", "o", "n">>) \cup NameEnd(34, 35)

TransferName == Name(44, <<"r", "a", "n", "s", "f", "e", "r", "-">>)
EncodingName == Name(52, <<"e", "n", "c", "o", "d", "i", "n", "g">>) \cup NameEnd(60, 61)

ContentName == Name(101, <<"e", "n", "t", "-">>)
LengthName == Name(105, <<"l", "e", "n", "g", "t", "h">>) \cup NameEnd(111, 112)

-----------------------------------------------------------------------------
(* The values of Connection, Transfer-Encoding and Content-Length.  A line *)
(* end inside the white space before the value is read both as part of     *)
(* that white space and as the end of an empty value.                      *)

\* The white space before a value in state s, or the value itself.
Spaces(s, on, first, value, do) == { Go(s, on, s), Row(s, first, value, do) }
\* A line end was read in state s (white space goes on in state space).
CrSeen(s, space, lf, done, first, value, do) ==
  { Go(s, Blank \cup {"CR"}, space), Row(s, {"LF"}, lf, done), Row(s, first, value, do) }
\* An empty value's line end was followed by the end of the headers.
EmptyEnd(s, space, first, value, do) == { Go(s, White, space), Row(s, first, value, do) }
\* The headers may end, or white space go on, after a line end in state s.
AfterLine(s, space, lf, cr) ==
  { Go(s, Blank, space), Row(s, {"LF"}, lf, <<"done">>), Go(s, {"CR"}, cr) }
Chain(s, word) == { Go(s + i - 1, Letter(word[i]), s + i) : i \in DOMAIN word }

Close == <<"l", "o", "s", "e">>
Chunked == <<"h", "u", "n", "k", "e", "d">>
WroteChunked == <<"write_value", "trans_chunked">>
WroteLength == <<"write_content_len", "write_value">>

ConnectionValue == Value(35, {"c"}, {96}, 36, 95)
ConnectionLine == AfterLine(36, 37, 122, 89) \cup Header(36, Other, {90}, <<>>)
ConnectionClose == Spaces(37, White, {"c"}, 38, <<>>) \cup Chain(38, Close)
                     \cup ValueEnd(42, <<>>, 43, 88)
CloseLine == { Go(88, {"LF"}, 43) } \cup EmptyEnd(122, 37, {"c"}, 38, <<>>)
               \cup CrSeen(89, 37, 122, <<"done">>, {"c"}, 38, <<>>)
CloseOrName ==
  { Go(90, {"l"}, 91), Go(90, {"o"}, 26), Go(90, Tchar \ {"l", "o"}, 21),
    Row(90, {":"}, 22, <<"write_field">>) }
    \cup Name(91, Tail(Close)) \cup NameEnd(94, 22) \cup ValueEnd(94, <<>>, 43, 88)
ConnectionCr == CrSeen(95, 37, 36, <<>>, {"c"}, 38, <<>>)
CloseOrText == Word(96, Close) \cup { Go(100, Text, 23) } \cup ValueEnd(100, <<"write_value">>, 43, 88)

TransferEncodingValue == Value(61, {"c"}, {81}, 62, 80)
TransferEncodingLine ==
  AfterLine(62, 63, 121, 72) \cup Header(62, Other, {}, <<>>)
    \cup { Row(62, {"c"}, 73, <<"start_value", "start_field">>) }
TransferChunked ==
  Spaces(63, White, {"c"}, 64, <<"start_value">>) \cup Chain(64, Chunked)
    \cup { Row(70, {"LF"}, 20, WroteChunked), Row(70, {"CR"}, 71, <<"write_value">>),
           Row(71, {"LF"}, 20, <<"trans_chunked">>) }
ChunkedLine == EmptyEnd(121, 63, {"c"}, 64, <<"start_value">>)
                 \cup CrSeen(72, 63, 121, <<"done">>, {"c"}, 64, <<"start_value">>)
ChunkedOrName ==
  { Go(73, Letter("h"), 74), Go(73, {"o"}, 26), Go(73, Tchar \ {"h", "H", "o"}, 21),
    Row(73, {":"}, 22, <<"write_field">>) }
    \cup Name(74, Tail(Chunked)) \cup NameEnd(79, 22)
    \cup { Row(79, {"LF"}, 20, WroteChunked), Row(79, {"CR"}, 71, <<"write_value">>) }
TransferEncodingCr == CrSeen(80, 63, 62, <<>>, {"c"}, 64, <<"start_value">>)
\* Mutant: a carriage return after the value leaves the flag unset.
ChunkedOrText_NoFlag ==
  Word(81, Chunked) \cup
  { Go(87, Text, 23), Row(87, {"LF"}, 20, WroteChunked), Row(87, {"CR"}, 24, <<"write_value">>) }

ChunkedOrText ==
  Word(81, Chunked) \cup
  { Go(87, Text, 23), Row(87, {"LF"}, 20, WroteChunked), Row(87, {"CR"}, 71, <<"write_value">>) }

ContentLengthValue == Value(112, {"0"}, {119}, 113, 118)
ContentLengthLine ==
  AfterLine(113, 114, 123, 116) \cup Header(113, Other \ {"0"}, {25}, <<>>)
    \cup { Row(113, {"0"}, 117, <<"start_value", "start_field">>) }
ContentLengthDigits ==
  Spaces(114, White, {"0"}, 115, <<"start_value">>) \cup { Go(115, {"0"}, 115) }
    \cup ValueEnd(115, WroteLength, 20, 24)
LengthLine == EmptyEnd(123, 114, {"0"}, 115, <<"start_value">>)
                \cup CrSeen(116, 114, 123, <<"done">>, {"0"}, 115, <<"start_value">>)
LengthOrName == { Go(117, {"0"}, 117), Go(117, Tchar \ {"0"}, 21),
                  Row(117, {":"}, 22, <<"write_field">>) } \cup ValueEnd(117, WroteLength, 20, 24)
ContentLengthCr == CrSeen(118, 114, 113, <<>>, {"0"}, 115, <<"start_value">>)
LengthOrText == { Go(119, {"0"}, 119), Go(119, Text \ {"0"}, 23) }
                  \cup ValueEnd(119, WroteLength, 20, 24)

-----------------------------------------------------------------------------

ResponseRows ==
  UNION { ResponseOrChunk, ResponseDone, chunk_extension, chunk_ext_val, Status_Line, HeaderOrEnd,
          HeaderAfterClose, FieldName, FieldValue, ConName, ConnectionName, TransferName,
          EncodingName, ContentName, LengthName, ConnectionValue, ConnectionLine, ConnectionClose, CloseLine,
          CloseOrName, ConnectionCr, CloseOrText, TransferEncodingValue, TransferEncodingLine,
          TransferChunked, ChunkedLine, ChunkedOrName, TransferEncodingCr, ChunkedOrText,
          ContentLengthValue, ContentLengthLine, ContentLengthDigits, LengthLine, LengthOrName,
          ContentLengthCr, LengthOrText }
ResponseStart == 1
ResponseFirstFinal == 120

ResponseRowsOf(s) == RowsOf(ResponseRows, s, Byte)
=============================================================================
