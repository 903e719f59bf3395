----------------------------- MODULE ByteCodec ------------------------------
(***************************************************************************)
(* The numbers and strings of a ByteArray as bytes: fixed-size integers    *)
(* with their byte order, integers in groups of 7 bits, signed ones        *)
(* zigzag-encoded before, and strings behind their length.  Width stands   *)
(* for 32 and 64, GroupBits for 7: a byte has GroupBits + 1 bits, its highest says *)
(* that another follows.  A string is known by its length.                 *)
(***************************************************************************)
EXTENDS Integers, Sequences
LOCAL INSTANCE SequencesExt

CONSTANTS
  Width,        \* bits of an integer
  GroupBits,        \* bits of an integer in one byte of the variable encoding
  LengthWidth,  \* bits of the length that writeStringF16 writes
  MaxString     \* bound: length of a string

ASSUME CodecAssumption == Width \in Nat \ {0} /\ GroupBits \in Nat \ {0} /\ Width % (GroupBits + 1) = 0

VARIABLES
  method,     \* the pair of functions used, or "none"
  value,    \* what was written
  bytes,    \* the bytes that it became
  result    \* what was read, and the bytes left

codecVars == <<method, value, bytes, result>>

High == 2 ^ GroupBits          \* 0x80
Unsigned == 0 .. 2 ^ Width - 1
Signed == -(2 ^ (Width - 1)) .. 2 ^ (Width - 1) - 1
ToSigned(u) == IF u < 2 ^ (Width - 1) THEN u ELSE u - 2 ^ Width

\* Mutant: the encoding of negative numbers collides with that of positive ones.
EncodeZigzag_OffByOne(v) == IF v < 0 THEN ((-v) * 2) % 2 ^ Width ELSE v * 2

\* -v overflows for the smallest number, to itself.
EncodeZigzag(v) == IF v < 0 THEN ((-v) * 2 - 1) % 2 ^ Width ELSE v * 2

\* (v >> 1) ^ -(v & 1), of which the right side is all zeros or all ones.
DecodeZigzag(u) == ToSigned(IF u % 2 = 1 THEN 2 ^ Width - 1 - u \div 2 ELSE u \div 2)

RECURSIVE writeUint(_)
writeUint(v) == IF v >= High THEN <<(v % High) + High>> \o writeUint(v \div High) ELSE <<v>>

\* The loop of readUint from bit i on, where the bytes s are left.  Bits shifted
\* out of the integer are lost.
RECURSIVE readUint(_, _)
readUint(s, i) ==
  LET rest == readUint(Tail(s), i + GroupBits)
      part == ((Head(s) % High) * 2 ^ i) % 2 ^ Width
  IN  CASE i >= Width -> [value |-> 0, left |-> s]
        [] i < Width /\ Head(s) < High -> [value |-> part, left |-> Tail(s)]
        [] OTHER -> [value |-> part + rest.value, left |-> rest.left]

\* The memory of an unsigned integer of n bytes on a little-endian machine; the
\* array's order is big-endian whatever setIsLittleEndian() was given, so that
\* reads and writes swap it.
Memory(v, n) == [k \in 1 .. n |-> (v \div (2 * High) ^ (k - 1)) % (2 * High)]
Number(s) == FoldRight(LAMBDA b, high : b + 2 * High * high, s, 0)
writeF(v, n) == Reverse(Memory(v, n))
readF(s, n) == [value |-> Number(Reverse(SubSeq(s, 1, n))), left |-> SubSeq(s, n + 1, Len(s))]

Bytes(w) == w \div (GroupBits + 1)

\* Only the length of a string is kept: every byte of it is 0.
Characters(n) == [i \in 1 .. n |-> 0]
writeString(length, n) == length \o Characters(n)
\* read() throws when fewer than the length are left.
readString(header) ==
  IF header.value > Len(header.left) THEN [value |-> "out_of_range", left |-> header.left]
  ELSE [value |-> header.value, left |-> SubSeq(header.left, header.value + 1, Len(header.left))]

CodecInit == method = "none" /\ value = 0 /\ bytes = <<>> /\ result = [value |-> 0, left |-> <<>>]

Written(k, v, s) == method = "none" /\ method' = k /\ value' = v /\ bytes' = s /\ UNCHANGED result

WriteNumber ==
  \/ \E v \in Unsigned : Written("Fuint", v, writeF(v, Bytes(Width)))
  \/ \E v \in Signed : Written("Fint", v, writeF(v % 2 ^ Width, Bytes(Width)))
  \/ \E v \in Unsigned : Written("Uint", v, writeUint(v))
  \/ \E v \in Signed : Written("Int", v, writeUint(EncodeZigzag(v)))

WriteString ==
  \E n \in 0 .. MaxString :
    \/ Written("StringF16", n, writeString(writeF(n % 2 ^ LengthWidth, Bytes(LengthWidth)), n))
    \/ Written("StringF64", n, writeString(writeF(n, Bytes(Width)), n))
    \/ Written("StringVint", n, writeString(writeUint(n), n))

Mapped(r, f(_)) == [r EXCEPT !.value = f(@)]

ReadBack ==
  /\ method # "none" /\ bytes # <<>>
  /\ result' = CASE method = "Fuint" -> readF(bytes, Bytes(Width))
                 [] method = "Fint" -> Mapped(readF(bytes, Bytes(Width)), ToSigned)
                 [] method = "Uint" -> readUint(bytes, 0)
                 [] method = "Int" -> Mapped(readUint(bytes, 0), DecodeZigzag)
                 [] method = "StringF16" -> readString(readF(bytes, Bytes(LengthWidth)))
                 [] method = "StringF64" -> readString(readF(bytes, Bytes(Width)))
                 [] method = "StringVint" -> readString(readUint(bytes, 0))
  /\ bytes' = <<>>
  /\ UNCHANGED <<method, value>>

CodecNext == WriteNumber \/ WriteString \/ ReadBack

CodecSpec == CodecInit /\ [][CodecNext]_codecVars

-----------------------------------------------------------------------------
\* What was written is read back, and nothing of it is left, for every number,
\* the smallest ones included, and every string whose length fits in the bits
\* it is written in; the bytes of a number fit in the buffer tmp they are put
\* together in, which has a place for each group of bits.
RoundTrip ==
  /\ method # "none" /\ bytes = <<>> /\ (method = "StringF16" => value < 2 ^ LengthWidth) =>
       result = [value |-> value, left |-> <<>>]
  /\ method \in {"Uint", "Int"} => Len(bytes) <= (Width + GroupBits - 1) \div GroupBits
=============================================================================
