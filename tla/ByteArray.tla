----------------------------- MODULE ByteArray ------------------------------
(***************************************************************************)
(* ByteArray: a list of chunks of m_baseSize bytes, with the position, the *)
(* size and the capacity counted in bytes and a pointer m_cur to the chunk *)
(* of the position.  The chunks are one sequence, mem, chunk k being its   *)
(* bytes from k * BaseSize on; the successor of the last chunk is Null.    *)
(* SocketStream receives into the array and sends from it; readFixSize and *)
(* writeFixSize call it until a number of bytes has passed.                *)
(***************************************************************************)
EXTENDS Integers, Sequences

CONSTANTS
  BaseSize,   \* m_baseSize
  ByteValue,      \* the values of a byte
  Junk,       \* a byte nobody has written since its chunk was allocated
  MaxChunks,  \* bound: chunks
  MaxInput    \* bound: bytes in one call

ASSUME ByteArrayAssumption ==
  BaseSize \in Nat \ {0} /\ MaxChunks \in Nat /\ MaxInput \in Nat \ {0}

Null == -1
Nowhere == <<0>>          \* the places of bytes behind the last chunk
Crash == <<"crash">>
OutOfRange == <<"out_of_range">>
MaxSize == BaseSize * MaxChunks

VARIABLES
  ba,         \* the array
  out,        \* what the last call returned or sent
  file,       \* what the last writeToFile wrote: "none", "exact" or "wrong"
  stream      \* the stream's call: its name and the bytes still to pass

arrayVars == <<ba, out, file, stream>>

Input == UNION {[1..n -> ByteValue] : n \in 1..MaxInput}

NewChunks(k) == [i \in 1 .. k * BaseSize |-> Junk]
NewArray == [mem |-> NewChunks(1), m_position |-> 0, m_size |-> 0,
             m_capacity |-> BaseSize, m_cur |-> 0]
NoStreamCall == [name |-> "none", left |-> 0]

ArrayInit == ba = NewArray /\ out = <<>> /\ file = "none" /\ stream = NoStreamCall

Chunks(b) == Len(b.mem) \div BaseSize
Following(b, node) == IF node + 1 < Chunks(b) THEN node + 1 ELSE Null
getReadSize(b) == b.m_size - b.m_position
getCapacity(b) == b.m_capacity - b.m_position
Readable(b) == SubSeq(b.mem, b.m_position + 1, b.m_size)

-----------------------------------------------------------------------------
(***************************************************************************)
(* The walk that write(), read() and the get...Buffers() share: from npos  *)
(* in a chunk, size bytes, chunk after chunk.  at holds their places in    *)
(* mem and node the chunk behind the last byte; they are Nowhere when the  *)
(* walk reaches Null.                                                      *)
(***************************************************************************)
RECURSIVE Walk(_, _, _, _)
Walk(b, node, npos, size) ==
  LET ncap == BaseSize - npos
      here(k) == [i \in 1..k |-> node * BaseSize + npos + i]
      rest == Walk(b, Following(b, node), 0, size - ncap)
  IN  CASE node = Null -> [at |-> Nowhere, node |-> Null]
        [] node # Null /\ size <= ncap ->
             [at |-> here(size), node |-> IF size = ncap THEN Following(b, node) ELSE node]
        [] OTHER ->
             [at |-> IF rest.at = Nowhere THEN Nowhere ELSE here(ncap) \o rest.at, node |-> rest.node]

WalkHere(b, size) == Walk(b, b.m_cur, b.m_position % BaseSize, size)

\* The bytes at these places, and memcpy() into them.
Fetch(b, at) == IF at = Nowhere THEN Crash ELSE [i \in DOMAIN at |-> b.mem[at[i]]]
Store(b, at, s) ==
  [b EXCEPT !.mem = [i \in DOMAIN @ |-> IF \E k \in DOMAIN s : at[k] = i
                                        THEN s[CHOOSE k \in DOMAIN s : at[k] = i] ELSE @[i]]]

\* Mutant: m_cur stays Null when the array was full.
addCapacity_KeepCur(b, size) ==
  LET count == (size - getCapacity(b) + BaseSize - 1) \div BaseSize
  IN  IF getCapacity(b) >= size THEN b
      ELSE [b EXCEPT !.mem = @ \o NewChunks(count), !.m_capacity = @ + count * BaseSize]

\* As many new chunks as the missing bytes need; m_cur is Null at the end of
\* the last chunk and moves to the first new one.
addCapacity(b, size) ==
  LET count == (size - getCapacity(b) + BaseSize - 1) \div BaseSize
  IN  IF getCapacity(b) >= size THEN b
      ELSE [b EXCEPT !.mem = @ \o NewChunks(count),
                     !.m_capacity = @ + count * BaseSize,
                     !.m_cur = IF getCapacity(b) = 0 THEN Chunks(b) ELSE @]

\* write() of s; of a crash nothing but the fact is kept.
Write(b, s) ==
  LET c == addCapacity(b, Len(s))
      w == WalkHere(c, Len(s))
      end == c.m_position + Len(s)
  IN  CASE s = <<>> -> b
        [] s # <<>> /\ w.at = Nowhere -> [c EXCEPT !.m_size = Null]
        [] OTHER -> [Store(c, w.at, s) EXCEPT !.m_position = end, !.m_cur = w.node,
                                              !.m_size = IF end > @ THEN end ELSE @]

\* The chunk of position val, counted from the root.
RECURSIVE NodeOf(_, _, _)
NodeOf(b, node, val) ==
  IF val > BaseSize THEN NodeOf(b, Following(b, node), val - BaseSize)
  ELSE IF val = BaseSize THEN Following(b, node) ELSE node

SetPosition(b, val) ==
  [b EXCEPT !.m_position = val, !.m_cur = NodeOf(b, 0, val), !.m_size = IF val > @ THEN val ELSE @]

\* readFromFile(): a chunk at a time until the file ends.
RECURSIVE WriteChunks(_, _)
WriteChunks(b, s) ==
  IF Len(s) < BaseSize THEN Write(b, s)
  ELSE WriteChunks(Write(b, SubSeq(s, 1, BaseSize)), SubSeq(s, BaseSize + 1, Len(s)))

\* Mutant: a turn takes a whole chunk, whatever the offset in it.
RECURSIVE FileLoop_NoDiff(_, _, _, _)
FileLoop_NoDiff(b, node, pos, read_size) ==
  LET size == IF read_size > BaseSize THEN BaseSize ELSE read_size
      from == node * BaseSize + (pos % BaseSize)
      here == [i \in 1..size |-> IF (pos % BaseSize) + i <= BaseSize THEN b.mem[from + i] ELSE Junk]
      rest == FileLoop_NoDiff(b, Following(b, node), pos + size, read_size - size)
  IN  CASE read_size = 0 -> <<>>
        [] read_size > 0 /\ node = Null -> Crash
        [] OTHER -> IF rest = Crash THEN Crash ELSE here \o rest

\* writeToFile(): every turn takes what is left, at most a chunk, less the
\* offset in the chunk.  A write of no or less than no bytes ends in a crash,
\* for the position does not go on and the chunks do.
RECURSIVE FileLoop(_, _, _, _)
FileLoop(b, node, pos, read_size) ==
  LET diff == pos % BaseSize
      size == (IF read_size > BaseSize THEN BaseSize ELSE read_size) - diff
      from == node * BaseSize + diff
      rest == FileLoop(b, Following(b, node), pos + size, read_size - size)
  IN  CASE read_size = 0 -> <<>>
        [] read_size > 0 /\ (size <= 0 \/ node = Null) -> Crash
        [] OTHER -> IF rest = Crash THEN Crash ELSE SubSeq(b.mem, from + 1, from + size) \o rest

-----------------------------------------------------------------------------
(* Calls *)

Room(b) == Len(b.mem) <= MaxSize
Idle == stream = NoStreamCall /\ out # Crash /\ ba.m_size # Null
NoFile == file' = "none"

write(s) ==
  /\ Idle
  /\ ba' = Write(ba, s) /\ Room(ba')
  /\ out' = <<>> /\ NoFile /\ UNCHANGED stream

\* m_cur is read even when there is nothing to read.
read(n) ==
  /\ Idle
  /\ LET w == WalkHere(ba, n)
     IN  IF n > getReadSize(ba) THEN out' = OutOfRange /\ UNCHANGED ba
         ELSE /\ out' = Fetch(ba, w.at)
              /\ ba' = IF w.at = Nowhere THEN ba
                       ELSE [ba EXCEPT !.m_position = @ + n, !.m_cur = w.node]
  /\ NoFile /\ UNCHANGED stream

\* read() const with the current position.
toString ==
  /\ Idle
  /\ out' = IF getReadSize(ba) = 0 THEN <<>> ELSE Fetch(ba, WalkHere(ba, getReadSize(ba)).at)
  /\ NoFile /\ UNCHANGED <<ba, stream>>

\* The buffers from a position on, with their bytes; len is cut to what can be
\* read from the current one.
getReadBuffers(n, position) ==
  /\ Idle /\ position <= ba.m_position
  /\ LET size == IF n > getReadSize(ba) THEN getReadSize(ba) ELSE n
     IN  out' = IF size = 0 THEN <<>>
                ELSE Fetch(ba, Walk(ba, position \div BaseSize, position % BaseSize, size).at)
  /\ NoFile /\ UNCHANGED <<ba, stream>>

setPosition(val) ==
  /\ Idle
  /\ IF val > ba.m_capacity THEN out' = OutOfRange /\ UNCHANGED ba
     ELSE ba' = SetPosition(ba, val) /\ out' = <<>>
  /\ NoFile /\ UNCHANGED stream

clear == Idle /\ ba' = NewArray /\ out' = <<>> /\ NoFile /\ UNCHANGED stream

readFromFile(s) ==
  /\ Idle
  /\ ba' = WriteChunks(ba, s) /\ Room(ba')
  /\ out' = <<>> /\ NoFile /\ UNCHANGED stream

writeToFile ==
  /\ Idle
  /\ file' = IF FileLoop(ba, ba.m_cur, ba.m_position, getReadSize(ba)) = Readable(ba)
             THEN "exact" ELSE "wrong"
  /\ out' = <<>> /\ UNCHANGED <<ba, stream>>

\* readFixSize(ba, n) and writeFixSize(ba, n)
FixSize(name, n) ==
  /\ Idle
  /\ stream' = [name |-> name, left |-> n]
  /\ out' = <<>> /\ NoFile /\ UNCHANGED ba

\* The bytes passed; left -= len.
Passed(k) == IF stream.left = k THEN NoStreamCall ELSE [stream EXCEPT !.left = @ - k]

\* SocketStream::read: getWriteBuffers, recv() of some bytes, setPosition.
StreamRead(s) ==
  /\ stream.name = "readFixSize" /\ Len(s) <= stream.left
  /\ LET c == addCapacity(ba, stream.left)
         at == WalkHere(c, stream.left).at
     IN  /\ Room(c)
         /\ ba' = IF at = Nowhere THEN [c EXCEPT !.m_size = Null]
                  ELSE SetPosition(Store(c, at, s), c.m_position + Len(s))
  /\ stream' = Passed(Len(s))
  /\ out' = <<>> /\ NoFile

\* recv() fails, or the connection is closed: the new chunks stay.
StreamReadFails ==
  /\ stream.name = "readFixSize"
  /\ ba' = addCapacity(ba, stream.left) /\ Room(ba')
  /\ stream' = NoStreamCall
  /\ out' = <<>> /\ NoFile

\* SocketStream::write: getReadBuffers, send() of some bytes, setPosition.
StreamWrite(k) ==
  /\ stream.name = "writeFixSize" /\ k \in 1 .. stream.left /\ k <= getReadSize(ba)
  /\ LET size == IF stream.left > getReadSize(ba) THEN getReadSize(ba) ELSE stream.left
         at == WalkHere(ba, size).at
     IN  out' = IF at = Nowhere THEN Crash ELSE SubSeq(Fetch(ba, at), 1, k)
  /\ ba' = SetPosition(ba, ba.m_position + k)
  /\ stream' = Passed(k)
  /\ NoFile

\* send() fails, or sends nothing because there is nothing to send.
StreamWriteFails ==
  /\ stream.name = "writeFixSize"
  /\ stream' = NoStreamCall
  /\ out' = <<>> /\ NoFile /\ UNCHANGED ba

ArrayNext ==
  \/ \E s \in Input : write(s) \/ readFromFile(s) \/ StreamRead(s)
  \/ \E n \in 0 .. MaxInput : read(n) \/ StreamWrite(n)
                                \/ \E p \in 0 .. MaxSize : getReadBuffers(n, p)
  \/ \E v \in 0 .. MaxSize : setPosition(v)
  \/ \E name \in {"readFixSize", "writeFixSize"}, n \in 1 .. MaxInput : FixSize(name, n)
  \/ toString \/ clear \/ writeToFile \/ StreamReadFails \/ StreamWriteFails

ArraySpec == ArrayInit /\ [][ArrayNext]_arrayVars

-----------------------------------------------------------------------------
\* The chunks and the current one do not show: every call does to the bytes and
\* the position what ByteBuffer says, also when it begins, ends or crosses at a
\* chunk's end, in new chunks, and when the stream passes some of the bytes.
Buffer == INSTANCE ByteBuffer WITH content <- SubSeq(ba.mem, 1, ba.m_size), position <- ba.m_position
ArrayImplementsBuffer == Buffer!Spec

\* writeToFile writes exactly what can be read, when the position is at the
\* beginning of a chunk or a whole chunk is left to read.
FileIsExact ==
  file # "none" /\ (ba.m_position % BaseSize = 0 \/ getReadSize(ba) >= BaseSize) => file = "exact"
=============================================================================
