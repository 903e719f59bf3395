----------------------------- MODULE ByteBuffer -----------------------------
(***************************************************************************)
(* What a ByteArray promises its users: a sequence of bytes with one       *)
(* position, at which it is read and written.  Chunks, capacity and the    *)
(* current chunk do not appear.                                            *)
(***************************************************************************)
EXTENDS Integers, Sequences

CONSTANTS Input,    \* the byte strings that may be written
          MaxSize   \* bound: positions and lengths asked for

VARIABLES content, position, out

Init == content = <<>> /\ position = 0 /\ out = <<>>

\* Bytes replace what follows the position and may make the sequence longer.
Put(s) ==
  /\ content' = SubSeq(content, 1, position) \o s
                  \o SubSeq(content, position + Len(s) + 1, Len(content))
  /\ position' = position + Len(s)
  /\ out' = <<>>

\* The next n bytes, or an exception and no change.
Take(n) ==
  /\ UNCHANGED content
  /\ IF n <= Len(content) - position
     THEN /\ out' = SubSeq(content, position + 1, position + n)
          /\ position' = position + n
     ELSE out' = <<"out_of_range">> /\ UNCHANGED position

\* To take nothing at the very end may be fatal.
TakeNothing ==
  position = Len(content) /\ out' = <<"crash">> /\ UNCHANGED <<content, position>>

\* Bytes from a position up to the current one; the position does not move.
Peek(p, n) ==
  /\ p + n <= Len(content)
  /\ out' = SubSeq(content, p + 1, p + n)
  /\ UNCHANGED <<content, position>>

\* A position beyond the end is refused, or makes the sequence longer by bytes
\* of any value.
Seek(v) ==
  \/ /\ v > Len(content)
     /\ out' = <<"out_of_range">>
     /\ UNCHANGED <<content, position>>
  \/ /\ Len(content') = IF v > Len(content) THEN v ELSE Len(content)
     /\ SubSeq(content', 1, Len(content)) = content
     /\ position' = v /\ out' = <<>>

Clear == content' = <<>> /\ position' = 0 /\ out' = <<>>

\* A call that shows nothing.
Silent == out' = <<>> /\ UNCHANGED <<content, position>>

Next ==
  \/ Silent \/ Clear \/ TakeNothing
  \/ \E n \in 0..MaxSize : Take(n) \/ Seek(n) \/ \E p \in 0..position : Peek(p, n)
  \/ \E s \in Input : Put(s)

Spec == Init /\ [][Next]_<<content, position, out>>
=============================================================================
