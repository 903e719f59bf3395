------------------------------- MODULE Ragel -------------------------------
(***************************************************************************)
(* The state machines that Ragel generated for the HTTP parsers, as data:  *)
(* a machine is a set of rows, one for each state and each set of          *)
(* characters that the state treats alike.  A character no row of a state  *)
(* names leads to the error state.                                         *)
(***************************************************************************)
EXTENDS Naturals, Sequences

\* In state `from' a character of `on' leads to state `to'; the actions `do'
\* of the grammar are executed in that order.
Row(from, on, to, do) == [from |-> from, on |-> on, to |-> to, do |-> do]
Go(from, on, to) == Row(from, on, to, <<>>)

Error == 0

\* The rows of state s of a machine that reads chars, with one more for the
\* characters that lead to the error state.
RowsOf(rows, s, chars) ==
  LET of == {r \in rows : r.from = s}
  IN  of \cup {Go(s, chars \ UNION {r.on : r \in of}, Error)}

\* A row's actions include one of names.
Does(row, names) == \E i \in DOMAIN row.do : row.do[i] \in names
=============================================================================
