---------------------------- MODULE RequestParts ----------------------------
(***************************************************************************)
(* What the receiver of HTTP requests promises the server: of a message it *)
(* hears the parts in their order, each at most once, and it answers with  *)
(* a request only when the parts that make one have been heard.            *)
(***************************************************************************)
EXTENDS Naturals

VARIABLES
  heard,    \* the parts of the message heard so far
  answer    \* "none", "request" or "null"

Rank == [method |-> 1, path |-> 2, query |-> 3, uri |-> 4, fragment |-> 5, version |-> 6]

\* Parts that end with the same character are heard together.
Together == {{"method"}, {"path"}, {"path", "uri"}, {"query", "uri"}, {"fragment"}, {"version"}}

\* A request has these parts; a message to a socket handler has a path only.
RequestLine == {"method", "path", "uri", "version"}
Complete(parts) == RequestLine \subseteq parts \/ parts = {"path"}

Init == heard = {} /\ answer = "none"

Hear(parts) ==
  /\ answer = "none"
  /\ \A p \in parts :
       /\ \A q \in heard : Rank[q] < Rank[p]
       /\ \A q \in RequestLine : Rank[q] < Rank[p] => q \in heard \cup parts
  /\ heard' = heard \cup parts
  /\ UNCHANGED answer

HearSocketPath == answer = "none" /\ heard = {} /\ heard' = {"path"} /\ UNCHANGED answer

Give == answer = "none" /\ Complete(heard) /\ answer' = "request" /\ UNCHANGED heard

Refuse == answer = "none" /\ answer' = "null" /\ UNCHANGED heard

Again == answer # "none" /\ heard' = {} /\ answer' = "none"

Next == (\E parts \in Together : Hear(parts)) \/ HearSocketPath \/ Give \/ Refuse \/ Again

Spec == Init /\ [][Next]_<<heard, answer>>
=============================================================================
