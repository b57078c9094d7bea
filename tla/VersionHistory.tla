--------------------------- MODULE VersionHistory ---------------------------
(***************************************************************************)
(* What the version history promises, with no request, lock or transaction *)
(* in sight: rows are recorded whole, under keys of their own; a row is    *)
(* never rewritten; only a manual row is ever discarded; and the certified *)
(* body of a document is always that of its last publication.              *)
(***************************************************************************)
EXTENDS Versions

CONSTANT NoRecord   \* no body is certified

VARIABLES
  rows,        \* the version rows on file
  certified    \* what the fixity layer expects of each document

vars == <<rows, certified>>

Certificate(v) == [n |-> v.n, body |-> v.body]

UniqueKeys(new) == \A v, w \in new : SameKey(v, w) => v = w

Certifies(cert, on) == \A f \in Files :
  IF Publications(on, f) = {}
    THEN cert[f] = NoRecord
    ELSE \E v \in Publications(on, f) :
           IsLastPublication(v, on) /\ cert[f] = Certificate(v)

Init == rows = {} /\ certified = [f \in Files |-> NoRecord]

\* A transaction's rows appear together; at most one of them is manual, and
\* then it is alone.
Record ==
  LET new == rows' \ rows
  IN  /\ rows \subseteq rows'
      /\ rows' \subseteq Version /\ UniqueKeys(rows')
      /\ \A v \in new : v.origin = "manual" => new = {v}
      /\ Certifies(certified', rows')

\* A manual checkpoint is removed to make room.
Discard == \E v \in rows :
  /\ v.origin = "manual"
  /\ rows' = rows \ {v}
  /\ UNCHANGED certified

Next == Record \/ Discard

Spec == Init /\ [][Next]_vars
=============================================================================
