------------------------------ MODULE Versions ------------------------------
(***************************************************************************)
(* The rows of the document_versions table of ONE collection and the       *)
(* queries services/document_versions.py runs over them.  No state: the    *)
(* modules that own a table pass its rows in.                              *)
(*                                                                         *)
(* A document body is a pair of a text and the facsimile zones drawn on    *)
(* it, because the zone editor rewrites one and must keep the other.       *)
(* Equality of bodies stands for equality of their SHA-256 digests.        *)
(***************************************************************************)
EXTENDS Integers, FiniteSets

CONSTANTS
  Files,       \* document filenames, numbered in their sorted order
  Texts,       \* transcriptions a client may send
  Zonings,     \* sets of <zone> elements a client may send
  Users,
  NoUser,
  MaxVersion   \* bound: the highest version number a run reaches

ASSUME VersionsAssumption ==
  /\ Files \subseteq Nat
  /\ NoUser \notin Users
  /\ MaxVersion \in Nat

Body == Texts \X Zonings

Origins == {"creation", "manual", "submission", "rejection", "publication",
            "rollback"}

VersionNumbers == 1..MaxVersion

\* created_by_id is consulted only when a manual row is deleted, so "by" is
\* kept for manual rows and is NoUser on the others.
Version == [file : Files, n : VersionNumbers, body : Body, origin : Origins,
            by : Users \cup {NoUser}]

Of(rows, f) == {v \in rows : v.file = f}

\* ORDER BY version_number DESC LIMIT 1
IsLatest(v, rows) ==
  v \in rows /\ \A w \in Of(rows, v.file) : w.n <= v.n

SameAsLatest(rows, f, b) ==
  \E v \in Of(rows, f) : IsLatest(v, rows) /\ v.body = b

\* COALESCE(MAX(version_number), 0) + 1
IsNextNumber(n, rows, f) ==
  /\ \A v \in Of(rows, f) : v.n < n
  /\ n = 1 \/ \E v \in Of(rows, f) : v.n = n - 1

Publications(rows, f) == {v \in Of(rows, f) : v.origin = "publication"}

IsLastPublication(v, rows) ==
  /\ v \in Publications(rows, v.file)
  /\ \A w \in Publications(rows, v.file) : w.n <= v.n

ManualCount(rows, f) ==
  Cardinality({v \in Of(rows, f) : v.origin = "manual"})

\* delete_manual_version refuses every other origin.
IsDeletable(v) == v.origin = "manual"

\* The unique constraint on (collection, filename, version_number).
SameKey(v, w) == v.file = w.file /\ v.n = w.n
=============================================================================
