------------------------------ MODULE Harvest ------------------------------
(***************************************************************************)
(* A harvest of the public records over OAI-PMH                            *)
(* (plugins/_native/oai_pmh/service.py).  The server keeps nothing between *)
(* two pages: a resumption token holds the filters and an offset, and each *)
(* page lists the collections and their documents anew, in as many         *)
(* requests to PostgreSQL and eXist-db, while the archive changes.         *)
(***************************************************************************)
EXTENDS Integers, Sequences, FiniteSets

CONSTANTS
  Slugs,       \* collections
  FileNames,   \* documents, by their place in the order of names
  PageSize,    \* PAGE_SIZE
  MaxMoves     \* bounds what happens during a harvest

ASSUME HarvestAssumption ==
  /\ IsFiniteSet(Slugs) /\ IsFiniteSet(FileNames) /\ FileNames \subseteq Nat
  /\ PageSize \in Nat \ {0} /\ MaxMoves \in Nat

VARIABLES
  shelf,       \* the collections that are published and public, as published_at
               \* orders them
  texts,       \* the documents of each collection in the working tree
  late,        \* collections whose updated_at is at or past the date asked for
  harvest,
  moves

harvestVars == <<shelf, texts, late, harvest, moves>>

-----------------------------------------------------------------------------
DateFilters == {"none", "from", "until"}
Records == Slugs \X FileNames

\* there and lost are history: the records there were when the harvest began,
\* and whether one that matches was taken from the list since, or not listed.
Harvester == [at : {"none", "query", "list", "over"}, date : DateFilters,
              within : SUBSET Slugs, offset : Nat, cols : Seq(Slugs),
              docs : Seq(Records), got : SUBSET Records, there : SUBSET Records,
              lost : BOOLEAN]

HarvestTypeOK ==
  /\ shelf \in Seq(Slugs)
  /\ texts \in [Slugs -> SUBSET FileNames]
  /\ late \in SUBSET Slugs
  /\ harvest \in Harvester
  /\ moves \in 0..MaxMoves

-----------------------------------------------------------------------------
Shelved == {shelf[i] : i \in DOMAIN shelf}

\* The numbers of a finite set, the least first.
Ascending(S) == CHOOSE s \in [1..Cardinality(S) -> S] :
  \A i, j \in DOMAIN s : i < j => s[i] < s[j]

\* Those of some, in the order of the shelf.
OnShelf(some) ==
  LET at == Ascending({i \in DOMAIN shelf : shelf[i] \in some})
  IN [j \in DOMAIN at |-> shelf[at[j]]]

Matches(c, h, dated) ==
  /\ c \in h.within
  /\ h.date = "from" => c \in dated
  /\ h.date = "until" => c \notin dated

Matching(h) == {c \in Slugs : Matches(c, h, late)}

\* Mutant: in the order of the dates that records carry.
FoundByDate(h) == OnShelf(Matching(h) \ late) \o OnShelf(Matching(h) \cap late)

Found(h) == OnShelf(Matching(h))

\* set narrows a harvest to one collection.
BeginHarvest == \E date \in DateFilters, within \in {Slugs} \cup {{c} : c \in Slugs} :
  /\ harvest.at = "none"
  /\ LET h == [harvest EXCEPT !.at = "query", !.date = date, !.within = within] IN
     harvest' = [h EXCEPT !.there =
       {r \in Records : r[1] \in Shelved \cap Matching(h) /\ r[2] \in texts[r[1]]}]
  /\ UNCHANGED <<shelf, texts, late, moves>>

QueryCollections ==
  /\ harvest.at = "query"
  /\ harvest' = [harvest EXCEPT !.at = "list", !.cols = Found(harvest), !.docs = <<>>]
  /\ UNCHANGED <<shelf, texts, late, moves>>

Listed(c) ==
  LET names == Ascending(texts[c]) IN [i \in DOMAIN names |-> <<c, names[i]>>]

ListDocuments ==
  /\ harvest.at = "list" /\ harvest.cols # <<>>
  /\ harvest' = [harvest EXCEPT !.cols = Tail(@), !.docs = @ \o Listed(Head(harvest.cols))]
  /\ UNCHANGED <<shelf, texts, late, moves>>

\* What happened before is in the initial state.
Happens ==
  harvest.at \in {"query", "list"} /\ moves < MaxMoves /\ moves' = moves + 1

\* eXist-db fails: the collection goes as empty.
ListingFails ==
  /\ harvest.at = "list" /\ harvest.cols # <<>> /\ Happens
  /\ harvest' = [harvest EXCEPT !.cols = Tail(@), !.lost = TRUE]
  /\ UNCHANGED <<shelf, texts, late>>

NextOffset == harvest.offset + PageSize

\* A page with a token, the last page, or noRecordsMatch.
GivePage ==
  /\ harvest.at = "list" /\ harvest.cols = <<>>
  /\ harvest' = [harvest EXCEPT
       !.got = @ \cup {harvest.docs[i] : i \in
                         DOMAIN harvest.docs \cap (harvest.offset + 1)..NextOffset},
       !.at = IF NextOffset < Len(harvest.docs) THEN "query" ELSE "over",
       !.offset = IF NextOffset < Len(harvest.docs) THEN NextOffset ELSE @]
  /\ UNCHANGED <<shelf, texts, late, moves>>

\* The harvester sends the same token again.
LosePage ==
  /\ harvest.at = "list" /\ Happens
  /\ harvest' = [harvest EXCEPT !.at = "query"]
  /\ UNCHANGED <<shelf, texts, late>>

-----------------------------------------------------------------------------
(* The archive, meanwhile *)

\* updated_at is the time a transaction began, which may be before the date
\* although it commits after another that began past it.
Dated(c) == late' \in {late \cup {c}, late \ {c}}

Loses(c) == harvest' = [harvest EXCEPT !.lost =
  @ \/ (c \in Shelved /\ Matches(c, harvest, late))]

\* Published, or made public again at the place of its publication.
ShowCollection(c) == \E i \in 1..Len(shelf) + 1 :
  /\ c \notin Shelved /\ Happens
  /\ shelf' = [j \in 1..Len(shelf) + 1 |->
                 IF j = i THEN c ELSE shelf[IF j < i THEN j ELSE j - 1]]
  /\ Dated(c)
  /\ UNCHANGED <<texts, harvest>>

\* Unpublished, or made private.
HideCollection(c) ==
  /\ c \in Shelved /\ Happens
  /\ shelf' = OnShelf(Slugs \ {c}) /\ Dated(c)
  /\ Loses(c) /\ UNCHANGED texts

\* The row is updated, as it is after most changes of its documents.
TouchCollection(c) ==
  /\ Happens /\ Dated(c)
  /\ IF Matches(c, harvest, late) /\ ~Matches(c, harvest, late') THEN Loses(c)
     ELSE UNCHANGED harvest
  /\ UNCHANGED <<shelf, texts>>

AddDocument(c) == \E n \in FileNames \ texts[c] :
  /\ Happens /\ texts' = [texts EXCEPT ![c] = @ \cup {n}]
  /\ UNCHANGED <<shelf, late, harvest>>

RemoveDocument(c) == \E n \in texts[c] :
  /\ Happens /\ texts' = [texts EXCEPT ![c] = @ \ {n}]
  /\ Loses(c) /\ UNCHANGED <<shelf, late>>

HarvestInit ==
  /\ \E n \in 0..Cardinality(Slugs) : shelf \in [1..n -> Slugs]
  /\ \A i, j \in DOMAIN shelf : i # j => shelf[i] # shelf[j]
  /\ texts \in [Slugs -> SUBSET FileNames]
  /\ late \in SUBSET Slugs
  /\ harvest = [at |-> "none", date |-> "none", within |-> {}, offset |-> 0,
                cols |-> <<>>, docs |-> <<>>, got |-> {}, there |-> {}, lost |-> FALSE]
  /\ moves = 0

HarvestNext ==
  \/ BeginHarvest \/ QueryCollections \/ ListDocuments \/ ListingFails
  \/ GivePage \/ LosePage
  \/ \E c \in Slugs : \/ ShowCollection(c) \/ HideCollection(c) \/ TouchCollection(c)
                      \/ AddDocument(c) \/ RemoveDocument(c)

HarvestSpec == HarvestInit /\ [][HarvestNext]_harvestVars

-----------------------------------------------------------------------------
(* Properties *)

\* A harvest that was told it is over has every record there was when it began,
\* whatever was published, added or updated between and during its pages:
\* additions repeat records and skip none.  It is not promised if a record of
\* its list was withdrawn meanwhile, an update took one out of its dates, or
\* eXist-db failed: then the offsets skip others, or the list ends too soon.
HarvestIsWhole ==
  harvest.at = "over" /\ ~harvest.lost => harvest.there \subseteq harvest.got
=============================================================================
