---------------------------- MODULE SearchEngine ----------------------------
(***************************************************************************)
(* A public search engine over linked collections                          *)
(* (services/search_engines.py): its row and links, the answers it keeps   *)
(* in PostgreSQL, the searches that read and fill them around a query to   *)
(* eXist-db.  One query text is modelled: the key of an answer is then the *)
(* set of collections searched.  The number of hits asked for, which is    *)
(* not in the key, is left out.                                            *)
(***************************************************************************)
EXTENDS Integers, FiniteSets

CONSTANTS
  Cols,
  Searches,       \* slots for searches
  MaxRevisions,   \* bound: changes of the engine and of the collections
  NoEngine,
  NoAnswer

ASSUME EngineAssumption ==
  MaxRevisions \in Nat /\ NoAnswer \notin 0..MaxRevisions

VARIABLES
  engine,      \* the row, with its links, or NoEngine
  text,        \* the version of each collection as eXist-db has it
  open,        \* collections that are published and public
  answers,     \* search_engine_query_cache
  search,
  revisions

searchVars == <<answers, search>>
engineVars == <<engine, text, open, answers, search, revisions>>

-----------------------------------------------------------------------------
Keys == (SUBSET Cols) \ {{}}
\* cached says that cache_ttl_minutes is not 0.
Engine == [id : 0..MaxRevisions, links : SUBSET Cols, cached : BOOLEAN]

\* hits has the version each collection had, in a collection searched, or none.
Hits == [Cols -> (0..MaxRevisions) \cup {NoAnswer}]
Answer == [hits : Hits, valid : BOOLEAN]

\* linked is history: the collections linked at some time since the search
\* came.
Search == [at : {"idle", "lookup", "query", "store", "answered"},
           row : Engine \cup {NoEngine}, key : SUBSET Cols,
           hits : Hits \cup {NoAnswer}, linked : SUBSET Cols]

NoSearch == [at |-> "idle", row |-> NoEngine, key |-> {}, hits |-> NoAnswer,
             linked |-> {}]

EngineTypeOK ==
  /\ engine \in Engine \cup {NoEngine}
  /\ text \in [Cols -> 0..MaxRevisions]
  /\ open \subseteq Cols
  /\ answers \in [Keys -> Answer \cup {NoAnswer}]
  /\ search \in [Searches -> Search]
  /\ revisions \in 0..MaxRevisions

-----------------------------------------------------------------------------
Revise == revisions < MaxRevisions /\ revisions' = revisions + 1

(* The row *)

CreateEngine == \E l \in SUBSET open, c \in BOOLEAN :
  /\ engine = NoEngine /\ Revise
  /\ engine' = [id |-> revisions + 1, links |-> l, cached |-> c]
  /\ search' = [s \in Searches |-> [search[s] EXCEPT !.linked =
                  IF search[s].at = "idle" THEN @ ELSE @ \cup l]]
  /\ UNCHANGED <<text, open, answers>>

\* Collections are checked when they are linked, and never again: one that is
\* unpublished later stays linked.
UpdateEngine == \E l \in SUBSET Cols, c \in BOOLEAN :
  /\ engine # NoEngine /\ Revise
  /\ l = engine.links \/ l \subseteq open
  /\ engine' = [engine EXCEPT !.links = l, !.cached = c]
  /\ search' = [s \in Searches |-> [search[s] EXCEPT !.linked =
                  IF search[s].at = "idle" THEN @ ELSE @ \cup l]]
  /\ UNCHANGED <<text, open, answers>>

\* The answers go with the row (ON DELETE CASCADE).
DeleteEngine ==
  /\ engine # NoEngine /\ Revise
  /\ engine' = NoEngine
  /\ answers' = [k \in Keys |-> NoAnswer]
  /\ UNCHANGED <<text, open, search>>

ClearAnswers ==
  /\ engine # NoEngine
  /\ answers' = [k \in Keys |-> NoAnswer]
  /\ UNCHANGED <<engine, text, open, search, revisions>>

(* Searches *)

\* collection_slugs restricts the search to linked collections, or is absent;
\* nothing to search is an empty answer at once.
BeginSearch(s) == \E k \in Keys :
  /\ search[s].at \in {"idle", "answered"}
  /\ engine # NoEngine /\ k \subseteq engine.links
  /\ search' = [search EXCEPT ![s] =
       [at |-> IF engine.cached THEN "lookup" ELSE "query", row |-> engine,
        key |-> k, hits |-> NoAnswer, linked |-> engine.links]]
  /\ UNCHANGED <<engine, text, open, answers, revisions>>

Answered(s, hits) == search' = [search EXCEPT ![s] =
  [NoSearch EXCEPT !.at = "answered", !.hits = hits, !.linked = search[s].linked]]

\* Mutant: the key is made of the query alone.
KeyOfQuery(k) == Cols

\* _build_cache_key, of one query text.
CacheKey(k) == k

KeptAnswer(s) == answers[CacheKey(search[s].key)]

\* The answers of the engine as it was loaded.
LookUpAnswer(s) ==
  /\ search[s].at = "lookup"
  /\ IF KeptAnswer(s) # NoAnswer /\ KeptAnswer(s).valid /\ engine # NoEngine
          /\ engine.id = search[s].row.id
       THEN Answered(s, KeptAnswer(s).hits)
       ELSE search' = [search EXCEPT ![s].at = "query"]
  /\ UNCHANGED <<engine, text, open, answers, revisions>>

HitsIn(k) == [c \in Cols |-> IF c \in k THEN text[c] ELSE NoAnswer]

GiveEmpty(s) == Answered(s, [c \in Cols |-> NoAnswer])

\* eXist-db answers, or it does not: then the answer is empty, and not kept.
Query(s) ==
  /\ search[s].at = "query"
  /\ \/ /\ search[s].row.cached
        /\ search' = [search EXCEPT ![s].hits = HitsIn(search[s].key),
                                    ![s].at = "store"]
     \/ ~search[s].row.cached /\ Answered(s, HitsIn(search[s].key))
     \/ GiveEmpty(s)
  /\ UNCHANGED <<engine, text, open, answers, revisions>>

\* The upsert; its foreign key fails if the engine is gone.
StoreAnswer(s) ==
  /\ search[s].at = "store"
  /\ IF engine # NoEngine /\ engine.id = search[s].row.id
       THEN /\ answers' = [answers EXCEPT ![CacheKey(search[s].key)] =
                             [hits |-> search[s].hits, valid |-> TRUE]]
            /\ Answered(s, search[s].hits)
       ELSE search' = [search EXCEPT ![s] = NoSearch] /\ UNCHANGED answers
  /\ UNCHANGED <<engine, text, open, revisions>>

\* Mutant: expires_at is not looked at.
NeverExpired(a) == a

Expired(a) == [a EXCEPT !.valid = FALSE]

Outlive(k) ==
  /\ answers[k] # NoAnswer /\ answers[k].valid
  /\ answers' = [answers EXCEPT ![k] = Expired(@)]
  /\ UNCHANGED <<engine, text, open, search, revisions>>

\* The hourly job of core/scheduler.py.
Purge ==
  /\ \E k \in Keys : answers[k] # NoAnswer /\ ~answers[k].valid
  /\ answers' = [k \in Keys |-> IF answers[k] # NoAnswer /\ ~answers[k].valid
                                  THEN NoAnswer ELSE answers[k]]
  /\ UNCHANGED <<engine, text, open, search, revisions>>

(* Collections *)

EditCollection == \E c \in Cols :
  /\ Revise
  /\ text' = [text EXCEPT ![c] = revisions + 1]
  /\ UNCHANGED <<engine, open, searchVars>>

Unpublish == \E c \in open :
  /\ Revise
  /\ open' = open \ {c}
  /\ UNCHANGED <<engine, text, searchVars>>

SearchStep(s) == LookUpAnswer(s) \/ Query(s) \/ StoreAnswer(s)

EngineInit ==
  /\ engine = [id |-> 0, links |-> Cols, cached |-> TRUE]
  /\ text = [c \in Cols |-> 0]
  /\ open = Cols
  /\ answers = [k \in Keys |-> NoAnswer]
  /\ search = [s \in Searches |-> NoSearch]
  /\ revisions = 0

EngineNext ==
  \/ CreateEngine \/ UpdateEngine \/ DeleteEngine \/ ClearAnswers
  \/ \E s \in Searches : BeginSearch(s) \/ SearchStep(s)
  \/ \E k \in Keys : Outlive(k)
  \/ Purge \/ EditCollection \/ Unpublish

EngineSpec == EngineInit /\ [][EngineNext]_engineVars

EngineFairSpec ==
  /\ EngineSpec
  /\ \A s \in Searches : WF_engineVars(SearchStep(s))
  /\ \A k \in Keys : WF_engineVars(Outlive(k))

-----------------------------------------------------------------------------
(* Properties *)

\* An answer, kept or fresh, has hits only from collections that were linked
\* at some time since the search came: unlinking a collection takes it out of
\* the answers at once, although nothing clears them.
AnswersAreLinked == \A s \in Searches :
  search[s].at = "answered" =>
    {c \in Cols : search[s].hits[c] # NoAnswer} \subseteq search[s].linked

\* An outage of eXist-db is never kept: every answer kept has the hits of all
\* the collections of its key.
OutagesAreNotKept == \A k \in Keys :
  answers[k] # NoAnswer => \A c \in k : answers[k].hits[c] # NoAnswer

\* Answers stored by slow searches after the engine's answers were cleared are
\* gone in the end: what is served settles on the text of the collections.
AnswersSettle == <>[](\A k \in Keys : answers[k] # NoAnswer /\ answers[k].valid =>
  \A c \in k : answers[k].hits[c] = text[c])
=============================================================================
