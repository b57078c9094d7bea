----------------------------- MODULE PagesProofs ----------------------------
(***************************************************************************)
(* Theorems about what is shown to the public on request, SearchEngine and *)
(* SitePages, and about the three parts of MCInTheEnd together.            *)
(*                                                                         *)
(* Answers: one kept has hits in exactly the collections of its key        *)
(* (AnswersMatchKeys), so that one found under the key of a search can     *)
(* have none outside it, and a search knows a key of collections linked    *)
(* since it came (SearchKnows); answers go from one search to another      *)
(* through the table.                                                      *)
(***************************************************************************)
EXTENDS MCInTheEnd, TLAPS

\* The collections with hits.
In(hits) == {c \in Cols : hits[c] # NoAnswer}

SearchKnows(s) ==
  /\ search[s].at \in {"lookup", "query", "store"} =>
       search[s].key \in Keys /\ search[s].key \subseteq search[s].linked
  /\ search[s].at = "store" =>
       search[s].hits \in Hits /\ In(search[s].hits) = search[s].key
  /\ search[s].at = "answered" =>
       search[s].hits \in Hits /\ In(search[s].hits) \subseteq search[s].linked
SearchesKnow == \A s \in Searches : SearchKnows(s)

AnswersMatchKeys == \A k \in Keys :
  answers[k] # NoAnswer => In(answers[k].hits) = k

EngineInv == EngineTypeOK /\ SearchesKnow /\ AnswersMatchKeys

-----------------------------------------------------------------------------
LEMMA NoSearchType == NoSearch \in Search
BY DEF NoSearch, Search

LEMMA EngineStart == EngineInit => EngineInv
<1> SUFFICES ASSUME EngineInit PROVE EngineInv
  OBVIOUS
<1>1. engine \in Engine
  <2>1. 0 \in 0..MaxRevisions
    BY EngineAssumption
  <2>. QED
    BY <2>1 DEF EngineInit, Engine
<1>2. text \in [Cols -> 0..MaxRevisions] /\ revisions \in 0..MaxRevisions
  BY EngineAssumption DEF EngineInit
<1>3. answers \in [Keys -> Answer \cup {NoAnswer}] /\ search \in [Searches -> Search]
  BY NoSearchType DEF EngineInit
<1>4. EngineTypeOK
  BY <1>1, <1>2, <1>3 DEF EngineInit, EngineTypeOK
<1>5. SearchesKnow /\ AnswersMatchKeys
  BY DEF EngineInit, SearchesKnow, SearchKnows, AnswersMatchKeys, NoSearch
<1>. QED
  BY <1>4, <1>5 DEF EngineInv

LEMMA RevisionCounts ==
  ASSUME EngineTypeOK, Revise
  PROVE  revisions' \in 0..MaxRevisions /\ revisions' = revisions + 1
BY EngineAssumption DEF EngineTypeOK, Revise

\* What has been linked only grows.
LEMMA LinkedGrows ==
  ASSUME EngineInv, NEW l \in SUBSET Cols,
         search' = [s \in Searches |-> [search[s] EXCEPT !.linked =
                     IF search[s].at = "idle" THEN @ ELSE @ \cup l]]
  PROVE  search' \in [Searches -> Search] /\ SearchesKnow'
<1>0. search \in [Searches -> Search]
  BY DEF EngineInv, EngineTypeOK
<1> DEFINE row(s) == [search[s] EXCEPT !.linked =
                        IF search[s].at = "idle" THEN @ ELSE @ \cup l]
<1>1. ASSUME NEW s \in Searches
      PROVE  /\ row(s) \in Search /\ row(s).at = search[s].at
             /\ row(s).key = search[s].key /\ row(s).hits = search[s].hits
             /\ search[s].linked \subseteq row(s).linked
  BY <1>0 DEF Search
<1>2. search' = [s \in Searches |-> row(s)]
  OBVIOUS
<1> HIDE DEF row
<1>3. search' \in [Searches -> Search]
  BY <1>1, <1>2
<1>4. ASSUME NEW s \in Searches PROVE SearchKnows(s)'
  <2>1. search'[s] = row(s)
    BY <1>2
  <2>2. SearchKnows(s)
    BY DEF EngineInv, SearchesKnow
  <2>. QED
    BY <1>1, <2>1, <2>2 DEF SearchKnows
<1>. QED
  BY <1>3, <1>4 DEF SearchesKnow

\* The table without some of its answers, or with some of them expired.
LEMMA AnswersWane ==
  ASSUME EngineInv, answers' \in [Keys -> Answer \cup {NoAnswer}],
         \A k \in Keys : answers'[k] # NoAnswer =>
           answers[k] # NoAnswer /\ answers'[k].hits = answers[k].hits
  PROVE  AnswersMatchKeys'
BY DEF EngineInv, AnswersMatchKeys

LEMMA SearchesStay == ASSUME EngineInv, UNCHANGED search PROVE SearchesKnow'
BY DEF EngineInv, SearchesKnow, SearchKnows

LEMMA AnswersStay == ASSUME EngineInv, UNCHANGED answers PROVE AnswersMatchKeys'
BY DEF EngineInv, AnswersMatchKeys

\* A search that becomes another row of its own.
LEMMA BecomesSearch ==
  ASSUME EngineInv, NEW s \in Searches, NEW row \in Search,
         search' = [search EXCEPT ![s] = row]
  PROVE  /\ search' \in [Searches -> Search] /\ search'[s] = row
         /\ \A t \in Searches : t # s => search'[t] = search[t]
         /\ SearchKnows(s)' => SearchesKnow'
<1>1. /\ search' \in [Searches -> Search] /\ search'[s] = row
      /\ \A t \in Searches : t # s => search'[t] = search[t]
  BY DEF EngineInv, EngineTypeOK
<1>2. ASSUME NEW t \in Searches, t # s PROVE SearchKnows(t)'
  BY <1>1, <1>2 DEF EngineInv, SearchesKnow, SearchKnows
<1>. QED
  BY <1>1, <1>2 DEF SearchesKnow

\* An answer without hits outside the collections linked is a good one.
LEMMA AnswersWell ==
  ASSUME EngineInv, NEW s \in Searches, NEW hits \in Hits, Answered(s, hits),
         In(hits) \subseteq search[s].linked
  PROVE  search' \in [Searches -> Search] /\ SearchesKnow'
<1> DEFINE row == [NoSearch EXCEPT !.at = "answered", !.hits = hits,
                                   !.linked = search[s].linked]
<1>1. row \in Search /\ row.at = "answered" /\ row.hits = hits
      /\ row.linked = search[s].linked
  <2>1. search[s].linked \in SUBSET Cols
    BY DEF EngineInv, EngineTypeOK, Search
  <2>2. row \in Search
    BY <2>1, NoSearchType DEF Search
  <2>. QED
    BY <2>2 DEF NoSearch
<1>2. search' = [search EXCEPT ![s] = row]
  BY DEF Answered
<1> HIDE DEF row
<1>3. search' \in [Searches -> Search] /\ search'[s] = row
      /\ (SearchKnows(s)' => SearchesKnow')
  BY <1>1, <1>2, BecomesSearch
<1>4. SearchKnows(s)'
  BY <1>1, <1>3 DEF SearchKnows
<1>. QED
  BY <1>3, <1>4

\* Hits of a query, and those of an outage.
LEMMA HitsOfQuery ==
  ASSUME EngineTypeOK, NEW k \in Keys PROVE HitsIn(k) \in Hits /\ In(HitsIn(k)) = k
BY EngineAssumption DEF EngineTypeOK, HitsIn, Hits, In, Keys

LEMMA HitsOfOutage ==
  LET none == [c \in Cols |-> NoAnswer] IN none \in Hits /\ In(none) = {}
BY DEF Hits, In

-----------------------------------------------------------------------------
(* One lemma for each action. *)

LEMMA CreateEngineKeeps == ASSUME EngineInv, CreateEngine PROVE EngineInv'
<1>0. EngineTypeOK /\ UNCHANGED <<text, open, answers>>
  BY DEF EngineInv, CreateEngine
<1>1. PICK l \in SUBSET open, c \in BOOLEAN :
        /\ Revise
        /\ engine' = [id |-> revisions + 1, links |-> l, cached |-> c]
        /\ search' = [s \in Searches |-> [search[s] EXCEPT !.linked =
                        IF search[s].at = "idle" THEN @ ELSE @ \cup l]]
  BY DEF CreateEngine
<1>2. l \in SUBSET Cols
  BY <1>0 DEF EngineTypeOK
<1>3. revisions' \in 0..MaxRevisions /\ revisions + 1 \in 0..MaxRevisions
  BY <1>0, <1>1, RevisionCounts
<1>4. engine' \in Engine
  BY <1>1, <1>2, <1>3 DEF Engine
<1>5. search' \in [Searches -> Search] /\ SearchesKnow'
  BY <1>1, <1>2, LinkedGrows
<1>6. EngineTypeOK'
  BY <1>0, <1>3, <1>4, <1>5 DEF EngineTypeOK
<1>. QED
  BY <1>0, <1>5, <1>6, AnswersStay DEF EngineInv

LEMMA UpdateEngineKeeps == ASSUME EngineInv, UpdateEngine PROVE EngineInv'
<1>0. EngineTypeOK /\ UNCHANGED <<text, open, answers>> /\ engine \in Engine
  BY DEF EngineInv, EngineTypeOK, UpdateEngine
<1>1. PICK l \in SUBSET Cols, c \in BOOLEAN :
        /\ Revise
        /\ engine' = [engine EXCEPT !.links = l, !.cached = c]
        /\ search' = [s \in Searches |-> [search[s] EXCEPT !.linked =
                        IF search[s].at = "idle" THEN @ ELSE @ \cup l]]
  BY DEF UpdateEngine
<1>2. revisions' \in 0..MaxRevisions
  BY <1>0, <1>1, RevisionCounts
<1>3. engine' \in Engine
  BY <1>0, <1>1 DEF Engine
<1>4. search' \in [Searches -> Search] /\ SearchesKnow'
  BY <1>1, LinkedGrows
<1>5. EngineTypeOK'
  BY <1>0, <1>2, <1>3, <1>4 DEF EngineTypeOK
<1>. QED
  BY <1>0, <1>4, <1>5, AnswersStay DEF EngineInv

LEMMA DeleteEngineKeeps == ASSUME EngineInv, DeleteEngine PROVE EngineInv'
<1>0. EngineTypeOK /\ UNCHANGED <<text, open, search>>
  BY DEF EngineInv, DeleteEngine
<1>1. answers' \in [Keys -> Answer \cup {NoAnswer}] /\ AnswersMatchKeys'
  BY AnswersWane DEF DeleteEngine
<1>2. revisions' \in 0..MaxRevisions /\ engine' = NoEngine
  BY <1>0, RevisionCounts DEF DeleteEngine
<1>3. EngineTypeOK'
  BY <1>0, <1>1, <1>2 DEF EngineTypeOK
<1>. QED
  BY <1>0, <1>1, <1>3, SearchesStay DEF EngineInv

LEMMA ClearAnswersKeeps == ASSUME EngineInv, ClearAnswers PROVE EngineInv'
<1>0. EngineTypeOK /\ UNCHANGED <<engine, text, open, search, revisions>>
  BY DEF EngineInv, ClearAnswers
<1>1. answers' \in [Keys -> Answer \cup {NoAnswer}] /\ AnswersMatchKeys'
  BY AnswersWane DEF ClearAnswers
<1>2. EngineTypeOK'
  BY <1>0, <1>1 DEF EngineTypeOK
<1>. QED
  BY <1>0, <1>1, <1>2, SearchesStay DEF EngineInv

LEMMA BeginSearchKeeps ==
  ASSUME EngineInv, NEW s \in Searches, BeginSearch(s) PROVE EngineInv'
<1>0. /\ EngineTypeOK /\ engine \in Engine
      /\ UNCHANGED <<engine, text, open, answers, revisions>>
  BY DEF EngineInv, EngineTypeOK, BeginSearch
<1>1. PICK k \in Keys :
        /\ k \subseteq engine.links
        /\ search' = [search EXCEPT ![s] =
             [at |-> IF engine.cached THEN "lookup" ELSE "query", row |-> engine,
              key |-> k, hits |-> NoAnswer, linked |-> engine.links]]
  BY DEF BeginSearch
<1> DEFINE row == [at |-> IF engine.cached THEN "lookup" ELSE "query", row |-> engine,
                   key |-> k, hits |-> NoAnswer, linked |-> engine.links]
<1>2. /\ row \in Search /\ row.at \in {"lookup", "query"} /\ row.key = k
      /\ row.linked = engine.links
  <2>1. k \in SUBSET Cols /\ engine.links \in SUBSET Cols
    BY <1>0 DEF Keys, Engine
  <2>. QED
    BY <1>0, <2>1 DEF Search
<1> HIDE DEF row
<1>3. /\ search' \in [Searches -> Search] /\ search'[s] = row
      /\ (SearchKnows(s)' => SearchesKnow')
  BY <1>1, <1>2, BecomesSearch DEF row
<1>4. SearchesKnow'
  BY <1>1, <1>2, <1>3 DEF SearchKnows
<1>5. EngineTypeOK'
  BY <1>0, <1>3 DEF EngineTypeOK
<1>. QED
  BY <1>0, <1>4, <1>5, AnswersStay DEF EngineInv

\* A search goes on to its query as it was.
LEMMA GoesOn ==
  ASSUME EngineInv, NEW s \in Searches, search[s].at = "lookup",
         search' = [search EXCEPT ![s].at = "query"]
  PROVE  search' \in [Searches -> Search] /\ SearchesKnow'
<1> DEFINE row == [search[s] EXCEPT !.at = "query"]
<1>0. search[s] \in Search
  BY DEF EngineInv, EngineTypeOK
<1>1. /\ row \in Search /\ row.at = "query" /\ row.key = search[s].key
      /\ row.linked = search[s].linked
  BY <1>0 DEF Search
<1>2. search' = [search EXCEPT ![s] = row]
  OBVIOUS
<1> HIDE DEF row
<1>3. /\ search' \in [Searches -> Search] /\ search'[s] = row
      /\ (SearchKnows(s)' => SearchesKnow')
  BY <1>1, <1>2, BecomesSearch
<1>. QED
  BY <1>1, <1>3 DEF EngineInv, SearchesKnow, SearchKnows

LEMMA LookUpAnswerKeeps ==
  ASSUME EngineInv, NEW s \in Searches, LookUpAnswer(s) PROVE EngineInv'
<1>0. EngineTypeOK /\ UNCHANGED <<engine, text, open, answers, revisions>>
  BY DEF EngineInv, LookUpAnswer
<1>1. /\ search[s].key \in Keys /\ search[s].key \subseteq search[s].linked
      /\ search[s].at = "lookup"
  BY DEF LookUpAnswer, EngineInv, SearchesKnow, SearchKnows
<1>2. search' \in [Searches -> Search] /\ SearchesKnow'
  <2>1. CASE KeptAnswer(s) # NoAnswer /\ Answered(s, KeptAnswer(s).hits)
    <3>1. /\ KeptAnswer(s) \in Answer
          /\ In(KeptAnswer(s).hits) = search[s].key
      BY <1>0, <1>1, <2>1
      DEF KeptAnswer, CacheKey, EngineInv, EngineTypeOK, AnswersMatchKeys
    <3>2. KeptAnswer(s).hits \in Hits
      BY <3>1 DEF Answer
    <3>. QED
      BY <1>1, <2>1, <3>1, <3>2, AnswersWell
  <2>2. CASE search' = [search EXCEPT ![s].at = "query"]
    BY <1>1, <2>2, GoesOn
  <2>. QED
    BY <2>1, <2>2 DEF LookUpAnswer
<1>3. EngineTypeOK'
  BY <1>0, <1>2 DEF EngineTypeOK
<1>. QED
  BY <1>0, <1>2, <1>3, AnswersStay DEF EngineInv

LEMMA QueryKeeps ==
  ASSUME EngineInv, NEW s \in Searches, Query(s) PROVE EngineInv'
<1>0. /\ EngineTypeOK /\ search[s] \in Search
      /\ UNCHANGED <<engine, text, open, answers, revisions>>
  BY DEF EngineInv, EngineTypeOK, Query
<1>1. search[s].key \in Keys /\ search[s].key \subseteq search[s].linked
  BY DEF Query, EngineInv, SearchesKnow, SearchKnows
<1>2. PICK hits \in Hits : hits = HitsIn(search[s].key) /\ In(hits) = search[s].key
  BY <1>0, <1>1, HitsOfQuery
<1>3. search' \in [Searches -> Search] /\ SearchesKnow'
  <2>1. CASE search' = [search EXCEPT ![s].hits = HitsIn(search[s].key),
                                      ![s].at = "store"]
    <3> DEFINE row == [search[s] EXCEPT !.hits = hits, !.at = "store"]
    <3>1. /\ row \in Search /\ row.at = "store" /\ row.key = search[s].key
          /\ row.linked = search[s].linked /\ row.hits = hits
      BY <1>0 DEF Search
    <3>2. search' = [search EXCEPT ![s] = row]
      BY <1>2, <2>1
    <3> HIDE DEF row
    <3>3. /\ search' \in [Searches -> Search] /\ search'[s] = row
          /\ (SearchKnows(s)' => SearchesKnow')
      BY <3>1, <3>2, BecomesSearch
    <3>. QED
      BY <1>1, <1>2, <3>1, <3>3 DEF SearchKnows
  <2>2. CASE Answered(s, HitsIn(search[s].key))
    BY <1>1, <1>2, <2>2, AnswersWell
  <2>3. CASE GiveEmpty(s)
    <3>1. PICK none \in Hits : none = [c \in Cols |-> NoAnswer] /\ In(none) = {}
      BY HitsOfOutage
    <3>. QED
      BY <2>3, <3>1, AnswersWell DEF GiveEmpty
  <2>. QED
    BY <2>1, <2>2, <2>3 DEF Query
<1>4. EngineTypeOK'
  BY <1>0, <1>3 DEF EngineTypeOK
<1>. QED
  BY <1>0, <1>3, <1>4, AnswersStay DEF EngineInv

LEMMA StoreAnswerKeeps ==
  ASSUME EngineInv, NEW s \in Searches, StoreAnswer(s) PROVE EngineInv'
<1>0. EngineTypeOK /\ UNCHANGED <<engine, text, open, revisions>>
  BY DEF EngineInv, StoreAnswer
<1>1. /\ search[s].key \in Keys /\ search[s].key \subseteq search[s].linked
      /\ search[s].hits \in Hits /\ In(search[s].hits) = search[s].key
  BY DEF StoreAnswer, EngineInv, SearchesKnow, SearchKnows
<1>2. CASE /\ answers' = [answers EXCEPT ![CacheKey(search[s].key)] =
                            [hits |-> search[s].hits, valid |-> TRUE]]
           /\ Answered(s, search[s].hits)
  <2>1. search' \in [Searches -> Search] /\ SearchesKnow'
    BY <1>1, <1>2, AnswersWell
  <2> DEFINE kept == [hits |-> search[s].hits, valid |-> TRUE]
  <2>2. kept \in Answer /\ kept.hits = search[s].hits
    BY <1>1 DEF Answer
  <2>3. answers' = [answers EXCEPT ![search[s].key] = kept]
    BY <1>2 DEF CacheKey
  <2> HIDE DEF kept
  <2>4. answers' \in [Keys -> Answer \cup {NoAnswer}] /\ AnswersMatchKeys'
    BY <1>0, <1>1, <2>2, <2>3 DEF EngineInv, EngineTypeOK, AnswersMatchKeys
  <2>5. EngineTypeOK'
    BY <1>0, <2>1, <2>4 DEF EngineTypeOK
  <2>. QED
    BY <2>1, <2>4, <2>5 DEF EngineInv
<1>3. CASE search' = [search EXCEPT ![s] = NoSearch] /\ UNCHANGED answers
  <2>1. /\ search' \in [Searches -> Search] /\ search'[s] = NoSearch
        /\ (SearchKnows(s)' => SearchesKnow')
    BY <1>3, NoSearchType, BecomesSearch
  <2>2. SearchesKnow'
    BY <2>1 DEF SearchKnows, NoSearch
  <2>3. EngineTypeOK'
    BY <1>0, <1>3, <2>1 DEF EngineTypeOK
  <2>. QED
    BY <1>3, <2>2, <2>3, AnswersStay DEF EngineInv
<1>. QED
  BY <1>2, <1>3 DEF StoreAnswer

LEMMA OutliveKeeps ==
  ASSUME EngineInv, NEW k \in Keys, Outlive(k) PROVE EngineInv'
<1>0. /\ EngineTypeOK /\ answers[k] \in Answer
      /\ UNCHANGED <<engine, text, open, search, revisions>>
  BY DEF EngineInv, EngineTypeOK, Outlive
<1> DEFINE old == [answers[k] EXCEPT !.valid = FALSE]
<1>1. old \in Answer /\ old.hits = answers[k].hits
  BY <1>0 DEF Answer
<1>2. answers' = [answers EXCEPT ![k] = old] /\ answers[k] # NoAnswer
  BY DEF Outlive, Expired
<1> HIDE DEF old
<1>3. answers' \in [Keys -> Answer \cup {NoAnswer}]
  BY <1>0, <1>1, <1>2 DEF EngineTypeOK
<1>4. AnswersMatchKeys'
  BY <1>0, <1>1, <1>2 DEF EngineInv, EngineTypeOK, AnswersMatchKeys
<1>5. EngineTypeOK'
  BY <1>0, <1>3 DEF EngineTypeOK
<1>. QED
  BY <1>0, <1>4, <1>5, SearchesStay DEF EngineInv

LEMMA PurgeKeeps == ASSUME EngineInv, Purge PROVE EngineInv'
<1>0. EngineTypeOK /\ UNCHANGED <<engine, text, open, search, revisions>>
  BY DEF EngineInv, Purge
<1>1. answers' \in [Keys -> Answer \cup {NoAnswer}] /\ AnswersMatchKeys'
  <2>1. answers' = [k \in Keys |-> IF answers[k] # NoAnswer /\ ~answers[k].valid
                                     THEN NoAnswer ELSE answers[k]]
    BY DEF Purge
  <2>. QED
    BY <1>0, <2>1 DEF EngineInv, EngineTypeOK, AnswersMatchKeys
<1>2. EngineTypeOK'
  BY <1>0, <1>1 DEF EngineTypeOK
<1>. QED
  BY <1>0, <1>1, <1>2, SearchesStay DEF EngineInv

LEMMA CollectionsKeep ==
  ASSUME EngineInv, EditCollection \/ Unpublish PROVE EngineInv'
<1>0. EngineTypeOK /\ UNCHANGED <<engine, answers, search>>
  BY DEF EngineInv, EditCollection, Unpublish, searchVars
<1>1. revisions' \in 0..MaxRevisions /\ revisions + 1 \in 0..MaxRevisions
  BY <1>0, RevisionCounts DEF EditCollection, Unpublish
<1>2. text' \in [Cols -> 0..MaxRevisions] /\ open' \subseteq Cols
  BY <1>0, <1>1 DEF EditCollection, Unpublish, EngineTypeOK
<1>3. EngineTypeOK'
  BY <1>0, <1>1, <1>2 DEF EngineTypeOK
<1>. QED
  BY <1>0, <1>3, SearchesStay, AnswersStay DEF EngineInv

-----------------------------------------------------------------------------
LEMMA EngineStep == EngineInv /\ [EngineNext]_engineVars => EngineInv'
<1>1. ASSUME EngineInv, EngineNext PROVE EngineInv'
  BY <1>1, CreateEngineKeeps, UpdateEngineKeeps, DeleteEngineKeeps,
     ClearAnswersKeeps, BeginSearchKeeps, LookUpAnswerKeeps, QueryKeeps,
     StoreAnswerKeeps, OutliveKeeps, PurgeKeeps, CollectionsKeep
  DEF EngineNext, SearchStep
<1>2. ASSUME EngineInv, UNCHANGED engineVars PROVE EngineInv'
  <2>1. EngineTypeOK'
    BY <1>2 DEF engineVars, EngineInv, EngineTypeOK
  <2>. QED
    BY <1>2, <2>1, SearchesStay, AnswersStay DEF engineVars, EngineInv
<1>. QED
  BY <1>1, <1>2

THEOREM EngineInvariant == EngineSpec => []EngineInv
BY EngineStart, EngineStep, PTL DEF EngineSpec

\* The engine, its answers and the searches keep their types (the rows of
\* search_engines and search_engine_query_cache, the places of run_search),
\* whatever the collections and however many searches run.
THEOREM EngineTypeCorrect == EngineSpec => []EngineTypeOK
<1>1. EngineInv => EngineTypeOK
  BY DEF EngineInv
<1>. QED
  BY <1>1, EngineInvariant, PTL

\* No answer, kept or fresh, has hits from a collection that was not linked
\* since the search came, although unlinking clears no answer.
THEOREM AnswersStayLinked == EngineSpec => []AnswersAreLinked
<1>1. EngineInv => AnswersAreLinked
  BY DEF EngineInv, SearchesKnow, SearchKnows, AnswersAreLinked, In
<1>. QED
  BY <1>1, EngineInvariant, PTL

\* No outage of eXist-db is ever kept as an answer.
THEOREM NoOutageKept == EngineSpec => []OutagesAreNotKept
<1>1. EngineInv => OutagesAreNotKept
  BY DEF EngineInv, AnswersMatchKeys, OutagesAreNotKept, In
<1>. QED
  BY <1>1, EngineInvariant, PTL

-----------------------------------------------------------------------------
\* SitePages: what a request for a page has met.

InFlight(r) == request[r].at \notin {"idle", "served", "banner"}

\* A request has met the live state of now, and one past the banner the
\* collection live.
RequestKnows(r) ==
  /\ InFlight(r) => live \in request[r].since
  /\ request[r].at \notin {"idle", "access", "banner"} => TRUE \in request[r].since

SitePagesInv == SitePagesTypeOK /\ \A r \in Requests : RequestKnows(r)

-----------------------------------------------------------------------------
LEMMA BlankType ==
  /\ Blank \in Request /\ Blank.at = "idle"
  /\ \A at \in RenderPlaces, s \in SUBSET BOOLEAN :
       [Blank EXCEPT !.at = at, !.since = s] \in Request
<1>1. (CHOOSE w \in Workers : TRUE) \in Workers
      /\ (CHOOSE p \in PageKinds : TRUE) \in PageKinds
  BY SitePagesAssumption
<1>2. [i \in Inputs |-> 0] \in Versions /\ 0 \in 0..MaxPageEdits
  BY SitePagesAssumption DEF Versions
<1>3. "idle" \in RenderPlaces
  BY DEF RenderPlaces
<1>. QED
  BY <1>1, <1>2, <1>3 DEF Blank, Request

LEMMA VersionSet ==
  ASSUME NEW v \in Versions, NEW i \in Inputs, NEW n \in 0..MaxPageEdits
  PROVE  [v EXCEPT ![i] = n] \in Versions
BY DEF Versions

LEMMA SitePagesStart == SitePagesInit => SitePagesInv
<1> SUFFICES ASSUME SitePagesInit PROVE SitePagesInv
  OBVIOUS
<1>1. now \in Versions
  BY SitePagesAssumption DEF SitePagesInit, Versions
<1>2. cache \in [Workers -> [PageKinds -> Entry \cup {NoEntry}]]
  BY DEF SitePagesInit, Emptied
<1>3. request \in [Requests -> Request] /\ \A r \in Requests : request[r].at = "idle"
  BY BlankType DEF SitePagesInit
<1>4. SitePagesTypeOK
  BY <1>1, <1>2, <1>3, SitePagesAssumption DEF SitePagesInit, SitePagesTypeOK
<1>. QED
  BY <1>3, <1>4 DEF SitePagesInv, RequestKnows, InFlight

\* What is known of a request depends on it and on live alone.
LEMMA RequestKept ==
  ASSUME NEW r \in Requests, RequestKnows(r), request'[r] = request[r], live' = live
  PROVE  RequestKnows(r)'
BY DEF RequestKnows, InFlight

\* One request goes on while the others, and what is live, stay as they are.
LEMMA OneRequest ==
  ASSUME SitePagesInv, NEW r \in Requests, NEW new \in Request,
         request' = [request EXCEPT ![r] = new], live' = live,
         new.at \notin {"idle", "served", "banner"} => live \in new.since,
         new.at \notin {"idle", "access", "banner"} => TRUE \in new.since
  PROVE  request' \in [Requests -> Request] /\ \A q \in Requests : RequestKnows(q)'
<1>1. request' \in [Requests -> Request] /\ request'[r] = new
      /\ \A q \in Requests \ {r} : request'[q] = request[q]
  BY DEF SitePagesInv, SitePagesTypeOK
<1>2. RequestKnows(r)'
  BY <1>1 DEF RequestKnows, InFlight
<1>. QED
  BY <1>1, <1>2, RequestKept DEF SitePagesInv

LEMMA ArriveKeeps ==
  ASSUME SitePagesInv, NEW r \in Requests, Arrive(r) PROVE SitePagesInv'
<1>1. PICK w \in Workers, p \in PageKinds : request' = [request EXCEPT ![r] =
        [at |-> "access", worker |-> w, page |-> p,
         made |-> [now EXCEPT !["snapshot"] = 0], xslt |-> 0, since |-> {live}]]
  BY DEF Arrive
<1> DEFINE new == [at |-> "access", worker |-> w, page |-> p,
         made |-> [now EXCEPT !["snapshot"] = 0], xslt |-> 0, since |-> {live}]
<1>2. [now EXCEPT !["snapshot"] = 0] \in Versions /\ live \in BOOLEAN
  BY VersionSet, SitePagesAssumption DEF SitePagesInv, SitePagesTypeOK, Inputs
<1>3. new \in Request /\ new.at = "access" /\ live \in new.since
  BY <1>2, SitePagesAssumption DEF Request, RenderPlaces
<1> HIDE DEF new
<1>4. request' \in [Requests -> Request] /\ \A q \in Requests : RequestKnows(q)'
  BY <1>1, <1>3, OneRequest DEF Arrive, liveVars, new
<1>. QED
  BY <1>4 DEF SitePagesInv, SitePagesTypeOK, Arrive, liveVars, cacheVars

\* A request that goes from one place to another, with what it made.
LEMMA RequestMoves ==
  ASSUME SitePagesInv, NEW r \in Requests, NEW at \in RenderPlaces,
         NEW made \in Versions, NEW x \in 0..MaxPageEdits,
         at \notin {"idle", "access", "banner"} => TRUE \in request[r].since,
         InFlight(r), live' = live,
         request' = [request EXCEPT ![r] =
           [request[r] EXCEPT !.at = at, !.made = made, !.xslt = x]]
  PROVE  request' \in [Requests -> Request] /\ \A q \in Requests : RequestKnows(q)'
<1> DEFINE new == [request[r] EXCEPT !.at = at, !.made = made, !.xslt = x]
<1>1. request[r] \in Request /\ live \in request[r].since
  BY DEF SitePagesInv, SitePagesTypeOK, RequestKnows
<1>2. new \in Request /\ new.at = at /\ new.since = request[r].since
  BY <1>1 DEF Request
<1> HIDE DEF new
<1>. QED
  BY <1>1, <1>2, OneRequest DEF new

\* A request that is answered, with what it has met.
LEMMA RequestAnswered ==
  ASSUME SitePagesInv, NEW r \in Requests, NEW with \in {"served", "banner"},
         Reply(r, with), live' = live,
         with = "served" => TRUE \in request[r].since
  PROVE  request' \in [Requests -> Request] /\ \A q \in Requests : RequestKnows(q)'
<1> DEFINE new == [Blank EXCEPT !.at = with, !.since = request[r].since]
<1>1. request[r].since \in SUBSET BOOLEAN /\ with \in RenderPlaces
  BY DEF SitePagesInv, SitePagesTypeOK, Request, RenderPlaces
<1>2. new \in Request /\ new.at = with /\ new.since = request[r].since
  BY <1>1, BlankType DEF Blank
<1>3. request' = [request EXCEPT ![r] = new]
  BY DEF Reply
<1> HIDE DEF new
<1>. QED
  BY <1>2, <1>3, OneRequest

LEMMA VisitMoves ==
  ASSUME SitePagesInv, NEW r \in Requests, NEW at \in RenderPlaces, Visit(r, at),
         at \notin {"idle", "access", "banner"} => TRUE \in request[r].since,
         InFlight(r), live' = live
  PROVE  request' \in [Requests -> Request] /\ \A q \in Requests : RequestKnows(q)'
<1>1. request[r] \in Request
  BY DEF SitePagesInv, SitePagesTypeOK
<1>2. [request[r] EXCEPT !.at = at]
        = [request[r] EXCEPT !.at = at, !.made = request[r].made,
                             !.xslt = request[r].xslt]
  BY <1>1 DEF Request
<1>3. request[r].made \in Versions /\ request[r].xslt \in 0..MaxPageEdits
  BY <1>1 DEF Request
<1>. QED
  BY <1>2, <1>3, RequestMoves DEF Visit

LEMMA CheckMaintenanceKeeps ==
  ASSUME SitePagesInv, NEW r \in Requests, CheckMaintenance(r) PROVE SitePagesInv'
<1>1. InFlight(r) /\ RequestKnows(r) /\ live' = live
  BY DEF SitePagesInv, CheckMaintenance, InFlight, liveVars
<1>2. CASE InMaintenance(r)
  <2>1. Reply(r, "banner")
    BY <1>2 DEF CheckMaintenance
  <2>2. request' \in [Requests -> Request] /\ \A q \in Requests : RequestKnows(q)'
    BY <1>1, <2>1, RequestAnswered
  <2>. QED
    BY <2>2 DEF SitePagesInv, SitePagesTypeOK, CheckMaintenance, liveVars, cacheVars
<1>3. CASE ~InMaintenance(r)
  <2>1. live = TRUE /\ Visit(r, "lookup")
    BY <1>3 DEF CheckMaintenance, InMaintenance, SitePagesInv, SitePagesTypeOK
  <2>2. "lookup" \in RenderPlaces /\ TRUE \in request[r].since
    BY <1>1, <2>1 DEF RequestKnows, RenderPlaces
  <2>3. request' \in [Requests -> Request] /\ \A q \in Requests : RequestKnows(q)'
    BY <1>1, <2>1, <2>2, VisitMoves
  <2>. QED
    BY <2>3 DEF SitePagesInv, SitePagesTypeOK, CheckMaintenance, liveVars, cacheVars
<1>. QED
  BY <1>2, <1>3

\* An entry of one worker's cache is set.
LEMMA CacheSet ==
  ASSUME SitePagesTypeOK, NEW w \in Workers, NEW p \in PageKinds,
         NEW e \in Entry \cup {NoEntry}
  PROVE  [cache EXCEPT ![w][p] = e]
           \in [Workers -> [PageKinds -> Entry \cup {NoEntry}]]
BY DEF SitePagesTypeOK

LEMMA LookUpPageKeeps ==
  ASSUME SitePagesInv, NEW r \in Requests, LookUpPage(r) PROVE SitePagesInv'
<1>1. /\ InFlight(r) /\ request[r] \in Request /\ live' = live
      /\ TRUE \in request[r].since
  BY DEF SitePagesInv, SitePagesTypeOK, LookUpPage, InFlight, liveVars, RequestKnows
<1>2. "fetch" \in RenderPlaces
  BY DEF RenderPlaces
<1>3. request' \in [Requests -> Request] /\ \A q \in Requests : RequestKnows(q)'
  <2>1. Reply(r, "served") \/ Visit(r, "fetch")
    BY DEF LookUpPage
  <2>. QED
    BY <1>1, <1>2, <2>1, RequestAnswered, VisitMoves
<1>4. cache' \in [Workers -> [PageKinds -> Entry \cup {NoEntry}]]
  <2>1. request[r].worker \in Workers /\ request[r].page \in PageKinds
    BY <1>1 DEF Request
  <2>2. [cache EXCEPT ![request[r].worker][request[r].page] = NoEntry]
          \in [Workers -> [PageKinds -> Entry \cup {NoEntry}]]
    BY <2>1, CacheSet DEF SitePagesInv
  <2>. QED
    BY <2>2 DEF LookUpPage, SitePagesInv, SitePagesTypeOK
<1>. QED
  BY <1>3, <1>4 DEF SitePagesInv, SitePagesTypeOK, LookUpPage, liveVars

LEMMA FetchKeeps ==
  ASSUME SitePagesInv, NEW r \in Requests, Fetch(r) PROVE SitePagesInv'
<1>1. /\ InFlight(r) /\ request[r] \in Request /\ live' = live
      /\ TRUE \in request[r].since
  BY DEF SitePagesInv, SitePagesTypeOK, Fetch, InFlight, liveVars, RequestKnows
<1> DEFINE shown == IF "snapshot" \in Reads[request[r].page] THEN now["snapshot"]
                    ELSE 0
           next == IF request[r].page = "doc" THEN "compile" ELSE "store"
           made == [request[r].made EXCEPT !["snapshot"] = shown]
<1>2. shown \in 0..MaxPageEdits
  BY SitePagesAssumption DEF SitePagesInv, SitePagesTypeOK, Versions, Inputs
<1>3. next \in RenderPlaces /\ request[r].xslt \in 0..MaxPageEdits
  BY <1>1 DEF RenderPlaces, Request
<1>4. made \in Versions
  BY <1>1, <1>2, VersionSet DEF Request, Inputs
<1>5. request' = [request EXCEPT ![r].made["snapshot"] = shown, ![r].at = next]
  BY DEF Fetch
<1> HIDE DEF shown, next
<1>6. request' = [request EXCEPT ![r] =
        [request[r] EXCEPT !.at = next, !.made = made, !.xslt = request[r].xslt]]
  <2>1. request \in [Requests -> Request]
    BY DEF SitePagesInv, SitePagesTypeOK
  <2>. QED
    BY <1>1, <1>5, <2>1 DEF Request
<1> HIDE DEF made
<1>7. request' \in [Requests -> Request] /\ \A q \in Requests : RequestKnows(q)'
  BY <1>1, <1>3, <1>4, <1>6, RequestMoves
<1>. QED
  BY <1>7 DEF SitePagesInv, SitePagesTypeOK, Fetch, liveVars, cacheVars

\* The stylesheet a page is made with is of some version of the row.
LEMMA TransformKeeps ==
  ASSUME SitePagesInv, NEW r \in Requests,
         UseTransform(r) \/ Compile(r) \/ StoreTransform(r)
  PROVE  SitePagesInv'
<1>1. /\ InFlight(r) /\ request[r] \in Request /\ live' = live
      /\ TRUE \in request[r].since
  BY DEF SitePagesInv, SitePagesTypeOK, UseTransform, Compile, StoreTransform,
         InFlight, liveVars, RequestKnows
<1>2. /\ "store" \in RenderPlaces /\ "resolve" \in RenderPlaces
      /\ request[r].made \in Versions /\ request[r].made["row"] \in 0..MaxPageEdits
      /\ request[r].worker \in Workers
  BY <1>1 DEF RenderPlaces, Request, Versions, Inputs
<1>3. CASE Compile(r)
  <2>1. request' \in [Requests -> Request] /\ \A q \in Requests : RequestKnows(q)'
    BY <1>1, <1>2, <1>3, VisitMoves DEF Compile
  <2>. QED
    BY <1>3, <2>1 DEF SitePagesInv, SitePagesTypeOK, Compile, liveVars, cacheVars
<1>4. CASE UseTransform(r) \/ StoreTransform(r)
  <2>1. PICK x \in 0..MaxPageEdits :
          /\ request' = [request EXCEPT ![r].xslt = x, ![r].at = "store"]
          /\ transform' \in {transform, [transform EXCEPT ![request[r].worker] = x]}
    BY <1>2, <1>4
       DEF UseTransform, StoreTransform, SitePagesInv, SitePagesTypeOK, cacheVars
  <2>2. request' = [request EXCEPT ![r] =
          [request[r] EXCEPT !.at = "store", !.made = request[r].made, !.xslt = x]]
    <3>1. request \in [Requests -> Request]
      BY DEF SitePagesInv, SitePagesTypeOK
    <3>. QED
      BY <1>1, <2>1, <3>1 DEF Request
  <2>3. request' \in [Requests -> Request] /\ \A q \in Requests : RequestKnows(q)'
    BY <1>1, <1>2, <2>2, RequestMoves
  <2>4. transform' \in [Workers -> (0..MaxPageEdits) \cup {NoEntry}]
    BY <1>2, <2>1 DEF SitePagesInv, SitePagesTypeOK
  <2>. QED
    BY <1>4, <2>3, <2>4 DEF SitePagesInv, SitePagesTypeOK, UseTransform,
       StoreTransform, liveVars, cacheVars
<1>. QED
  BY <1>3, <1>4

LEMMA StoreKeeps ==
  ASSUME SitePagesInv, NEW r \in Requests, Store(r) PROVE SitePagesInv'
<1>1. /\ request[r] \in Request /\ live' = live /\ TRUE \in request[r].since
  BY DEF SitePagesInv, SitePagesTypeOK, Store, liveVars, RequestKnows
<1>2. request' \in [Requests -> Request] /\ \A q \in Requests : RequestKnows(q)'
  BY <1>1, RequestAnswered DEF Store
<1>3. Rendered(r) \in Entry /\ request[r].worker \in Workers
      /\ request[r].page \in PageKinds
  BY <1>1 DEF Rendered, Entry, Request
<1>4. cache' \in [Workers -> [PageKinds -> Entry \cup {NoEntry}]]
  BY <1>3, CacheSet DEF Store, SitePagesInv
<1>. QED
  BY <1>2, <1>4 DEF SitePagesInv, SitePagesTypeOK, Store, liveVars

LEMMA GiveKeeps ==
  ASSUME SitePagesInv, NEW r \in Requests, Give(r) PROVE SitePagesInv'
<1>1. request' \in [Requests -> Request] /\ \A q \in Requests : RequestKnows(q)'
  BY BlankType, OneRequest DEF Give, liveVars
<1>. QED
  BY <1>1 DEF SitePagesInv, SitePagesTypeOK, Give, liveVars, cacheVars

\* Edits are counted over the inputs: each version stays within the bound.
LEMMA ChangeType ==
  ASSUME SitePagesTypeOK, NEW i \in Inputs, Change(i)
  PROVE  now' \in Versions
<1>1. \A j \in Inputs : now[j] \in 0..MaxPageEdits
  BY DEF SitePagesTypeOK, Versions
<1>2. now[i] + 1 \in 0..MaxPageEdits
  BY <1>1, SitePagesAssumption DEF Change, Edits, Inputs
<1>. QED
  BY <1>2, VersionSet DEF Change, SitePagesTypeOK

LEMMA ChangesKeep ==
  ASSUME SitePagesInv, NEW w \in Workers,
         UpdateRow(w) \/ RebuildIndex(w) \/ ClearCache(w) \/ EditParts
           \/ Publish(w) \/ PublishFails
  PROVE  SitePagesInv'
<1>1. now' \in Versions /\ due' \subseteq Workers
  BY ChangeType DEF UpdateRow, RebuildIndex, ClearCache, EditParts, Publish,
     PublishFails, SitePagesInv, SitePagesTypeOK, Inputs
<1>2. UNCHANGED <<liveVars, cacheVars, request>>
  BY DEF UpdateRow, RebuildIndex, ClearCache, EditParts, Publish, PublishFails
<1>3. \A r \in Requests : RequestKnows(r)'
  BY <1>2, RequestKept DEF SitePagesInv, liveVars
<1>. QED
  BY <1>1, <1>2, <1>3 DEF SitePagesInv, SitePagesTypeOK, liveVars, cacheVars

LEMMA CachesKeep ==
  ASSUME SitePagesInv, NEW w \in Workers, NEW p \in PageKinds,
         Invalidate(w) \/ Expire(w, p)
  PROVE  SitePagesInv'
<1>1. UNCHANGED <<now, liveVars, request>> /\ due' \subseteq Workers
  BY DEF Invalidate, Expire, SitePagesInv, SitePagesTypeOK
<1>2. transform' \in [Workers -> (0..MaxPageEdits) \cup {NoEntry}]
  BY DEF Invalidate, Expire, SitePagesInv, SitePagesTypeOK
<1>3. cache' \in [Workers -> [PageKinds -> Entry \cup {NoEntry}]]
  <2>1. CASE Invalidate(w)
    BY <2>1 DEF Invalidate, Emptied, SitePagesInv, SitePagesTypeOK
  <2>2. CASE Expire(w, p)
    <3>1. cache[w][p] \in Entry
      BY <2>2 DEF Expire, SitePagesInv, SitePagesTypeOK
    <3>2. Aged(cache[w][p]) \in Entry
      BY <3>1 DEF Aged, Entry
    <3>3. cache' = [cache EXCEPT ![w][p] = Aged(cache[w][p])]
      BY <2>2 DEF Expire
    <3>. QED
      BY <3>2, <3>3, CacheSet DEF SitePagesInv
  <2>. QED
    BY <2>1, <2>2
<1>4. \A r \in Requests : RequestKnows(r)'
  BY <1>1, RequestKept DEF SitePagesInv, liveVars
<1>. QED
  BY <1>1, <1>2, <1>3, <1>4 DEF SitePagesInv, SitePagesTypeOK, liveVars

LEMMA MeetsType ==
  ASSUME NEW q \in Request, NEW b \in BOOLEAN,
         NEW met, met = [q EXCEPT !.since = @ \cup {b}]
  PROVE  met \in Request /\ met.at = q.at /\ met.since = q.since \cup {b}
BY DEF Request

LEMMA SwitchKeeps ==
  ASSUME SitePagesInv, Switch PROVE SitePagesInv'
<1>1. /\ switches' \in 0..MaxSwitches /\ live' \in BOOLEAN /\ live' = ~live
      /\ UNCHANGED <<now, cacheVars, due>>
  BY SitePagesAssumption DEF Switch, SitePagesInv, SitePagesTypeOK
<1>2. ASSUME NEW r \in Requests
      PROVE  request'[r] \in Request /\ RequestKnows(r)'
  <2>1. request[r] \in Request /\ RequestKnows(r) /\ live \in BOOLEAN
    BY DEF SitePagesInv, SitePagesTypeOK
  <2>2. CASE ~InFlight(r)
    BY <2>1, <2>2 DEF Switch, InFlight, RequestKnows
  <2>3. CASE InFlight(r)
    <3>1. request'[r] = [request[r] EXCEPT !.since = @ \cup {live'}]
      BY <1>1, <2>3 DEF Switch, InFlight
    <3>2. /\ request'[r] \in Request /\ request'[r].at = request[r].at
          /\ request'[r].since = request[r].since \cup {live'}
      BY <1>1, <2>1, <3>1, MeetsType
    <3>. QED
      BY <2>1, <3>2 DEF RequestKnows, InFlight
  <2>. QED
    BY <2>2, <2>3
<1>3. request' \in [Requests -> Request]
  BY <1>2 DEF Switch
<1>. QED
  BY <1>1, <1>2, <1>3 DEF SitePagesInv, SitePagesTypeOK, cacheVars

\* Everything known of pages rendered on request.
THEOREM SitePagesInvariant == SitePagesSpec => []SitePagesInv
<1>1. ASSUME SitePagesInv, [SitePagesNext]_pageVars PROVE SitePagesInv'
  <2>1. ASSUME NEW r \in Requests, Arrive(r) \/ RenderStep(r) \/ Give(r)
        PROVE  SitePagesInv'
    BY <1>1, <2>1, ArriveKeeps, CheckMaintenanceKeeps, LookUpPageKeeps, FetchKeeps,
       TransformKeeps, StoreKeeps, GiveKeeps DEF RenderStep
  <2>2. ASSUME NEW w \in Workers, NEW p \in PageKinds,
               UpdateRow(w) \/ RebuildIndex(w) \/ ClearCache(w) \/ EditParts
                 \/ Publish(w) \/ PublishFails \/ Invalidate(w) \/ Expire(w, p)
        PROVE  SitePagesInv'
    BY <1>1, <2>2, ChangesKeep, CachesKeep
  <2>3. CASE Switch
    BY <1>1, <2>3, SwitchKeeps
  <2>4. CASE UNCHANGED pageVars
    BY <1>1, <2>4, RequestKept DEF pageVars, liveVars, cacheVars, SitePagesInv, SitePagesTypeOK
  <2>. QED
    BY <1>1, <2>1, <2>2, <2>3, <2>4, SitePagesAssumption DEF SitePagesNext
<1>. QED
  BY <1>1, SitePagesStart, PTL DEF SitePagesSpec

\* Caches, requests and versions keep their types.
THEOREM SitePagesTypeCorrect == SitePagesSpec => []SitePagesTypeOK
<1>1. SitePagesInv => SitePagesTypeOK
  BY DEF SitePagesInv
<1>. QED
  BY <1>1, SitePagesInvariant, PTL

\* The banner of an unpublished collection comes before anything cached.
THEOREM BannersComeFirst == SitePagesSpec => []BannerBeforeCache
<1>1. SitePagesInv => BannerBeforeCache
  BY DEF SitePagesInv, RequestKnows, BannerBeforeCache
<1>. QED
  BY <1>1, SitePagesInvariant, PTL

-----------------------------------------------------------------------------
(* Versions, pages and answers together (MCInTheEnd): none changes what        *)
(* another reads, so what they do in turn is, for each, what it does alone.    *)

\* Every behaviour of the three in turn is one of each.
THEOREM AllFollowEach == AllSpec => Spec /\ SitePagesSpec /\ EngineSpec
<1>1. AllInit => Init /\ SitePagesInit /\ EngineInit
  BY DEF AllInit
<1>2. [AllNext]_allVars => [Next]_vars /\ [SitePagesNext]_pageVars /\ [EngineNext]_engineVars
  <2>1. UNCHANGED allVars => UNCHANGED <<vars, pageVars, engineVars>>
    BY DEF allVars
  <2>2. AllNext => [Next]_vars /\ [SitePagesNext]_pageVars /\ [EngineNext]_engineVars
    BY DEF AllNext, Only
  <2>. QED
    BY <2>1, <2>2
<1>. QED
  BY <1>1, <1>2, PTL DEF AllSpec, Spec, SitePagesSpec, EngineSpec

\* The rendered pages with their caches and the answers of the engine keep their
\* types (page_cache, search_engine_query_cache).
THEOREM AllTypeCorrect == AllSpec => []AllTypeOK
<1>1. SitePagesTypeOK /\ EngineTypeOK => AllTypeOK
  BY DEF AllTypeOK
<1>. QED
  BY <1>1, AllFollowEach, SitePagesTypeCorrect, EngineTypeCorrect, PTL
=============================================================================
