------------------------------ MODULE SitePages ------------------------------
(***************************************************************************)
(* The pages of a public website rendered on request (services/websites.py *)
(* and routers/websites.py).  Each worker process of the server has its    *)
(* own cache of pages, whose entries expire, and its own cache of the      *)
(* compiled stylesheet, whose entry does not; an update, or a publication  *)
(* of the collection, clears the caches of the worker that served it.      *)
(* Renders await the database and eXist-db, and store what they made after *)
(* any number of changes.                                                  *)
(***************************************************************************)
EXTENDS Integers, FiniteSets

CONSTANTS
  Workers,
  Requests,       \* slots for requests of pages
  PageKinds,      \* the kinds of pages asked for, among the names of Reads
  MaxPageEdits,   \* bound: changes of what pages are made of
  MaxSwitches,    \* bound: unpublications and publications of the collection
  NoEntry

VARIABLES
  now,        \* the version of each input of a page
  live,       \* whether the collection is published and public: the site asks
              \* for a banner when it is not (maintenance_on_unpublish)
  cache,      \* _page_cache of each worker
  transform,  \* _site_xslt_cache of each worker: the row it was compiled from
  due,        \* workers whose handler has made a change and not yet invalidated
  request,
  switches

liveVars == <<live, switches>>
cacheVars == <<cache, transform>>
pageVars == <<now, live, cache, transform, due, request, switches>>

-----------------------------------------------------------------------------
(* What pages are made of.  row: the website's configuration, stylesheet and *)
(* navigation; parts: its free pages and indices; snapshot: the published    *)
(* documents.  The layout is left out: a page is the versions it shows.      *)

Inputs == {"row", "parts", "snapshot"}
Versions == [Inputs -> 0..MaxPageEdits]
Edits == now["row"] + now["parts"] + now["snapshot"]

IndexReads == {"row", "parts", "snapshot"}
BrowseReads == {"row", "parts", "snapshot"}
SearchReads == {"row", "parts", "snapshot"}
BibliographyReads == {"row", "parts", "snapshot"}
DocReads == {"row", "parts", "snapshot"}
PageReads == {"row", "parts"}

Reads == [index |-> IndexReads, browse |-> BrowseReads, search |-> SearchReads,
          bibliography |-> BibliographyReads, doc |-> DocReads,
          page |-> PageReads]

ASSUME SitePagesAssumption ==
  /\ Workers # {} /\ PageKinds # {} /\ PageKinds \subseteq DOMAIN Reads
  /\ MaxPageEdits \in Nat /\ MaxSwitches \in Nat

\* xslt is the row the stylesheet came from, in document pages.
Entry == [shows : Versions, xslt : 0..MaxPageEdits, fresh : BOOLEAN]

RenderPlaces == {"idle", "access", "lookup", "fetch", "compile", "resolve", "store",
           "served", "banner"}

\* row and parts of made are as loaded with the website, snapshot as fetched
\* later.  since is history: the live states met since the request arrived.
Request == [at : RenderPlaces, worker : Workers, page : PageKinds, made : Versions,
            xslt : 0..MaxPageEdits, since : SUBSET BOOLEAN]

SitePagesTypeOK ==
  /\ now \in Versions
  /\ live \in BOOLEAN
  /\ cache \in [Workers -> [PageKinds -> Entry \cup {NoEntry}]]
  /\ transform \in [Workers -> (0..MaxPageEdits) \cup {NoEntry}]
  /\ due \subseteq Workers
  /\ request \in [Requests -> Request]
  /\ switches \in 0..MaxSwitches

-----------------------------------------------------------------------------
(* Requests of pages *)

Visit(r, at) == request' = [request EXCEPT ![r].at = at]

Blank == [at |-> "idle", worker |-> CHOOSE w \in Workers : TRUE,
          page |-> CHOOSE p \in PageKinds : TRUE, made |-> [i \in Inputs |-> 0],
          xslt |-> 0, since |-> {}]

Reply(r, with) ==
  request' = [request EXCEPT ![r] =
                [Blank EXCEPT !.at = with, !.since = request[r].since]]

\* The website is loaded with its pages and indices.
Arrive(r) == \E w \in Workers, p \in PageKinds :
  /\ request[r].at \in {"idle", "served", "banner"}
  /\ request' = [request EXCEPT ![r] =
       [at |-> "access", worker |-> w, page |-> p,
        made |-> [now EXCEPT !["snapshot"] = 0], xslt |-> 0, since |-> {live}]]
  /\ UNCHANGED <<now, liveVars, cacheVars, due>>

\* Mutant: the banner is the renderer's business, after the cache.
MaintenanceLate(r) == FALSE

InMaintenance(r) == ~live

\* The maintenance banner comes before anything cached.
CheckMaintenance(r) ==
  /\ request[r].at = "access"
  /\ IF InMaintenance(r) THEN Reply(r, "banner") ELSE Visit(r, "lookup")
  /\ UNCHANGED <<now, liveVars, cacheVars, due>>

Held(r) == cache[request[r].worker][request[r].page]

\* An expired entry is deleted on the way.
LookUpPage(r) ==
  /\ request[r].at = "lookup"
  /\ IF Held(r) # NoEntry /\ Held(r).fresh THEN Reply(r, "served")
     ELSE Visit(r, "fetch")
  /\ cache' = IF Held(r) # NoEntry /\ ~Held(r).fresh
                THEN [cache EXCEPT ![request[r].worker][request[r].page] = NoEntry]
                ELSE cache
  /\ UNCHANGED <<now, liveVars, transform, due>>

Fetch(r) ==
  /\ request[r].at = "fetch"
  /\ request' = [request EXCEPT
       ![r].made["snapshot"] = IF "snapshot" \in Reads[request[r].page]
                                 THEN now["snapshot"] ELSE 0,
       ![r].at = IF request[r].page = "doc" THEN "compile" ELSE "store"]
  /\ UNCHANGED <<now, liveVars, cacheVars, due>>

\* _resolve_transform_cached: what is held is used, however old.
UseTransform(r) ==
  /\ request[r].at = "compile" /\ transform[request[r].worker] # NoEntry
  /\ request' = [request EXCEPT ![r].xslt = transform[request[r].worker],
                                ![r].at = "store"]
  /\ UNCHANGED <<now, liveVars, cacheVars, due>>

\* Else it is compiled from the row as loaded, which may fetch a file, and
\* stored whatever was invalidated meanwhile.
Compile(r) ==
  /\ request[r].at = "compile" /\ transform[request[r].worker] = NoEntry
  /\ Visit(r, "resolve")
  /\ UNCHANGED <<now, liveVars, cacheVars, due>>

StoreTransform(r) ==
  /\ request[r].at = "resolve"
  /\ transform' = [transform EXCEPT ![request[r].worker] = request[r].made["row"]]
  /\ request' = [request EXCEPT ![r].xslt = request[r].made["row"],
                                ![r].at = "store"]
  /\ UNCHANGED <<now, liveVars, cache, due>>

\* Mutant: an entry without the stylesheet it was made with.
BareEntry(r) == [shows |-> request[r].made, fresh |-> TRUE]

Rendered(r) == [shows |-> request[r].made, xslt |-> request[r].xslt,
                fresh |-> TRUE]

Store(r) ==
  /\ request[r].at = "store"
  /\ cache' = [cache EXCEPT ![request[r].worker][request[r].page] = Rendered(r)]
  /\ Reply(r, "served")
  /\ UNCHANGED <<now, liveVars, transform, due>>

\* The document is not there, eXist-db or the stylesheet fails, the client
\* goes: nothing is stored.
Give(r) ==
  /\ request[r].at \notin {"idle", "served", "banner"}
  /\ request' = [request EXCEPT ![r] = Blank]
  /\ UNCHANGED <<now, liveVars, cacheVars, due>>

(* Changes *)

Change(i) ==
  /\ Edits < MaxPageEdits
  /\ now' = [now EXCEPT ![i] = @ + 1]

\* PUT /websites/{slug} commits, reloads the row, and then invalidates.
UpdateRow(w) ==
  /\ w \notin due /\ Change("row")
  /\ due' = due \cup {w}
  /\ UNCHANGED <<liveVars, cacheVars, request>>

\* So does the rebuilding of an index.
RebuildIndex(w) ==
  /\ w \notin due /\ Change("parts")
  /\ due' = due \cup {w}
  /\ UNCHANGED <<liveVars, cacheVars, request>>

Emptied == [p \in PageKinds |-> NoEntry]

Invalidate(w) ==
  /\ w \in due
  /\ due' = due \ {w}
  /\ cache' = [cache EXCEPT ![w] = Emptied]
  /\ transform' = [transform EXCEPT ![w] = NoEntry]
  /\ UNCHANGED <<now, liveVars, request>>

\* POST /websites/{slug}/cache/clear, and the end of a hybrid build.
ClearCache(w) ==
  /\ w \notin due
  /\ due' = due \cup {w}
  /\ UNCHANGED <<now, liveVars, cacheVars, request>>

\* The requests on free pages, and those that define indices, invalidate
\* nothing.
EditParts ==
  /\ Change("parts")
  /\ UNCHANGED <<liveVars, cacheVars, due, request>>

\* A publication whose content has changed copies it to the snapshot, and
\* invalidates the sites of the collection before it commits (Switch).
Publish(w) ==
  /\ w \notin due /\ Change("snapshot")
  /\ due' = due \cup {w}
  /\ UNCHANGED <<liveVars, cacheVars, request>>

\* The copy fails on its way, or the request ends after it.
PublishFails ==
  /\ Change("snapshot")
  /\ UNCHANGED <<liveVars, cacheVars, due, request>>

\* The publication, or an unpublication, which invalidates nothing, commits.
Switch ==
  /\ switches < MaxSwitches /\ switches' = switches + 1
  /\ live' = ~live
  /\ request' = [r \in Requests |-> IF request[r].at \in {"idle", "served", "banner"}
       THEN request[r] ELSE [request[r] EXCEPT !.since = @ \cup {~live}]]
  /\ UNCHANGED <<now, cacheVars, due>>

\* Mutant: an entry is as good as new for ever.
NeverOld(e) == e

Aged(e) == [e EXCEPT !.fresh = FALSE]

\* Time passes: the entry outlives its time to live.
Expire(w, p) ==
  /\ cache[w][p] # NoEntry /\ cache[w][p].fresh
  /\ cache' = [cache EXCEPT ![w][p] = Aged(@)]
  /\ UNCHANGED <<now, liveVars, transform, due, request>>

RenderStep(r) ==
  \/ CheckMaintenance(r) \/ LookUpPage(r) \/ Fetch(r) \/ UseTransform(r)
  \/ Compile(r) \/ StoreTransform(r) \/ Store(r)

SitePagesInit ==
  /\ now = [i \in Inputs |-> 0]
  /\ live = TRUE
  /\ cache = [w \in Workers |-> Emptied]
  /\ transform = [w \in Workers |-> NoEntry]
  /\ due = {}
  /\ request = [r \in Requests |-> Blank]
  /\ switches = 0

SitePagesNext ==
  \/ \E r \in Requests : Arrive(r) \/ RenderStep(r) \/ Give(r)
  \/ \E w \in Workers : UpdateRow(w) \/ RebuildIndex(w) \/ Invalidate(w)
                          \/ ClearCache(w) \/ Publish(w)
  \/ \E w \in Workers, p \in PageKinds : Expire(w, p)
  \/ EditParts \/ PublishFails \/ Switch

SitePagesSpec == SitePagesInit /\ [][SitePagesNext]_pageVars

\* Renders go on, handlers return, and time passes; nobody has to ask.
SitePagesFairSpec ==
  /\ SitePagesSpec
  /\ \A r \in Requests : WF_pageVars(RenderStep(r))
  /\ \A w \in Workers : WF_pageVars(Invalidate(w))
  /\ \A w \in Workers, p \in PageKinds : WF_pageVars(Expire(w, p))

-----------------------------------------------------------------------------
(* Properties *)

\* A page that would be served from a cache and shows what no longer is.
Outdated(w, p) ==
  /\ cache[w][p] # NoEntry /\ cache[w][p].fresh
  /\ \E i \in Reads[p] : cache[w][p].shows[i] # now[i]

\* Whatever slow renders store after their worker was invalidated, and on the
\* workers that are not, changes of the row, of its pages and indices and of the
\* snapshot reach the visitors of every worker in the end.
PagesSettle == <>[](\A w \in Workers, p \in PageKinds : ~Outdated(w, p))

\* A page is served only if the collection was published at some time since
\* the request came: no cache outlives an unpublication of the collection.
BannerBeforeCache == \A r \in Requests :
  request[r].at = "served" => TRUE \in request[r].since
=============================================================================
