------------------------------ MODULE NlSearch ------------------------------
(***************************************************************************)
(* Natural-language queries (plugins/nl_search): gated by the day's        *)
(* budget, answered from the cache or by a paid model under one of a few   *)
(* slots, and then recorded.  A query is one transaction from its gates to *)
(* the commit of its cost and its answer, and the slots are a semaphore    *)
(* of the process that a new setting replaces while queries hold it.       *)
(***************************************************************************)
EXTENDS Integers, Sequences, FiniteSets

CONSTANTS
  Questions,   \* what is asked, of a corpus and a model: the keys of the cache
  Queries,     \* requests, as they arrive
  Limits,      \* values of the setting nl_search_max_concurrent
  Cap,         \* the budget of a day; 0 for none
  MaxDay,      \* bound: days
  MaxDrops,    \* bound: visitors who leave, queries that fail
  NoRow

ASSUME NlSearchAssumption ==
  /\ Queries \subseteq Nat /\ IsFiniteSet(Queries) /\ Limits \subseteq Nat \ {0}
  /\ Cap \in Nat /\ MaxDay \in Nat /\ MaxDrops \in Nat
  /\ NoRow \notin Nat

VARIABLES
  today,       \* the date
  limit,       \* the setting
  spent,       \* nl_search_budget_day: what each day has cost, or NoRow
  kept,        \* nl_search_cache
  slots,       \* the semaphores made by the process, the current one last
  query,       \* the requests
  drops        \* queries dropped so far

nlWorld == <<today, limit, drops>>
nlVars == <<today, limit, spent, kept, slots, query, drops>>

-----------------------------------------------------------------------------
Days == 0..MaxDay
Spend == 0..Cardinality(Queries)

\* by (history) is the query that stored the answer.
KeptAnswer == [by : Queries, valid : BOOLEAN]

\* free counts the slots that can be had, as asyncio.Semaphore does.
Semaphore == [limit : Limits, free : Nat]

QueryPlaces == {"none", "gate", "look up", "enter", "wait", "run", "read day",
                "write day", "read kept", "write kept", "commit", "end"}

\* slot is the semaphore it waits for or holds; cost and error the outcome of
\* the run; day the day it is recorded on, and had what it read of the row of
\* that day; insert whether it has seen no row of its question; paid (history)
\* that its cost was committed.
Query == [at : QueryPlaces, on : Questions \cup {NoRow}, slot : Nat,
          cost : {0, 1}, error : BOOLEAN, day : Days, had : Spend \cup {NoRow},
          insert : BOOLEAN, paid : BOOLEAN]

NoQuery == [at |-> "none", on |-> NoRow, slot |-> 0, cost |-> 0,
            error |-> FALSE, day |-> 0, had |-> NoRow, insert |-> FALSE,
            paid |-> FALSE]

NlSearchTypeOK ==
  /\ today \in Days /\ limit \in Limits /\ drops \in 0..MaxDrops
  /\ spent \in [Days -> Spend \cup {NoRow}]
  /\ kept \in [Questions -> KeptAnswer \cup {NoRow}]
  /\ slots \in Seq(Semaphore)
  /\ query \in [Queries -> Query]

-----------------------------------------------------------------------------
At(q, place) == query[q].at = place

\* A query that has a slot, until its transaction is over.
Runs(q) == query[q].at \in {"run", "read day", "write day", "read kept",
                            "write kept", "commit"}

Current == slots[Len(slots)]

\* Mutant: the slot goes back to the current semaphore.
ReleasedLast(q) == [slots EXCEPT ![Len(slots)].free = @ + 1]

\* The slot goes back to the semaphore it was taken from.
Released(q) == [slots EXCEPT ![query[q].slot].free = @ + 1]

Release(q) == slots' = IF Runs(q) THEN Released(q) ELSE slots

EndQuery(q) == query' = [query EXCEPT ![q] = [NoQuery EXCEPT !.at = "end"]]

(* The gates *)

AskQuery(q) == \E k \in Questions :
  /\ At(q, "none") /\ \A r \in Queries : r < q => ~At(r, "none")
  /\ query' = [query EXCEPT ![q].at = "gate", ![q].on = k]
  /\ UNCHANGED <<spent, kept, slots, nlWorld>>

CheckBudget(q) ==
  /\ At(q, "gate")
  /\ IF Cap > 0 /\ spent[today] # NoRow /\ spent[today] >= Cap THEN EndQuery(q)
     ELSE query' = [query EXCEPT ![q].at = "look up"]
  /\ UNCHANGED <<spent, kept, slots, nlWorld>>

\* A visitor gets the answer kept, unless it has expired.  (The count of its
\* hits, which it also writes, is left out.)
LookUpKept(q) ==
  /\ At(q, "look up")
  /\ LET entry == kept[query[q].on] IN
     IF entry # NoRow /\ entry.valid THEN EndQuery(q)
     ELSE query' = [query EXCEPT ![q].at = "enter"]
  /\ UNCHANGED <<spent, kept, slots, nlWorld>>

\* No corpus, or a provider that is not configured.
Misconfigured(q) ==
  /\ At(q, "enter")
  /\ EndQuery(q)
  /\ UNCHANGED <<spent, kept, slots, nlWorld>>

(* The slots *)

Fresh == [limit |-> limit, free |-> limit]

\* Another limit makes another semaphore, whoever holds the old one.
Resolved == IF slots = <<>> \/ Current.limit # limit THEN Append(slots, Fresh)
            ELSE slots

ResolveSemaphore(q) ==
  /\ At(q, "enter")
  /\ slots' = Resolved
  /\ query' = [query EXCEPT ![q].at = "wait", ![q].slot = Len(Resolved)]
  /\ UNCHANGED <<spent, kept, nlWorld>>

IsOpen(q) == slots[query[q].slot].free > 0

AcquireSlot(q) ==
  /\ At(q, "wait") /\ IsOpen(q)
  /\ slots' = [slots EXCEPT ![query[q].slot].free = @ - 1]
  /\ query' = [query EXCEPT ![q].at = "run"]
  /\ UNCHANGED <<spent, kept, nlWorld>>

OverCapacity(q) ==
  /\ At(q, "wait") /\ ~IsOpen(q)
  /\ EndQuery(q)
  /\ UNCHANGED <<spent, kept, slots, nlWorld>>

(* The run, and what is recorded of it *)

\* The rounds of the model and its tools; an error of the provider has the
\* cost of the rounds before it.
Orchestrate(q) == \E c \in {0, 1}, e \in BOOLEAN :
  /\ At(q, "run")
  /\ query' = [query EXCEPT ![q].at = "read day", ![q].cost = c, ![q].error = e]
  /\ UNCHANGED <<spent, kept, slots, nlWorld>>

ReadDay(q) ==
  /\ At(q, "read day")
  /\ query' = [query EXCEPT ![q].at = "write day", ![q].day = today,
                            ![q].had = spent[today]]
  /\ UNCHANGED <<spent, kept, slots, nlWorld>>

\* A transaction keeps the rows it wrote until it ends: the day's, from its
\* writing on, and that of the answer.
HoldsDay(q, d) == query[q].at \in {"read kept", "write kept", "commit"}
                    /\ query[q].day = d
HoldsKept(q, k) == At(q, "commit") /\ ~query[q].error /\ query[q].on = k

\* Two first queries of a day, or two that ask the same, both insert.
DayTaken(q) == query[q].had = NoRow /\ spent[query[q].day] # NoRow
KeptTaken(q) == query[q].insert /\ kept[query[q].on] # NoRow

FailQuery(q) == Release(q) /\ EndQuery(q)

WriteDay(q) ==
  /\ At(q, "write day") /\ \A r \in Queries : ~HoldsDay(r, query[q].day)
  /\ IF DayTaken(q) THEN FailQuery(q)
     ELSE /\ query' = [query EXCEPT ![q].at =
                         IF query[q].error THEN "commit" ELSE "read kept"]
          /\ UNCHANGED slots
  /\ UNCHANGED <<spent, kept, nlWorld>>

ReadKept(q) ==
  /\ At(q, "read kept")
  /\ query' = [query EXCEPT ![q].at = "write kept",
                            ![q].insert = (kept[query[q].on] = NoRow)]
  /\ UNCHANGED <<spent, kept, slots, nlWorld>>

WriteKept(q) ==
  /\ At(q, "write kept") /\ \A r \in Queries : ~HoldsKept(r, query[q].on)
  /\ IF KeptTaken(q) THEN FailQuery(q)
     ELSE query' = [query EXCEPT ![q].at = "commit"] /\ UNCHANGED slots
  /\ UNCHANGED <<spent, kept, nlWorld>>

\* Mutant: the cost is added to the row as the query had read it.
AddedToRead(q) == (IF query[q].had = NoRow THEN 0 ELSE query[q].had) + query[q].cost

\* The first query inserts the row with its cost; the UPDATE of another adds to
\* the row as it is, and not as the session had loaded it.
Added(q) == LET row == spent[query[q].day] IN
  (IF row = NoRow THEN 0 ELSE row) + query[q].cost

CommitQuery(q) ==
  /\ At(q, "commit")
  /\ spent' = [spent EXCEPT ![query[q].day] = Added(q)]
  /\ kept' = IF query[q].error THEN kept
             ELSE [kept EXCEPT ![query[q].on] = [by |-> q, valid |-> TRUE]]
  /\ query' = [query EXCEPT ![q] = [NoQuery EXCEPT !.at = "end", !.paid = TRUE,
                                 !.cost = query[q].cost, !.day = query[q].day]]
  /\ Release(q)
  /\ UNCHANGED nlWorld

\* The visitor leaves, or a statement or a tool fails.
DropQuery(q) ==
  /\ query[q].at \notin {"none", "end"}
  /\ drops < MaxDrops /\ drops' = drops + 1
  /\ FailQuery(q)
  /\ UNCHANGED <<today, limit, spent, kept>>

(* Around the queries *)

ChangeLimit == \E l \in Limits :
  /\ l # limit /\ limit' = l
  /\ UNCHANGED <<today, drops, spent, kept, slots, query>>

Midnight ==
  /\ today < MaxDay /\ today' = today + 1
  /\ UNCHANGED <<limit, drops, spent, kept, slots, query>>

ExpireKept(k) ==
  /\ kept[k] # NoRow /\ kept[k].valid
  /\ kept' = [kept EXCEPT ![k].valid = FALSE]
  /\ UNCHANGED <<spent, slots, query, nlWorld>>

\* The day may have queries already, that have cost nothing.
NlSearchInit ==
  /\ today = 0 /\ limit \in Limits /\ drops = 0
  /\ spent \in {[d \in Days |-> NoRow], [[d \in Days |-> NoRow] EXCEPT ![0] = 0]}
  /\ kept = [k \in Questions |-> NoRow]
  /\ slots = <<>>
  /\ query = [q \in Queries |-> NoQuery]

NlSearchNext ==
  \/ \E q \in Queries :
       \/ AskQuery(q) \/ CheckBudget(q) \/ LookUpKept(q) \/ Misconfigured(q)
       \/ ResolveSemaphore(q) \/ AcquireSlot(q) \/ OverCapacity(q)
       \/ Orchestrate(q) \/ ReadDay(q) \/ WriteDay(q) \/ ReadKept(q)
       \/ WriteKept(q) \/ CommitQuery(q) \/ DropQuery(q)
  \/ ChangeLimit \/ Midnight
  \/ \E k \in Questions : ExpireKept(k)

NlSearchSpec == NlSearchInit /\ [][NlSearchNext]_nlVars

-----------------------------------------------------------------------------
(* Properties *)

Cost(d) == IF spent[d] = NoRow THEN 0 ELSE spent[d]

\* The queries whose cost was recorded on day d.
Charged(d) == {q \in Queries :
  query[q].paid /\ query[q].cost = 1 /\ query[q].day = d}

\* Each day has cost what the queries recorded on it have, however they
\* overlapped and across midnight, and an answer is in the cache only if its
\* cost was recorded.
SpendAddsUp ==
  /\ \A d \in Days : Cost(d) = Cardinality(Charged(d))
  /\ \A k \in Questions : kept[k] # NoRow => query[kept[k].by].paid

\* The slots taken of a semaphore are those of the queries that run under it:
\* one that fails, or is left by its visitor, after the setting has changed
\* loses no slot for good and gives back none of another semaphore's, which
\* would let more queries run than its limit.
SlotsComeBack == \A i \in DOMAIN slots : slots[i].limit =
  slots[i].free + Cardinality({q \in Queries : Runs(q) /\ query[q].slot = i})
=============================================================================
