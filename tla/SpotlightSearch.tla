-------------------------- MODULE SpotlightSearch ---------------------------
(* Searching everything (components/spotlight-search.tsx, searchSpotlight in
   lib/api.ts): each change of the query aborts the search before it and,
   after a pause, starts one of its own, whose answer is a stream of batches
   from the history and from the workspace's files, in any order.  The results
   of the query before stay until the first batch comes. *)
EXTENDS Naturals, FiniteSets

CONSTANTS
  Queries,
  Hits,      \* the results of each query: records of a source and a kind
  SearchBounds     \* bound: queries typed, batches that fail, filters chosen

VARIABLES
  open, query,
  due,                     \* the pause after typing has not run out
  streams,                 \* the searches under way, the aborted ones included
  results, settled, error, filter,   \* what is shown
  searchSpent

shown == <<results, settled, error, filter>>
searchVars == <<open, query, due, streams, shown, searchSpent>>

SearchSpends(kind) ==
  searchSpent[kind] < SearchBounds[kind] /\ searchSpent' = [searchSpent EXCEPT ![kind] = @ + 1]
Free == searchSpent' = searchSpent

NoQuery == "none"
Sources == {"history", "workspace"}
Kinds == {"session", "message", "file"}
HitsFrom(q, source) == {r \in Hits[q] : r.source = source}

Reset == results' = {} /\ settled' = FALSE /\ error' = FALSE /\ filter' = "all"

SearchInit ==
  /\ open = FALSE /\ query = NoQuery /\ due = FALSE /\ streams = {}
  /\ results = {} /\ settled = FALSE /\ error = FALSE /\ filter = "all"
  /\ searchSpent = [kind \in DOMAIN SearchBounds |-> 0]

-----------------------------------------------------------------------------
Aborted == {[s EXCEPT !.aborted = TRUE] : s \in streams}

Open == ~open /\ open' = TRUE /\ Free /\ UNCHANGED <<query, due, streams, shown>>

Close ==
  /\ open /\ open' = FALSE /\ query' = NoQuery /\ due' = FALSE /\ streams' = Aborted
  /\ Reset /\ Free

Type(q) ==
  /\ open /\ q # query /\ SearchSpends("queries")
  /\ query' = q /\ streams' = Aborted /\ due' = (q # NoQuery)
  /\ IF q = NoQuery THEN Reset ELSE UNCHANGED shown
  /\ UNCHANGED open

(* The pause has run out. *)
Ask ==
  /\ due /\ due' = FALSE /\ error' = FALSE /\ Free
  /\ streams' = streams \cup {[query |-> query, from |-> Sources, aborted |-> FALSE,
                               results |-> {}, fatal |-> FALSE, number |-> searchSpent.queries]}
  /\ UNCHANGED <<open, query, results, settled, filter>>

(* Mutant: whatever arrives is shown. *)
PublishAll(s) ==
  /\ results' = s.results /\ settled' = TRUE
  /\ filter' = IF \E r \in s.results : r.kind = filter THEN filter ELSE "all"
  /\ UNCHANGED error

(* A search that shows its results so far; an aborted one shows nothing. *)
Publish(s) ==
  IF s.aborted THEN UNCHANGED shown
  ELSE /\ results' = s.results /\ settled' = TRUE
       /\ filter' = IF \E r \in s.results : r.kind = filter THEN filter ELSE "all"
       /\ UNCHANGED error

Merged(s, source) ==
  [s EXCEPT !.from = @ \ {source}, !.results = @ \cup HitsFrom(s.query, source)]

Batch(s, source) ==
  /\ source \in s.from /\ Free
  /\ LET t == Merged(s, source)
     IN /\ streams' = (streams \ {s}) \cup {t}
        /\ IF t.results = s.results THEN UNCHANGED shown ELSE Publish(t)
  /\ UNCHANGED <<open, query, due>>

(* The files could not be searched: the history's results stand.  The history
   could not: the search fails when its stream ends. *)
BatchFails(s, source) ==
  /\ source \in s.from /\ SearchSpends("failures")
  /\ LET t == [s EXCEPT !.from = @ \ {source}, !.fatal = @ \/ source = "history"]
     IN /\ streams' = (streams \ {s}) \cup {t}
        /\ IF source = "history" THEN UNCHANGED shown ELSE Publish(t)
  /\ UNCHANGED <<open, query, due>>

Failed(s) ==
  IF s.aborted THEN UNCHANGED shown
  ELSE results' = {} /\ error' = TRUE /\ settled' = TRUE /\ UNCHANGED filter

End(s) ==
  /\ s.from = {} /\ streams' = streams \ {s} /\ Free
  /\ IF s.fatal THEN Failed(s) ELSE Publish(s)
  /\ UNCHANGED <<open, query, due>>

(* The stream breaks off. *)
Broken(s) ==
  /\ SearchSpends("failures") /\ streams' = streams \ {s} /\ Failed(s)
  /\ UNCHANGED <<open, query, due>>

Expanded == settled /\ query # NoQuery
Visible == IF filter = "all" THEN results ELSE {r \in results : r.kind = filter}

Filter(kind) ==
  /\ open /\ Expanded /\ ~error
  /\ kind = "all" \/ \E r \in results : r.kind = kind
  /\ kind # filter /\ SearchSpends("filters") /\ filter' = kind
  /\ UNCHANGED <<open, query, due, streams, results, settled, error>>

(* A result is chosen: the dialog closes. *)
Choose == Visible # {} /\ Close

SearchNext ==
  \/ Open \/ Close \/ Ask \/ Choose
  \/ \E q \in Queries \cup {NoQuery} : Type(q)
  \/ \E s \in streams : End(s) \/ Broken(s)
                        \/ \E f \in Sources : Batch(s, f) \/ BatchFails(s, f)
  \/ \E kind \in Kinds \cup {"all"} : Filter(kind)

SearchSpec == SearchInit /\ [][SearchNext]_searchVars

-----------------------------------------------------------------------------
Resting == open /\ query # NoQuery /\ ~due /\ \A s \in streams : s.aborted

(* Once the search for the query is over, what is shown is its answer: the
   results are the query's own, those of the history are all there, and the
   filter kept from the query before does not hide them all.  Whatever came
   late from the searches before, and whatever failed. *)
AnswerIsTheQuerys ==
  Resting =>
    /\ settled /\ results \subseteq Hits[query]
    /\ ~error => HitsFrom(query, "history") \subseteq results
    /\ results # {} => Visible # {}
=============================================================================
