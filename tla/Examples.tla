------------------------------ MODULE Examples ------------------------------
(***************************************************************************)
(* Reading the list of examples page by page (mx-portfolio-pilot-service,  *)
(* example.controller.ts, example.service.ts). A page is cut, with the     *)
(* slice of JavaScript, out of the matches of a search; nothing ties one   *)
(* page to the next, and while a new build is rolled out a page may come   *)
(* from a list the page before did not come from. Which lists there are is *)
(* what ServedLists allows, and CacheWarming implements it. A client walks *)
(* through the pages until one is not full, and then looks examples up;    *)
(* reading changes nothing, so one client is enough.                       *)
(*                                                                         *)
(* A description is the set of the search texts it contains; upper and     *)
(* lower case are the same to the search.                                  *)
(***************************************************************************)
EXTENDS Integers, Sequences, SequencesExt

CONSTANTS
    Lists,    \* the list of each build, one after the other
    Searches, \* search texts, with NoSearch
    NoSearch,
    Froms,    \* what clients pass for from and size: any integer passes ParseIntPipe
    Sizes

ASSUME ExamplesAssumption ==
    /\ Lists # << >> /\ \A list \in Range(Lists) : list \in Seq(Range(list))
    /\ NoSearch \in Searches
    /\ Froms \subseteq Int /\ Sizes \subseteq Int

Builds == DOMAIN Lists
Listed == UNION {Range(list) : list \in Range(Lists)}

VARIABLES
    live,  \* builds whose list some cache still serves
    walk,  \* a client's walk: search, page size, examples so far, lists they came from
    answer \* the last answer to a single request, with the request

examplesVars == <<live, walk, answer>>

Served == INSTANCE ServedLists

NoAnswer == [request |-> "none"]

ExamplesInit ==
    /\ Served!Init
    /\ walk = [pc |-> "idle"]
    /\ answer = NoAnswer

-----------------------------------------------------------------------------
\* Where an argument of slice points in a list of length n.
Relative(i, n) == IF i < 0 THEN (IF n + i < 0 THEN 0 ELSE n + i)
                           ELSE (IF i > n THEN n ELSE i)

Slice(list, from, to) ==
    SubSeq(list, Relative(from, Len(list)) + 1, Relative(to, Len(list)))

\* The filter of JavaScript: those of a list that are wanted, in the list's order.
Filter(list, wanted) ==
    FoldLeft(LAMBDA found, example :
                IF example \in wanted THEN Append(found, example) ELSE found, << >>, list)

Matches(list, search) ==
    Filter(list, {example \in Range(list) :
                     search = NoSearch \/ search \in example.description})

\* Mutants: an end of 0 taken for none, from taken for the number of a page, and a page cut
\* before the search.
GetExamplesToTheEnd(list, from, size, search) ==
    LET matches == Matches(list, search)
    IN  Slice(matches, from, IF from + size = 0 THEN Len(matches) ELSE from + size)

GetExamplesByPage(list, from, size, search) ==
    Slice(Matches(list, search), from * size, from * size + size)

GetExamplesThenSearch(list, from, size, search) ==
    Matches(Slice(list, from, from + size), search)

GetExamples(list, from, size, search) ==
    Slice(Matches(list, search), from, from + size)

\* The examples with this id that getExample finds: the first, if there is one.
GetExample(list, id) == Slice(Filter(list, {example \in Range(list) : example.id = id}), 0, 1)

-----------------------------------------------------------------------------
\* A client starts to walk, with a page size that makes sense.
StartWalk(search, size) ==
    /\ walk.pc = "idle"
    /\ size > 0
    /\ walk' = [pc |-> "walking", search |-> search, size |-> size,
                collected |-> << >>, seen |-> {}]
    /\ answer' = NoAnswer
    /\ UNCHANGED live

NextPage(build) ==
    /\ walk.pc = "walking"
    /\ build \in live
    /\ LET page == GetExamples(Lists[build], Len(walk.collected), walk.size, walk.search)
       IN  walk' = [walk EXCEPT !.pc = IF Len(page) < walk.size THEN "ended" ELSE "walking",
                                !.collected = @ \o page,
                                !.seen = @ \cup {build}]
    /\ UNCHANGED <<live, answer>>

EndWalk ==
    /\ walk.pc = "ended"
    /\ walk' = [pc |-> "idle"]
    /\ UNCHANGED <<live, answer>>

\* GET /examples with any numbers.
ListExamples(build, from, size, search) ==
    /\ walk.pc = "idle"
    /\ build \in live
    /\ answer' = [request |-> "list", build |-> build, from |-> from, size |-> size,
                  search |-> search, body |-> GetExamples(Lists[build], from, size, search)]
    /\ UNCHANGED <<live, walk>>

\* GET /examples/:id, of an example the walk has listed. An empty body is a 404.
ShowExample(build, listed) ==
    /\ walk.pc = "ended"
    /\ build \in live
    /\ listed \in Range(walk.collected)
    /\ LET found == GetExample(Lists[build], listed.id)
       IN  answer' = [request |-> "show", listed |-> listed, build |-> build, body |-> found]
    /\ UNCHANGED <<live, walk>>

-----------------------------------------------------------------------------
\* Lists come and go as CacheWarming lets them.
Deploy == Served!Turnover /\ UNCHANGED <<walk, answer>>

ExamplesNext ==
    \/ \E search \in Searches, size \in Sizes : StartWalk(search, size)
    \/ \E build \in Builds : NextPage(build)
    \/ EndWalk
    \/ \E build \in Builds, from \in Froms, size \in Sizes, search \in Searches :
          ListExamples(build, from, size, search)
    \/ \E build \in Builds :
          \E listed \in Listed : ShowExample(build, listed)
    \/ Deploy

ExamplesSpec == ExamplesInit /\ [][ExamplesNext]_examplesVars

-----------------------------------------------------------------------------
\* A walk whose pages all came from one list has every match once, in the list's order,
\* for every page size and search: pages are cut after the search and fit each other.
UndisturbedWalksAreComplete ==
    \A build \in Builds :
        walk.pc = "ended" /\ walk.seen = {build}
            => walk.collected = Matches(Lists[build], walk.search)

\* Also a walk through a deployment has in each place the match that one of its lists has
\* there: what both lists have in the same place is neither lost nor doubled.
PlacesAreKept ==
    walk.pc # "idle" =>
        \A i \in DOMAIN walk.collected :
            \E build \in walk.seen : LET matches == Matches(Lists[build], walk.search)
                                     IN  i <= Len(matches) /\ walk.collected[i] = matches[i]

\* A page has at most size examples, wherever from points, before the start of the list
\* and past its end included. (For a negative size, which the controller lets through,
\* there are more: -1 stands for all but the last.)
PagesHaveAtMostSize ==
    (answer.request = "list" /\ answer.size >= 0) => Len(answer.body) <= answer.size
=============================================================================
