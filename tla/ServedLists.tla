----------------------------- MODULE ServedLists -----------------------------
(***************************************************************************)
(* What the caches of the examples promise to who reads them: an answer    *)
(* comes from a list that is about, in a cache or in the code of a running *)
(* process. A list comes up only with the deployment of its build, to a    *)
(* process that ran an older one or the same, and a list that has gone for *)
(* good does not come back. CacheWarming implements this; Examples reads   *)
(* lists under it.                                                         *)
(***************************************************************************)
EXTENDS Naturals

CONSTANT Builds

VARIABLE live \* builds whose list is about

Init == live = {1}

\* Lists go, and perhaps one comes up.
Turnover ==
    \E next \in Builds :
        /\ \E present \in live : present <= next
        /\ live' \in (SUBSET (live \cup {next})) \ {{}}

Spec == Init /\ [][Turnover]_live
=============================================================================
