----------------------------- MODULE MCEndpoints ------------------------------
(***************************************************************************)
(* The endpoints that share no state with each other: users and tokens,    *)
(* the examples, and the queries of contracts and of the DEX. As nothing   *)
(* one of them does is seen by another, each moves alone here, with the    *)
(* others where they begin.                                                *)
(*                                                                         *)
(* Documents: users with names and without, tokens with an identifier, one *)
(* without, and one with a path the schema does not have. Examples: three  *)
(* builds; the list of the first has an id twice, as the code's list has   *)
(* ("adipisicing" and "amet"), the second puts an example in front, the    *)
(* third is shorter; pages are empty, shorter and longer than a list.      *)
(* Queries: addresses of three bytes, among them zero, one digit and the   *)
(* first with two; a universal token with tokens of both chains, one       *)
(* without any, and a token of no universal one.                           *)
(***************************************************************************)
EXTENDS Documents, Examples, UpstreamQueries, TLC

MCUserBodies == {<< >>, [firstName |-> "first", lastName |-> "last"]}
MCTokenBodies == {[identifier |-> "WEGLD"], [name |-> "wrapped"],
                  [identifier |-> "MEX", name |-> "mex", price |-> "1"]}

Example(id, words) == [id |-> id, description |-> words]

FirstList == <<Example("magna", {"sint"}), Example("amet", {"sint", "dolor"}),
               Example("elit", {}), Example("amet", {"dolor"})>>

MCLists == <<FirstList, <<Example("new", {"dolor"})>> \o FirstList,
             <<Example("magna", {"sint"})>> >>
MCFroms == {-3, -1, 0, 1, 4}
MCSizes == {-1, 0, 1, 2, 25}

MCErc20 == ("eth1" :> <<0, 15, 16>>) @@ ("bsc1" :> <<255, 1, 0>>) @@ ("bsc2" :> <<7>>)
MCUniversal == ("usdc" :> <<"eth1", "bsc1">>) @@ ("lone" :> << >>)
MCEdgeLists == {"none", "pairs"}

-----------------------------------------------------------------------------
Init == DocumentsInit /\ ExamplesInit /\ QueriesInit

\* The directory of ABIs matters to the queries only.
NoQueries == abis = {} /\ call = [c \in Callers |-> [pc |-> "idle"]]

Next ==
    \/ ExamplesInit /\ NoQueries /\ DocumentsNext /\ UNCHANGED <<examplesVars, queriesVars>>
    \/ DocumentsInit /\ NoQueries /\ ExamplesNext /\ UNCHANGED <<documentsVars, queriesVars>>
    \/ DocumentsInit /\ ExamplesInit /\ QueriesNext /\ UNCHANGED <<documentsVars, examplesVars>>

\* Requests, ids and callers are alike.
Symmetry == Permutations(Requests) \cup Permutations(Ids) \cup Permutations(Callers)

Spec == Init /\ [][Next]_<<documentsVars, examplesVars, queriesVars>>
=============================================================================
