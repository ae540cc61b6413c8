---------------------------- MODULE MCPositionsApi -----------------------------
(***************************************************************************)
(* Two requests at a time, with the token of a user that stands for the    *)
(* address of an admin or with that of the admin, each of them naming an   *)
(* address to act for or none. Selections are of fields that differ in     *)
(* where they are declared and in what is nullable, with token fields that *)
(* have a value in all tokens, in some and in none.                        *)
(***************************************************************************)
EXTENDS PositionsApi

MCSigner == [token \in {"userToken", "adminToken"} |->
                IF token = "userToken" THEN "user" ELSE "admin"]
MCAddressOf == [token \in {"userToken", "adminToken"} |-> "admin"]
MCPositions == SamplePositions

MCFieldChoices == {{"address"}, {"token"}, {"firstToken"}, {"address", "token", "secondToken"}}
MCTokenFieldChoices == {{"identifier"}, {"name", "price"}, {"identifier", "decimals"}}
=============================================================================
