----------------------------- MODULE PositionsApi ------------------------------
(***************************************************************************)
(* The query userPositions from the request to the answer: the guards and  *)
(* the resolver of PositionsQuery, and behind them the answer of           *)
(* PositionsAnswer, which every request gets whether it was let in or not. *)
(***************************************************************************)
EXTENDS PositionsQuery, PositionsAnswer

ASSUME SamplesAssumption == Positions = SamplePositions

apiVars == <<vars, answer>>

ApiInit == Init /\ answer = Null

Arrive(r) ==
    /\ \E headers \in Headers : Send(r, headers)
    /\ answer' = Null

\* A guard's step, and the refusal if it is the last.
Guard(r) ==
    /\ CanActivate(r) \/ ValidateFulfilled(r) \/ ValidateRejected(r)
    /\ IF request'[r].pc = "done" THEN Refuse(request'[r].status) ELSE answer' = Null

Resolve(r) ==
    /\ ResolvePositions(r)
    /\ Execute(request'[r].positions)

Pass(token) == Expire(token) /\ answer' = Null

Serve(r) == Guard(r) \/ Resolve(r)

ApiNext ==
    \/ \E r \in Requests : Arrive(r) \/ Serve(r)
    \/ \E token \in Tokens : Pass(token)

\* Callbacks run in the end, and a validation settles one way or the other.
ApiSpec == ApiInit /\ [][ApiNext]_apiVars /\ \A r \in Requests : WF_apiVars(Serve(r))

=============================================================================
