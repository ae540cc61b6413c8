---------------------------- MODULE PositionsQuery ----------------------------
(***************************************************************************)
(* The GraphQL query userPositions of the API and the guards before it     *)
(* (mx-portfolio-pilot-service, libs/services/src/auth): a request names a *)
(* native-auth token and perhaps an address to act for, which only admins  *)
(* may, and is answered under the identity that comes of both.             *)
(*                                                                         *)
(* Node runs one callback at a time; requests interleave where the native  *)
(* guard awaits the validation of the token, and the guard keeps the       *)
(* address to act for in a field of its own over that wait.                *)
(***************************************************************************)

CONSTANTS
    Requests,   \* requests open at a time
    Tokens,
    Signer,     \* signerAddress of each token
    AddressOf,  \* address of each token; the signer's, unless the SDK lets it differ
    Addresses,
    Admins,     \* config security.admins
    NoHeader,
    Positions   \* the positions the service answers with

ASSUME QueryAssumption ==
    /\ Signer \in [Tokens -> Addresses]
    /\ AddressOf \in [Tokens -> Addresses]
    /\ Admins \subseteq Addresses
    /\ NoHeader \notin Tokens \cup Addresses

VARIABLES
    request,            \* headers and progress of each request
    impersonateAddress, \* the field of each NativeAuthGuard
    expired             \* tokens past their time

vars == <<request, impersonateAddress, expired>>

Headers == [authorization : Tokens \cup {NoHeader}, impersonate : Addresses \cup {NoHeader}]

Init ==
    /\ request = [r \in Requests |-> [pc |-> "idle"]]
    /\ impersonateAddress = [guard \in Requests |-> NoHeader]
    /\ expired = {}

-----------------------------------------------------------------------------
\* Mutant: one guard for all requests.
SharedGuard(r) == CHOOSE guard \in Requests : TRUE

\* JwtOrNativeAuthGuard makes its guards anew for every request.
NativeGuardOf(r) == r

\* Mutant: the JWT guard accepts.
AcceptAll == TRUE

\* The JWT guard accepts nothing: its body is commented out.
GqlAuthGuard == FALSE

\* Whose data the request is about: the token's address, or for an admin who signed it
\* the address asked for.
Identity(token, impersonate) ==
    IF impersonate # NoHeader /\ Signer[token] \in Admins THEN impersonate
                                                       ELSE AddressOf[token]

\* A client opens a request, in a slot that is free.
Send(r, headers) ==
    /\ request[r].pc \in {"idle", "done"}
    /\ request' = [request EXCEPT ![r] = [pc |-> "guard", headers |-> headers]]
    /\ UNCHANGED <<impersonateAddress, expired>>

\* Mutant: an exception of a guard nobody answers.
SwallowUnauthorized(r) ==
    /\ request[r].pc = "guard"
    /\ impersonateAddress' =
          [impersonateAddress EXCEPT ![NativeGuardOf(r)] = request[r].headers.impersonate]
    /\ request[r].headers.authorization # NoHeader
    /\ request' = [request EXCEPT ![r].pc = "validate"]
    /\ UNCHANGED expired

\* Both guards start. The native one throws on a request without a token: its promise
\* is rejected, which the try block around the call does not catch and Promise.all
\* passes on. Otherwise it remembers the address and awaits the validation.
CanActivate(r) ==
    /\ request[r].pc = "guard"
    /\ impersonateAddress' =
          [impersonateAddress EXCEPT ![NativeGuardOf(r)] = request[r].headers.impersonate]
    /\ request' = [request EXCEPT ![r] =
          IF request[r].headers.authorization = NoHeader
          THEN [pc |-> "done", headers |-> request[r].headers, status |-> "unauthorized"]
          ELSE [pc |-> "validate", headers |-> request[r].headers]]
    /\ UNCHANGED expired

\* The token is found valid: what follows the await runs at once.
ValidateFulfilled(r) ==
    /\ request[r].pc = "validate"
    /\ LET token == request[r].headers.authorization
       IN  /\ token \notin expired
           /\ request' = [request EXCEPT ![r] =
                 [pc |-> "resolve", headers |-> request[r].headers,
                  auth |-> Identity(token, impersonateAddress[NativeGuardOf(r)])]]
    /\ UNCHANGED <<impersonateAddress, expired>>

\* The token is not valid, or the gateway or the cache behind the validation fails:
\* the native guard says no, and the answer is up to the other one.
ValidateRejected(r) ==
    /\ request[r].pc = "validate"
    /\ request' = [request EXCEPT ![r] =
          IF GqlAuthGuard
          THEN [pc |-> "resolve", headers |-> request[r].headers, auth |-> NoHeader]
          ELSE [pc |-> "done", headers |-> request[r].headers, status |-> "forbidden"]]
    /\ UNCHANGED <<impersonateAddress, expired>>

\* The service knows only sample positions as yet, the same for every address.
UserPositions(address) == Positions

\* The identity the guard left in the request.
AuthUser(r) == request[r].auth

ResolvePositions(r) ==
    /\ request[r].pc = "resolve"
    /\ request' = [request EXCEPT ![r] =
          [pc |-> "done", headers |-> request[r].headers, status |-> "answered",
           auth |-> AuthUser(r), positions |-> UserPositions(AuthUser(r))]]
    /\ UNCHANGED <<impersonateAddress, expired>>

Expire(token) ==
    /\ token \notin expired
    /\ expired' = expired \cup {token}
    /\ UNCHANGED <<request, impersonateAddress>>

Handle(r) == \/ CanActivate(r) \/ ValidateFulfilled(r) \/ ValidateRejected(r)
             \/ ResolvePositions(r)

Next ==
    \/ \E r \in Requests : Handle(r) \/ \E headers \in Headers : Send(r, headers)
    \/ \E token \in Tokens : Expire(token)

\* Callbacks run in the end, and a validation settles one way or the other.
Spec == Init /\ [][Next]_vars /\ \A r \in Requests : WF_vars(Handle(r))

-----------------------------------------------------------------------------
Answered(r) == request[r].pc = "done" /\ request[r].status = "answered"

\* Every request is a record of the stage it is in.
TypeOK ==
    /\ request \in [Requests ->
          [pc : {"idle"}]
          \cup [pc : {"guard", "validate"}, headers : Headers]
          \cup [pc : {"resolve"}, headers : Headers, auth : Addresses]
          \cup [pc : {"done"}, headers : Headers, status : {"unauthorized", "forbidden"}]
          \cup [pc : {"done"}, headers : Headers, status : {"answered"},
                auth : Addresses, positions : {Positions}]]
    /\ impersonateAddress \in [Requests -> Addresses \cup {NoHeader}]
    /\ expired \subseteq Tokens

\* A request is answered under the identity its own two headers give it, whatever
\* requests come in while its token is being validated: the field the native guard
\* sets before the await (native.auth.guard.ts:57) and reads after it (:90) holds no
\* other request's address by then.
AnsweredUnderOwnIdentity ==
    \A r \in Requests : Answered(r) =>
        /\ request[r].headers.authorization # NoHeader
        /\ request[r].auth = Identity(request[r].headers.authorization,
                                      request[r].headers.impersonate)

\* Every request is answered or refused, also where a guard throws.
EveryRequestEnds ==
    \A r \in Requests : request[r].pc = "guard" ~> request[r].pc = "done"
=============================================================================
