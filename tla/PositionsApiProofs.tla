-------------------------- MODULE PositionsApiProofs --------------------------
(***************************************************************************)
(* Whose data a request is answered with, and what a client gets of it,    *)
(* for any number of requests, tokens and addresses and any selection of   *)
(* fields. The property of identities speaks of answers alone; what makes  *)
(* it inductive is that a guard's field holds its own request's header     *)
(* while the request waits, and that the identity is settled before the    *)
(* resolver runs. Those of the answer rest on how the samples fit the      *)
(* schema: they have a value for every field of their type, and what they  *)
(* lack is in the fields of tokens.                                        *)
(***************************************************************************)
EXTENDS PositionsApi, TLAPS

Owed(r) == Identity(request[r].headers.authorization, request[r].headers.impersonate)

FieldIsOwnHeader ==
    \A r \in Requests : request[r].pc = "validate" =>
        /\ request[r].headers.authorization # NoHeader
        /\ impersonateAddress[r] = request[r].headers.impersonate

ResolvedAsOwed ==
    \A r \in Requests : request[r].pc = "resolve" =>
        /\ request[r].headers.authorization # NoHeader
        /\ request[r].auth = Owed(r)

QueryInv == TypeOK /\ FieldIsOwnHeader /\ ResolvedAsOwed /\ AnsweredUnderOwnIdentity

-----------------------------------------------------------------------------
\* Acting for an address never leads outside the known addresses.
LEMMA IdentityIsAddress ==
    ASSUME NEW token \in Tokens, NEW impersonate \in Addresses \cup {NoHeader}
    PROVE  Identity(token, impersonate) \in Addresses
<1>1. AddressOf[token] \in Addresses  BY QueryAssumption
<1> QED  BY <1>1 DEF Identity

LEMMA QueryInit == Init => QueryInv
<1> SUFFICES ASSUME Init PROVE QueryInv  OBVIOUS
<1>1. \A r \in Requests : request[r] = [pc |-> "idle"]  BY DEF Init
<1>2. TypeOK  BY DEF Init, TypeOK
<1>3. FieldIsOwnHeader /\ ResolvedAsOwed /\ AnsweredUnderOwnIdentity
    BY <1>1 DEF FieldIsOwnHeader, ResolvedAsOwed, AnsweredUnderOwnIdentity, Answered
<1> QED  BY <1>2, <1>3 DEF QueryInv

\* A step keeps the invariant once the one request it moves satisfies it.
LEMMA OneRequestMoves ==
    ASSUME QueryInv, NEW r \in Requests, NEW moved,
           request' = [request EXCEPT ![r] = moved],
           TypeOK',
           \A q \in Requests \ {r} : impersonateAddress'[q] = impersonateAddress[q],
           moved.pc = "validate" =>
              moved.headers.authorization # NoHeader
              /\ impersonateAddress'[r] = moved.headers.impersonate,
           (moved.pc = "resolve" \/ (moved.pc = "done" /\ moved.status = "answered")) =>
              moved.headers.authorization # NoHeader
              /\ moved.auth = Identity(moved.headers.authorization, moved.headers.impersonate)
    PROVE  QueryInv'
<1>1. request'[r] = moved  BY DEF QueryInv, TypeOK
<1>2. \A q \in Requests \ {r} : request'[q] = request[q]  BY DEF QueryInv, TypeOK
<1>3. FieldIsOwnHeader'  BY <1>1, <1>2 DEF QueryInv, FieldIsOwnHeader
<1>4. ResolvedAsOwed'  BY <1>1, <1>2 DEF QueryInv, ResolvedAsOwed, Owed, Identity
<1>5. AnsweredUnderOwnIdentity'
    BY <1>1, <1>2 DEF QueryInv, AnsweredUnderOwnIdentity, Answered, Identity
<1> QED  BY <1>3, <1>4, <1>5 DEF QueryInv

LEMMA QueryStep == QueryInv /\ [Next]_vars => QueryInv'
<1> SUFFICES ASSUME QueryInv, [Next]_vars PROVE QueryInv'  OBVIOUS
<1> USE DEF QueryInv
<1>1. ASSUME NEW r \in Requests, NEW headers \in Headers, Send(r, headers) PROVE QueryInv'
  <2> DEFINE moved == [pc |-> "guard", headers |-> headers]
  <2>1. request' = [request EXCEPT ![r] = moved]  BY <1>1 DEF Send
  <2>2. TypeOK'  BY <1>1 DEF Send, TypeOK
  <2>3. UNCHANGED impersonateAddress  BY <1>1 DEF Send
  <2> QED  BY <2>1, <2>2, <2>3, OneRequestMoves
<1>2. ASSUME NEW r \in Requests, CanActivate(r) PROVE QueryInv'
  <2> DEFINE headers == request[r].headers
  <2>1. headers \in Headers  BY <1>2 DEF CanActivate, TypeOK
  <2>2. impersonateAddress' = [impersonateAddress EXCEPT ![r] = headers.impersonate]
      BY <1>2 DEF CanActivate, NativeGuardOf
  <2>3. impersonateAddress'[r] = headers.impersonate
        /\ \A q \in Requests \ {r} : impersonateAddress'[q] = impersonateAddress[q]
      BY <2>2 DEF TypeOK
  <2>4. (impersonateAddress \in [Requests -> Addresses \cup {NoHeader}])'
      BY <2>1, <2>2 DEF TypeOK, Headers
  <2>5. UNCHANGED expired  BY <1>2 DEF CanActivate
  <2>6. CASE headers.authorization = NoHeader
    <3> DEFINE moved == [pc |-> "done", headers |-> headers, status |-> "unauthorized"]
    <3>1. request' = [request EXCEPT ![r] = moved]  BY <1>2, <2>6 DEF CanActivate
    <3>2. TypeOK'  BY <2>1, <2>4, <2>5, <3>1 DEF TypeOK
    <3> QED  BY <2>3, <3>1, <3>2, OneRequestMoves
  <2>7. CASE headers.authorization # NoHeader
    <3> DEFINE moved == [pc |-> "validate", headers |-> headers]
    <3>1. request' = [request EXCEPT ![r] = moved]  BY <1>2, <2>7 DEF CanActivate
    <3>2. TypeOK'  BY <2>1, <2>4, <2>5, <3>1 DEF TypeOK
    <3> QED  BY <2>3, <2>7, <3>1, <3>2, OneRequestMoves
  <2> QED  BY <2>6, <2>7
<1>3. ASSUME NEW r \in Requests, ValidateFulfilled(r) PROVE QueryInv'
  <2> DEFINE headers == request[r].headers
             moved == [pc |-> "resolve", headers |-> headers, auth |-> Owed(r)]
  <2>1. headers \in Headers  BY <1>3 DEF ValidateFulfilled, TypeOK
  <2>2. headers.authorization # NoHeader
        /\ impersonateAddress[NativeGuardOf(r)] = headers.impersonate
      BY <1>3 DEF ValidateFulfilled, FieldIsOwnHeader, NativeGuardOf
  <2>3. request' = [request EXCEPT ![r] = moved]
      BY <1>3, <2>2 DEF ValidateFulfilled, Owed
  <2>4. headers.authorization \in Tokens /\ headers.impersonate \in Addresses \cup {NoHeader}
      BY <2>1, <2>2 DEF Headers
  <2>5. Owed(r) \in Addresses  BY <2>4, IdentityIsAddress DEF Owed
  <2>6. UNCHANGED <<impersonateAddress, expired>>  BY <1>3 DEF ValidateFulfilled
  <2>7. TypeOK'  BY <2>1, <2>3, <2>5, <2>6 DEF TypeOK
  <2> QED  BY <2>2, <2>3, <2>6, <2>7, OneRequestMoves DEF Owed
<1>4. ASSUME NEW r \in Requests, ValidateRejected(r) PROVE QueryInv'
  <2> DEFINE moved == [pc |-> "done", headers |-> request[r].headers, status |-> "forbidden"]
  <2>1. request[r].headers \in Headers  BY <1>4 DEF ValidateRejected, TypeOK
  <2>2. request' = [request EXCEPT ![r] = moved]  BY <1>4 DEF ValidateRejected, GqlAuthGuard
  <2>3. UNCHANGED <<impersonateAddress, expired>>  BY <1>4 DEF ValidateRejected
  <2>4. TypeOK'  BY <2>1, <2>2, <2>3 DEF TypeOK
  <2> QED  BY <2>2, <2>3, <2>4, OneRequestMoves
<1>5. ASSUME NEW r \in Requests, ResolvePositions(r) PROVE QueryInv'
  <2> DEFINE old == request[r]
             moved == [pc |-> "done", headers |-> old.headers, status |-> "answered",
                       auth |-> old.auth, positions |-> Positions]
  <2>1. old.headers \in Headers /\ old.auth \in Addresses  BY <1>5 DEF ResolvePositions, TypeOK
  <2>2. request' = [request EXCEPT ![r] = moved]
      BY <1>5 DEF ResolvePositions, AuthUser, UserPositions
  <2>3. UNCHANGED <<impersonateAddress, expired>>  BY <1>5 DEF ResolvePositions
  <2>4. TypeOK'  BY <2>1, <2>2, <2>3 DEF TypeOK
  <2>5. old.headers.authorization # NoHeader /\ old.auth = Owed(r)
      BY <1>5 DEF ResolvePositions, ResolvedAsOwed
  <2> QED  BY <2>2, <2>3, <2>4, <2>5, OneRequestMoves DEF Owed
<1>6. ASSUME NEW token \in Tokens, Expire(token) PROVE QueryInv'
  <2>1. UNCHANGED <<request, impersonateAddress>> /\ expired' = expired \cup {token}
      BY <1>6 DEF Expire
  <2>2. TypeOK'  BY <2>1 DEF TypeOK
  <2>3. FieldIsOwnHeader' /\ ResolvedAsOwed' /\ AnsweredUnderOwnIdentity'
      BY <2>1 DEF FieldIsOwnHeader, ResolvedAsOwed, Owed, AnsweredUnderOwnIdentity, Answered
  <2> QED  BY <2>2, <2>3
<1>7. CASE UNCHANGED vars
  <2>1. UNCHANGED <<request, impersonateAddress, expired>>  BY <1>7 DEF vars
  <2> QED
      BY <2>1 DEF TypeOK, FieldIsOwnHeader, ResolvedAsOwed, Owed, AnsweredUnderOwnIdentity,
                  Answered
<1> QED  BY <1>1, <1>2, <1>3, <1>4, <1>5, <1>6, <1>7 DEF Next, Handle

-----------------------------------------------------------------------------
\* Type correctness: a request carries what its stage needs, an identity included
\* from the resolver on.
THEOREM QueryTypeCorrect == Spec => []TypeOK
<1>1. QueryInv => TypeOK  BY DEF QueryInv
<1> QED  BY <1>1, QueryInit, QueryStep, PTL DEF Spec

\* Whatever requests come in while the native guard waits, a request that is
\* answered is answered under the identity of its own two headers.
THEOREM IdentitiesKept == Spec => []AnsweredUnderOwnIdentity
<1>1. QueryInv => AnsweredUnderOwnIdentity  BY DEF QueryInv
<1> QED  BY <1>1, QueryInit, QueryStep, PTL DEF Spec

-----------------------------------------------------------------------------
(***************************************************************************)
(* The answer.                                                             *)
(***************************************************************************)
AnswerInv == PositionsKeepTheirType /\ SingleTokensFailAlone /\ NullsAreExplained

\* The samples have all fields of their types; only tokens have fields that may be missing.
LEMMA Samples ==
    /\ DOMAIN SamplePositions = 1..4 /\ DOMAIN Classes = 1..4 /\ Len(Classes) = 4
    /\ \A i \in 1..4 :
          LET values == SamplePositions[i].values
          IN  /\ ResolveType(SamplePositions[i]) = Classes[i]
              /\ Classes[i] \in Types
              /\ DOMAIN values = Fields(Classes[i])
              /\ \A field \in DOMAIN values : /\ values[field] \subseteq TokenFields
                                              /\ values[field] # Text =>
                                                    field \in {"firstToken", "secondToken", "token"}
<1>1. /\ DOMAIN SamplePositions = 1..4 /\ DOMAIN Classes = 1..4 /\ Len(Classes) = 4
      /\ SamplePositions[1] = Paired("LpPositionModel") /\ Classes[1] = "LpPositionModel"
      /\ SamplePositions[2] = Paired("FarmPositionModel") /\ Classes[2] = "FarmPositionModel"
      /\ SamplePositions[3] =
            [constructor |-> "StakingPositionModel",
             values |-> [address |-> Text, amount |-> Text, valueUSD |-> Text,
                         token |-> NamedToken]]
      /\ Classes[3] = "StakingPositionModel"
      /\ SamplePositions[4] =
            [constructor |-> "EsdtPositionModel",
             values |-> [amount |-> Text, valueUSD |-> Text, token |-> NamedToken]]
      /\ Classes[4] = "EsdtPositionModel"
  BY DEF SamplePositions, Classes
<1>2. \A i \in 1..4 : i = 1 \/ i = 2 \/ i = 3 \/ i = 4
  OBVIOUS
<1>3. /\ PairToken \subseteq TokenFields /\ NamedToken \subseteq TokenFields
      /\ Text \subseteq TokenFields
  BY DEF PairToken, NamedToken, Text, TokenFields
<1>4. ASSUME NEW class \in Pair
      PROVE  /\ ResolveType(Paired(class)) = class /\ class \in Types
             /\ DOMAIN Paired(class).values = Fields(class)
             /\ \A field \in DOMAIN Paired(class).values :
                   /\ Paired(class).values[field] \subseteq TokenFields
                   /\ Paired(class).values[field] # Text =>
                         field \in {"firstToken", "secondToken", "token"}
  BY <1>3 DEF Paired, ResolveType, Types, Pair, Fields
<1>5. "LpPositionModel" \in Pair /\ "FarmPositionModel" \in Pair
  BY DEF Pair
<1>6. LET values == SamplePositions[3].values
      IN  /\ ResolveType(SamplePositions[3]) = Classes[3]
          /\ Classes[3] \in Types
          /\ DOMAIN values = Fields(Classes[3])
          /\ \A field \in DOMAIN values : /\ values[field] \subseteq TokenFields
                                          /\ values[field] # Text => field = "token"
  BY <1>1, <1>3 DEF ResolveType, Types, Pair, Fields
<1>7. LET values == SamplePositions[4].values
      IN  /\ ResolveType(SamplePositions[4]) = Classes[4]
          /\ Classes[4] \in Types
          /\ DOMAIN values = Fields(Classes[4])
          /\ \A field \in DOMAIN values : /\ values[field] \subseteq TokenFields
                                          /\ values[field] # Text => field = "token"
  BY <1>1, <1>3 DEF ResolveType, Types, Pair, Fields
<1>8. ASSUME NEW i \in 1..4
      PROVE  LET values == SamplePositions[i].values
             IN  /\ ResolveType(SamplePositions[i]) = Classes[i]
                 /\ Classes[i] \in Types
                 /\ DOMAIN values = Fields(Classes[i])
                 /\ \A field \in DOMAIN values :
                       /\ values[field] \subseteq TokenFields
                       /\ values[field] # Text =>
                             field \in {"firstToken", "secondToken", "token"}
  <2>1. CASE i = 1 \/ i = 2
    BY <1>1, <1>4, <1>5, <2>1
  <2>2. CASE i = 3
    BY <1>6, <2>2
  <2>3. CASE i = 4
    BY <1>7, <2>3
  <2>. QED BY <1>2, <2>1, <2>2, <2>3
<1>. QED BY <1>1, <1>8

\* What is missing is a field of a token, at the place of its position.
LEMMA MissingAreInner ==
    ASSUME NEW i \in 1..4, NEW selected, NEW path \in Missing(SamplePositions, i, selected)
    PROVE  /\ Len(path) = 3 /\ path[1] = i
           /\ path[2] \in selected.fields
           /\ path[2] \in {"firstToken", "secondToken", "token"}
<1>. DEFINE values == SamplePositions[i].values
            fields == selected.fields \cap Fields(ResolveType(SamplePositions[i]))
<1>1. DOMAIN values = Fields(ResolveType(SamplePositions[i]))
  BY Samples
<1>2. \A field \in DOMAIN values :
         values[field] # Text => field \in {"firstToken", "secondToken", "token"}
  BY Samples
<1>. HIDE DEF values
<1>3. path \in Required(SamplePositions, i, selected)
      /\ IF Len(path) = 2 THEN path[2] \notin DOMAIN values
                          ELSE path[3] \notin values[path[2]]
  BY DEF Missing, values
<1>4. \/ \E field \in fields : path = <<i, field>>
      \/ \E field \in {f \in fields \cap DOMAIN values : values[f] # Text},
            inner \in selected.tokenFields : path = <<i, field, inner>>
  BY <1>3 DEF Required, values
<1>5. ~ \E field \in fields : path = <<i, field>>
  BY <1>1, <1>3
<1>6. PICK field \in {f \in fields \cap DOMAIN values : values[f] # Text},
           inner \in selected.tokenFields : path = <<i, field, inner>>
  BY <1>4, <1>5
<1>. QED BY <1>2, <1>6

\* What a token must have and has not is among what is missing.
LEMMA LackingIsMissing ==
    ASSUME NEW i \in 1..4, NEW selected, NEW field \in selected.fields \cap Fields(Classes[i]),
           NEW inner \in selected.tokenFields \ NullableTokenFields,
           SamplePositions[i].values[field] # Text,
           inner \notin SamplePositions[i].values[field]
    PROVE  <<i, field, inner>> \in Missing(SamplePositions, i, selected)
<1>1. /\ ResolveType(SamplePositions[i]) = Classes[i]
      /\ DOMAIN SamplePositions[i].values = Fields(Classes[i])
  BY Samples
<1>2. <<i, field, inner>> \in Required(SamplePositions, i, selected)
  BY <1>1 DEF Required
<1>. QED BY <1>2 DEF Missing

\* A completed value is not null, and null in it is what the value lacks.
LEMMA CompletedValues ==
    ASSUME NEW value \in SUBSET TokenFields, NEW tokenFields \in TokenFieldChoices
    PROVE  LET completed == CompletedValue(value, tokenFields)
           IN  /\ completed # Null
               /\ \A inner \in DOMAIN completed :
                     /\ inner \in tokenFields /\ value # Text
                     /\ completed[inner] = Null <=> inner \notin value
<1>. DEFINE inners == IF value = Text THEN {} ELSE tokenFields
            completed == CompletedValue(value, tokenFields)
<1>1. inners \in SUBSET TokenFields
  BY NullAssumption
<1>. HIDE DEF inners
<1>2. completed = [inner \in inners |-> IF inner \in value THEN "given" ELSE Null]
  BY DEF CompletedValue, inners
<1>. HIDE DEF completed
<1>3. completed \in [inners -> {"given", Null}]
  BY <1>2
<1>4. completed # Null
  BY <1>1, <1>3, NullAssumption
<1>5. \A inner \in DOMAIN completed :
         inner \in tokenFields /\ value # Text /\ (completed[inner] = Null <=> inner \notin value)
  BY <1>2, NullAssumption DEF inners
<1>. QED BY <1>4, <1>5 DEF completed

-----------------------------------------------------------------------------
\* formatError keeps the path of every error.
LEMMA PathsAreKept ==
    ASSUME NEW paths, NEW path \in paths
    PROVE  \E error \in {FormatError(e) : e \in FieldErrors(paths)} : error.path = path
<1>. DEFINE raised == [path |-> path, code |-> "internal", locations |-> path]
<1>1. raised \in FieldErrors(paths)
  BY DEF FieldErrors
<1>2. FormatError(raised).path = path
  BY DEF FormatError
<1>. QED BY <1>1, <1>2

LEMMA ExecuteAnswers ==
    ASSUME Execute(SamplePositions)
    PROVE  AnswerInv'
<1>1. PICK fields \in FieldChoices, tokenFields \in TokenFieldChoices :
         LET selected == [fields |-> fields, tokenFields |-> tokenFields]
             missing == AllMissing(SamplePositions, selected)
             fatal == {path \in missing : ReachesTheAnswer(path)}
         IN  \/ /\ fatal = {}
                /\ Reply("answered", selected, CompletedList(SamplePositions, selected),
                         FieldErrors(missing))
             \/ \E path \in fatal :
                   /\ \A other \in fatal : path[1] <= other[1]
                   /\ Reply("answered", selected, Null,
                           FieldErrors({path} \cup {other \in missing : other[1] < path[1]}))
  BY DEF Execute
<1>. DEFINE selected == [fields |-> fields, tokenFields |-> tokenFields]
            missing == AllMissing(SamplePositions, selected)
            data == CompletedList(SamplePositions, selected)
<1>2. \A path \in missing : /\ Len(path) = 3 /\ path[2] \in fields
                            /\ path[2] \in {"firstToken", "secondToken", "token"}
  BY MissingAreInner, Samples DEF AllMissing
<1>3. DOMAIN SamplePositions = 1..4
  BY Samples
<1>. HIDE DEF missing
<1>4. CASE Reply("answered", selected, data, FieldErrors(missing))
  <2>1. /\ answer'.status = "answered" /\ answer'.selected = selected /\ answer'.data = data
        /\ answer'.errors = {FormatError(error) : error \in FieldErrors(missing)}
    BY <1>4 DEF Reply
  <2>2. data # Null
    BY NullAssumption
  <2>3. ASSUME NEW i \in 1..4
        PROVE  /\ data[i].type = Classes[i]
               /\ DOMAIN data[i].values = fields \cap Fields(Classes[i])
               /\ \A field \in DOMAIN data[i].values :
                     LET value == data[i].values[field]
                     IN  IF value = Null
                         THEN \E path \in missing : path[1] = i /\ path[2] = field
                         ELSE \A inner \in DOMAIN value : value[inner] = Null <=>
                                 /\ inner \in NullableTokenFields
                                 /\ inner \notin SamplePositions[i].values[field]
    <3>. DEFINE values == SamplePositions[i].values
    <3>1. /\ ResolveType(SamplePositions[i]) = Classes[i]
          /\ DOMAIN values = Fields(Classes[i])
          /\ \A field \in DOMAIN values : values[field] \subseteq TokenFields
      BY Samples
    <3>. HIDE DEF values
    <3>2. data[i] = [type |-> Classes[i],
                     values |-> [field \in fields \cap Fields(Classes[i]) |->
                        IF field \notin DOMAIN values
                           \/ \E path \in missing : path[1] = i /\ path[2] = field
                        THEN Null ELSE CompletedValue(values[field], tokenFields)]]
      BY <1>3, <3>1 DEF CompletedList, Completed, values, missing
    <3>. HIDE DEF data
    <3>3. ASSUME NEW field \in fields \cap Fields(Classes[i])
          PROVE  LET value == data[i].values[field]
                 IN  IF value = Null
                     THEN \E path \in missing : path[1] = i /\ path[2] = field
                     ELSE \A inner \in DOMAIN value : value[inner] = Null <=>
                             /\ inner \in NullableTokenFields
                             /\ inner \notin values[field]
      <4>1. CASE \E path \in missing : path[1] = i /\ path[2] = field
        <5>1. data[i].values[field] = Null
          BY <3>2, <4>1
        <5>. QED BY <4>1, <5>1
      <4>2. CASE ~ \E path \in missing : path[1] = i /\ path[2] = field
        <5>. DEFINE given == values[field]
                    value == CompletedValue(given, tokenFields)
        <5>1. data[i].values[field] = value
          BY <3>1, <3>2, <4>2
        <5>2. given \in SUBSET TokenFields
          BY <3>1
        <5>3. given = values[field]
          OBVIOUS
        <5>. HIDE DEF given
        <5>4. /\ value # Null
              /\ \A inner \in DOMAIN value :
                    /\ inner \in tokenFields /\ given # Text
                    /\ value[inner] = Null <=> inner \notin given
          BY <5>2, CompletedValues
        <5>. HIDE DEF value
        <5>5. ASSUME NEW inner \in DOMAIN value, inner \notin NullableTokenFields
              PROVE  inner \in given
          <6>. SUFFICES ASSUME inner \notin given PROVE FALSE
            OBVIOUS
          <6>1. <<i, field, inner>> \in Missing(SamplePositions, i, selected)
            BY <5>3, <5>4, <5>5, LackingIsMissing DEF values
          <6>2. <<i, field, inner>> \in missing
            BY <1>3, <6>1 DEF missing, AllMissing
          <6>. QED BY <4>2, <6>2
        <5>. QED BY <5>1, <5>3, <5>4, <5>5
      <4>. QED BY <4>1, <4>2
    <3>4. DOMAIN data[i].values = fields \cap Fields(Classes[i]) /\ data[i].type = Classes[i]
      BY <3>2
    <3>. QED BY <3>3, <3>4 DEF values
  <2>4. DOMAIN data = 1..4 /\ Len(data) = 4
    BY <1>3 DEF CompletedList
  <2>. HIDE DEF data
  <2>5. \A path \in missing : \E error \in answer'.errors : error.path = path
    BY <2>1, PathsAreKept
  <2>6. PositionsKeepTheirType'
    BY <2>1, <2>3, <2>4, Samples DEF PositionsKeepTheirType
  <2>7. SingleTokensFailAlone'
    BY <2>1, <2>2 DEF SingleTokensFailAlone
  <2>8. NullsAreExplained'
    <3>1. ASSUME NEW i \in 1..4, NEW field \in DOMAIN data[i].values
          PROVE  LET value == data[i].values[field]
                 IN  IF value = Null
                     THEN \E error \in answer'.errors :
                             Len(error.path) > 1 /\ error.path[1] = i /\ error.path[2] = field
                     ELSE \A inner \in DOMAIN value : value[inner] = Null <=>
                             /\ inner \in NullableTokenFields
                             /\ inner \notin SamplePositions[i].values[field]
      <4>1. CASE data[i].values[field] = Null
        <5>1. PICK path \in missing : path[1] = i /\ path[2] = field
          BY <2>3, <4>1
        <5>. QED BY <1>2, <2>5, <4>1, <5>1
      <4>2. CASE data[i].values[field] # Null
        BY <2>3, <4>2
      <4>. QED BY <4>1, <4>2
    <3>2. (IsAnswered /\ answer.data # Null)' \/ (answer = Null)'
      BY <2>1, <2>2 DEF IsAnswered
    <3>. QED BY <2>1, <2>4, <3>1, <3>2 DEF NullsAreExplained
  <2>. QED BY <2>6, <2>7, <2>8 DEF AnswerInv
<1>5. ASSUME NEW path \in missing, ReachesTheAnswer(path), NEW others,
             Reply("answered", selected, Null, FieldErrors({path} \cup others))
      PROVE  AnswerInv'
  <2>1. /\ answer'.status = "answered" /\ answer'.selected = selected /\ answer'.data = Null
        /\ answer'.errors = {FormatError(error) : error \in FieldErrors({path} \cup others)}
    BY <1>5 DEF Reply
  <2>2. path[2] \in {"firstToken", "secondToken"} /\ path[2] \in fields /\ Len(path) = 3
    BY <1>2, <1>5 DEF ReachesTheAnswer, Nullable
  <2>3. \E error \in answer'.errors : error.path = path
    <3>1. path \in {path} \cup others
      OBVIOUS
    <3>. QED BY <2>1, <3>1, PathsAreKept
  <2>4. PositionsKeepTheirType' /\ SingleTokensFailAlone'
    BY <2>1, <2>2 DEF PositionsKeepTheirType, SingleTokensFailAlone
  <2>5. NullsAreExplained'
    BY <2>1, <2>2, <2>3 DEF NullsAreExplained, IsAnswered
  <2>. QED BY <2>4, <2>5 DEF AnswerInv
<1>. QED BY <1>1, <1>3, <1>4, <1>5 DEF missing

LEMMA NoAnswerYet ==
    ASSUME answer' = Null
    PROVE  AnswerInv'
BY DEF AnswerInv, PositionsKeepTheirType, SingleTokensFailAlone, NullsAreExplained, IsAnswered

LEMMA RefusalAnswers ==
    ASSUME NEW status \in {"unauthorized", "forbidden"}, Refuse(status)
    PROVE  AnswerInv'
<1>1. /\ answer'.status = status /\ answer'.data = Null
      /\ \E error \in answer'.errors : error.path = <<>>
  <2>. DEFINE refusal == [path |-> <<>>, code |-> status, locations |-> <<>>]
  <2>1. /\ answer'.status = status /\ answer'.data = Null
        /\ answer'.errors = {FormatError(error) : error \in {refusal}}
    BY DEF Refuse, Reply
  <2>2. FormatError(refusal) \in answer'.errors /\ FormatError(refusal).path = <<>>
    BY <2>1 DEF FormatError
  <2>. QED BY <2>1, <2>2
<1>2. ~IsAnswered'
  BY <1>1 DEF IsAnswered
<1>3. Len(<<>>) = 0
  OBVIOUS
<1>. QED BY <1>1, <1>2, <1>3
     DEF AnswerInv, PositionsKeepTheirType, SingleTokensFailAlone, NullsAreExplained

LEMMA ApiStep ==
    ASSUME QueryInv, AnswerInv, [ApiNext]_apiVars
    PROVE  QueryInv' /\ AnswerInv'
<1>. USE DEF QueryInv
<1>1. ASSUME NEW r \in Requests, Arrive(r) PROVE QueryInv' /\ AnswerInv'
  BY <1>1, QueryStep, NoAnswerYet DEF Arrive, Next
<1>2. ASSUME NEW r \in Requests, Guard(r) PROVE QueryInv' /\ AnswerInv'
  <2>1. QueryInv'
    BY <1>2, QueryStep DEF Guard, Next, Handle
  <2>2. request'[r].pc = "done" => request'[r].status \in {"unauthorized", "forbidden"}
    BY <1>2 DEF Guard, CanActivate, ValidateFulfilled, ValidateRejected, GqlAuthGuard, TypeOK
  <2>3. CASE request'[r].pc = "done"
    BY <1>2, <2>2, <2>3, RefusalAnswers, <2>1 DEF Guard
  <2>4. CASE request'[r].pc # "done"
    BY <1>2, <2>4, NoAnswerYet, <2>1 DEF Guard
  <2>. QED BY <2>3, <2>4
<1>3. ASSUME NEW r \in Requests, Resolve(r) PROVE QueryInv' /\ AnswerInv'
  <2>1. QueryInv'
    BY <1>3, QueryStep DEF Resolve, Next, Handle
  <2>2. request'[r].positions = SamplePositions
    BY <1>3, SamplesAssumption DEF Resolve, ResolvePositions, UserPositions, TypeOK
  <2>. QED BY <1>3, <2>1, <2>2, ExecuteAnswers DEF Resolve
<1>4. ASSUME NEW token \in Tokens, Pass(token) PROVE QueryInv' /\ AnswerInv'
  BY <1>4, QueryStep, NoAnswerYet DEF Pass, Next
<1>5. CASE UNCHANGED apiVars
  <2>1. UNCHANGED vars /\ UNCHANGED answer
    BY <1>5 DEF apiVars
  <2>2. AnswerInv'
    BY <2>1 DEF AnswerInv, PositionsKeepTheirType, SingleTokensFailAlone, NullsAreExplained,
                IsAnswered
  <2>. QED BY <2>1, <2>2, QueryStep
<1>. QED BY <1>1, <1>2, <1>3, <1>4, <1>5 DEF ApiNext, Serve

\* The invariant of the query from the request to the answer.
THEOREM ApiInvariant == ApiSpec => [](QueryInv /\ AnswerInv)
<1>1. ApiInit => QueryInv /\ AnswerInv
  BY QueryInit DEF ApiInit, AnswerInv, PositionsKeepTheirType, SingleTokensFailAlone,
                   NullsAreExplained, IsAnswered
<1>2. QueryInv /\ AnswerInv /\ [ApiNext]_apiVars => (QueryInv /\ AnswerInv)'
  BY ApiStep
<1>. QED BY <1>1, <1>2, PTL DEF ApiSpec

\* Behind the whole of the API, too, an answer is given under the request's own identity.
THEOREM ApiIdentitiesKept == ApiSpec => []AnsweredUnderOwnIdentity
<1>1. QueryInv /\ AnswerInv => AnsweredUnderOwnIdentity
  BY DEF QueryInv
<1>. QED BY <1>1, ApiInvariant, PTL

\* Every position is answered in its place, under the type of its own class and with the
\* fields selected of that type (smart.account.position.model.ts:106-119), for any
\* selection.
THEOREM TypesKept == ApiSpec => []PositionsKeepTheirType
<1>1. QueryInv /\ AnswerInv => PositionsKeepTheirType
  BY DEF AnswerInv
<1>. QED BY <1>1, ApiInvariant, PTL

\* What a single token lacks never costs a client the list, for any selection without the
\* tokens of pairs.
THEOREM TokensFailAlone == ApiSpec => []SingleTokensFailAlone
<1>1. QueryInv /\ AnswerInv => SingleTokensFailAlone
  BY DEF AnswerInv
<1>. QED BY <1>1, ApiInvariant, PTL

\* For any selection and every refusal: what is null without an error is a field of a
\* token that may be null and has no value, and there is an error for every other null.
THEOREM NullsExplained == ApiSpec => []NullsAreExplained
<1>1. QueryInv /\ AnswerInv => NullsAreExplained
  BY DEF AnswerInv
<1>. QED BY <1>1, ApiInvariant, PTL
=============================================================================
