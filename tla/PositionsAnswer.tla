--------------------------- MODULE PositionsAnswer ---------------------------
(***************************************************************************)
(* What a client of the query userPositions gets (mx-portfolio-pilot-      *)
(* service, libs/services/src/smart-account): the positions of the service *)
(* under the types their classes stand for, with the fields the client     *)
(* selects. A field that is declared without nullable and has no value is  *)
(* an error, and takes with it what encloses it, up to the first nullable  *)
(* field: a token, a position, or the answer. That execution is external.  *)
(* PositionsApi puts it behind the guards of PositionsQuery.               *)
(***************************************************************************)
EXTENDS Naturals, FiniteSets, SequencesExt

CONSTANTS
    FieldChoices,       \* fields of positions and of tokens a client may select
    TokenFieldChoices,
    Null

VARIABLES answer        \* what the API sent last

Pair == {"LpPositionModel", "FarmPositionModel"}
Types == Pair \cup {"StakingPositionModel", "EsdtPositionModel"}

\* The object types of the schema; a field of a token is a field whose value has fields.
Fields(type) ==
    {"amount", "valueUSD"}
        \cup (IF type \in Pair THEN {"firstToken", "secondToken"} ELSE {"token"})
        \cup (IF type = "EsdtPositionModel" THEN {} ELSE {"address"})

Nullable == {"address", "token"}

TokenFields == {"identifier", "name", "ticker", "decimals", "svgIcon",
                "price", "supply", "circulatingSupply", "type"}

NullableTokenFields == {"price", "supply", "circulatingSupply", "type"}

-----------------------------------------------------------------------------
\* The samples of the service: the class of each, and for each field the fields its
\* token has a value for, or none if it is no token.
PairToken == {"identifier", "ticker", "svgIcon"}
NamedToken == PairToken \cup {"name"}

Text == {}

Paired(class) ==
    [constructor |-> class,
     values |-> [address |-> Text, amount |-> Text, valueUSD |-> Text,
                 firstToken |-> PairToken, secondToken |-> PairToken]]

SamplePositions ==
    << Paired("LpPositionModel"), Paired("FarmPositionModel"),
       [constructor |-> "StakingPositionModel",
        values |-> [address |-> Text, amount |-> Text, valueUSD |-> Text, token |-> NamedToken]],
       [constructor |-> "EsdtPositionModel",
        values |-> [amount |-> Text, valueUSD |-> Text, token |-> NamedToken]] >>

\* Mutant: the case of farms forgotten.
ResolveWithoutFarms(position) ==
    IF position.constructor \in Types \ {"FarmPositionModel"} THEN position.constructor
                                                             ELSE "LpPositionModel"

\* resolveType of the union, by the name of the class.
ResolveType(position) ==
    IF position.constructor \in Types THEN position.constructor ELSE "LpPositionModel"

-----------------------------------------------------------------------------
\* Paths of the fields of a position that must have a value: fields of its own, and of its
\* tokens. Its place in the list comes first.
Required(positions, i, selected) ==
    LET fields == selected.fields \cap Fields(ResolveType(positions[i]))
        values == positions[i].values
    IN  {<<i, field>> : field \in fields \ Nullable}
        \cup {<<i, field, inner>> :
                 field \in {f \in fields \cap DOMAIN values : values[f] # Text},
                 inner \in selected.tokenFields \ NullableTokenFields}

\* Those of them that have none.
Missing(positions, i, selected) ==
    {path \in Required(positions, i, selected) :
        LET values == positions[i].values
        IN  IF Len(path) = 2 THEN path[2] \notin DOMAIN values
                             ELSE path[3] \notin values[path[2]]}

\* Mutant: a field that is null takes the list with it, nullable or not.
NothingNullable(path) == TRUE

\* An error no nullable field is there to stop: the position is null, so the list is, and
\* with it the answer.
ReachesTheAnswer(path) == path[2] \notin Nullable

\* A value with the fields of its own that were selected: none, unless it is a token. What
\* a token has no value for is null.
CompletedValue(value, tokenFields) ==
    [inner \in (IF value = Text THEN {} ELSE tokenFields) |->
        IF inner \in value THEN "given" ELSE Null]

Completed(positions, i, selected, missing) ==
    LET type == ResolveType(positions[i])
        values == positions[i].values
    IN  [type |-> type,
         values |-> [field \in selected.fields \cap Fields(type) |->
            IF field \notin DOMAIN values \/ \E path \in missing : path[1] = i /\ path[2] = field
            THEN Null ELSE CompletedValue(values[field], selected.tokenFields)]]

\* All that is missing, and the list as far as it can be completed.
AllMissing(positions, selected) ==
    UNION {Missing(positions, i, selected) : i \in DOMAIN positions}

CompletedList(positions, selected) ==
    LET missing == AllMissing(positions, selected)
    IN  [i \in DOMAIN positions |-> Completed(positions, i, selected, missing)]

\* Null is a value of its own, neither a token nor a list.
ASSUME NullAssumption ==
    /\ TokenFieldChoices \subseteq SUBSET TokenFields /\ Null # "given"
    /\ \A tokenFields \in SUBSET TokenFields : Null \notin [tokenFields -> {"given", Null}]
    /\ \A fields \in FieldChoices, tokenFields \in TokenFieldChoices :
          CompletedList(SamplePositions, [fields |-> fields, tokenFields |-> tokenFields]) # Null

\* Mutant: errors without the field they are about.
FormatWithoutPath(error) == [path |-> <<>>, code |-> error.code]
\* formatError keeps path and code, and drops locations and stack.
FormatError(error) == [path |-> error.path, code |-> error.code]

Reply(status, selected, data, errors) ==
    answer' = [status |-> status, selected |-> selected, data |-> data,
               errors |-> {FormatError(error) : error \in errors}]

FieldErrors(paths) ==
    {[path |-> path, code |-> "internal", locations |-> path] : path \in paths}

\* The list is completed in order, and the first error nothing stops ends it.
Execute(positions) ==
    \E fields \in FieldChoices, tokenFields \in TokenFieldChoices :
        LET selected == [fields |-> fields, tokenFields |-> tokenFields]
            missing == AllMissing(positions, selected)
            fatal == {path \in missing : ReachesTheAnswer(path)}
        IN  \/ /\ fatal = {}
               /\ Reply("answered", selected, CompletedList(positions, selected),
                        FieldErrors(missing))
            \/ \E path \in fatal :
                  /\ \A other \in fatal : path[1] <= other[1]
                  /\ Reply("answered", selected, Null,
                          FieldErrors({path} \cup {other \in missing : other[1] < path[1]}))

\* A guard's refusal is an error of the query itself.
Refuse(status) ==
    Reply(status, Null, Null, {[path |-> <<>>, code |-> status, locations |-> <<>>]})

-----------------------------------------------------------------------------
Classes == <<"LpPositionModel", "FarmPositionModel",
             "StakingPositionModel", "EsdtPositionModel">>

IsAnswered == answer # Null /\ answer.status = "answered"

\* Every position is answered, in the service's order, under the type of its own class
\* and with the fields selected of that type. (Each of the four classes has its case in
\* smart.account.position.model.ts:106-119; the default has none to come to as yet.)
PositionsKeepTheirType ==
    (IsAnswered /\ answer.data # Null) =>
        /\ Len(answer.data) = Len(Classes)
        /\ \A i \in DOMAIN Classes :
              /\ answer.data[i].type = Classes[i]
              /\ DOMAIN answer.data[i].values = answer.selected.fields \cap Fields(Classes[i])

\* What the token of a single-token position lacks costs the client that token, never
\* the other positions: the field it is in is nullable.
SingleTokensFailAlone ==
    (IsAnswered /\ answer.selected.fields \cap {"firstToken", "secondToken"} = {})
        => answer.data # Null

\* A client can tell what is null for want of an error from what is null because of one,
\* also after formatError has rewritten it (public.app.module.ts:24-43). Without an error
\* only a field of a token is null, one that may be and has no value (esdt.token.model.ts:
\* 10-13). For any other null there is an error that names position and field, and for an
\* answer without data one of a field no nullable one encloses, or a guard's refusal.
NullsAreExplained ==
    answer # Null =>
        IF IsAnswered /\ answer.data # Null
        THEN \A i \in DOMAIN answer.data : \A field \in DOMAIN answer.data[i].values :
                LET value == answer.data[i].values[field]
                IN  IF value = Null
                    THEN \E error \in answer.errors :
                            Len(error.path) > 1 /\ error.path[1] = i /\ error.path[2] = field
                    ELSE \A inner \in DOMAIN value : value[inner] = Null <=>
                            /\ inner \in NullableTokenFields
                            /\ inner \notin SamplePositions[i].values[field]
        ELSE \E error \in answer.errors : IsAnswered <=> Len(error.path) = 3
=============================================================================
