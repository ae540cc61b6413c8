-------------------------- MODULE UpstreamQueries --------------------------
(***************************************************************************)
(* What the service asks of others (mx-portfolio-pilot-service): contracts *)
(* through the gateway (proxy.service.ts), with the ABI read from a file   *)
(* for every query, and pairs of the DEX API (dex.service.ts). Nothing is  *)
(* kept between calls; each may fail at every stage, and the ABI directory *)
(* need not have the file. Gateway, DEX API and SDK are external.          *)
(*                                                                         *)
(* A hexadecimal text is a sequence of digits after "0x". A token id is a  *)
(* model value; what counts of its text is whether it begins with ETH.     *)
(***************************************************************************)
EXTENDS Naturals, Sequences, SequencesExt

CONSTANTS
    Callers,
    EthTokens,   \* ids of bridged tokens that begin with ETH, and the others
    BscTokens,
    Erc20,       \* the bytes of each token's address on its own chain
    Universal,   \* the universal tokens, each with its chain-specific ids
    EdgeLists,   \* pairs of the DEX as its API may list them
    Undefined

Tokens == EthTokens \cup BscTokens

ASSUME UpstreamAssumption ==
    /\ EthTokens \cap BscTokens = {}
    /\ DOMAIN Erc20 = Tokens
    /\ \A token \in Tokens : Erc20[token] \in Seq(0..255)
    /\ \A universal \in DOMAIN Universal : Universal[universal] \in Seq(Tokens)
    /\ Undefined \notin {"none", "some"} \cup DOMAIN Universal

VARIABLES
    abis, \* files in the directory of ABIs
    call  \* the call each caller has under way, or its outcome

queriesVars == <<abis, call>>

Interfaces == {"BridgedTokensWrapper", "Multisig"}

QueriesInit ==
    /\ abis \in SUBSET Interfaces
    /\ call = [c \in Callers |-> [pc |-> "idle"]]

Rejected(c, status) ==
    call' = [call EXCEPT ![c] = [pc |-> "rejected", query |-> @.query, status |-> status]]

Resolved(c, value) ==
    call' = [call EXCEPT ![c] = [pc |-> "resolved", query |-> @.query, value |-> value]]

Free(c) == call[c].pc \notin {"readFile", "runQuery", "fetch"}

-----------------------------------------------------------------------------
ToHex(byte) == IF byte < 16 THEN <<byte>> ELSE <<byte \div 16, byte % 16>>

\* Mutant: digits as toString gives them.
DoNotPad(byte) == ToHex(byte)

PadHex(byte) == IF Len(ToHex(byte)) % 2 # 0 THEN <<0>> \o ToHex(byte) ELSE ToHex(byte)

Array20ToHex(array20) == FoldLeft(LAMBDA prev, byte : prev \o PadHex(byte), << >>, array20)

Multisig(tokenId) == IF tokenId \in EthTokens THEN "eth_multisig" ELSE "bsc_multisig"

Query(c, interface, contract, method, argument) ==
    /\ Free(c)
    /\ call' = [call EXCEPT ![c] =
          [pc |-> "readFile",
           query |-> [interface |-> interface, contract |-> contract,
                      method |-> method, argument |-> argument]]]
    /\ UNCHANGED abis

GetErc20AddressForTokenId(c, tokenId) ==
    Query(c, "Multisig", Multisig(tokenId), "getErc20AddressForTokenId", tokenId)

Wrapper(c, method, argument) ==
    Query(c, "BridgedTokensWrapper", "wrapper", method, argument)

GetChainSpecificToUniversalMapping(c, chainSpecificTokenId) ==
    Wrapper(c, "getChainSpecificToUniversalMapping", chainSpecificTokenId)

GetTokenLiquidity(c, tokenId) == Wrapper(c, "getTokenLiquidity", tokenId)

GetChainSpecificTokenIds(c, universalTokenId) ==
    Wrapper(c, "getchainSpecificTokenIds", universalTokenId)

\* The universal tokens a chain-specific token stands for one of.
Universals(token) == {u \in DOMAIN Universal : token \in Range(Universal[u])}

\* What the contracts answer, parsed by the ABI: a sequence of values, of no value where
\* the contract has none.
ContractAnswers(query) ==
    CASE query.method = "getErc20AddressForTokenId" ->
            {IF (query.contract = "eth_multisig") = (query.argument \in EthTokens)
             THEN <<Erc20[query.argument]>> ELSE << >>}
      [] query.method = "getTokenLiquidity" -> {<<"none">>, <<"some">>}
      [] query.method = "getChainSpecificToUniversalMapping" ->
            IF Universals(query.argument) = {} THEN {<< >>}
            ELSE {<<universal>> : universal \in Universals(query.argument)}
      [] query.method = "getchainSpecificTokenIds" -> {<<Universal[query.argument]>>}

-----------------------------------------------------------------------------
\* getSmartContract: the file is read and parsed, or the caller gets the error.
GetSmartContract(c) ==
    /\ call[c].pc = "readFile"
    /\ \/ /\ call[c].query.interface \in abis
          /\ call' = [call EXCEPT ![c].pc = "runQuery"]
       \/ Rejected(c, "internalServerError")
    /\ UNCHANGED abis

First(response) == IF response = << >> THEN Undefined ELSE Head(response)

\* What a method makes of the response: the address of an empty one cannot be read.
Use(c, method, response) ==
    CASE method = "getErc20AddressForTokenId" ->
            IF response = << >> THEN Rejected(c, "internalServerError")
                                ELSE Resolved(c, Array20ToHex(Head(response)))
      [] method = "getchainSpecificTokenIds" -> Resolved(c, FlattenSeq(response))
      [] OTHER -> Resolved(c, First(response))

\* Mutant: the error logged and not thrown again, for the method to go on without data.
CatchWithoutThrow(c) ==
    /\ call[c].pc = "runQuery"
    /\ \E response \in ContractAnswers(call[c].query) \cup {<< >>} :
          Use(c, call[c].query.method, response)
    /\ UNCHANGED abis

\* getGenericData from runQuery on: gateway, contract or parser may fail, which is logged
\* and thrown again.
GetGenericData(c) ==
    /\ call[c].pc = "runQuery"
    /\ \/ \E response \in ContractAnswers(call[c].query) :
             Use(c, call[c].query.method, response)
       \/ Rejected(c, "internalServerError")
    /\ UNCHANGED abis

-----------------------------------------------------------------------------
TestDex(c) ==
    /\ Free(c)
    /\ call' = [call EXCEPT ![c] = [pc |-> "fetch", query |-> [method |-> "testDex"]]]
    /\ UNCHANGED abis

\* What the DEX API may answer: GraphQL gives errors with data beside them, or without.
DexReplies ==
    [ok : {FALSE}, errors : {FALSE}, edges : {"text"}]
        \cup [ok : {TRUE}, errors : BOOLEAN,
              edges : EdgeLists \cup {"noJson", "noData", "noPairs", Undefined}]

Unusable == {"noJson", "noData", "noPairs"}

\* Mutant: errors looked for only when there are no data.
FetchLeniently(c) ==
    /\ call[c].pc = "fetch"
    /\ \E reply \in DexReplies :
          /\ call' = [call EXCEPT ![c] =
                IF ~reply.ok THEN [pc |-> "rejected", query |-> @.query, status |-> "badGateway"]
                ELSE IF reply.edges \in Unusable
                THEN [pc |-> "rejected", query |-> @.query, status |-> "badRequest"]
                ELSE [pc |-> "resolved", query |-> [method |-> "testDex", reply |-> reply],
                      value |-> reply.edges]]
    /\ UNCHANGED abis

\* fetchGraphQL and getPairsRaw: an answer without edges is an answer without a body.
FetchGraphQL(c) ==
    /\ call[c].pc = "fetch"
    /\ \/ Rejected(c, "internalServerError")
       \/ \E reply \in DexReplies :
             \/ ~reply.ok /\ Rejected(c, "badGateway")
             \/ /\ reply.ok /\ reply.edges # "noJson" /\ reply.errors
                /\ Rejected(c, "badRequest")
             \/ /\ reply.ok /\ ~reply.errors /\ reply.edges \notin Unusable
                /\ call' = [call EXCEPT ![c] =
                      [pc |-> "resolved", query |-> [method |-> "testDex", reply |-> reply],
                       value |-> reply.edges]]
    /\ UNCHANGED abis

QueriesNext ==
    \E c \in Callers :
        \/ \E token \in Tokens : \/ GetErc20AddressForTokenId(c, token)
                                 \/ GetChainSpecificToUniversalMapping(c, token)
                                 \/ GetTokenLiquidity(c, token)
        \/ \E universal \in DOMAIN Universal : GetChainSpecificTokenIds(c, universal)
        \/ TestDex(c)
        \/ GetSmartContract(c) \/ GetGenericData(c) \/ FetchGraphQL(c)

QueriesSpec == QueriesInit /\ [][QueriesNext]_queriesVars

-----------------------------------------------------------------------------
ResolvedBy(c, method) == call[c].pc = "resolved" /\ call[c].query.method = method

\* The text of an ERC-20 address has two digits for each byte and reads back as the
\* address the token has on its own chain: no zero in front of a byte is lost
\* (proxy.service.ts:187).
AddressesReadBack ==
    \A c \in Callers : ResolvedBy(c, "getErc20AddressForTokenId") =>
        LET text == call[c].value
            bytes == Erc20[call[c].query.argument]
        IN  /\ Len(text) = 2 * Len(bytes)
            /\ \A i \in DOMAIN bytes : 16 * text[2 * i - 1] + text[2 * i] = bytes[i]

\* No failure on the way is given to a caller as an answer of the contracts: liquidity and
\* ids are the contract's own, and a token is said to stand for no universal one only if
\* it does not (the error is thrown again, proxy.service.ts:109). Nor are pairs of the DEX
\* that came beside errors, as GraphQL may send them, taken for all (dex.service.ts:27);
\* a reply without errors and without edges, though, is passed on as it is, without a
\* body (dex.service.ts:67).
OnlyWholeAnswersAreData ==
    \A c \in Callers :
        /\ ResolvedBy(c, "getTokenLiquidity") => call[c].value # Undefined
        /\ ResolvedBy(c, "getchainSpecificTokenIds") =>
              call[c].value = Universal[call[c].query.argument]
        /\ ResolvedBy(c, "getChainSpecificToUniversalMapping") =>
              LET universals == Universals(call[c].query.argument)
              IN  IF universals = {} THEN call[c].value = Undefined
                                     ELSE call[c].value \in universals
        /\ ResolvedBy(c, "testDex") => ~call[c].query.reply.errors
=============================================================================
