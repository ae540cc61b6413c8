--------------------------- MODULE EndpointsProofs ---------------------------
(***************************************************************************)
(* Proofs about the endpoints of the service that keep little of their     *)
(* own: users and tokens (Documents), the list of examples (Examples),     *)
(* and what is asked of contracts and of the DEX (UpstreamQueries).        *)
(***************************************************************************)
EXTENDS Documents, Examples, UpstreamQueries, FoldProofs, SequenceTheorems

-----------------------------------------------------------------------------
(***************************************************************************)
(* Users and tokens.                                                       *)
(***************************************************************************)
\* Users are removed by "id".
OpFits(op) ==
    /\ op.kind \in {"insertOne", "find", "findOne", "deleteOne"}
    /\ op.collection \in Collections
    /\ op.kind = "deleteOne" =>
          op.collection = "users" /\ DOMAIN op.argument = {"id"}

\* What a request that has come to q holds, when there are the users there and those
\* answered have been acknowledged.
Fits(q, there, answered) ==
    /\ q.pc \in {"idle", "mongo", "back", "done"}
    /\ q.pc = "mongo" => OpFits(q.op) /\ q.since \subseteq answered
    /\ q.pc = "back" =>
          /\ OpFits(q.op)
          /\ q.op.kind = "insertOne" /\ q.op.collection = "users" => q.result \subseteq there
          /\ q.op.kind = "find" /\ q.op.collection = "users" => q.since \subseteq q.result
    /\ q.pc = "done" /\ q.status = "ok" /\ q.op.kind = "find" /\ q.op.collection = "users"
          => q.since \subseteq q.body

\* A user has the path "_id" and no other, and none that was acknowledged is missing.
UsersStay ==
    /\ DOMAIN db = Collections
    /\ db = [collection \in Collections |-> db[collection]]
    /\ \A id \in DOMAIN db["users"] : DOMAIN db["users"][id] = {"_id"}
    /\ acknowledged \subseteq DOMAIN db["users"]

\* Inductive: what a request answers with depends on what it was given before.
DocumentsInvariant ==
    /\ UsersStay
    /\ request = [r \in Requests |-> request[r]]
    /\ \A r \in Requests : Fits(request[r], DOMAIN db["users"], acknowledged)

\* A later state of the database and of the acknowledgements suits the request no less.
LEMMA FitsStays ==
    ASSUME NEW q, NEW there, NEW answered, NEW there2, NEW answered2,
           Fits(q, there, answered), there \subseteq there2, answered \subseteq answered2
    PROVE  Fits(q, there2, answered2)
BY DEF Fits, OpFits

\* Of a user nothing is saved but the id.
LEMMA UsersHaveNoPaths ==
    ASSUME NEW id, NEW body
    PROVE  DOMAIN Saved("users", id, body) = {"_id"}
BY DEF Saved, Paths, Collections

\* The filter of a removal does not name the one path users have.
LEMMA RemovalsMatchNone ==
    ASSUME UsersStay, NEW op, OpFits(op), op.kind = "deleteOne"
    PROVE  Matching(op) = {}
<1>1. op.collection = "users" /\ "id" \in DOMAIN op.argument
  BY DEF OpFits
<1>2. \A id \in DOMAIN db[op.collection] : "id" \notin DOMAIN db[op.collection][id]
  BY <1>1 DEF UsersStay
<1> QED BY <1>1, <1>2 DEF Matching, Cast

\* A step of request r that leaves the database and the acknowledgements as they are.
LEMMA OneRequestSteps ==
    ASSUME DocumentsInvariant, NEW r \in Requests, NEW q,
           request' = [request EXCEPT ![r] = q],
           DOMAIN db["users"] \subseteq DOMAIN db'["users"],
           acknowledged \subseteq acknowledged',
           UsersStay',
           Fits(q, DOMAIN db'["users"], acknowledged')
    PROVE  DocumentsInvariant'
<1>1. ASSUME NEW s \in Requests
      PROVE  Fits(request'[s], DOMAIN db'["users"], acknowledged')
  <2>1. CASE s = r BY <2>1 DEF DocumentsInvariant
  <2>2. CASE s # r
    <3>1. request'[s] = request[s] BY <2>2 DEF DocumentsInvariant
    <3> QED BY <3>1, FitsStays DEF DocumentsInvariant
  <2> QED BY <2>1, <2>2
<1> QED BY <1>1 DEF DocumentsInvariant

\* The invariant holds in every reachable state.
LEMMA DocumentsInvariantHolds == DocumentsSpec => []DocumentsInvariant
<1>1. ASSUME DocumentsInit PROVE DocumentsInvariant
  <2>1. UsersStay BY <1>1 DEF DocumentsInit, UsersStay, Collections
  <2> QED BY <1>1, <2>1 DEF DocumentsInit, DocumentsInvariant, Idle, Fits
<1>2. ASSUME DocumentsInvariant, [DocumentsNext]_documentsVars
      PROVE  DocumentsInvariant'
  <2> USE <1>2
  <2>s. ASSUME NEW r \in Requests, NEW q,
               request' = [request EXCEPT ![r] = q], db' = db, acknowledged' = acknowledged,
               Fits(q, DOMAIN db["users"], acknowledged)
        PROVE  DocumentsInvariant'
    <3>1. UsersStay' BY <2>s DEF DocumentsInvariant, UsersStay
    <3> QED BY <2>s, <3>1, OneRequestSteps
  <2>1. ASSUME NEW r \in Requests, NEW kind, NEW collection, NEW id, NEW argument,
               Send(r, kind, collection, id, argument),
               OpFits([kind |-> kind, collection |-> collection, id |-> id,
                       argument |-> argument])
        PROVE  DocumentsInvariant'
    BY <2>1, <2>s DEF Send, Fits
  <2>2. ASSUME NEW r \in Requests,
               \/ CreateUser(r) \/ FindAllUsers(r) \/ FindOneUser(r) \/ RemoveUser(r)
               \/ CreateToken(r) \/ FindAllTokens(r)
        PROVE  DocumentsInvariant'
    <3>1. CASE CreateUser(r) BY <3>1, <2>1 DEF CreateUser, OpFits, Collections
    <3>2. CASE FindAllUsers(r) BY <3>2, <2>1 DEF FindAllUsers, OpFits, Collections
    <3>3. CASE FindOneUser(r) BY <3>3, <2>1 DEF FindOneUser, OpFits, Collections
    <3>4. CASE RemoveUser(r) BY <3>4, <2>1 DEF RemoveUser, OpFits, Collections
    <3>5. CASE CreateToken(r) BY <3>5, <2>1 DEF CreateToken, OpFits, Collections
    <3>6. CASE FindAllTokens(r) BY <3>6, <2>1 DEF FindAllTokens, OpFits, Collections
    <3> QED BY <2>2, <3>1, <3>2, <3>3, <3>4, <3>5, <3>6
  <2>3. ASSUME NEW r \in Requests, InsertOne(r) PROVE DocumentsInvariant'
    <3> DEFINE op == request[r].op
    <3>1. OpFits(op) /\ op.kind = "insertOne"
      BY <2>3 DEF InsertOne, Reaches, DocumentsInvariant, Fits
    <3>2. /\ db' = [db EXCEPT ![op.collection] =
                        [id \in DOMAIN db[op.collection] \cup {op.id} |->
                            IF id = op.id THEN Saved(op.collection, op.id, op.argument)
                                          ELSE db[op.collection][id]]]
          /\ request' = [request EXCEPT ![r] =
                 [pc |-> "back", op |-> op, since |-> request[r].since, result |-> {op.id}]]
          /\ acknowledged' = acknowledged
      BY <2>3 DEF InsertOne, Back
    <3> HIDE DEF op
    <3>3. /\ DOMAIN db' = Collections
          /\ db' = [collection \in Collections |-> db'[collection]]
          /\ DOMAIN db["users"] \subseteq DOMAIN db'["users"]
          /\ op.collection = "users" => op.id \in DOMAIN db'["users"]
          /\ \A id \in DOMAIN db'["users"] :
                \/ id \in DOMAIN db["users"] /\ db'["users"][id] = db["users"][id]
                \/ db'["users"][id] = Saved("users", id, op.argument)
      BY <3>1, <3>2 DEF DocumentsInvariant, UsersStay, OpFits, Collections
    <3>4. UsersStay'
      <4>1. \A id \in DOMAIN db'["users"] : DOMAIN db'["users"][id] = {"_id"}
        BY <3>3, UsersHaveNoPaths DEF DocumentsInvariant, UsersStay
      <4>2. acknowledged' \subseteq DOMAIN db'["users"]
        BY <3>2, <3>3 DEF DocumentsInvariant, UsersStay
      <4> QED BY <3>3, <4>1, <4>2 DEF UsersStay
    <3>5. Fits([pc |-> "back", op |-> op, since |-> request[r].since, result |-> {op.id}],
               DOMAIN db'["users"], acknowledged')
      BY <3>1, <3>3 DEF Fits
    <3> QED BY <3>2, <3>3, <3>4, <3>5, OneRequestSteps
  <2>4. ASSUME NEW r \in Requests, Find(r) PROVE DocumentsInvariant'
    <3> DEFINE op == request[r].op
               q == [pc |-> "back", op |-> op, since |-> request[r].since,
                     result |-> DOMAIN db[op.collection]]
    <3>1. OpFits(op) /\ op.kind = "find" /\ request[r].since \subseteq acknowledged
      BY <2>4 DEF Find, Reaches, DocumentsInvariant, Fits
    <3>2. request' = [request EXCEPT ![r] = q] /\ db' = db /\ acknowledged' = acknowledged
      BY <2>4 DEF Find, Back
    <3>3. Fits(q, DOMAIN db["users"], acknowledged)
      BY <3>1 DEF Fits, DocumentsInvariant, UsersStay
    <3> QED BY <2>s, <3>2, <3>3
  <2>5. ASSUME NEW r \in Requests, FindOne(r) PROVE DocumentsInvariant'
    <3> DEFINE op == request[r].op
    <3>1. OpFits(op) /\ op.kind = "findOne"
      BY <2>5 DEF FindOne, Reaches, DocumentsInvariant, Fits
    <3>2. PICK found : Back(r, found)
      BY <2>5 DEF FindOne
    <3> DEFINE q == [pc |-> "back", op |-> op, since |-> request[r].since, result |-> found]
    <3>3. request' = [request EXCEPT ![r] = q] /\ db' = db /\ acknowledged' = acknowledged
      BY <2>5, <3>2 DEF FindOne, Back
    <3>4. Fits(q, DOMAIN db["users"], acknowledged) BY <3>1 DEF Fits
    <3> QED BY <2>s, <3>3, <3>4
  <2>6. ASSUME NEW r \in Requests, DeleteOne(r) PROVE DocumentsInvariant'
    <3> DEFINE op == request[r].op
               q == [pc |-> "back", op |-> op, since |-> request[r].since, result |-> {}]
    <3>1. OpFits(op) /\ op.kind = "deleteOne" /\ op.collection = "users"
      BY <2>6 DEF DeleteOne, Reaches, DocumentsInvariant, Fits, OpFits
    <3>2. Matching(op) = {} BY <3>1, RemovalsMatchNone DEF DocumentsInvariant
    <3>3. /\ request' = [request EXCEPT ![r] = q] /\ acknowledged' = acknowledged
          /\ db' = [db EXCEPT !["users"] = [id \in DOMAIN db["users"] \ {} |-> db["users"][id]]]
      BY <2>6, <3>1, <3>2 DEF DeleteOne, Back, OneOf
    <3>4. /\ UsersStay' /\ DOMAIN db'["users"] = DOMAIN db["users"]
      BY <3>3 DEF DocumentsInvariant, UsersStay, Collections
    <3>5. Fits(q, DOMAIN db'["users"], acknowledged') BY <3>1 DEF Fits
    <3> QED BY <3>3, <3>4, <3>5, OneRequestSteps
  <2>7. ASSUME NEW r \in Requests, NEW status, End(r, status),
               request[r].pc = "back" \/ (request[r].pc = "mongo" /\ status # "ok"),
               NEW answered
        PROVE  \E q : /\ request' = [request EXCEPT ![r] = q]
                      /\ Fits(q, DOMAIN db["users"], answered)
    <3> DEFINE q == [pc |-> "done", op |-> request[r].op, since |-> request[r].since,
                     status |-> status,
                     body |-> IF status = "ok" THEN request[r].result ELSE {}]
    <3>1. request' = [request EXCEPT ![r] = q] BY <2>7 DEF End
    <3>2. Fits(q, DOMAIN db["users"], answered) BY <2>7 DEF Fits, DocumentsInvariant
    <3> QED BY <3>1, <3>2
  <2>8. ASSUME NEW r \in Requests, Answer(r) PROVE DocumentsInvariant'
    <3>1. PICK status : End(r, status) BY <2>8 DEF Answer
    <3>2. /\ request[r].pc = "back" /\ db' = db
          /\ acknowledged \subseteq acknowledged'
          /\ acknowledged' \subseteq DOMAIN db["users"]
      BY <2>8 DEF Answer, DocumentsInvariant, UsersStay, Fits
    <3>3. PICK q : /\ request' = [request EXCEPT ![r] = q]
                   /\ Fits(q, DOMAIN db["users"], acknowledged')
      BY <2>7, <3>1, <3>2
    <3>4. UsersStay' BY <3>2 DEF DocumentsInvariant, UsersStay
    <3> QED BY <3>2, <3>3, <3>4, OneRequestSteps
  <2>9. ASSUME NEW r \in Requests, Fail(r) PROVE DocumentsInvariant'
    <3>1. PICK q : /\ request' = [request EXCEPT ![r] = q]
                   /\ Fits(q, DOMAIN db["users"], acknowledged)
      BY <2>7, <2>9 DEF Fail
    <3> QED BY <2>s, <2>9, <3>1 DEF Fail
  <2>10. CASE UNCHANGED documentsVars
    BY <2>10 DEF documentsVars, DocumentsInvariant, UsersStay
  <2> QED BY <2>2, <2>3, <2>4, <2>5, <2>6, <2>8, <2>9, <2>10 DEF DocumentsNext
<1> QED BY <1>1, <1>2, PTL DEF DocumentsSpec

\* A list of users has every user whose POST was answered before the list was asked for
\* and whom no DELETE names, for every number of requests, ids and bodies: no removal
\* takes the user of another. The proof shows why at this commit: the filter of
\* DELETE /users/:id is on a path no user has, and matches none.
THEOREM AnsweredCreatesStay == DocumentsSpec => []AnsweredCreatesAreListed
<1>1. DocumentsInvariant => AnsweredCreatesAreListed
  BY DEF DocumentsInvariant, Fits, AnsweredCreatesAreListed
<1> QED BY <1>1, DocumentsInvariantHolds, PTL

-----------------------------------------------------------------------------
(***************************************************************************)
(* Queries of contracts and of the DEX.                                    *)
(***************************************************************************)
Bytes == 0..255
Digits == Seq(0..15)

\* Two digits for every byte, also where toString gives one.
LEMMA PadHexReadsBack ==
    ASSUME NEW byte \in Bytes
    PROVE  /\ PadHex(byte) \in Digits /\ Len(PadHex(byte)) = 2
           /\ 16 * PadHex(byte)[1] + PadHex(byte)[2] = byte
<1>1. CASE byte < 16
  <2>1. ToHex(byte) = <<byte>>
    BY <1>1 DEF ToHex
  <2>2. Len(<<byte>>) % 2 = 1
    OBVIOUS
  <2>3. PadHex(byte) = <<0>> \o <<byte>>
    BY <2>1, <2>2 DEF PadHex
  <2>4. <<0>> \in Digits /\ <<byte>> \in Digits /\ Len(<<0>>) = 1 /\ Len(<<byte>>) = 1
    BY <1>1 DEF Bytes, Digits
  <2>5. PadHex(byte) \in Digits /\ Len(PadHex(byte)) = 2
        /\ PadHex(byte)[1] = <<0>>[1] /\ PadHex(byte)[2] = <<byte>>[1]
    BY <2>3, <2>4, ConcatProperties DEF Digits
  <2> QED BY <2>5 DEF Bytes
<1>2. CASE ~ byte < 16
  <2>1. ToHex(byte) = <<byte \div 16, byte % 16>>
    BY <1>2 DEF ToHex
  <2>2. Len(<<byte \div 16, byte % 16>>) % 2 = 0
    OBVIOUS
  <2>3. PadHex(byte) = <<byte \div 16, byte % 16>>
    BY <2>1, <2>2 DEF PadHex
  <2>4. byte \div 16 \in 0..15 /\ byte % 16 \in 0..15 /\ 16 * (byte \div 16) + (byte % 16) = byte
    BY DEF Bytes
  <2> QED BY <2>3, <2>4 DEF Digits
<1> QED BY <1>1, <1>2

\* The digits of the first k bytes stand two by two.
Spells(text, bytes, k) ==
    /\ Len(text) = 2 * k
    /\ \A i \in 1..k : 16 * text[2 * i - 1] + text[2 * i] = bytes[i]

\* The next byte is spelt behind those before it.
LEMMA SpellsOneMore ==
    ASSUME NEW bytes \in Seq(Bytes), NEW k \in 1..Len(bytes),
           NEW text \in Digits, Spells(text, bytes, k - 1)
    PROVE  Spells(text \o PadHex(bytes[k]), bytes, k)
<1> DEFINE more == PadHex(bytes[k])
           longer == text \o more
<1>1. bytes[k] \in Bytes /\ k \in Nat /\ k >= 1
  OBVIOUS
<1>2. more \in Digits /\ Len(more) = 2 /\ 16 * more[1] + more[2] = bytes[k]
  BY <1>1, PadHexReadsBack
<1> HIDE DEF more
<1>3. /\ Len(longer) = 2 * k
      /\ \A i \in 1..(2 * k - 2) : longer[i] = text[i]
      /\ longer[2 * k - 1] = more[1] /\ longer[2 * k] = more[2]
  <2>1. Len(text) = 2 * (k - 1) /\ Len(text) \in Nat
    BY DEF Spells, Digits
  <2>2. more \in Seq(0..15) /\ text \in Seq(0..15)
    BY <1>2 DEF Digits
  <2>3. /\ Len(longer) = Len(text) + Len(more)
        /\ \A i \in 1..(Len(text) + Len(more)) :
              longer[i] = IF i <= Len(text) THEN text[i] ELSE more[i - Len(text)]
    BY <2>2, ConcatProperties
  <2>4. /\ Len(longer) = Len(text) + 2
        /\ \A i \in 1..(Len(text) + 2) :
              longer[i] = IF i <= Len(text) THEN text[i] ELSE more[i - Len(text)]
    BY <2>3, <1>2
  <2> HIDE DEF longer
  <2>5. Len(text) = 2 * k - 2
    BY <1>1, <2>1
  <2>6. Len(longer) = 2 * k
    BY <1>1, <2>4, <2>5
  <2>7. \A i \in 1..(2 * k - 2) : longer[i] = text[i]
    BY <1>1, <2>4, <2>5
  <2>8. longer[2 * k - 1] = more[1] /\ longer[2 * k] = more[2]
    <3>1. /\ 2 * k - 1 \in 1..(Len(text) + 2) /\ ~ 2 * k - 1 <= Len(text)
          /\ 2 * k - 1 - Len(text) = 1
          /\ 2 * k \in 1..(Len(text) + 2) /\ ~ 2 * k <= Len(text) /\ 2 * k - Len(text) = 2
      BY <1>1, <2>5
    <3> QED BY <2>4, <3>1
  <2> QED BY <2>6, <2>7, <2>8
<1> HIDE DEF longer
<1>4. ASSUME NEW i \in 1..k PROVE 16 * longer[2 * i - 1] + longer[2 * i] = bytes[i]
  <2>1. CASE i = k
    BY <2>1, <1>2, <1>3
  <2>2. CASE i # k
    <3>1. i \in 1..(k - 1) /\ 2 * i - 1 \in 1..(2 * k - 2) /\ 2 * i \in 1..(2 * k - 2)
      BY <1>1, <2>2
    <3> QED BY <3>1, <1>3 DEF Spells
  <2> QED BY <2>1, <2>2
<1>5. Spells(longer, bytes, k)
  BY <1>3, <1>4 DEF Spells
<1> QED BY <1>5 DEF longer, more

\* The fold over the bytes spells all of them.
LEMMA AddressSpells ==
    ASSUME NEW bytes \in Seq(Bytes)
    PROVE  Spells(Array20ToHex(bytes), bytes, Len(bytes))
<1> DEFINE step == [x \in Bytes |-> [v \in Digits |-> v \o PadHex(x)]]
<1>1. \A x \in Bytes, v \in Digits : step[x][v] \in Digits /\ step[x][v] = v \o PadHex(x)
  BY PadHexReadsBack DEF Digits
<1>2. << >> \in Digits
  BY DEF Digits
<1> HIDE DEF step
<1>3. PICK h \in [SUBSET DOMAIN bytes -> Digits] : TakesLast(h, bytes, step, << >>)
  BY <1>1, <1>2, FoldLeftExists
<1> DEFINE S == DOMAIN bytes
           Iterates(g) == g = [s \in SUBSET S |->
               IF s = {} THEN << >> ELSE g[s \ {Max(s)}] \o PadHex(bytes[Max(s)])]
<1>4. IsFiniteSet(S) /\ \A s \in (SUBSET S) \ {{}} : Max(s) \in s
  <2> DEFINE n == Len(bytes)
  <2>1. S = 1..n /\ n \in Nat
    OBVIOUS
  <2> HIDE DEF n, S
  <2>2. IsFiniteSet(S)
    BY <2>1, FS_Interval
  <2> QED BY <2>1, <2>2, MaxIsIn
<1>5. Iterates(h)
  <2>1. ASSUME NEW s \in SUBSET S
        PROVE  h[s] = IF s = {} THEN << >> ELSE h[s \ {Max(s)}] \o PadHex(bytes[Max(s)])
    <3>1. CASE s = {} BY <3>1, <1>3 DEF TakesLast
    <3>2. CASE s # {}
      <4>1. h[s] = step[bytes[Max(s)]][h[s \ {Max(s)}]] BY <3>2, <1>3 DEF TakesLast
      <4>2. bytes[Max(s)] \in Bytes /\ h[s \ {Max(s)}] \in Digits BY <3>2, <1>4
      <4> QED BY <3>2, <4>1, <4>2, <1>1
    <3> QED BY <3>1, <3>2
  <2> QED BY <2>1
<1>6. ASSUME NEW g, Iterates(g) PROVE g[S] = h[S]
  <2> DEFINE Differ == {s \in SUBSET S : g[s] # h[s]}
  <2> SUFFICES ASSUME Differ # {} PROVE FALSE
    OBVIOUS
  <2>1. Differ \in SUBSET SUBSET S
    OBVIOUS
  <2> HIDE DEF Differ, S
  <2>2. PICK s \in Differ : \A r \in Differ : r \subseteq s => r = s
    BY <1>4, <2>1, MinimalSet
  <2>3. s \in SUBSET S /\ g[s] # h[s]
    BY <2>2 DEF Differ
  <2>4. s # {}
    BY <2>3, <1>5, <1>6
  <2>5. Max(s) \in s
    BY <2>3, <2>4, <1>4
  <2>6. g[s \ {Max(s)}] = h[s \ {Max(s)}]
    BY <2>2, <2>3, <2>5 DEF Differ
  <2> QED BY <2>3, <2>4, <2>6, <1>5, <1>6
<1>7. Array20ToHex(bytes) = h[S]
  <2> DEFINE g == CHOOSE g : Iterates(g)
  <2>1. Iterates(g)
    BY <1>5
  <2>2. Array20ToHex(bytes) = g[S]
    BY DEF Array20ToHex, FoldLeft, MapThenFoldSet
  <2> QED BY <2>1, <2>2, <1>6
<1>8. PICK t \in [0..Len(bytes) -> Digits] : FoldsOn(t, h, bytes, step, << >>)
  BY <1>3, FoldLeftGoesOn
<1> DEFINE Bad == {k \in 0..Len(bytes) : ~ Spells(t[k], bytes, k)}
<1>9. Bad = {}
  <2> SUFFICES ASSUME Bad # {} PROVE FALSE
    OBVIOUS
  <2>1. Bad \in SUBSET Nat
    OBVIOUS
  <2> HIDE DEF Bad
  <2>2. PICK k \in Bad : k # 0 => k - 1 \notin Bad
    BY <2>1, LeastNumber
  <2>3. k \in 0..Len(bytes) /\ ~ Spells(t[k], bytes, k)
    BY <2>2 DEF Bad
  <2>4. k # 0
    BY <2>3, <1>8 DEF Spells, FoldsOn
  <2>5. k \in 1..Len(bytes) /\ k - 1 \in 0..Len(bytes)
    BY <2>3, <2>4
  <2>6. Spells(t[k - 1], bytes, k - 1)
    BY <2>2, <2>4, <2>5 DEF Bad
  <2>7. bytes[k] \in Bytes /\ t[k - 1] \in Digits
    BY <2>5, <1>8
  <2>8. t[k] = t[k - 1] \o PadHex(bytes[k])
    BY <2>5, <2>7, <1>8, <1>1 DEF FoldsOn
  <2> QED BY <2>3, <2>5, <2>6, <2>7, <2>8, SpellsOneMore
<1> QED BY <1>7, <1>8, <1>9 DEF FoldsOn

\* flat() of the one sequence a contract answers with is that sequence.
LEMMA FlattenOfOne ==
    ASSUME NEW seq PROVE FlattenSeq(<<seq>>) = seq
<1> DEFINE Flattens(f) == f = [i \in 1..Len(<<seq>>) |->
               IF i = 1 THEN <<seq>>[i] ELSE f[i - 1] \o <<seq>>[i]]
           f == CHOOSE f : Flattens(f)
<1>1. Flattens([i \in 1..1 |-> seq])
  OBVIOUS
<1>2. Flattens(f)
  BY <1>1
<1>3. FlattenSeq(<<seq>>) = f[1]
  BY DEF FlattenSeq
<1> QED BY <1>2, <1>3

-----------------------------------------------------------------------------
\* What is asked for, and of which contract.
QueryFits(query) ==
    \/ /\ query.method = "getErc20AddressForTokenId"
       /\ query.argument \in Tokens /\ query.contract = Multisig(query.argument)
    \/ query.method = "getTokenLiquidity"
    \/ query.method = "getChainSpecificToUniversalMapping" /\ query.argument \in Tokens
    \/ query.method = "getchainSpecificTokenIds" /\ query.argument \in DOMAIN Universal

\* What a caller who has been given a value has.
ValueFits(query, value) ==
    /\ query.method = "getErc20AddressForTokenId" =>
          query.argument \in Tokens /\ value = Array20ToHex(Erc20[query.argument])
    /\ query.method = "getTokenLiquidity" => value # Undefined
    /\ query.method = "getchainSpecificTokenIds" => value = Universal[query.argument]
    /\ query.method = "getChainSpecificToUniversalMapping" =>
          LET universals == Universals(query.argument)
          IN  IF universals = {} THEN value = Undefined ELSE value \in universals
    /\ query.method = "testDex" => ~query.reply.errors

CallFits(q) ==
    /\ q.pc \in {"readFile", "runQuery"} => QueryFits(q.query)
    /\ q.pc = "resolved" => ValueFits(q.query, q.value)

QueriesInvariant ==
    /\ call = [c \in Callers |-> call[c]]
    /\ \A c \in Callers : CallFits(call[c])

\* A step of one caller.
LEMMA OneCallSteps ==
    ASSUME QueriesInvariant, NEW c \in Callers, NEW q, CallFits(q),
           call' = [call EXCEPT ![c] = q]
    PROVE  QueriesInvariant'
BY DEF QueriesInvariant

\* Whatever the contract answers is used as it should be.
LEMMA UseFits ==
    ASSUME NEW c \in Callers, NEW query, call[c].query = query, QueryFits(query),
           NEW response \in ContractAnswers(query), Use(c, query.method, response)
    PROVE  \E q : CallFits(q) /\ call' = [call EXCEPT ![c] = q]
<1> DEFINE failed == [pc |-> "rejected", query |-> query, status |-> "internalServerError"]
           given(value) == [pc |-> "resolved", query |-> query, value |-> value]
<1>1. Rejected(c, "internalServerError") => call' = [call EXCEPT ![c] = failed]
  BY DEF Rejected
<1>2. \A value : Resolved(c, value) => call' = [call EXCEPT ![c] = given(value)]
  BY DEF Resolved
<1>3. CallFits(failed)
  BY DEF CallFits
<1>4. \A value : ValueFits(query, value) => CallFits(given(value))
  BY DEF CallFits
<1> HIDE DEF failed, given
<1>5. CASE query.method = "getErc20AddressForTokenId"
  <2>1. query.argument \in Tokens /\ query.contract = Multisig(query.argument)
    BY <1>5 DEF QueryFits
  <2>2. response = <<Erc20[query.argument]>>
    BY <1>5, <2>1 DEF ContractAnswers, Multisig
  <2>3. Resolved(c, Array20ToHex(Erc20[query.argument]))
    BY <1>5, <2>2 DEF Use
  <2>4. ValueFits(query, Array20ToHex(Erc20[query.argument]))
    BY <1>5, <2>1 DEF ValueFits
  <2> QED BY <2>3, <2>4, <1>2, <1>4
<1>6. CASE query.method = "getTokenLiquidity"
  <2>1. response = <<"none">> \/ response = <<"some">>
    BY <1>6 DEF ContractAnswers
  <2>2. First(response) # Undefined /\ Resolved(c, First(response))
    <3>1. First(response) \in {"none", "some"}
      BY <2>1 DEF First
    <3>2. Resolved(c, First(response))
      BY <1>6 DEF Use
    <3> QED BY <3>1, <3>2, UpstreamAssumption DEF UpstreamAssumption
  <2>3. ValueFits(query, First(response))
    BY <1>6, <2>2 DEF ValueFits
  <2> QED BY <2>2, <2>3, <1>2, <1>4
<1>7. CASE query.method = "getChainSpecificToUniversalMapping"
  <2>1. Resolved(c, First(response))
    BY <1>7 DEF Use
  <2> DEFINE universals == Universals(query.argument)
  <2>2. response \in IF universals = {} THEN {<< >>}
                                        ELSE {<<universal>> : universal \in universals}
    BY <1>7 DEF ContractAnswers
  <2> HIDE DEF universals
  <2>3. IF universals = {} THEN First(response) = Undefined ELSE First(response) \in universals
    <3>1. CASE universals = {}
      BY <2>2, <3>1 DEF First
    <3>2. CASE universals # {}
      <4>1. PICK universal \in universals : response = <<universal>>
        BY <2>2, <3>2
      <4>2. First(response) = universal
        BY <4>1 DEF First
      <4> QED BY <3>2, <4>2
    <3> QED BY <3>1, <3>2
  <2>4. ValueFits(query, First(response))
    BY <1>7, <2>3 DEF ValueFits, universals
  <2> QED BY <2>1, <2>4, <1>2, <1>4
<1>8. CASE query.method = "getchainSpecificTokenIds"
  <2>1. response = <<Universal[query.argument]>>
    BY <1>8 DEF ContractAnswers
  <2>2. Resolved(c, Universal[query.argument])
    BY <1>8, <2>1, FlattenOfOne DEF Use
  <2>3. ValueFits(query, Universal[query.argument])
    BY <1>8 DEF ValueFits
  <2> QED BY <2>2, <2>3, <1>2, <1>4
<1> QED BY <1>5, <1>6, <1>7, <1>8 DEF QueryFits

\* The invariant holds in every reachable state.
LEMMA QueriesInvariantHolds == QueriesSpec => []QueriesInvariant
<1>1. QueriesInit => QueriesInvariant
  BY DEF QueriesInit, QueriesInvariant, CallFits
<1>2. ASSUME QueriesInvariant, [QueriesNext]_queriesVars
      PROVE  QueriesInvariant'
  <2> USE <1>2
  <2>1. ASSUME NEW c \in Callers, NEW interface, NEW contract, NEW method, NEW argument,
               Query(c, interface, contract, method, argument),
               QueryFits([interface |-> interface, contract |-> contract,
                          method |-> method, argument |-> argument])
        PROVE  QueriesInvariant'
    <3> DEFINE query == [interface |-> interface, contract |-> contract,
                         method |-> method, argument |-> argument]
    <3>1. call' = [call EXCEPT ![c] = [pc |-> "readFile", query |-> query]]
      BY <2>1 DEF Query
    <3> HIDE DEF query
    <3>2. CallFits([pc |-> "readFile", query |-> query])
      BY <2>1 DEF CallFits, query
    <3> QED BY <3>1, <3>2, OneCallSteps
  <2>2. ASSUME NEW c \in Callers, NEW status, Rejected(c, status)
        PROVE  QueriesInvariant'
    <3>1. CallFits([pc |-> "rejected", query |-> call[c].query, status |-> status])
      BY DEF CallFits
    <3> QED BY <2>2, <3>1, OneCallSteps DEF Rejected
  <2>3. ASSUME NEW c \in Callers, NEW token \in Tokens,
               \/ GetErc20AddressForTokenId(c, token)
               \/ GetChainSpecificToUniversalMapping(c, token)
               \/ GetTokenLiquidity(c, token)
        PROVE  QueriesInvariant'
    <3>1. CASE GetErc20AddressForTokenId(c, token)
      BY <3>1, <2>1 DEF GetErc20AddressForTokenId, QueryFits
    <3>2. CASE GetChainSpecificToUniversalMapping(c, token)
      BY <3>2, <2>1 DEF GetChainSpecificToUniversalMapping, Wrapper, QueryFits
    <3>3. CASE GetTokenLiquidity(c, token)
      BY <3>3, <2>1 DEF GetTokenLiquidity, Wrapper, QueryFits
    <3> QED BY <2>3, <3>1, <3>2, <3>3
  <2>4. ASSUME NEW c \in Callers, NEW universal \in DOMAIN Universal,
               GetChainSpecificTokenIds(c, universal)
        PROVE  QueriesInvariant'
    BY <2>4, <2>1 DEF GetChainSpecificTokenIds, Wrapper, QueryFits
  <2>5. ASSUME NEW c \in Callers, TestDex(c) PROVE QueriesInvariant'
    <3>1. CallFits([pc |-> "fetch", query |-> [method |-> "testDex"]])
      BY DEF CallFits
    <3> QED BY <2>5, <3>1, OneCallSteps DEF TestDex
  <2>6. ASSUME NEW c \in Callers, GetSmartContract(c) PROVE QueriesInvariant'
    <3>1. CASE Rejected(c, "internalServerError")
      BY <3>1, <2>2
    <3>2. CASE call' = [call EXCEPT ![c].pc = "runQuery"]
      <4>1. QueryFits(call[c].query)
        BY <2>6 DEF GetSmartContract, QueriesInvariant, CallFits
      <4>2. call' = [call EXCEPT ![c] = [call[c] EXCEPT !.pc = "runQuery"]]
        BY <3>2
      <4>3. CallFits([call[c] EXCEPT !.pc = "runQuery"])
        BY <4>1 DEF CallFits
      <4> QED BY <4>2, <4>3, OneCallSteps
    <3> QED BY <2>6, <3>1, <3>2 DEF GetSmartContract
  <2>7. ASSUME NEW c \in Callers, GetGenericData(c) PROVE QueriesInvariant'
    <3>1. QueryFits(call[c].query)
      BY <2>7 DEF GetGenericData, QueriesInvariant, CallFits
    <3>2. CASE Rejected(c, "internalServerError")
      BY <3>2, <2>2
    <3>3. CASE \E response \in ContractAnswers(call[c].query) :
                  Use(c, call[c].query.method, response)
      BY <3>1, <3>3, UseFits, OneCallSteps
    <3> QED BY <2>7, <3>2, <3>3 DEF GetGenericData
  <2>8. ASSUME NEW c \in Callers, FetchGraphQL(c) PROVE QueriesInvariant'
    <3>1. ASSUME NEW status, Rejected(c, status) PROVE QueriesInvariant'
      BY <3>1, <2>2
    <3>2. ASSUME NEW reply \in DexReplies, ~reply.errors,
                 call' = [call EXCEPT ![c] =
                    [pc |-> "resolved", query |-> [method |-> "testDex", reply |-> reply],
                     value |-> reply.edges]]
          PROVE  QueriesInvariant'
      <4>1. CallFits([pc |-> "resolved", query |-> [method |-> "testDex", reply |-> reply],
                      value |-> reply.edges])
        BY <3>2 DEF CallFits, ValueFits
      <4> QED BY <3>2, <4>1, OneCallSteps
    <3> QED BY <2>8, <3>1, <3>2 DEF FetchGraphQL
  <2>9. CASE UNCHANGED queriesVars
    BY <2>9 DEF queriesVars, QueriesInvariant
  <2> QED BY <2>3, <2>4, <2>5, <2>6, <2>7, <2>8, <2>9 DEF QueriesNext
<1> QED BY <1>1, <1>2, PTL DEF QueriesSpec

\* Whatever the bytes of a token's address and however many there are, a caller who asks
\* for it gets two digits for each byte, which read back as that byte
\* (proxy.service.ts:187).
THEOREM AddressesSpelt == QueriesSpec => []AddressesReadBack
<1>1. QueriesInvariant => AddressesReadBack
  <2> SUFFICES ASSUME QueriesInvariant, NEW c \in Callers,
                      ResolvedBy(c, "getErc20AddressForTokenId")
               PROVE  LET text == call[c].value
                          bytes == Erc20[call[c].query.argument]
                      IN  /\ Len(text) = 2 * Len(bytes)
                          /\ \A i \in DOMAIN bytes :
                                16 * text[2 * i - 1] + text[2 * i] = bytes[i]
    BY DEF AddressesReadBack
  <2> DEFINE bytes == Erc20[call[c].query.argument]
  <2>1. call[c].query.argument \in Tokens /\ call[c].value = Array20ToHex(bytes)
    BY DEF QueriesInvariant, CallFits, ValueFits, ResolvedBy
  <2>2. bytes \in Seq(Bytes)
    BY <2>1, UpstreamAssumption DEF UpstreamAssumption, Bytes
  <2> HIDE DEF bytes
  <2>3. Spells(call[c].value, bytes, Len(bytes)) /\ DOMAIN bytes = 1..Len(bytes)
    BY <2>1, <2>2, AddressSpells
  <2> QED BY <2>3 DEF Spells, bytes
<1> QED BY <1>1, QueriesInvariantHolds, PTL

\* Whatever fails on the way and whatever the universal tokens are, a caller is given what
\* the contracts have, is told that a token stands for no universal one only if it stands
\* for none, and never gets pairs of the DEX that came beside errors.
THEOREM WholeAnswersOnly == QueriesSpec => []OnlyWholeAnswersAreData
<1>1. QueriesInvariant => OnlyWholeAnswersAreData
  BY DEF QueriesInvariant, CallFits, ValueFits, ResolvedBy, OnlyWholeAnswersAreData
<1> QED BY <1>1, QueriesInvariantHolds, PTL

-----------------------------------------------------------------------------
(***************************************************************************)
(* The list of examples, page by page.                                     *)
(***************************************************************************)
\* What is left of a list has elements of the list only.
LEMMA FilterType ==
    ASSUME NEW Elements, NEW list \in Seq(Elements), NEW wanted
    PROVE  Filter(list, wanted) \in Seq(Elements)
<1> DEFINE Acc == Seq(Elements)
           step == [x \in Elements |-> [v \in Acc |-> IF x \in wanted THEN Append(v, x) ELSE v]]
<1>1. /\ \A x \in Elements, v \in Acc : step[x][v] \in Acc
      /\ \A x \in Elements, v \in Acc :
            step[x][v] = IF x \in wanted THEN Append(v, x) ELSE v
  OBVIOUS
<1>2. << >> \in Acc
  OBVIOUS
<1> HIDE DEF step, Acc
<1>3. PICK h \in [SUBSET DOMAIN list -> Acc] : TakesLast(h, list, step, << >>)
  <2>1. \A x \in Elements, v \in Acc : step[x][v] \in Acc
    BY <1>1
  <2> QED BY <1>2, <2>1, FoldLeftExists
<1> DEFINE S == DOMAIN list
           Iterates(g) == g = [s \in SUBSET S |->
               IF s = {} THEN << >>
               ELSE IF list[Max(s)] \in wanted THEN Append(g[s \ {Max(s)}], list[Max(s)])
                                               ELSE g[s \ {Max(s)}]]
<1>4. IsFiniteSet(S) /\ \A s \in (SUBSET S) \ {{}} : Max(s) \in s
  <2> DEFINE n == Len(list)
  <2>1. S = 1..n /\ n \in Nat
    OBVIOUS
  <2> HIDE DEF n, S
  <2>2. IsFiniteSet(S)
    BY <2>1, FS_Interval
  <2> QED BY <2>1, <2>2, MaxIsIn
<1>5. Iterates(h)
  <2>1. ASSUME NEW s \in SUBSET S
        PROVE  h[s] = IF s = {} THEN << >>
                      ELSE IF list[Max(s)] \in wanted
                           THEN Append(h[s \ {Max(s)}], list[Max(s)])
                           ELSE h[s \ {Max(s)}]
    <3>1. CASE s = {} BY <3>1, <1>3 DEF TakesLast
    <3>2. CASE s # {}
      <4>1. h[s] = step[list[Max(s)]][h[s \ {Max(s)}]] BY <3>2, <1>3 DEF TakesLast
      <4>2. list[Max(s)] \in Elements /\ h[s \ {Max(s)}] \in Acc BY <3>2, <1>4
      <4> QED BY <3>2, <4>1, <4>2, <1>1
    <3> QED BY <3>1, <3>2
  <2> QED BY <2>1
<1>6. ASSUME NEW g, Iterates(g) PROVE g[S] = h[S]
  <2> DEFINE Differ == {s \in SUBSET S : g[s] # h[s]}
  <2> SUFFICES ASSUME Differ # {} PROVE FALSE
    OBVIOUS
  <2>1. Differ \in SUBSET SUBSET S
    OBVIOUS
  <2> HIDE DEF Differ, S
  <2>2. PICK s \in Differ : \A r \in Differ : r \subseteq s => r = s
    BY <1>4, <2>1, MinimalSet
  <2>3. s \in SUBSET S /\ g[s] # h[s]
    BY <2>2 DEF Differ
  <2>4. s # {}
    BY <2>3, <1>5, <1>6
  <2>5. Max(s) \in s
    BY <2>3, <2>4, <1>4
  <2>6. g[s \ {Max(s)}] = h[s \ {Max(s)}]
    BY <2>2, <2>3, <2>5 DEF Differ
  <2>7. /\ h[s] = IF list[Max(s)] \in wanted THEN Append(h[s \ {Max(s)}], list[Max(s)])
                                               ELSE h[s \ {Max(s)}]
        /\ g[s] = IF list[Max(s)] \in wanted THEN Append(g[s \ {Max(s)}], list[Max(s)])
                                               ELSE g[s \ {Max(s)}]
    BY <2>3, <2>4, <1>5, <1>6
  <2> QED BY <2>3, <2>6, <2>7
<1>7. Filter(list, wanted) = h[S]
  <2> DEFINE g == CHOOSE g : Iterates(g)
  <2>1. Iterates(g)
    BY <1>5
  <2>2. Filter(list, wanted) = g[S]
    BY DEF Filter, FoldLeft, MapThenFoldSet
  <2> QED BY <2>1, <2>2, <1>6
<1>8. h[S] \in Acc
  BY <1>3
<1> QED BY <1>7, <1>8 DEF Acc

\* A slice that does not begin before the list.
LEMMA PageFromStart ==
    ASSUME NEW Elements, NEW list \in Seq(Elements), NEW from \in Nat, NEW size \in Nat
    PROVE  LET page == Slice(list, from, from + size)
           IN  /\ page \in Seq(Elements)
               /\ \A i \in 1..Len(page) : /\ from + i <= Len(list)
                                          /\ page[i] = list[from + i]
               /\ Len(page) < size => Len(list) <= from + Len(page)
<1> DEFINE n == Len(list)
           m == Relative(from, n) + 1
           k == Relative(from + size, n)
           page == SubSeq(list, m, k)
<1>1. n \in Nat
  OBVIOUS
<1>2. m \in 1..(n + 1) /\ k \in 0..n
  BY <1>1 DEF Relative
<1>3. page \in Seq(Elements) /\ Len(page) = (IF m <= k THEN k - m + 1 ELSE 0)
      /\ \A i \in 1..(k - m + 1) : page[i] = list[m + i - 1]
  <2>1. \A i \in m..k : list[i] \in Elements
    BY <1>1, <1>2
  <2> HIDE DEF m, k
  <2> QED BY <1>1, <1>2, <2>1
<1>4. from <= n => m = from + 1
  BY <1>1 DEF Relative
<1>5. from > n => m = n + 1 /\ k = n
  BY <1>1 DEF Relative
<1>6. k = IF from + size > n THEN n ELSE from + size
  BY <1>1 DEF Relative
<1> HIDE DEF m, k, page
<1>7. ASSUME NEW i \in 1..Len(page) PROVE from + i <= n /\ page[i] = list[from + i]
  <2>1. m <= k /\ Len(page) = k - m + 1
    BY <1>1, <1>2, <1>3, <1>7
  <2>2. from <= n
    BY <2>1, <1>1, <1>5
  <2>3. m = from + 1 /\ i \in 1..(k - m + 1) /\ m + i - 1 = from + i
    BY <2>1, <2>2, <1>2, <1>4
  <2>4. page[i] = list[m + i - 1]
    BY <2>3, <1>3
  <2> QED BY <2>3, <2>4, <1>1, <1>2
<1>8. Len(page) < size => n <= from + Len(page)
  BY <1>1, <1>2, <1>3, <1>4, <1>5, <1>6
<1>9. Slice(list, from, from + size) = page
  BY DEF Slice, page, m, k
<1> QED BY <1>3, <1>7, <1>8, <1>9

\* A slice has at most as many elements as its ends are apart, negative ends included.
LEMMA SliceIsShort ==
    ASSUME NEW Elements, NEW list \in Seq(Elements), NEW from \in Int, NEW size \in Nat
    PROVE  Len(Slice(list, from, from + size)) <= size
<1> DEFINE n == Len(list)
           m == Relative(from, n) + 1
           k == Relative(from + size, n)
<1>1. n \in Nat
  OBVIOUS
<1>2. m \in 1..(n + 1) /\ k \in 0..n /\ k - m + 1 <= size
  BY <1>1 DEF Relative
<1>3. Len(SubSeq(list, m, k)) = IF m <= k THEN k - m + 1 ELSE 0
  <2>1. \A i \in m..k : list[i] \in Elements
    BY <1>1, <1>2
  <2> HIDE DEF m, k
  <2> QED BY <1>1, <1>2, <2>1
<1>4. Slice(list, from, from + size) = SubSeq(list, m, k)
  BY DEF Slice
<1> HIDE DEF m, k
<1> QED BY <1>1, <1>2, <1>3, <1>4

-----------------------------------------------------------------------------
\* Matches of a list are a sequence.
LEMMA MatchesType ==
    ASSUME NEW build \in Builds, NEW search
    PROVE  Matches(Lists[build], search) \in Seq(Range(Lists[build]))
<1>1. Lists[build] \in Range(Lists)
  BY DEF Builds, Range
<1>2. Lists[build] \in Seq(Range(Lists[build]))
  BY <1>1, ExamplesAssumption DEF ExamplesAssumption
<1> QED BY <1>2, FilterType DEF Matches

\* What one build's list has at a place of a walk.
Has(build, search, i, example) ==
    LET matches == Matches(Lists[build], search)
    IN  i <= Len(matches) /\ example = matches[i]

\* A walk under way: each place comes from a list seen, and one that has ended has come to
\* the end of a list seen.
WalkFits(w) ==
    /\ w = [pc |-> w.pc, search |-> w.search, size |-> w.size,
            collected |-> w.collected, seen |-> w.seen]
    /\ w.size \in Nat /\ w.size > 0
    /\ w.seen \subseteq Builds /\ w.collected \in Seq(Listed)
    /\ \A i \in 1..Len(w.collected) :
          \E build \in w.seen : Has(build, w.search, i, w.collected[i])
    /\ w.pc = "ended" => \E build \in w.seen :
          Len(Matches(Lists[build], w.search)) <= Len(w.collected)

ExamplesInvariant ==
    /\ walk.pc # "idle" => WalkFits(walk)
    /\ PagesHaveAtMostSize

LEMMA ListedType ==
    ASSUME NEW build \in Builds, NEW search
    PROVE  Matches(Lists[build], search) \in Seq(Listed)
<1>1. Range(Lists[build]) \subseteq Listed
  BY DEF Builds, Range, Listed
<1>2. Matches(Lists[build], search) \in Seq(Range(Lists[build]))
  BY MatchesType
<1> QED BY <1>1, <1>2

\* The next page goes on where the walk is, whichever list it comes from.
LEMMA NextPageFits ==
    ASSUME NEW w, WalkFits(w), NEW build \in Builds,
           NEW page, page = GetExamples(Lists[build], Len(w.collected), w.size, w.search)
    PROVE  WalkFits([pc |-> IF Len(page) < w.size THEN "ended" ELSE "walking",
                     search |-> w.search, size |-> w.size,
                     collected |-> w.collected \o page, seen |-> w.seen \cup {build}])
<1> DEFINE collected == w.collected
           size == w.size
           n == Len(collected)
           longer == collected \o page
           matches == Matches(Lists[build], w.search)
<1>1. n \in Nat /\ collected \in Seq(Listed) /\ size \in Nat /\ size > 0
  BY DEF WalkFits
<1>2. matches \in Seq(Listed)
  BY ListedType
<1>3. page = Slice(matches, n, n + size)
  BY DEF GetExamples
<1>4. \A i \in 1..n : \E b \in w.seen : Has(b, w.search, i, collected[i])
  BY DEF WalkFits
<1> HIDE DEF n, matches, collected, size
<1>5. /\ page \in Seq(Listed)
      /\ \A i \in 1..Len(page) : n + i <= Len(matches) /\ page[i] = matches[n + i]
      /\ Len(page) < size => Len(matches) <= n + Len(page)
  <2> DEFINE cut == Slice(matches, n, n + size)
  <2>1. /\ cut \in Seq(Listed)
        /\ \A i \in 1..Len(cut) : n + i <= Len(matches) /\ cut[i] = matches[n + i]
        /\ Len(cut) < size => Len(matches) <= n + Len(cut)
    BY <1>1, <1>2, PageFromStart
  <2> HIDE DEF cut
  <2>2. page = cut
    BY <1>3 DEF cut
  <2> QED BY <2>1, <2>2
<1>6. /\ longer \in Seq(Listed)
      /\ Len(longer) = n + Len(page)
      /\ \A i \in 1..(n + Len(page)) :
            longer[i] = IF i <= n THEN collected[i] ELSE page[i - n]
  BY <1>1, <1>5, ConcatProperties DEF n
<1> HIDE DEF longer
<1>7. ASSUME NEW i \in 1..Len(longer)
      PROVE  \E b \in w.seen \cup {build} : Has(b, w.search, i, longer[i])
  <2>1. Len(page) \in Nat /\ i \in 1..(n + Len(page))
    BY <1>5, <1>6
  <2>2. CASE i <= n
    <3>1. i \in 1..n /\ longer[i] = collected[i]
      BY <1>1, <1>6, <2>1, <2>2
    <3> QED BY <3>1, <1>4
  <2>3. CASE ~ i <= n
    <3>1. i - n \in 1..Len(page) /\ longer[i] = page[i - n] /\ n + (i - n) = i
      BY <1>1, <1>6, <2>1, <2>3
    <3>2. i <= Len(matches) /\ longer[i] = matches[i]
      BY <3>1, <1>5
    <3> QED BY <3>2 DEF Has, matches
  <2> QED BY <2>2, <2>3
<1>8. Len(page) < size => \E b \in w.seen \cup {build} :
          Len(Matches(Lists[b], w.search)) <= Len(longer)
  BY <1>5, <1>6 DEF matches
<1>9. w.seen \cup {build} \subseteq Builds
  BY DEF WalkFits
<1> QED BY <1>1, <1>6, <1>7, <1>8, <1>9 DEF WalkFits, longer, collected, size

\* The invariant holds in every reachable state.
LEMMA ExamplesInvariantHolds == ExamplesSpec => []ExamplesInvariant
<1>1. ExamplesInit => ExamplesInvariant
  BY DEF ExamplesInit, ExamplesInvariant, PagesHaveAtMostSize, NoAnswer
<1>2. ASSUME ExamplesInvariant, [ExamplesNext]_examplesVars
      PROVE  ExamplesInvariant'
  <2> USE <1>2
  <2>1. ASSUME NEW search \in Searches, NEW size \in Sizes, StartWalk(search, size)
        PROVE  ExamplesInvariant'
    <3>1. size \in Nat
      BY <2>1, ExamplesAssumption DEF StartWalk, ExamplesAssumption
    <3>2. WalkFits([pc |-> "walking", search |-> search, size |-> size,
                    collected |-> << >>, seen |-> {}])
      BY <2>1, <3>1 DEF StartWalk, WalkFits
    <3> QED BY <2>1, <3>2 DEF StartWalk, ExamplesInvariant, PagesHaveAtMostSize, NoAnswer
  <2>2. ASSUME NEW build \in Builds, NextPage(build) PROVE ExamplesInvariant'
    <3> DEFINE page == GetExamples(Lists[build], Len(walk.collected), walk.size, walk.search)
               next == [pc |-> IF Len(page) < walk.size THEN "ended" ELSE "walking",
                        search |-> walk.search, size |-> walk.size,
                        collected |-> walk.collected \o page, seen |-> walk.seen \cup {build}]
    <3>1. WalkFits(walk)
      BY <2>2 DEF NextPage, ExamplesInvariant
    <3>2. answer' = answer /\ walk' = next
      <4>1. walk = [pc |-> walk.pc, search |-> walk.search, size |-> walk.size,
                    collected |-> walk.collected, seen |-> walk.seen]
        BY <3>1 DEF WalkFits
      <4>2. walk' = [walk EXCEPT
                        !.pc = IF Len(page) < walk.size THEN "ended" ELSE "walking",
                        !.collected = walk.collected \o page,
                        !.seen = walk.seen \cup {build}]
        BY <2>2 DEF NextPage
      <4> HIDE DEF page
      <4>3. walk' = next
        BY <4>1, <4>2
      <4> QED BY <4>3, <2>2 DEF NextPage
    <3>3. WalkFits(next)
      BY <3>1, NextPageFits
    <3> QED BY <3>2, <3>3 DEF ExamplesInvariant, PagesHaveAtMostSize
  <2>3. CASE EndWalk
    BY <2>3 DEF EndWalk, ExamplesInvariant, PagesHaveAtMostSize
  <2>4. ASSUME NEW build \in Builds, NEW from \in Froms, NEW size \in Sizes,
               NEW search \in Searches, ListExamples(build, from, size, search)
        PROVE  ExamplesInvariant'
    <3> DEFINE body == GetExamples(Lists[build], from, size, search)
    <3>1. size >= 0 => Len(body) <= size
      <4> SUFFICES ASSUME size >= 0 PROVE Len(body) <= size
        OBVIOUS
      <4>1. from \in Int /\ size \in Nat
        BY ExamplesAssumption DEF ExamplesAssumption
      <4>2. Matches(Lists[build], search) \in Seq(Listed)
        BY ListedType
      <4> QED BY <4>1, <4>2, SliceIsShort DEF GetExamples
    <3> HIDE DEF body
    <3>2. /\ answer' = [request |-> "list", build |-> build, from |-> from, size |-> size,
                        search |-> search, body |-> body]
          /\ walk' = walk
      BY <2>4 DEF ListExamples, body
    <3> QED BY <3>1, <3>2 DEF ExamplesInvariant, PagesHaveAtMostSize
  <2>5. ASSUME NEW build \in Builds, NEW listed \in Listed, ShowExample(build, listed)
        PROVE  ExamplesInvariant'
    BY <2>5 DEF ShowExample, ExamplesInvariant, PagesHaveAtMostSize
  <2>6. CASE Deploy
    BY <2>6 DEF Deploy, ExamplesInvariant, PagesHaveAtMostSize
  <2>7. CASE UNCHANGED examplesVars
    BY <2>7 DEF examplesVars, ExamplesInvariant, PagesHaveAtMostSize
  <2> QED BY <2>1, <2>2, <2>3, <2>4, <2>5, <2>6, <2>7 DEF ExamplesNext
<1> QED BY <1>1, <1>2, PTL DEF ExamplesSpec

\* A walk through the pages has in each place a match that one of the lists it came from
\* has there, for all lists, builds, searches and page sizes.
THEOREM PlacesKept == ExamplesSpec => []PlacesAreKept
<1>1. ExamplesInvariant => PlacesAreKept
  <2> SUFFICES ASSUME ExamplesInvariant, walk.pc # "idle", NEW i \in DOMAIN walk.collected
               PROVE  \E build \in walk.seen : Has(build, walk.search, i, walk.collected[i])
    BY DEF PlacesAreKept, Has
  <2>1. WalkFits(walk)
    BY DEF ExamplesInvariant
  <2>2. i \in 1..Len(walk.collected)
    BY <2>1 DEF WalkFits
  <2> QED BY <2>1, <2>2 DEF WalkFits
<1> QED BY <1>1, ExamplesInvariantHolds, PTL

\* No page has more examples than size asks for, wherever from points.
THEOREM PagesShort == ExamplesSpec => []PagesHaveAtMostSize
<1>1. ExamplesInvariant => PagesHaveAtMostSize
  BY DEF ExamplesInvariant
<1> QED BY <1>1, ExamplesInvariantHolds, PTL

\* A walk whose pages came from one list ends with that list's matches, all of them, in
\* order and once each.
THEOREM WalksComplete == ExamplesSpec => []UndisturbedWalksAreComplete
<1>1. ExamplesInvariant => UndisturbedWalksAreComplete
  <2> SUFFICES ASSUME ExamplesInvariant, NEW build \in Builds,
                      walk.pc = "ended", walk.seen = {build}
               PROVE  walk.collected = Matches(Lists[build], walk.search)
    BY DEF UndisturbedWalksAreComplete
  <2> DEFINE matches == Matches(Lists[build], walk.search)
             collected == walk.collected
  <2>1. WalkFits(walk)
    BY DEF ExamplesInvariant
  <2>2. matches \in Seq(Listed) /\ collected \in Seq(Listed)
    BY <2>1, ListedType DEF WalkFits
  <2>3. Len(matches) <= Len(collected)
    BY <2>1 DEF WalkFits
  <2>4. \A i \in 1..Len(collected) : i <= Len(matches) /\ collected[i] = matches[i]
    BY <2>1 DEF WalkFits, Has
  <2> HIDE DEF matches, collected
  <2>5. Len(collected) <= Len(matches)
    BY <2>2, <2>4
  <2>6. Len(collected) = Len(matches)
    BY <2>2, <2>3, <2>5
  <2>7. collected = matches
    BY <2>2, <2>4, <2>6, SeqEqual
  <2> QED BY <2>7 DEF matches, collected
<1> QED BY <1>1, ExamplesInvariantHolds, PTL
=============================================================================
