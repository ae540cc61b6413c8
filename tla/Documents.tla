------------------------------ MODULE Documents ------------------------------
(***************************************************************************)
(* Users and tokens (mx-portfolio-pilot-service): REST endpoints that each *)
(* pass one operation on to MongoDB by way of service and repository. What *)
(* is stored and what is matched is decided by the mongoose schemas:       *)
(* saving keeps the paths of the schema only, a filter is passed on as it  *)
(* is. MongoDB and mongoose are external.                                  *)
(*                                                                         *)
(* A document is a function from its paths to values. Operations of        *)
(* several requests interleave at the database, and each may fail before   *)
(* or after it has taken effect.                                           *)
(***************************************************************************)
CONSTANTS
    Requests,    \* requests open at a time
    Ids,         \* ids for documents, a bound on how many there are
    UserBodies,  \* bodies of POST /users
    TokenBodies  \* bodies of POST /tokens

VARIABLES
    db,           \* documents by collection and id
    request,      \* operation and progress of each request
    acknowledged, \* history: users whose POST has been answered
    removed       \* history: users a DELETE has been sent for

documentsVars == <<db, request, acknowledged, removed>>

Collections == {"users", "tokens"}

\* What SchemaFactory makes of the classes: the properties of User are decorated for
\* TypeORM, which it does not know.
Paths == [collection \in Collections |->
             IF collection = "tokens" THEN {"identifier", "name", "accounts", "transactions"}
                                      ELSE {}]

Required == [collection \in Collections |->
                IF collection = "tokens" THEN {"identifier"} ELSE {}]

Idle == [pc |-> "idle"]

DocumentsInit ==
    /\ db = [collection \in Collections |-> << >>]
    /\ request = [r \in Requests |-> Idle]
    /\ acknowledged = {}
    /\ removed = {}

-----------------------------------------------------------------------------
\* The document mongoose saves: strict, so other paths are left out.
Saved(collection, id, body) ==
    [path \in {"_id"} \cup (DOMAIN body \cap Paths[collection]) |->
        IF path = "_id" THEN id ELSE body[path]]

\* Mutant: a filter without the paths the schema does not have, as mongoose 6 has it by
\* default. Of a user it leaves nothing: any user matches.
CastStrictly(collection, filter) ==
    [path \in DOMAIN filter \cap Paths[collection] |-> filter[path]]

\* strictQuery is off by default: the filter is passed on whole.
Cast(collection, filter) == filter

Matching(op) ==
    LET filter == Cast(op.collection, op.argument)
    IN  {id \in DOMAIN db[op.collection] :
            LET document == db[op.collection][id]
            IN  \A path \in DOMAIN filter :
                   path \in DOMAIN document /\ document[path] = filter[path]}

Fresh(id) == /\ \A collection \in Collections : id \notin DOMAIN db[collection]
             /\ \A r \in Requests : request[r].pc = "mongo" => request[r].op.id # id

-----------------------------------------------------------------------------
\* A request is taken in and its operation sent to the database.
Send(r, kind, collection, id, argument) ==
    /\ request[r].pc \in {"idle", "done"}
    /\ request' = [request EXCEPT ![r] =
          [pc |-> "mongo", since |-> acknowledged,
           op |-> [kind |-> kind, collection |-> collection, id |-> id,
                   argument |-> argument]]]
    /\ removed' = IF kind = "deleteOne" THEN removed \cup {id} ELSE removed
    /\ UNCHANGED <<db, acknowledged>>

\* POST /users. The id is made by mongoose when it makes the document.
CreateUser(r) ==
    \E body \in UserBodies, id \in Ids :
        /\ Fresh(id)
        /\ Send(r, "insertOne", "users", id, body)

FindAllUsers(r) == Send(r, "find", "users", "any", << >>)

\* GET /users/:id, with the id where another database library would have it.
FindOneUser(r) ==
    \E id \in Ids : Send(r, "findOne", "users", id, [where |-> [id |-> id]])

\* DELETE /users/:id.
RemoveUser(r) ==
    \E id \in Ids : Send(r, "deleteOne", "users", id, [id |-> id])

\* POST /tokens, with whatever the body holds.
CreateToken(r) ==
    \E body \in TokenBodies, id \in Ids :
        /\ Fresh(id)
        /\ Send(r, "insertOne", "tokens", id, body)

FindAllTokens(r) == Send(r, "find", "tokens", "any", << >>)

Back(r, result) == request' = [request EXCEPT ![r] =
    [pc |-> "back", op |-> @.op, since |-> @.since, result |-> result]]

End(r, status) == request' = [request EXCEPT ![r] =
    [pc |-> "done", op |-> @.op, since |-> @.since, status |-> status,
     body |-> IF status = "ok" THEN @.result ELSE {}]]

\* The operation of a request reaches the database.
Reaches(r, kind) == request[r].pc = "mongo" /\ request[r].op.kind = kind

\* The document is checked against the schema before it is sent.
InsertOne(r) ==
    /\ Reaches(r, "insertOne")
    /\ LET op == request[r].op
       IN  /\ Required[op.collection] \subseteq DOMAIN op.argument
           /\ db' = [db EXCEPT ![op.collection] =
                 [id \in DOMAIN @ \cup {op.id} |->
                     IF id = op.id THEN Saved(op.collection, op.id, op.argument)
                                   ELSE @[id]]]
           /\ Back(r, {op.id})
    /\ UNCHANGED <<acknowledged, removed>>

Find(r) ==
    /\ Reaches(r, "find")
    /\ Back(r, DOMAIN db[request[r].op.collection])
    /\ UNCHANGED <<db, acknowledged, removed>>

\* One of the documents that match, if there are any.
OneOf(matching) == IF matching = {} THEN {{}} ELSE {{id} : id \in matching}

FindOne(r) ==
    /\ Reaches(r, "findOne")
    /\ \E found \in OneOf(Matching(request[r].op)) : Back(r, found)
    /\ UNCHANGED <<db, acknowledged, removed>>

DeleteOne(r) ==
    /\ Reaches(r, "deleteOne")
    /\ \E found \in OneOf(Matching(request[r].op)) :
          db' = [db EXCEPT ![request[r].op.collection] =
                    [id \in DOMAIN @ \ found |-> @[id]]]
    /\ Back(r, {})
    /\ UNCHANGED <<acknowledged, removed>>

\* The controller answers: not found for a user the database has not found.
Answer(r) ==
    /\ request[r].pc = "back"
    /\ IF request[r].op.kind = "findOne" /\ request[r].result = {}
       THEN End(r, "notFound") ELSE End(r, "ok")
    /\ acknowledged' = IF request[r].op.kind = "insertOne" /\ request[r].op.collection = "users"
                       THEN acknowledged \cup request[r].result ELSE acknowledged
    /\ UNCHANGED <<db, removed>>

\* A token without identifier is refused, or the database fails, before the operation
\* or after it.
Fail(r) ==
    /\ request[r].pc \in {"mongo", "back"}
    /\ End(r, "internalServerError")
    /\ UNCHANGED <<db, acknowledged, removed>>

DocumentsNext ==
    \E r \in Requests :
        \/ CreateUser(r) \/ FindAllUsers(r) \/ FindOneUser(r) \/ RemoveUser(r)
        \/ CreateToken(r) \/ FindAllTokens(r)
        \/ InsertOne(r) \/ Find(r) \/ FindOne(r) \/ DeleteOne(r)
        \/ Answer(r) \/ Fail(r)

DocumentsSpec == DocumentsInit /\ [][DocumentsNext]_documentsVars

-----------------------------------------------------------------------------
\* A list has every user whose POST was answered before the list was asked for, unless a
\* DELETE names him, whatever was created, asked for, refused or removed in between: a
\* removal takes no user but its own. (At this commit it takes none: the filter of
\* user.repository.ts:29 is on a path the schema does not have. Were that path left out of
\* the filter, the first user would go.)
AnsweredCreatesAreListed ==
    \A r \in Requests :
        (/\ request[r].pc = "done" /\ request[r].status = "ok"
         /\ request[r].op.kind = "find" /\ request[r].op.collection = "users")
            => request[r].since \ removed \subseteq request[r].body

\* "User not found" (user.controller.ts:30) is said of users there are not: never of one
\* whose POST was answered before he was looked for and whom no DELETE names. The code
\* says it of every user: it looks for a path "where" (user.repository.ts:22).
NotFoundMeansAbsent ==
    \A r \in Requests :
        (request[r].pc = "done" /\ request[r].status = "notFound")
            => request[r].op.id \notin request[r].since \ removed
=============================================================================
