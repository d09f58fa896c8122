---------------------------- MODULE GraphqlRequests ----------------------------
(***************************************************************************)
(* A GraphQL request (src/src/providers/GraphqlProvider.ts and             *)
(* src/src/middlewares/graphql): the authenticate middleware looks the     *)
(* token's session up in Redis, Apollo runs the resolvers of all fields    *)
(* side by side, each behind its guards, and the execution ends with the   *)
(* first field that fails, while the others run on.  ErrorHandlerMiddleware*)
(* answers some errors on the HTTP response itself, before Apollo gets to  *)
(* answer.  Express, type-graphql, graphql and Apollo are external.        *)
(***************************************************************************)
CONSTANTS
    Requests,   \* requests that are served at the same time
    Users,      \* subjects of valid tokens
    UserRoles,  \* the roles in a user's token
    Fields,     \* the fields that have a resolver
    Resolver,   \* per field: [authorized, hasRoles: roles or None,
                \* throws: the errors that it may throw]
    Operations, \* what a request may ask: [user: or None without a valid token,
                \* introspection, fields, invalid: fields with invalid arguments]
    None

Errors == {"UnauthorizedError", "ForbiddenError", "ArgumentValidationError",
           "BusinessLogicError", "Error"}
FieldStates == {"todo", "running", "done"} \cup Errors
Answers == {"400", "401", "403", "500", "data", "errors"}
FieldsOfRequests == Requests \X Fields

ASSUME GraphqlAssumption ==
    /\ UserRoles \in [Users -> SUBSET STRING]
    /\ None \notin Users \cup FieldStates \cup Answers
    /\ \A f \in Fields : Resolver[f].throws \subseteq Errors
    /\ \A op \in Operations :
         /\ op.user \in Users \cup {None} /\ op.fields \subseteq Fields
         /\ op.invalid \subseteq op.fields /\ op.introspection \in BOOLEAN

VARIABLES
    session,  \* users whose session in Redis has the token's type
    stage,    \* per request: "none", "authenticate", "execute" or "ended"
    operation,   \* what the request asks for
    credentials, \* the user in its context, or None
    valid,    \* history: whether the user had a session since it arrived
    field,    \* per field of a request: "todo", "running", "done", or the error
              \* that it failed with; None if it was not asked for
    answer    \* what the client was told: a status of ErrorHandlerMiddleware,
              \* or Apollo's "data" or "errors"; None before it is told

requestVars == <<stage, operation, credentials, valid>>
vars == <<session, requestVars, field, answer>>

Serving(r) == stage[r] # "none"
Has(user, roles) == roles = {} \/ UserRoles[user] \cap roles # {}
Failed(f) == f \in Errors
Settled(f) == f = "done" \/ Failed(f)

Init ==
    /\ session \in SUBSET Users
    /\ stage = [r \in Requests |-> "none"]
    /\ operation = [r \in Requests |-> None]
    /\ credentials = [r \in Requests |-> None]
    /\ valid = [r \in Requests |-> FALSE]
    /\ field = [s \in FieldsOfRequests |-> None]
    /\ answer = [r \in Requests |-> None]

--------------------------------------------------------------------------------
(***************************************************************************)
(* authenticate: no credentials for an introspection, without a valid      *)
(* token, without a session of the token's type, or if Redis fails; the    *)
(* request goes on in any case.                                            *)
(***************************************************************************)
Arrives(r, op) ==
    /\ ~Serving(r)
    /\ stage' = [stage EXCEPT ![r] = IF op.introspection \/ op.user = None
                                     THEN "execute" ELSE "authenticate"]
    /\ operation' = [operation EXCEPT ![r] = op]
    /\ valid' = [valid EXCEPT ![r] = op.user \in session]
    /\ field' = [s \in FieldsOfRequests |->
                   IF s[1] # r THEN field[s] ELSE IF s[2] \in op.fields THEN "todo" ELSE None]
    /\ UNCHANGED <<session, credentials, answer>>

\* A plausible bug: the answer of Redis is not compared to the token's type.
AnyCredentials(user) == {user}

\* A plausible bug: without a session the middleware returns, next is not called.
NextWithSession(user) == IF user \in session THEN {user, None} ELSE {}

\* The credentials after cache.get(data.sub); Redis may fail as well.
Credentials(user) == IF user \in session THEN {user, None} ELSE {None}

SessionRead(r) ==
    /\ stage[r] = "authenticate"
    /\ \E c \in Credentials(operation[r].user) :
         credentials' = [credentials EXCEPT ![r] = c]
    /\ stage' = [stage EXCEPT ![r] = "execute"]
    /\ UNCHANGED <<session, operation, valid, field, answer>>

\* Outside this service, a user logs in or the session ends.
Login(u) ==
    /\ u \notin session
    /\ session' = session \cup {u}
    /\ valid' = [r \in Requests |-> valid[r] \/ (Serving(r) /\ operation[r].user = u)]
    /\ UNCHANGED <<stage, operation, credentials, field, answer>>

Logout(u) ==
    /\ u \in session
    /\ session' = session \ {u}
    /\ UNCHANGED <<requestVars, field, answer>>

--------------------------------------------------------------------------------
(***************************************************************************)
(* The guards of a field.  type-graphql runs the authChecker outside the   *)
(* global middlewares, so ErrorHandlerMiddleware does not see what it      *)
(* refuses; HasRoles and ValidateArgs run inside.                          *)
(***************************************************************************)
AuthError(r, f) ==
    LET user == credentials[r]
    IN  IF Resolver[f].authorized = None \/ operation[r].introspection THEN None
        ELSE IF user = None
             THEN IF Resolver[f].authorized = {} THEN "UnauthorizedError" ELSE "ForbiddenError"
        ELSE IF Has(user, Resolver[f].authorized) THEN None ELSE "UnauthorizedError"

HasRolesRefuses(r, f) ==
    IF Resolver[f].hasRoles = None THEN {}
    ELSE IF credentials[r] = None THEN {"UnauthorizedError"}
    ELSE IF Has(credentials[r], Resolver[f].hasRoles) THEN {} ELSE {"ForbiddenError"}

Refusals(r, f) ==
    HasRolesRefuses(r, f)
    \cup IF f \in operation[r].invalid THEN {"ArgumentValidationError"} ELSE {}

\* A plausible bug: BusinessLogicError is not answered, only swallowed.
StatusOfKnown(error) ==
    CASE error = "UnauthorizedError" -> "401"
      [] error = "ForbiddenError" -> "403"
      [] error = "ArgumentValidationError" -> "400"
      [] OTHER -> None

\* A plausible bug: an unknown error is answered with its name.
StatusOrName(error) ==
    CASE error = "UnauthorizedError" -> "401"
      [] error = "ForbiddenError" -> "403"
      [] error = "ArgumentValidationError" -> "400"
      [] error = "BusinessLogicError" -> "500"
      [] OTHER -> error

\* ErrorHandlerMiddleware: the status it answers, None if it throws on.
Status(error) ==
    CASE error = "UnauthorizedError" -> "401"
      [] error = "ForbiddenError" -> "403"
      [] error = "ArgumentValidationError" -> "400"
      [] error = "BusinessLogicError" -> "500"
      [] OTHER -> None

\* The middleware of a field sees the error.  A response that was sent
\* before refuses a second one.
Rejects(r, f, error) ==
    /\ field' = [field EXCEPT ![<<r, f>>] = error]
    /\ answer' = IF answer[r] = None THEN [answer EXCEPT ![r] = Status(error)] ELSE answer
    /\ UNCHANGED <<session, requestVars>>

FieldRefused(r, f) ==
    /\ stage[r] \in {"execute", "ended"}
    /\ field[<<r, f>>] = "todo"
    /\ IF AuthError(r, f) # None
       THEN /\ field' = [field EXCEPT ![<<r, f>>] = AuthError(r, f)]
            /\ UNCHANGED <<session, requestVars, answer>>
       ELSE \E error \in Refusals(r, f) : Rejects(r, f, error)

FieldStarts(r, f) ==
    /\ stage[r] \in {"execute", "ended"}
    /\ field[<<r, f>>] = "todo"
    /\ AuthError(r, f) = None /\ Refusals(r, f) = {}
    /\ field' = [field EXCEPT ![<<r, f>>] = "running"]
    /\ UNCHANGED <<session, requestVars, answer>>

FieldResolves(r, f) ==
    /\ field[<<r, f>>] = "running"
    /\ field' = [field EXCEPT ![<<r, f>>] = "done"]
    /\ UNCHANGED <<session, requestVars, answer>>

FieldThrows(r, f) ==
    /\ field[<<r, f>>] = "running"
    /\ \E error \in Resolver[f].throws : Rejects(r, f, error)

--------------------------------------------------------------------------------
\* graphql: all fields are done, or a field that may not be null failed.
ExecutionEnds(r) ==
    \/ \A f \in operation[r].fields : field[<<r, f>>] = "done"
    \/ \E f \in operation[r].fields : Failed(field[<<r, f>>])

\* Apollo answers, unless the response was sent already.
ApolloAnswers(r) ==
    /\ stage[r] = "execute"
    /\ ExecutionEnds(r)
    /\ stage' = [stage EXCEPT ![r] = "ended"]
    /\ answer' = IF answer[r] # None THEN answer
                 ELSE [answer EXCEPT ![r] =
                        IF \A f \in operation[r].fields : field[<<r, f>>] = "done"
                        THEN "data" ELSE "errors"]
    /\ UNCHANGED <<session, operation, credentials, valid, field>>

\* Nothing of the request is left.
Forgotten(r) ==
    /\ stage[r] = "ended"
    /\ \A f \in operation[r].fields : Settled(field[<<r, f>>])
    /\ stage' = [stage EXCEPT ![r] = "none"]
    /\ operation' = [operation EXCEPT ![r] = None]
    /\ credentials' = [credentials EXCEPT ![r] = None]
    /\ valid' = [valid EXCEPT ![r] = FALSE]
    /\ field' = [s \in FieldsOfRequests |-> IF s[1] = r THEN None ELSE field[s]]
    /\ answer' = [answer EXCEPT ![r] = None]
    /\ UNCHANGED session

FieldProceeds(r, f) ==
    FieldRefused(r, f) \/ FieldStarts(r, f) \/ FieldResolves(r, f) \/ FieldThrows(r, f)

Next ==
    \/ \E r \in Requests :
         \/ \E op \in Operations : Arrives(r, op)
         \/ SessionRead(r) \/ ApolloAnswers(r) \/ Forgotten(r)
         \/ \E f \in Fields : FieldProceeds(r, f)
    \/ \E u \in Users : Login(u) \/ Logout(u)

Spec == Init /\ [][Next]_vars

(***************************************************************************)
(* Node runs what is ready, Redis answers or its client gives up, and the  *)
(* promise of a resolver settles.                                          *)
(***************************************************************************)
Fairness ==
    /\ \A r \in Requests :
         /\ WF_vars(SessionRead(r))
         /\ WF_vars(ApolloAnswers(r))
         /\ \A f \in Fields : WF_vars(FieldProceeds(r, f))

FairSpec == Spec /\ Fairness

--------------------------------------------------------------------------------
TypeOK ==
    /\ session \subseteq Users
    /\ stage \in [Requests -> {"none", "authenticate", "execute", "ended"}]
    /\ operation \in [Requests -> Operations \cup {None}]
    /\ credentials \in [Requests -> Users \cup {None}]
    /\ valid \in [Requests -> BOOLEAN]
    /\ field \in [FieldsOfRequests -> FieldStates \cup {None}]
    /\ answer \in [Requests -> Answers \cup {None}]

Told == [UnauthorizedError |-> "401", ForbiddenError |-> "403",
         ArgumentValidationError |-> "400", BusinessLogicError |-> "500"]

FailedFields(r) == {f \in operation[r].fields : Failed(field[<<r, f>>])}
SeenByMiddleware(r) ==
    {f \in FailedFields(r) : AuthError(r, f) = None /\ field[<<r, f>>] \in DOMAIN Told}

\* The one answer a client gets tells what happened, whatever field failed
\* first and whoever answered: "data" only if every field resolved, a status
\* of ErrorHandlerMiddleware only if a field failed with that error, "errors"
\* only if a field failed with an error that the middleware did not see or
\* does not answer.  An error that it sees is answered at once.
AnswerTellsFailure ==
    \A r \in Requests : Serving(r) =>
      /\ answer[r] = None => stage[r] # "ended" /\ SeenByMiddleware(r) = {}
      /\ answer[r] = "data" => \A f \in operation[r].fields : field[<<r, f>>] = "done"
      /\ answer[r] = "errors" => FailedFields(r) \ SeenByMiddleware(r) # {}
      /\ answer[r] \notin {None, "data", "errors"} =>
           \E f \in SeenByMiddleware(r) : answer[r] = Told[field[<<r, f>>]]

\* A resolver under @HasRoles runs only for a user who has one of its roles and
\* whose session was there at some time since the request arrived, and so does
\* one under @Authorized unless the request is an introspection, which is any
\* whose query text starts with "query Introspection": the authChecker lets it
\* pass, for a guest too.  The session is read once and used after awaits, so
\* it may have ended since; what is excluded is that it is taken from before
\* the request, from another user's lookup, or from a failed one.
GuardedRunsForEntitled ==
    \A r \in Requests, f \in Fields :
      Serving(r) /\ field[<<r, f>>] \in {"running", "done"} =>
        \A roles \in {Resolver[f].hasRoles} \cup (IF operation[r].introspection THEN {}
                                         ELSE {Resolver[f].authorized}) :
          roles # None => valid[r] /\ Has(operation[r].user, roles)

\* Every request is answered: no failure of Redis, of the service or of a
\* sibling field leaves a client without an answer.
EveryRequestAnswered ==
    \A r \in Requests : Serving(r) ~> answer[r] # None
================================================================================
