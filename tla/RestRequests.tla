------------------------------ MODULE RestRequests ------------------------------
(***************************************************************************)
(* A REST request (src/src/providers/HttpProvider.ts,                      *)
(* src/src/middlewares/rest and src/src/rests): AuthenticationMiddleware   *)
(* verifies the token once, the authorizationChecker guards some routes,   *)
(* parameters are validated, the controller calls Redis, Bull or Kafka,    *)
(* and ErrorHandlerMiddleware answers whatever was thrown on the way.      *)
(* Express, routing-controllers, Keycloak's middleware and the services    *)
(* are external; a token's owner, roles and signature are in its name.     *)
(***************************************************************************)
CONSTANTS
    Requests,  \* requests that are served at the same time
    Tokens,    \* bearer tokens
    Admins,    \* tokens with the role RestRoles.ADMIN
    CacheKeys, \* keys in Redis
    Inputs,    \* what a request may be: [route, token, payload, prefix]; the
               \* prefix is the set of cache keys that it matches
    HasProducer, \* Container has a 'kafkaProducer'
    None

Codes == {"200", "400", "401", "403", "404", "500", "503"}
Routes == {"/health", "/graphql", "unknown", "/configs/expire", "/configs/keys",
           "/configs/log-level", "/configs/test", "/jobs-demo/dispatch", "/kafka-demo/produce"}
Payloads == {"good", "invalid", "malformed", "quang"}

ASSUME RestAssumption ==
    /\ Admins \subseteq Tokens /\ None \notin Tokens \cup Codes
    /\ HasProducer \in BOOLEAN
    /\ Inputs \subseteq [route : Routes, token : Tokens \cup {None},
                         payload : Payloads, prefix : SUBSET CacheKeys]

VARIABLES
    cached,   \* the keys that Redis holds
    valid,    \* the tokens that verify accepts: signed with the key to
              \* JWT_PUBLIC_KEY, if there is one, and not expired
    shutdownInProgress,
    stage,    \* per request: "none", "received", "routed", "listing", "deleting",
              \* "calling" or "answered"
    input,    \* what the request is
    identity, \* the token whose identity and roles are in the request, or None
    left,     \* the keys that expireConfigs has still to delete
    answer,   \* the status of the answer, or None
    \* history, per request
    genuine,  \* the token was valid when the request arrived
    old,      \* the entries with its prefix that Redis has held since before it
    done      \* it changed something: a log level, a key, a job or a message

process == <<valid, shutdownInProgress>>
arrival == <<input, genuine>>
vars == <<cached, process, stage, arrival, identity, left, answer, old, done>>

Init ==
    /\ cached \in SUBSET CacheKeys
    /\ valid \in SUBSET Tokens
    /\ shutdownInProgress = FALSE
    /\ stage = [r \in Requests |-> "none"]
    /\ input = [r \in Requests |-> None]
    /\ identity = [r \in Requests |-> None]
    /\ left = [r \in Requests |-> {}]
    /\ answer = [r \in Requests |-> None]
    /\ genuine = [r \in Requests |-> FALSE]
    /\ old = [r \in Requests |-> {}]
    /\ done = [r \in Requests |-> FALSE]

Go(r, s) == stage' = [stage EXCEPT ![r] = s]
Answered(r, code) == Go(r, "answered") /\ answer' = [answer EXCEPT ![r] = code]
Changes(r) == done' = [done EXCEPT ![r] = TRUE]

--------------------------------------------------------------------------------
(***************************************************************************)
(* The world around a request: other calls cache and overwrite entries,    *)
(* entries and tokens expire, and the process is told to shut down.        *)
(* The connections that it has serve requests until they are closed.       *)
(***************************************************************************)
Cached(k) ==
    /\ cached' = cached \cup {k}
    /\ old' = [r \in Requests |-> old[r] \ {k}]
    /\ UNCHANGED <<process, stage, arrival, identity, left, answer, done>>

EntryExpires(k) ==
    /\ k \in cached
    /\ cached' = cached \ {k}
    /\ old' = [r \in Requests |-> old[r] \ {k}]
    /\ UNCHANGED <<process, stage, arrival, identity, left, answer, done>>

TokenExpires(t) ==
    /\ t \in valid
    /\ valid' = valid \ {t}
    /\ UNCHANGED <<cached, shutdownInProgress, stage, arrival, identity, left,
                   answer, old, done>>

ShutdownStarts ==
    /\ ~shutdownInProgress
    /\ shutdownInProgress' = TRUE
    /\ UNCHANGED <<cached, valid, stage, arrival, identity, left, answer, old, done>>

Arrives(r, in) ==
    /\ stage[r] = "none"
    /\ Go(r, "received")
    /\ input' = [input EXCEPT ![r] = in]
    /\ genuine' = [genuine EXCEPT ![r] = in.token \in valid]
    /\ old' = [old EXCEPT ![r] = cached \cap in.prefix]
    /\ UNCHANGED <<cached, process, identity, left, answer, done>>

--------------------------------------------------------------------------------
\* A plausible bug: an error without a code is answered as a bad request.
StatusOrBadRequest(error) ==
    CASE error = "UnauthorizedError" -> "401"
      [] error = "AccessDeniedError" -> "403"
      [] OTHER -> "400"

\* A plausible bug: the default is forgotten.
StatusOrNone(error) ==
    CASE error = "UnauthorizedError" -> "401"
      [] error = "AccessDeniedError" -> "403"
      [] error = "BadRequestError" -> "400"
      [] error = "BusinessLogicError" -> "500"
      [] OTHER -> None

\* ErrorHandlerMiddleware: the error's httpCode, or 500.  body-parser's error
\* has none, so malformed JSON is answered with 500 as well.
Status(error) ==
    CASE error = "UnauthorizedError" -> "401"
      [] error = "AccessDeniedError" -> "403"
      [] error = "BadRequestError" -> "400"
      [] OTHER -> "500"

Throws(r, error) == Answered(r, Status(error))

\* /health stands before every middleware.  The process may use more memory
\* than HEALTH_MAX_MEMORY_USAGE_IN_MB at any time.
Health(r) ==
    /\ stage[r] = "received"
    /\ input[r].route = "/health"
    /\ \/ Answered(r, "503")
       \/ ~shutdownInProgress /\ Answered(r, "200")
    /\ UNCHANGED <<cached, process, arrival, identity, left, old, done>>

\* A plausible bug: the token is decoded and not verified.
Decoded(token) == TRUE

\* jwt.verify does not throw.
Verify(token) == token \in valid

(***************************************************************************)
(* AuthenticationMiddleware: no identity on a GraphQL path, which has an   *)
(* authentication of its own, and none without a token; a token that is    *)
(* not valid ends the request, whatever its route.                         *)
(***************************************************************************)
Use(r) ==
    LET token == input[r].token
        passed == input[r].route = "/graphql" \/ token = None
    IN  /\ stage[r] = "received"
        /\ input[r].route # "/health"
        /\ IF passed \/ Verify(token)
           THEN /\ Go(r, "routed")
                /\ identity' = [identity EXCEPT ![r] = IF passed THEN None ELSE token]
                /\ UNCHANGED answer
           ELSE Throws(r, "UnauthorizedError") /\ UNCHANGED identity
        /\ UNCHANGED <<cached, process, arrival, left, old, done>>

\* @Authorized(RestRoles.ADMIN)
Authorized(r) == stage[r] # "none" /\ input[r].route \in {"/configs/expire", "/configs/keys"}

\* The errors of a request before its controller's method runs: the body's
\* parser, the authorizationChecker, the validation, and the construction of
\* the controller, which injects 'kafkaProducer'.
Errors(r) ==
    (IF input[r].payload = "malformed" THEN {"SyntaxError"} ELSE {})
    \cup (IF Authorized(r) /\ identity[r] \notin Admins THEN {"AccessDeniedError"} ELSE {})
    \cup (IF input[r].payload = "invalid" THEN {"BadRequestError"} ELSE {})
    \cup (IF input[r].route = "/kafka-demo/produce" /\ ~HasProducer
             /\ input[r].payload = "good" THEN {"ServiceNotFoundError"} ELSE {})

\* The controller has no method for the path; GraphqlProvider is disabled.
NotFound(r) == input[r].route \in {"/graphql", "unknown"}

Refused(r) ==
    /\ stage[r] = "routed"
    /\ IF NotFound(r) THEN Answered(r, "404")
                      ELSE \E error \in Errors(r) : Throws(r, error)
    /\ UNCHANGED <<cached, process, arrival, identity, left, old, done>>

--------------------------------------------------------------------------------
Calls(r, routes) ==
    /\ stage[r] = "routed" /\ input[r].route \in routes
    /\ Errors(r) = {}

ChangeLogLevel(r) ==
    /\ Calls(r, {"/configs/log-level"})
    /\ Changes(r)
    /\ Answered(r, "200")
    /\ UNCHANGED <<cached, process, arrival, identity, left, old>>

\* TransformResponseInterceptor leaves the body as it is.
Test(r) ==
    /\ Calls(r, {"/configs/test"})
    /\ IF input[r].payload = "quang" THEN Throws(r, "BusinessLogicError")
                                     ELSE Answered(r, "200")
    /\ UNCHANGED <<cached, process, arrival, identity, left, old, done>>

\* KEYS prefix*, for both routes of the configs' keys.
ListKeys(r) ==
    /\ Calls(r, {"/configs/keys", "/configs/expire"})
    /\ Go(r, "listing")
    /\ UNCHANGED <<cached, process, arrival, identity, left, answer, old, done>>

KeysListed(r) ==
    /\ stage[r] = "listing"
    /\ LET keys == cached \cap input[r].prefix
       IN  IF input[r].route = "/configs/expire"
           THEN /\ Go(r, "deleting")
                /\ left' = [left EXCEPT ![r] = keys]
                /\ UNCHANGED answer
           ELSE Answered(r, "200") /\ UNCHANGED left
    /\ UNCHANGED <<cached, process, arrival, identity, old, done>>

Del(r, k) ==
    /\ stage[r] = "deleting" /\ k \in left[r]
    /\ cached' = cached \ {k}
    /\ left' = [left EXCEPT ![r] = @ \ {k}]
    /\ old' = [s \in Requests |-> old[s] \ {k}]
    /\ Changes(r)
    /\ UNCHANGED <<process, stage, arrival, identity, answer>>

\* A plausible bug: the deletes run in a forEach that nothing awaits.
NotAwaited(r) == TRUE

\* for (let key of keys) await this.cache.del(key)
AllDeleted(r) == left[r] = {}

Expire(r) ==
    /\ stage[r] = "deleting"
    /\ AllDeleted(r)
    /\ Answered(r, "200")
    /\ UNCHANGED <<cached, process, arrival, identity, left, old, done>>

\* dispatch adds a job to a queue, produce sends a message to a topic.
CallService(r) ==
    /\ Calls(r, {"/jobs-demo/dispatch", "/kafka-demo/produce"})
    /\ Go(r, "calling")
    /\ UNCHANGED <<cached, process, arrival, identity, left, answer, old, done>>

ServiceAnswers(r) ==
    /\ stage[r] = "calling"
    /\ Changes(r)
    /\ Answered(r, "200")
    /\ UNCHANGED <<cached, process, arrival, identity, left, old>>

\* A command to Redis, Bull or Kafka fails, or its answer is lost: a job may
\* have been added, a message sent, and the last key deleted all the same.
ServiceFails(r) ==
    /\ stage[r] \in {"listing", "deleting", "calling"}
    /\ stage[r] = "deleting" => (left[r] # {} \/ done[r])
    /\ Throws(r, "Error")
    /\ UNCHANGED done \/ (stage[r] = "calling" /\ Changes(r))
    /\ UNCHANGED <<cached, process, arrival, identity, left, old>>

Proceed(r) ==
    \/ Health(r) \/ Use(r) \/ Refused(r)
    \/ ChangeLogLevel(r) \/ Test(r)
    \/ ListKeys(r) \/ KeysListed(r) \/ (\E k \in CacheKeys : Del(r, k)) \/ Expire(r)
    \/ CallService(r) \/ ServiceAnswers(r) \/ ServiceFails(r)

Next ==
    \/ \E k \in CacheKeys : Cached(k) \/ EntryExpires(k)
    \/ \E t \in Tokens : TokenExpires(t)
    \/ ShutdownStarts
    \/ \E r \in Requests : Proceed(r) \/ \E in \in Inputs : Arrives(r, in)

Spec == Init /\ [][Next]_vars

--------------------------------------------------------------------------------
TypeOK ==
    /\ cached \subseteq CacheKeys
    /\ valid \subseteq Tokens
    /\ shutdownInProgress \in BOOLEAN
    /\ stage \in [Requests -> {"none", "received", "routed", "listing", "deleting",
                               "calling", "answered"}]
    /\ input \in [Requests -> Inputs \cup {None}]
    /\ identity \in [Requests -> Tokens \cup {None}]
    /\ left \in [Requests -> SUBSET CacheKeys]
    /\ answer \in [Requests -> Codes \cup {None}]
    /\ genuine \in [Requests -> BOOLEAN]
    /\ old \in [Requests -> SUBSET CacheKeys]
    /\ done \in [Requests -> BOOLEAN]
    /\ \A r \in Requests : (stage[r] = "answered") = (answer[r] # None)

\* A client can rely on the status: whatever is answered with 4xx or 503 was
\* refused before it changed anything, so that it may be corrected and sent
\* again; 500 alone leaves it open what was done.
RefusalsChangeNothing ==
    \A r \in Requests : answer[r] \notin {None, "200", "500"} => ~done[r]

\* The routes behind @Authorized(RestRoles.ADMIN) list and delete keys only
\* for an administrator whose token was valid when the request arrived,
\* although it is verified once and the commands run later.
GuardedForAdmins ==
    \A r \in Requests :
      /\ stage[r] \in {"listing", "deleting"} \/ done[r] \/ answer[r] = "200"
      /\ Authorized(r)
      => genuine[r] /\ input[r].token \in Admins

\* When expire answers, no entry with its prefix is older than the request,
\* however many calls cache, overwrite and delete entries meanwhile.
ExpireLeavesNothingOld ==
    \A r \in Requests :
      (answer[r] = "200" /\ input[r].route = "/configs/expire") => old[r] = {}
================================================================================
