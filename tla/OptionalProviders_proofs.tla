----------------------- MODULE OptionalProviders_proofs ------------------------
(***************************************************************************)
(* Proofs about the providers that Kernel.ts keeps commented out: GraphQL  *)
(* (GraphqlRequests), the data loaders of its resolvers (DataLoaders), and *)
(* the process in which all of them run (FullKernel).  Each component has  *)
(* its own invariant; their variables are disjoint, and so are their names,*)
(* which is why the latter two carry Loader and Kernel in theirs.          *)
(*                                                                         *)
(* First GraphqlRequests, for any requests, users, resolvers and           *)
(* operations.  What a field may do depends on the stage of its request    *)
(* and on the credentials, so the invariant says what each stage allows    *)
(* and that credentials were confirmed while the request was served.       *)
(***************************************************************************)
EXTENDS GraphqlRequests, DataLoaders, FullKernel,
        FiniteSetTheorems, SequenceTheorems, TLAPS

\* Before the session is read nothing has run or been answered; a request that
\* is not served has no fields, and a served one only those it asks for.
StagesOrdered ==
    \A r \in Requests :
      /\ ~Serving(r) => /\ answer[r] = None /\ credentials[r] = None
                        /\ \A f \in Fields : field[<<r, f>>] = None
      /\ Serving(r) => /\ operation[r].fields \subseteq Fields
                       /\ \A f \in Fields \ operation[r].fields : field[<<r, f>>] = None
      /\ stage[r] = "authenticate" =>
           /\ answer[r] = None /\ credentials[r] = None
           /\ \A f \in Fields : field[<<r, f>>] \in {None, "todo"}

\* Credentials name the operation's user, whose session was valid meanwhile; a
\* session that is valid while the request is served is noted.
CredentialsConfirmed ==
    \A r \in Requests :
      /\ credentials[r] # None => valid[r] /\ credentials[r] = operation[r].user
      /\ Serving(r) /\ operation[r].user \in session => valid[r]

\* What runs was not refused by the authChecker, whose error the middleware
\* would not see.
RunningAuthorized ==
    \A r \in Requests, f \in Fields :
      field[<<r, f>>] = "running" => AuthError(r, f) = None

IndInv ==
    /\ TypeOK
    /\ RunningAuthorized
    /\ StagesOrdered
    /\ CredentialsConfirmed
    /\ AnswerTellsFailure
    /\ GuardedRunsForEntitled

\* The guards refuse with one of the errors.
LEMMA RefusalTypes ==
  ASSUME NEW r, NEW f
  PROVE  /\ AuthError(r, f) \in Errors \cup {None}
         /\ Refusals(r, f) \subseteq Errors
<1>1. AuthError(r, f) \in Errors \cup {None}
  BY DEF AuthError, Errors
<1>2. HasRolesRefuses(r, f) \subseteq Errors
  BY DEF HasRolesRefuses, Errors
<1> QED BY <1>1, <1>2 DEF Refusals, Errors

\* The middleware answers the four errors of Told with their status.
LEMMA StatusTypes ==
  ASSUME NEW e \in Errors
  PROVE  /\ Status(e) \in Answers \cup {None}
         /\ e \in DOMAIN Told => Status(e) = Told[e] /\ Status(e) \notin {None, "data", "errors"}
         /\ e \notin DOMAIN Told => Status(e) = None
  BY GraphqlAssumption DEF Status, Errors, Told, Answers

\* IndInv holds before the first request.
LEMMA InitIndInv == Init => IndInv
<1> SUFFICES ASSUME Init PROVE IndInv
  OBVIOUS
<1>1. TypeOK
  BY DEF Init, TypeOK
<1>2. \A r \in Requests : /\ ~Serving(r) /\ stage[r] = "none" /\ answer[r] = None
                          /\ credentials[r] = None
                          /\ \A f \in Fields : field[<<r, f>>] = None
  BY DEF Init, Serving, FieldsOfRequests
<1>3. StagesOrdered /\ CredentialsConfirmed
  BY <1>2 DEF StagesOrdered, CredentialsConfirmed
<1>4. AnswerTellsFailure /\ GuardedRunsForEntitled
  BY <1>2 DEF AnswerTellsFailure, GuardedRunsForEntitled
<1>5. RunningAuthorized
  BY <1>2, GraphqlAssumption DEF RunningAuthorized, FieldStates
<1> QED BY <1>1, <1>3, <1>4, <1>5 DEF IndInv

\* A step of a field changes this field only, and the answer of its request if
\* the middleware is the first to answer.
FieldChanges(r, f, s) ==
    /\ field' = [field EXCEPT ![<<r, f>>] = s]
    /\ UNCHANGED <<session, requestVars>>
    /\ field[<<r, f>>] \in {"todo", "running"}
    /\ field[<<r, f>>] = "todo" => stage[r] \in {"execute", "ended"}
    /\ s = "running" => AuthError(r, f) = None /\ HasRolesRefuses(r, f) = {}
    /\ s = "done" => field[<<r, f>>] = "running"
    /\ \/ UNCHANGED answer /\ (s \in Errors /\ answer[r] = None => AuthError(r, f) # None)
       \/ /\ s \in Errors /\ answer[r] = None
          /\ field[<<r, f>>] = "todo" => AuthError(r, f) = None
          /\ answer' = [answer EXCEPT ![r] = Status(s)]

LEMMA FieldStepShape ==
  ASSUME TypeOK, NEW r \in Requests, NEW f \in Fields, FieldProceeds(r, f)
  PROVE  \E s \in FieldStates \ {"todo"} : FieldChanges(r, f, s)
<1>1. CASE FieldRefused(r, f)
  <2>1. CASE AuthError(r, f) # None
    <3> DEFINE s == AuthError(r, f)
    <3>1. s \in Errors
      BY <2>1, RefusalTypes
    <3>2. FieldChanges(r, f, s)
      BY <1>1, <2>1, <3>1 DEF FieldRefused, FieldChanges, Errors
    <3> QED BY <3>1, <3>2 DEF FieldStates, Errors
  <2>2. CASE AuthError(r, f) = None
    <3>1. PICK s \in Refusals(r, f) : Rejects(r, f, s)
      BY <1>1, <2>2 DEF FieldRefused
    <3>2. s \in Errors
      BY <3>1, RefusalTypes
    <3>3. FieldChanges(r, f, s)
      BY <1>1, <2>2, <3>1, <3>2 DEF FieldRefused, Rejects, FieldChanges, Errors
    <3> QED BY <3>2, <3>3 DEF FieldStates, Errors
  <2> QED BY <2>1, <2>2
<1>2. CASE FieldStarts(r, f)
  <2>1. FieldChanges(r, f, "running")
    BY <1>2 DEF FieldStarts, FieldChanges, Refusals, Errors
  <2> QED BY <2>1 DEF FieldStates, Errors
<1>3. CASE FieldResolves(r, f)
  <2>1. FieldChanges(r, f, "done")
    BY <1>3 DEF FieldResolves, FieldChanges, Errors
  <2> QED BY <2>1 DEF FieldStates, Errors
<1>4. CASE FieldThrows(r, f)
  <2>1. PICK s \in Resolver[f].throws : field[<<r, f>>] = "running" /\ Rejects(r, f, s)
    BY <1>4 DEF FieldThrows
  <2>2. s \in Errors
    BY <2>1, GraphqlAssumption
  <2>3. FieldChanges(r, f, s)
    BY <2>1, <2>2 DEF Rejects, FieldChanges, Errors
  <2> QED BY <2>2, <2>3 DEF FieldStates, Errors
<1> QED BY <1>1, <1>2, <1>3, <1>4 DEF FieldProceeds

\* Every step keeps the types.
LEMMA TypeStep == TypeOK /\ [Next]_vars => TypeOK'
<1> SUFFICES ASSUME TypeOK, [Next]_vars PROVE TypeOK'
  OBVIOUS
<1>1. CASE UNCHANGED vars
  BY <1>1 DEF vars, requestVars, TypeOK
<1>2. ASSUME NEW r \in Requests, NEW op \in Operations, Arrives(r, op) PROVE TypeOK'
  BY <1>2 DEF Arrives, TypeOK, FieldsOfRequests, FieldStates
<1>3. ASSUME NEW r \in Requests, SessionRead(r) PROVE TypeOK'
  BY <1>3 DEF SessionRead, Credentials, TypeOK
<1>4. ASSUME NEW r \in Requests, ApolloAnswers(r) PROVE TypeOK'
  BY <1>4 DEF ApolloAnswers, TypeOK, Answers
<1>5. ASSUME NEW r \in Requests, Forgotten(r) PROVE TypeOK'
  BY <1>5 DEF Forgotten, TypeOK
<1>6. ASSUME NEW r \in Requests, NEW f \in Fields, FieldProceeds(r, f) PROVE TypeOK'
  <2>1. PICK s \in FieldStates :
          /\ field' = [field EXCEPT ![<<r, f>>] = s]
          /\ UNCHANGED <<session, requestVars>>
          /\ \/ UNCHANGED answer
             \/ s \in Errors /\ answer' = [answer EXCEPT ![r] = Status(s)]
    BY <1>6, FieldStepShape DEF FieldChanges
  <2>2. answer' \in [Requests -> Answers \cup {None}]
    BY <2>1, StatusTypes DEF TypeOK
  <2> QED BY <2>1, <2>2 DEF TypeOK, requestVars
<1>7. ASSUME NEW u \in Users, Login(u) PROVE TypeOK'
  BY <1>7 DEF Login, TypeOK
<1>8. ASSUME NEW u \in Users, Logout(u) PROVE TypeOK'
  BY <1>8 DEF Logout, TypeOK, requestVars
<1> QED BY <1>1, <1>2, <1>3, <1>4, <1>5, <1>6, <1>7, <1>8 DEF Next

--------------------------------------------------------------------------------
\* The stages stay ordered and credentials stay confirmed.
LEMMA RequestStep ==
  IndInv /\ [Next]_vars => StagesOrdered' /\ CredentialsConfirmed' /\ RunningAuthorized'
<1> DEFINE Goal == StagesOrdered' /\ CredentialsConfirmed' /\ RunningAuthorized'
<1> SUFFICES ASSUME IndInv, [Next]_vars
             PROVE  Goal
  OBVIOUS
<1>0. TypeOK /\ StagesOrdered /\ CredentialsConfirmed /\ RunningAuthorized
  BY DEF IndInv
<1>1. CASE UNCHANGED vars
  BY <1>0, <1>1 DEF vars, requestVars, StagesOrdered, CredentialsConfirmed,
                    RunningAuthorized, Serving, AuthError
<1>2. ASSUME NEW r \in Requests, NEW op \in Operations, Arrives(r, op)
      PROVE  Goal
  <2>1. credentials[r] = None /\ answer[r] = None
    BY <1>0, <1>2 DEF Arrives, StagesOrdered
  <2>2. \A q \in Requests, f \in Fields :
          field'[<<q, f>>] = IF q # r THEN field[<<q, f>>]
                             ELSE IF f \in op.fields THEN "todo" ELSE None
    BY <1>2 DEF Arrives, FieldsOfRequests
  <2>3. /\ \A q \in Requests : q # r => /\ stage'[q] = stage[q] /\ valid'[q] = valid[q]
                                       /\ operation'[q] = operation[q]
        /\ operation'[r] = op /\ valid'[r] = (op.user \in session)
        /\ UNCHANGED <<session, credentials, answer>>
    BY <1>0, <1>2 DEF Arrives, TypeOK
  <2>4. stage'[r] # "none" /\ op.fields \subseteq Fields
    BY <1>0, <1>2, GraphqlAssumption DEF Arrives, TypeOK
  <2>5. StagesOrdered'
    BY <1>0, <2>1, <2>2, <2>3, <2>4 DEF StagesOrdered, Serving
  <2>6. CredentialsConfirmed'
    BY <1>0, <2>1, <2>3 DEF CredentialsConfirmed, Serving
  <2>7. RunningAuthorized'
    BY <1>0, <2>2, <2>3, GraphqlAssumption DEF RunningAuthorized, AuthError, FieldStates
  <2> QED BY <2>5, <2>6, <2>7
<1>3. ASSUME NEW r \in Requests, SessionRead(r)
      PROVE  Goal
  <2>1. PICK c \in {operation[r].user, None} :
          /\ credentials' = [credentials EXCEPT ![r] = c]
          /\ c # None => operation[r].user \in session
    BY <1>3 DEF SessionRead, Credentials
  <2>2. /\ stage' = [stage EXCEPT ![r] = "execute"] /\ stage[r] = "authenticate"
        /\ UNCHANGED <<session, operation, valid, field, answer>>
    BY <1>3 DEF SessionRead
  <2>3. StagesOrdered'
    BY <1>0, <2>1, <2>2 DEF StagesOrdered, Serving, TypeOK
  <2>4. CredentialsConfirmed'
    BY <1>0, <2>1, <2>2 DEF CredentialsConfirmed, TypeOK, Serving
  <2>5. RunningAuthorized'
    BY <1>0, <2>1, <2>2, GraphqlAssumption
    DEF RunningAuthorized, StagesOrdered, AuthError, TypeOK, FieldStates
  <2> QED BY <2>3, <2>4, <2>5
<1>4. ASSUME NEW r \in Requests, ApolloAnswers(r)
      PROVE  Goal
  <2>1. /\ stage' = [stage EXCEPT ![r] = "ended"] /\ stage[r] = "execute"
        /\ UNCHANGED <<session, operation, credentials, valid, field>>
        /\ \A q \in Requests : q # r => answer'[q] = answer[q]
    BY <1>0, <1>4 DEF ApolloAnswers, TypeOK
  <2> QED BY <1>0, <2>1 DEF StagesOrdered, Serving, CredentialsConfirmed,
                            RunningAuthorized, AuthError, TypeOK
<1>5. ASSUME NEW r \in Requests, Forgotten(r)
      PROVE  Goal
  <2>1. \A q \in Requests, f \in Fields :
          field'[<<q, f>>] = IF q = r THEN None ELSE field[<<q, f>>]
    BY <1>5 DEF Forgotten, FieldsOfRequests
  <2>2. \A q \in Requests : q # r =>
          /\ stage'[q] = stage[q] /\ operation'[q] = operation[q] /\ valid'[q] = valid[q]
          /\ credentials'[q] = credentials[q] /\ answer'[q] = answer[q]
    BY <1>0, <1>5 DEF Forgotten, TypeOK
  <2>3. stage'[r] = "none" /\ credentials'[r] = None /\ answer'[r] = None
    BY <1>0, <1>5 DEF Forgotten, TypeOK
  <2>4. StagesOrdered'
    BY <1>0, <2>1, <2>2, <2>3 DEF StagesOrdered, Serving
  <2>5. CredentialsConfirmed'
    BY <1>0, <1>5, <2>2, <2>3 DEF CredentialsConfirmed, Serving, Forgotten
  <2>6. RunningAuthorized'
    BY <1>0, <2>1, <2>2, GraphqlAssumption DEF RunningAuthorized, AuthError, FieldStates
  <2> QED BY <2>4, <2>5, <2>6
<1>6. ASSUME NEW r \in Requests, NEW f \in Fields, FieldProceeds(r, f)
      PROVE  Goal
  <2>1. PICK s \in FieldStates \ {"todo"} : FieldChanges(r, f, s)
    BY <1>0, <1>6, FieldStepShape
  <2>2. \A q \in Requests, g \in Fields :
          field'[<<q, g>>] = IF q = r /\ g = f THEN s ELSE field[<<q, g>>]
    BY <1>0, <2>1 DEF FieldChanges, TypeOK, FieldsOfRequests
  <2>3. field[<<r, f>>] # None /\ UNCHANGED <<stage, operation, credentials, valid>>
    BY <2>1, GraphqlAssumption DEF FieldChanges, FieldStates, requestVars
  <2>4. stage[r] \in {"execute", "ended"} /\ f \in operation[r].fields
    BY <1>0, <2>1, <2>3 DEF FieldChanges, TypeOK, StagesOrdered, Serving
  <2>5. \A q \in Requests : q # r => answer'[q] = answer[q]
    BY <1>0, <2>1 DEF FieldChanges, TypeOK
  <2>6. StagesOrdered'
    BY <1>0, <2>2, <2>3, <2>4, <2>5 DEF StagesOrdered, Serving
  <2>7. CredentialsConfirmed'
    BY <1>0, <2>1, <2>3 DEF CredentialsConfirmed, Serving, FieldChanges
  <2>8. RunningAuthorized'
    BY <1>0, <2>1, <2>2, <2>3 DEF FieldChanges, RunningAuthorized, AuthError
  <2> QED BY <2>6, <2>7, <2>8
<1>7. ASSUME NEW u \in Users, Login(u)
      PROVE  Goal
  <2>1. /\ UNCHANGED <<stage, operation, credentials, field, answer>>
        /\ session' = session \cup {u}
        /\ \A r \in Requests :
             valid[r] \/ (Serving(r) /\ operation[r].user = u) => valid'[r]
    BY <1>7 DEF Login
  <2> QED BY <1>0, <2>1 DEF StagesOrdered, Serving, CredentialsConfirmed,
                            RunningAuthorized, AuthError
<1>8. ASSUME NEW u \in Users, Logout(u)
      PROVE  Goal
  BY <1>0, <1>8 DEF Logout, requestVars, StagesOrdered, Serving, CredentialsConfirmed,
                    RunningAuthorized, AuthError
<1> QED BY <1>1, <1>2, <1>3, <1>4, <1>5, <1>6, <1>7, <1>8 DEF Next

--------------------------------------------------------------------------------
\* A guard that is passed entitles: the credentials have one of its roles and
\* were confirmed.
LEMMA PassedGuards ==
  ASSUME IndInv, NEW r \in Requests, NEW f \in Fields,
         AuthError(r, f) = None, HasRolesRefuses(r, f) = {}
  PROVE  \A roles \in {Resolver[f].hasRoles} \cup (IF operation[r].introspection THEN {}
                                                    ELSE {Resolver[f].authorized}) :
           roles # None => valid[r] /\ Has(operation[r].user, roles)
<1>1. Resolver[f].hasRoles # None =>
        credentials[r] # None /\ Has(credentials[r], Resolver[f].hasRoles)
  BY DEF HasRolesRefuses
<1>2. Resolver[f].authorized # None /\ ~operation[r].introspection =>
        credentials[r] # None /\ Has(credentials[r], Resolver[f].authorized)
  BY GraphqlAssumption DEF AuthError, FieldStates, Errors
<1>3. credentials[r] # None => valid[r] /\ credentials[r] = operation[r].user
  BY DEF IndInv, CredentialsConfirmed
<1> QED BY <1>1, <1>2, <1>3

\* Guarded resolvers keep to entitled users.
LEMMA GuardStep == IndInv /\ [Next]_vars => GuardedRunsForEntitled'
<1> SUFFICES ASSUME IndInv, [Next]_vars,
                    NEW q \in Requests, NEW g \in Fields,
                    Serving(q)', field'[<<q, g>>] \in {"running", "done"}
             PROVE  (\A roles \in {Resolver[g].hasRoles}
                       \cup (IF operation[q].introspection THEN {}
                             ELSE {Resolver[g].authorized}) :
                      roles # None => valid[q] /\ Has(operation[q].user, roles))'
  BY DEF GuardedRunsForEntitled
<1> DEFINE Entitled ==
      \A roles \in {Resolver[g].hasRoles}
                \cup (IF operation[q].introspection THEN {} ELSE {Resolver[g].authorized}) :
        roles # None => valid[q] /\ Has(operation[q].user, roles)
<1>0. TypeOK /\ StagesOrdered /\ GuardedRunsForEntitled
  BY DEF IndInv
<1>1. Serving(q) /\ field[<<q, g>>] \in {"running", "done"} => Entitled
  BY <1>0 DEF GuardedRunsForEntitled
<1>2. ASSUME Entitled, operation'[q] = operation[q], valid[q] => valid'[q]
      PROVE  Entitled'
  BY <1>2 DEF Has
<1>3. CASE UNCHANGED vars
  BY <1>1, <1>2, <1>3 DEF vars, requestVars, Serving
<1>4. ASSUME NEW r \in Requests, NEW op \in Operations, Arrives(r, op)
      PROVE  Entitled'
  <2>1. q # r /\ UNCHANGED <<field[<<q, g>>], operation[q], valid[q], stage[q]>>
    BY <1>0, <1>4, GraphqlAssumption DEF Arrives, TypeOK, FieldsOfRequests, FieldStates
  <2> QED BY <1>1, <1>2, <2>1 DEF Serving
<1>5. ASSUME NEW r \in Requests, SessionRead(r) \/ ApolloAnswers(r)
      PROVE  Entitled'
  <2>1. UNCHANGED <<field, operation, valid>> /\ Serving(r)
    BY <1>5 DEF SessionRead, ApolloAnswers, Serving
  <2>2. q # r => stage'[q] = stage[q]
    BY <1>0, <1>5 DEF SessionRead, ApolloAnswers, TypeOK
  <2> QED BY <1>1, <1>2, <2>1, <2>2 DEF Serving
<1>6. ASSUME NEW r \in Requests, Forgotten(r)
      PROVE  Entitled'
  <2>1. q # r /\ UNCHANGED <<field[<<q, g>>], operation[q], valid[q], stage[q]>>
    BY <1>0, <1>6, GraphqlAssumption DEF Forgotten, TypeOK, FieldsOfRequests, FieldStates
  <2> QED BY <1>1, <1>2, <2>1 DEF Serving
<1>7. ASSUME NEW r \in Requests, NEW f \in Fields, FieldProceeds(r, f)
      PROVE  Entitled'
  <2>1. PICK s \in FieldStates \ {"todo"} : FieldChanges(r, f, s)
    BY <1>0, <1>7, FieldStepShape
  <2>2. UNCHANGED <<stage, operation, credentials, valid>>
    BY <2>1 DEF FieldChanges, requestVars
  <2>3. CASE q = r /\ g = f
    <3>1. field'[<<q, g>>] = s
      BY <1>0, <2>1, <2>3 DEF FieldChanges, TypeOK, FieldsOfRequests
    <3>2. CASE s = "running"
      <4>1. Entitled
        BY <2>1, <2>3, <3>2, PassedGuards DEF FieldChanges
      <4> QED BY <1>2, <2>2, <4>1
    <3>3. CASE s = "done"
      <4>1. field[<<q, g>>] = "running"
        BY <2>1, <2>3, <3>3 DEF FieldChanges
      <4> QED BY <1>1, <1>2, <2>2, <4>1 DEF Serving
    <3> QED BY <3>1, <3>2, <3>3
  <2>4. CASE ~(q = r /\ g = f)
    <3>1. field'[<<q, g>>] = field[<<q, g>>]
      BY <1>0, <2>1, <2>4 DEF FieldChanges, TypeOK, FieldsOfRequests
    <3> QED BY <1>1, <1>2, <2>2, <3>1 DEF Serving
  <2> QED BY <2>3, <2>4
<1>8. ASSUME NEW u \in Users, Login(u) \/ Logout(u)
      PROVE  Entitled'
  <2>1. UNCHANGED <<stage, operation, field>> /\ (valid[q] => valid'[q])
    BY <1>8 DEF Login, Logout, requestVars
  <2> QED BY <1>1, <1>2, <2>1 DEF Serving
<1> QED BY <1>3, <1>4, <1>5, <1>6, <1>7, <1>8 DEF Next

--------------------------------------------------------------------------------
\* What AnswerTellsFailure says of one request.
Tells(q) ==
    Serving(q) =>
      /\ answer[q] = None => stage[q] # "ended" /\ SeenByMiddleware(q) = {}
      /\ answer[q] = "data" => \A f \in operation[q].fields : field[<<q, f>>] = "done"
      /\ answer[q] = "errors" => FailedFields(q) \ SeenByMiddleware(q) # {}
      /\ answer[q] \notin {None, "data", "errors"} =>
           \E f \in SeenByMiddleware(q) : answer[q] = Told[field[<<q, f>>]]

\* A step that leaves a request's fields, answer and guards alone.
LEMMA TellsUntouched ==
  ASSUME NEW q \in Requests, Tells(q),
         \A f \in operation[q].fields : field'[<<q, f>>] = field[<<q, f>>],
         UNCHANGED <<stage[q], operation[q], credentials[q], answer[q]>>
  PROVE  Tells(q)'
<1>1. \A f : AuthError(q, f)' = AuthError(q, f)
  BY DEF AuthError, Has
<1>2. UNCHANGED <<FailedFields(q), SeenByMiddleware(q)>>
  BY <1>1 DEF FailedFields, SeenByMiddleware, Failed
<1> QED BY <1>2 DEF Tells, Serving, SeenByMiddleware, FailedFields

\* A field that fails, for a request whose execution may go on or have ended.
LEMMA TellsAfterField ==
  ASSUME IndInv, NEW r \in Requests, NEW f \in operation[r].fields, Tells(r),
         Serving(r), f \in Fields,
         NEW s \in FieldStates \ {"todo"}, FieldChanges(r, f, s)
  PROVE  Tells(r)'
<1>0. TypeOK /\ RunningAuthorized
  BY DEF IndInv
<1>1. UNCHANGED <<stage, operation, credentials>>
  BY DEF FieldChanges, requestVars
<1>2. \A g : AuthError(r, g)' = AuthError(r, g)
  BY <1>1 DEF AuthError, Has
<1>3. /\ field'[<<r, f>>] = s
      /\ \A g : g # f => field'[<<r, g>>] = field[<<r, g>>]
  BY <1>0 DEF FieldChanges, TypeOK, FieldsOfRequests
<1>4. field[<<r, f>>] \notin Errors /\ field[<<r, f>>] # "done"
  BY DEF FieldChanges, Errors
<1>5. f \notin FailedFields(r)
  BY <1>4 DEF FailedFields, Failed
<1>6. FailedFields(r)' = FailedFields(r) \cup (IF s \in Errors THEN {f} ELSE {})
  BY <1>1, <1>3, <1>4 DEF FailedFields, Failed
<1>7. SeenByMiddleware(r)' =
        SeenByMiddleware(r)
        \cup (IF s \in Errors /\ AuthError(r, f) = None /\ s \in DOMAIN Told THEN {f} ELSE {})
  BY <1>2, <1>3, <1>5, <1>6 DEF SeenByMiddleware
<1>8. answer[r] # "data"
  BY <1>4 DEF Tells
<1>9. CASE /\ s \in Errors /\ answer[r] = None
           /\ field[<<r, f>>] = "todo" => AuthError(r, f) = None
           /\ answer' = [answer EXCEPT ![r] = Status(s)]
  <2>1. AuthError(r, f) = None
    BY <1>0, <1>9 DEF FieldChanges, RunningAuthorized
  <2>2. answer'[r] = Status(s)
    BY <1>0, <1>9 DEF TypeOK
  <2>3. stage'[r] # "ended" /\ SeenByMiddleware(r) = {}
    BY <1>1, <1>9 DEF Tells
  <2>4. CASE s \in DOMAIN Told
    <3>1. answer'[r] = Told[s] /\ answer'[r] \notin {None, "data", "errors"}
      BY <1>9, <2>2, <2>4, StatusTypes
    <3>2. f \in SeenByMiddleware(r)'
      BY <1>7, <1>9, <2>1, <2>4
    <3> QED BY <1>3, <3>1, <3>2 DEF Tells
  <2>5. CASE s \notin DOMAIN Told
    <3>1. answer'[r] = None
      BY <1>9, <2>2, <2>5, StatusTypes
    <3>2. None \notin {"data", "errors"}
      BY GraphqlAssumption DEF Answers
    <3> QED BY <1>7, <2>3, <2>5, <3>1, <3>2 DEF Tells
  <2> QED BY <2>4, <2>5
<1>10. CASE UNCHANGED answer /\ (s \in Errors /\ answer[r] = None => AuthError(r, f) # None)
  <2>1. answer'[r] = answer[r]
    BY <1>10
  <2>2. answer[r] = None => stage'[r] # "ended" /\ SeenByMiddleware(r)' = {}
    BY <1>1, <1>7, <1>10 DEF Tells
  <2>3. answer[r] = "errors" => (FailedFields(r) \ SeenByMiddleware(r))' # {}
    <3>1. SUFFICES ASSUME answer[r] = "errors"
                   PROVE  (FailedFields(r) \ SeenByMiddleware(r))' # {}
      OBVIOUS
    <3>2. PICK g : g \in FailedFields(r) \ SeenByMiddleware(r)
      BY <3>1 DEF Tells
    <3> QED BY <1>5, <1>6, <1>7, <3>2
  <2>4. answer[r] \notin {None, "data", "errors"} =>
          \E g \in SeenByMiddleware(r)' : answer[r] = Told[field'[<<r, g>>]]
    <3>1. SUFFICES ASSUME answer[r] \notin {None, "data", "errors"}
                   PROVE  \E g \in SeenByMiddleware(r)' : answer[r] = Told[field'[<<r, g>>]]
      OBVIOUS
    <3>2. PICK g \in SeenByMiddleware(r) : answer[r] = Told[field[<<r, g>>]]
      BY <3>1 DEF Tells
    <3>3. g # f
      BY <1>5, <3>2 DEF SeenByMiddleware
    <3> QED BY <1>3, <1>7, <3>2, <3>3
  <2> QED BY <1>8, <2>1, <2>2, <2>3, <2>4 DEF Tells
<1> QED BY <1>9, <1>10 DEF FieldChanges

\* The answer keeps telling what happened.
LEMMA AnswerStep == IndInv /\ [Next]_vars => AnswerTellsFailure'
<1> SUFFICES ASSUME IndInv, [Next]_vars, NEW q \in Requests
             PROVE  Tells(q)'
  BY DEF AnswerTellsFailure, Tells
<1>0. TypeOK /\ StagesOrdered /\ Tells(q)
  BY DEF IndInv, AnswerTellsFailure, Tells
<1>1. CASE UNCHANGED vars
  BY <1>0, <1>1, TellsUntouched DEF vars, requestVars
<1>2. ASSUME NEW r \in Requests, NEW op \in Operations, Arrives(r, op)
      PROVE  Tells(q)'
  <2>1. CASE q = r
    <3>1. /\ answer'[q] = None /\ stage'[q] # "ended" /\ operation'[q] = op
          /\ op.fields \subseteq Fields
      BY <1>0, <1>2, <2>1, GraphqlAssumption DEF Arrives, TypeOK, StagesOrdered
    <3>2. \A f \in op.fields : field'[<<q, f>>] = "todo"
      BY <1>2, <2>1, <3>1 DEF Arrives, FieldsOfRequests
    <3>3. SeenByMiddleware(q)' = {}
      BY <3>1, <3>2 DEF SeenByMiddleware, FailedFields, Failed, Errors
    <3> QED BY <3>1, <3>3, GraphqlAssumption DEF Tells, Answers
  <2>2. CASE q # r
    <3>1. UNCHANGED <<stage[q], operation[q], credentials[q], answer[q]>>
      BY <1>0, <1>2, <2>2 DEF Arrives, TypeOK
    <3>2. CASE Serving(q)
      <4>1. operation[q].fields \subseteq Fields
        BY <1>0, <3>2 DEF StagesOrdered
      <4>2. \A f \in operation[q].fields : field'[<<q, f>>] = field[<<q, f>>]
        BY <1>2, <2>2, <4>1 DEF Arrives, FieldsOfRequests
      <4> QED BY <1>0, <3>1, <4>2, TellsUntouched
    <3> QED BY <3>1, <3>2 DEF Tells, Serving
  <2> QED BY <2>1, <2>2
<1>3. ASSUME NEW r \in Requests, SessionRead(r)
      PROVE  Tells(q)'
  <2>1. UNCHANGED <<operation, field, answer>> /\ stage[r] = "authenticate"
    BY <1>3 DEF SessionRead
  <2>2. CASE q = r
    <3>1. /\ answer[q] = None /\ stage'[q] = "execute"
          /\ \A f \in Fields : field[<<q, f>>] \in {None, "todo"}
      BY <1>0, <1>3, <2>1, <2>2 DEF SessionRead, TypeOK, StagesOrdered
    <3>2. operation[q].fields \subseteq Fields
      BY <1>0, <2>1, <2>2 DEF StagesOrdered, Serving
    <3>3. SeenByMiddleware(q)' = {}
      BY <2>1, <3>1, <3>2, GraphqlAssumption
      DEF SeenByMiddleware, FailedFields, Failed, Errors, FieldStates
    <3> QED BY <2>1, <3>1, <3>3, GraphqlAssumption DEF Tells, Answers
  <2>3. CASE q # r
    <3>1. UNCHANGED <<stage[q], credentials[q]>>
      BY <1>0, <1>3, <2>3 DEF SessionRead, TypeOK
    <3> QED BY <1>0, <2>1, <3>1, TellsUntouched
  <2> QED BY <2>2, <2>3
<1>4. ASSUME NEW r \in Requests, ApolloAnswers(r)
      PROVE  Tells(q)'
  <2>1. UNCHANGED <<operation, field, credentials>> /\ stage[r] = "execute"
    BY <1>4 DEF ApolloAnswers
  <2>2. CASE q = r
    <3>1. UNCHANGED <<FailedFields(q), SeenByMiddleware(q)>>
      BY <2>1 DEF FailedFields, SeenByMiddleware, Failed, AuthError, Has
    <3>2. CASE answer[q] # None
      BY <1>0, <1>4, <2>1, <2>2, <3>1, <3>2 DEF ApolloAnswers, Tells, Serving
    <3>3. CASE answer[q] = None
      <4>1. SeenByMiddleware(q) = {}
        BY <1>0, <2>1, <2>2, <3>3 DEF Tells, Serving
      <4>2. CASE \A f \in operation[q].fields : field[<<q, f>>] = "done"
        <5>1. answer'[q] = "data"
          BY <1>0, <1>4, <2>2, <3>3, <4>2 DEF ApolloAnswers, TypeOK
        <5> QED BY <2>1, <4>2, <5>1, GraphqlAssumption DEF Tells, Answers
      <4>3. CASE ~\A f \in operation[q].fields : field[<<q, f>>] = "done"
        <5>1. answer'[q] = "errors"
          BY <1>0, <1>4, <2>2, <3>3, <4>3 DEF ApolloAnswers, TypeOK
        <5>2. FailedFields(q) # {}
          BY <1>4, <2>2, <4>3 DEF ApolloAnswers, ExecutionEnds, FailedFields
        <5> QED BY <3>1, <4>1, <5>1, <5>2, GraphqlAssumption DEF Tells, Answers
      <4> QED BY <4>2, <4>3
    <3> QED BY <3>2, <3>3
  <2>3. CASE q # r
    <3>1. UNCHANGED <<stage[q], answer[q]>>
      BY <1>0, <1>4, <2>3 DEF ApolloAnswers, TypeOK
    <3> QED BY <1>0, <2>1, <3>1, TellsUntouched
  <2> QED BY <2>2, <2>3
<1>5. ASSUME NEW r \in Requests, Forgotten(r)
      PROVE  Tells(q)'
  <2>1. CASE q = r
    BY <1>0, <1>5, <2>1 DEF Forgotten, Tells, Serving, TypeOK
  <2>2. CASE q # r
    <3>1. UNCHANGED <<stage[q], operation[q], credentials[q], answer[q]>>
      BY <1>0, <1>5, <2>2 DEF Forgotten, TypeOK
    <3>2. CASE Serving(q)
      <4>1. operation[q].fields \subseteq Fields
        BY <1>0, <3>2 DEF StagesOrdered
      <4>2. \A f \in operation[q].fields : field'[<<q, f>>] = field[<<q, f>>]
        BY <1>5, <2>2, <4>1 DEF Forgotten, FieldsOfRequests
      <4> QED BY <1>0, <3>1, <4>2, TellsUntouched
    <3> QED BY <3>1, <3>2 DEF Tells, Serving
  <2> QED BY <2>1, <2>2
<1>6. ASSUME NEW r \in Requests, NEW f \in Fields, FieldProceeds(r, f)
      PROVE  Tells(q)'
  <2>1. PICK s \in FieldStates \ {"todo"} : FieldChanges(r, f, s)
    BY <1>0, <1>6, FieldStepShape
  <2>2. CASE q = r
    <3>1. Serving(r) /\ f \in operation[r].fields
      BY <1>0, <2>1, GraphqlAssumption DEF FieldChanges, StagesOrdered, FieldStates
    <3> QED BY <1>0, <2>1, <2>2, <3>1, TellsAfterField
  <2>3. CASE q # r
    <3>1. UNCHANGED <<stage[q], operation[q], credentials[q], answer[q]>>
      BY <1>0, <2>1, <2>3 DEF FieldChanges, requestVars, TypeOK
    <3>2. \A g : field'[<<q, g>>] = field[<<q, g>>]
      BY <1>0, <2>1, <2>3 DEF FieldChanges, TypeOK, FieldsOfRequests
    <3> QED BY <1>0, <3>1, <3>2, TellsUntouched
  <2> QED BY <2>2, <2>3
<1>7. ASSUME NEW u \in Users, Login(u) \/ Logout(u)
      PROVE  Tells(q)'
  BY <1>0, <1>7, TellsUntouched DEF Login, Logout, requestVars
<1> QED BY <1>1, <1>2, <1>3, <1>4, <1>5, <1>6, <1>7 DEF Next

\* IndInv holds in every reachable state.
THEOREM Invariance == Spec => []IndInv
<1>1. IndInv /\ [Next]_vars => IndInv'
  BY TypeStep, RequestStep, GuardStep, AnswerStep DEF IndInv
<1> QED BY InitIndInv, <1>1, PTL DEF Spec

\* The variables keep their types, for any requests and operations.
THEOREM TypeCorrect == Spec => []TypeOK
<1>1. IndInv => TypeOK
  BY DEF IndInv
<1> QED BY <1>1, Invariance, PTL

\* Whatever fields fail in whatever order, the client is told of it, and of
\* nothing else (middlewares/graphql/ErrorHandlerMiddleware.ts:15-58).
THEOREM AnswersTellFailures == Spec => []AnswerTellsFailure
<1>1. IndInv => AnswerTellsFailure
  BY DEF IndInv
<1> QED BY <1>1, Invariance, PTL

\* However sessions come and go: a resolver under @HasRoles runs only for a user
\* with one of its roles and a session at some time since the request arrived,
\* and so does one under @Authorized, unless the request is an introspection.
\* That is any whose query text starts with "query Introspection", whatever it
\* asks for: authenticate does not look at its token, and the authChecker lets
\* it pass every @Authorized (middlewares/graphql/authenticationMiddleware.ts:11-39,
\* HasRolesMiddleware.ts:8-23, providers/GraphqlProvider.ts:72-89).
THEOREM GuardsHoldUnlessIntrospection == Spec => []GuardedRunsForEntitled
<1>1. IndInv => GuardedRunsForEntitled
  BY DEF IndInv
<1> QED BY <1>1, Invariance, PTL

--------------------------------------------------------------------------------
(***************************************************************************)
(* The data loaders that the resolvers of such fields share, for any keys, *)
(* number of loads, cache size and supply of batches.                      *)
(* LoadsOwnFreshItem only speaks of promises that have settled.  LoaderInv *)
(* says what a promise that is still under way rests on: its key stands at *)
(* its place in a batch, and the item has not become older since.          *)
(***************************************************************************)

\* A promise does not precede its item, and its key's item comes back to it.
PromiseKept(e) ==
    LET b == batch[e.promise[1]]
        i == e.promise[2]
    IN  /\ e.since <= item[e.key]
        /\ \/ b \in PendingBatch /\ i \in DOMAIN b.keys /\ b.keys[i] = e.key
           \/ /\ b \in SettledBatch /\ i \in DOMAIN b.values
              /\ b.values[i] # Undefined => b.values[i][1] = e.key
              /\ ~b.failed => Version(b.values[i]) >= e.since

BatchStates == {Free} \cup PendingBatch \cup SettledBatch
OnePromisePerKey(entries) ==
    \A i, j \in DOMAIN entries : entries[i].key = entries[j].key => i = j

LoaderTyped ==
    /\ item \in [Keys -> 0 .. MaxVersion]
    /\ batch \in [Batches -> BatchStates]
    /\ cacheMap \in Seq(Entries) /\ Len(cacheMap) <= MaxItems
    /\ load \in [Loads -> Entries \cup {NoLoad}]
    /\ OnePromisePerKey(cacheMap)

LoaderInv == LoaderTyped /\ \A e \in Referenced : PromiseKept(e)

--------------------------------------------------------------------------------
\* A set of natural numbers that is not empty has a least one.
LEMMA LeastIsIn ==
  ASSUME NEW T \in SUBSET Nat, T # {}
  PROVE  Min(T) \in T
<1>1. \E x \in T : \A y \in T : ~(<<y, x>> \in OpToRel(<, Nat))
  BY NatLessThanWellFounded, WFMin, Zenon
<1>2. PICK x \in T : \A y \in T : ~(<<y, x>> \in OpToRel(<, Nat))
  BY <1>1
<1>3. \A y \in T : x <= y
  <2>1. ASSUME NEW y \in T, y < x
        PROVE  <<y, x>> \in OpToRel(<, Nat)
    <3>1. <<y, x>> \in Nat \X Nat
      OBVIOUS
    <3> QED BY <2>1, <3>1, Zenon DEF OpToRel
  <2>2. \A y \in T : ~(y < x)
    BY <1>2, <2>1, Zenon
  <2> QED BY <2>2
<1> QED BY <1>3 DEF Min

\* DataLoaders counts as FiniteSets does.
LEMMA SameSizes ==
  ASSUME NEW S
  PROVE  /\ Cardinality(S) = Cardinality(S)
         /\ IsFiniteSet(S) <=> IsFiniteSet(S)
<1>1. Cardinality(S) = Cardinality(S)
  BY DEF Cardinality, Cardinality
<1>2. IsFiniteSet(S) <=> IsFiniteSet(S)
  BY DEF IsFiniteSet, IsFiniteSet
<1> QED BY <1>1, <1>2

\* A list of all members of a finite set has each of them.
LEMMA AllListed ==
  ASSUME NEW S, IsFiniteSet(S), NEW s \in SetToSeqs(S)
  PROVE  /\ s \in Seq(S)
         /\ \A x \in S : \E j \in DOMAIN s : s[j] = x
<1> DEFINE n == Cardinality(S)
<1>1. n \in Nat
  BY FS_CardinalityType
<1>2. IsFiniteSet(1 .. n) /\ Cardinality(1 .. n) = n
  <2>1. 1 \in Int /\ n \in Int
    BY <1>1
  <2>2. Cardinality(1 .. n) = IF 1 > n THEN 0 ELSE n - 1 + 1
    BY <2>1, FS_Interval
  <2> QED BY <1>1, <2>1, <2>2, FS_Interval
<1>3. s \in [1 .. n -> S] /\ s \in Injection(1 .. n, S)
  BY SameSizes DEF SetToSeqs, Injection, IsInjective
<1>4. s \in Surjection(1 .. n, S)
  BY <1>2, <1>3, FS_Injection
<1> QED BY <1>1, <1>3, <1>4 DEF Surjection

\* Every load of a batch gets an item of its key, or nothing if there is none.
LEMMA ResultFacts ==
  ASSUME NEW keys \in Seq(Keys), NEW items \in Seq(Items)
  PROVE  /\ BatchResult(keys, items) \in Seq(Items \cup {Undefined})
         /\ DOMAIN BatchResult(keys, items) = DOMAIN keys
         /\ \A j \in DOMAIN keys :
              LET v == BatchResult(keys, items)[j]
              IN  \/ v = Undefined /\ \A i \in DOMAIN items : items[i][1] # keys[j]
                  \/ v \in Items /\ v[1] = keys[j] /\ \E i \in DOMAIN items : v = items[i]
<1> DEFINE own(j) == {i \in DOMAIN items : items[i][1] = keys[j]}
           R == BatchResult(keys, items)
<1>1. R = [j \in DOMAIN keys |-> IF own(j) = {} THEN Undefined ELSE items[Min(own(j))]]
  BY DEF BatchResult
<1>2. ASSUME NEW j \in DOMAIN keys, own(j) # {}
      PROVE  Min(own(j)) \in own(j)
  <2>1. own(j) \in SUBSET Nat
    OBVIOUS
  <2> QED BY <1>2, <2>1, LeastIsIn
<1>3. ASSUME NEW j \in DOMAIN keys
      PROVE  \/ R[j] = Undefined /\ \A i \in DOMAIN items : items[i][1] # keys[j]
             \/ R[j] \in Items /\ R[j][1] = keys[j] /\ \E i \in DOMAIN items : R[j] = items[i]
  <2>1. CASE own(j) = {}
    BY <1>1, <2>1
  <2>2. CASE own(j) # {}
    <3> DEFINE m == Min(own(j))
    <3>1. m \in own(j)
      BY <1>2, <2>2
    <3>2. R[j] = items[m]
      BY <1>1, <2>2
    <3> HIDE DEF m
    <3>3. m \in DOMAIN items /\ items[m][1] = keys[j] /\ items[m] \in Items
      BY <3>1
    <3> QED BY <3>2, <3>3
  <2> QED BY <2>1, <2>2
<1>4. DOMAIN R = 1 .. Len(keys) /\ Len(keys) \in Nat /\ DOMAIN keys = 1 .. Len(keys)
  BY <1>1
<1> HIDE DEF R, own
<1>5. \A j \in 1 .. Len(keys) : R[j] \in Items \cup {Undefined}
  BY <1>3, <1>4
<1>6. R = [j \in 1 .. Len(keys) |-> R[j]]
  BY <1>1, <1>4
<1>7. R \in [1 .. Len(keys) -> Items \cup {Undefined}]
  BY <1>5, <1>6
<1>8. R \in Seq(Items \cup {Undefined})
  BY <1>4, <1>7
<1> QED BY <1>3, <1>4, <1>8 DEF R

\* The service answers with the present version of each item it has of the keys.
LEMMA AnswerFacts ==
  ASSUME NEW keys \in Seq(Keys), item \in [Keys -> 0 .. MaxVersion],
         NEW items \in FoundItems(keys)
  PROVE  /\ items \in Seq(Items)
         /\ \A i \in DOMAIN items : items[i] = <<items[i][1], item[items[i][1]]>>
         /\ \A j \in DOMAIN keys : item[keys[j]] > 0 =>
              \E i \in DOMAIN items : items[i][1] = keys[j]
<1> DEFINE P == {key \in Keys : item[key] > 0}
           present == {<<k, item[k]>> : k \in P}
           asked == {i \in present : i[1] \in {keys[j] : j \in DOMAIN keys}}
           f == [k \in P |-> <<k, item[k]>>]
<1>1. MaxVersion \in Nat /\ IsFiniteSet(Keys)
  BY SameSizes, LoaderAssumption
<1>2. present \subseteq Items
  BY <1>1 DEF Items
<1>3. IsFiniteSet(P)
  BY <1>1, FS_Subset
<1>4. f \in Surjection(P, present)
  BY DEF Surjection
<1>5. IsFiniteSet(present)
  BY <1>3, <1>4, FS_Surjection
<1>6. IsFiniteSet(asked)
  BY <1>5, FS_Subset
<1>7. items \in SetToSeqs(present) \/ items \in SetToSeqs(asked)
  BY DEF FoundItems
<1>8. \A j \in DOMAIN keys : item[keys[j]] > 0 =>
         <<keys[j], item[keys[j]]>> \in present /\ <<keys[j], item[keys[j]]>> \in asked
  OBVIOUS
<1>9. \A x \in present : x = <<x[1], item[x[1]]>>
  OBVIOUS
<1>10. asked \subseteq present
  OBVIOUS
<1> HIDE DEF present, asked
<1>11. ASSUME NEW S, S = present \/ S = asked, items \in SetToSeqs(S)
       PROVE  /\ items \in Seq(Items)
              /\ \A i \in DOMAIN items : items[i] \in present
              /\ \A j \in DOMAIN keys : item[keys[j]] > 0 =>
                   \E i \in DOMAIN items : items[i][1] = keys[j]
  <2>1. S \subseteq present /\ IsFiniteSet(S)
    BY <1>5, <1>6, <1>10, <1>11
  <2>2. items \in Seq(S) /\ \A x \in S : \E i \in DOMAIN items : items[i] = x
    BY <1>11, <2>1, AllListed
  <2>3. \A i \in DOMAIN items : items[i] \in S
    BY <2>2
  <2>4. items \in Seq(Items)
    BY <1>2, <2>1, <2>2
  <2>5. ASSUME NEW j \in DOMAIN keys, item[keys[j]] > 0
        PROVE  \E i \in DOMAIN items : items[i][1] = keys[j]
    <3>1. <<keys[j], item[keys[j]]>> \in S
      BY <1>8, <1>11, <2>5
    <3>2. PICK i \in DOMAIN items : items[i] = <<keys[j], item[keys[j]]>>
      BY <2>2, <3>1
    <3> QED BY <3>2
  <2> QED BY <2>1, <2>3, <2>4, <2>5
<1>12. /\ items \in Seq(Items)
       /\ \A i \in DOMAIN items : items[i] \in present
       /\ \A j \in DOMAIN keys : item[keys[j]] > 0 =>
            \E i \in DOMAIN items : items[i][1] = keys[j]
  BY <1>7, <1>11
<1> QED BY <1>9, <1>12

--------------------------------------------------------------------------------
\* What is kept are promises of entries.
LEMMA ReferencedEntries ==
  ASSUME LoaderTyped
  PROVE  Referenced \subseteq Entries
BY DEF LoaderTyped, Referenced, Waiting

\* The garbage collector frees no batch of a promise that is kept.
LEMMA CollectFacts ==
  ASSUME NEW bs \in [Batches -> BatchStates], NEW entries, NEW loads,
         Collect(bs, entries, loads)
  PROVE  /\ batch' \in [Batches -> BatchStates]
         /\ cacheMap' = entries /\ load' = loads
         /\ \A e \in Referenced' :
              /\ e \in {entries[i] : i \in DOMAIN entries}
                    \cup {loads[l] : l \in {m \in Loads : loads[m] # NoLoad}}
              /\ e.promise[1] \in Batches => batch'[e.promise[1]] = bs[e.promise[1]]
<1>1. cacheMap' = entries /\ load' = loads
  BY DEF Collect
<1>2. \A b \in Batches :
        batch'[b] = IF bs[b].state = "settled" /\ b \notin Kept(entries, loads)
                                     THEN Free ELSE bs[b]
  BY DEF Collect
<1>3. batch' \in [Batches -> BatchStates]
  BY <1>2 DEF Collect, BatchStates
<1>4. Referenced' = {loads[l] : l \in {m \in Loads : loads[m] # NoLoad}}
                      \cup {entries[i] : i \in DOMAIN entries}
  BY <1>1 DEF Referenced, Waiting
<1>5. \A e \in Referenced' : e.promise[1] \in Kept(entries, loads)
  BY <1>4 DEF Kept
<1> QED BY <1>1, <1>2, <1>3, <1>4, <1>5

\* A promise is kept as long as its batch is, while items change.
LEMMA StillKept ==
  ASSUME LoaderTyped, NEW e \in Entries, PromiseKept(e),
         batch'[e.promise[1]] = batch[e.promise[1]],
         item' \in [Keys -> 0 .. MaxVersion], \A k \in Keys : item[k] <= item'[k]
  PROVE  PromiseKept(e)'
<1>1. e.key \in Keys /\ e.since \in Nat
  BY LoaderAssumption DEF Entries
<1>2. e.since <= item'[e.key]
  <2>1. item[e.key] \in Nat /\ item'[e.key] \in Nat
    BY <1>1, LoaderAssumption DEF LoaderTyped
  <2> QED BY <1>1, <2>1 DEF PromiseKept
<1> QED BY <1>2 DEF PromiseKept

\* A load that finds its key in the cache shares a promise that is kept.
LEMMA LoadHitSafe ==
  ASSUME LoaderInv, NEW l \in Loads, NEW k \in Keys, LoadHit(l, k)
  PROVE  LoaderInv'
<1>1. PICK i \in Cached(k) : load' = [load EXCEPT ![l] = cacheMap[i]]
  BY DEF LoadHit
<1>2. i \in DOMAIN cacheMap /\ cacheMap[i] \in Entries
  BY <1>1 DEF LoaderInv, LoaderTyped, Cached
<1>3. UNCHANGED <<item, batch, cacheMap>>
  BY DEF LoadHit
<1>4. LoaderTyped'
  BY <1>1, <1>2, <1>3 DEF LoaderInv, LoaderTyped, OnePromisePerKey
<1>5. Referenced' \subseteq Referenced
  BY <1>1, <1>2, <1>3 DEF Referenced, Waiting, LoaderInv, LoaderTyped
<1>6. ASSUME NEW e \in Referenced' PROVE PromiseKept(e)'
  BY <1>3, <1>5, <1>6 DEF PromiseKept, LoaderInv
<1> QED BY <1>4, <1>6 DEF LoaderInv

\* Dropping the oldest entry.
LEMMA TailFacts ==
  ASSUME NEW entries \in Seq(Entries), entries # <<>>
  PROVE  /\ Tail(entries) \in Seq(Entries) /\ Len(Tail(entries)) = Len(entries) - 1
         /\ {Tail(entries)[i] : i \in DOMAIN Tail(entries)}
              \subseteq {entries[i] : i \in DOMAIN entries}
         /\ OnePromisePerKey(entries) => OnePromisePerKey(Tail(entries))
<1>1. /\ Tail(entries) \in Seq(Entries) /\ Len(Tail(entries)) = Len(entries) - 1
      /\ \A i \in DOMAIN Tail(entries) :
           i \in Nat /\ i + 1 \in DOMAIN entries /\ Tail(entries)[i] = entries[i + 1]
  OBVIOUS
<1>2. {Tail(entries)[i] : i \in DOMAIN Tail(entries)}
        \subseteq {entries[i] : i \in DOMAIN entries}
  BY <1>1
<1>3. OnePromisePerKey(entries) => OnePromisePerKey(Tail(entries))
  <2> SUFFICES ASSUME OnePromisePerKey(entries), NEW i \in DOMAIN Tail(entries),
                      NEW j \in DOMAIN Tail(entries),
                      Tail(entries)[i].key = Tail(entries)[j].key
               PROVE  i = j
    BY DEF OnePromisePerKey
  <2>1. i + 1 = j + 1
    BY <1>1 DEF OnePromisePerKey
  <2> QED BY <1>1, <2>1
<1> QED BY <1>1, <1>2, <1>3

\* The oldest promise leaves the cache when its time to live is over.
LEMMA ExpireEntrySafe ==
  ASSUME LoaderInv, ExpireEntry
  PROVE  LoaderInv'
<1>1. cacheMap # <<>> /\ Collect(batch, Tail(cacheMap), load) /\ UNCHANGED item
  BY DEF ExpireEntry, Expires
<1>2. LoaderTyped /\ batch \in [Batches -> BatchStates]
  BY DEF LoaderInv, LoaderTyped
<1>3. /\ batch' \in [Batches -> BatchStates]
      /\ cacheMap' = Tail(cacheMap) /\ load' = load
      /\ \A e \in Referenced' :
           /\ e \in {Tail(cacheMap)[i] : i \in DOMAIN Tail(cacheMap)}
                 \cup {load[l] : l \in {m \in Loads : load[m] # NoLoad}}
           /\ e.promise[1] \in Batches => batch'[e.promise[1]] = batch[e.promise[1]]
  BY <1>1, <1>2, CollectFacts
<1>4. /\ Tail(cacheMap) \in Seq(Entries) /\ Len(Tail(cacheMap)) = Len(cacheMap) - 1
      /\ {Tail(cacheMap)[i] : i \in DOMAIN Tail(cacheMap)}
           \subseteq {cacheMap[i] : i \in DOMAIN cacheMap}
      /\ OnePromisePerKey(Tail(cacheMap))
  BY <1>1, <1>2, TailFacts DEF LoaderTyped
<1>5. LoaderTyped'
  BY <1>1, <1>2, <1>3, <1>4, LoaderAssumption DEF LoaderTyped
<1>6. Referenced' \subseteq Referenced
  BY <1>3, <1>4 DEF Referenced, Waiting
<1>7. ASSUME NEW e \in Referenced' PROVE PromiseKept(e)'
  <2>1. e \in Entries /\ PromiseKept(e)
    BY <1>2, <1>6, ReferencedEntries DEF LoaderInv
  <2>2. batch'[e.promise[1]] = batch[e.promise[1]]
    BY <1>3, <2>1 DEF Entries
  <2> QED BY <1>1, <2>1, <2>2 DEF PromiseKept
<1> QED BY <1>5, <1>7 DEF LoaderInv

\* A load that got its item lets go of the promise.
LEMMA LoadedSafe ==
  ASSUME LoaderInv, NEW l \in Loads, Loaded(l)
  PROVE  LoaderInv'
<1> DEFINE loads == [load EXCEPT ![l] = NoLoad]
<1>1. Collect(batch, cacheMap, loads) /\ UNCHANGED item
  BY DEF Loaded
<1>2. LoaderTyped /\ batch \in [Batches -> BatchStates]
  BY DEF LoaderInv, LoaderTyped
<1>3. /\ batch' \in [Batches -> BatchStates]
      /\ cacheMap' = cacheMap /\ load' = loads
      /\ \A e \in Referenced' :
           /\ e \in {cacheMap[i] : i \in DOMAIN cacheMap}
                 \cup {loads[d] : d \in {m \in Loads : loads[m] # NoLoad}}
           /\ e.promise[1] \in Batches => batch'[e.promise[1]] = batch[e.promise[1]]
  BY <1>1, <1>2, CollectFacts
<1>4. LoaderTyped'
  BY <1>1, <1>2, <1>3 DEF LoaderTyped
<1>5. Referenced' \subseteq Referenced
  <2>1. \A d \in Loads : loads[d] # NoLoad => loads[d] = load[d]
    BY <1>2 DEF LoaderTyped
  <2> QED BY <1>3, <2>1 DEF Referenced, Waiting
<1>6. ASSUME NEW e \in Referenced' PROVE PromiseKept(e)'
  <2>1. e \in Entries /\ PromiseKept(e)
    BY <1>2, <1>5, ReferencedEntries DEF LoaderInv
  <2>2. batch'[e.promise[1]] = batch[e.promise[1]]
    BY <1>3, <2>1 DEF Entries
  <2> QED BY <1>1, <2>1, <2>2 DEF PromiseKept
<1> QED BY <1>4, <1>6 DEF LoaderInv

\* Items only get newer, so no promise comes to precede its item.
LEMMA UpdateSafe ==
  ASSUME LoaderInv, NEW k \in Keys, Update(k)
  PROVE  LoaderInv'
<1>1. /\ item[k] < MaxVersion /\ item' = [item EXCEPT ![k] = @ + 1]
      /\ UNCHANGED <<batch, cacheMap, load>>
  BY DEF Update
<1>2. LoaderTyped /\ item \in [Keys -> 0 .. MaxVersion] /\ MaxVersion \in Nat
  BY LoaderAssumption DEF LoaderInv, LoaderTyped
<1>3. item' \in [Keys -> 0 .. MaxVersion] /\ \A key \in Keys : item[key] <= item'[key]
  BY <1>1, <1>2
<1>4. LoaderTyped'
  BY <1>1, <1>2, <1>3 DEF LoaderTyped, OnePromisePerKey
<1>5. Referenced' = Referenced
  BY <1>1 DEF Referenced, Waiting
<1>6. ASSUME NEW e \in Referenced' PROVE PromiseKept(e)'
  <2>1. e \in Entries /\ PromiseKept(e)
    BY <1>2, <1>5, ReferencedEntries DEF LoaderInv
  <2> QED BY <1>1, <1>2, <1>3, <2>1, StillKept
<1> QED BY <1>4, <1>6 DEF LoaderInv

\* Calling the service leaves every key at its place in the batch.
LEMMA DispatchSafe ==
  ASSUME LoaderInv, NEW b \in Batches, Dispatch(b)
  PROVE  LoaderInv'
<1>1. /\ batch[b].state = "open" /\ batch' = [batch EXCEPT ![b].state = "called"]
      /\ UNCHANGED <<item, cacheMap, load>>
  BY DEF Dispatch
<1>2. LoaderTyped /\ batch[b] \in PendingBatch
  BY <1>1 DEF LoaderInv, LoaderTyped, BatchStates, Free, SettledBatch
<1>3. /\ batch'[b] \in PendingBatch /\ batch'[b].keys = batch[b].keys
      /\ \A c \in Batches \ {b} : batch'[c] = batch[c]
  BY <1>1, <1>2 DEF LoaderTyped, PendingBatch
<1>4. LoaderTyped'
  BY <1>1, <1>2, <1>3 DEF LoaderTyped, BatchStates, OnePromisePerKey
<1>5. Referenced' = Referenced
  BY <1>1 DEF Referenced, Waiting
<1>6. ASSUME NEW e \in Referenced' PROVE PromiseKept(e)'
  <2>1. e \in Entries /\ PromiseKept(e) /\ e.promise[1] \in Batches
    BY <1>2, <1>5, ReferencedEntries DEF LoaderInv, Entries
  <2>2. CASE e.promise[1] = b
    <3>1. ~(batch[b] \in SettledBatch)
      BY <1>1 DEF SettledBatch
    <3> QED BY <1>1, <1>3, <2>1, <2>2, <3>1 DEF PromiseKept
  <2>3. CASE e.promise[1] # b
    BY <1>1, <1>3, <2>1, <2>3 DEF PromiseKept
  <2> QED BY <2>2, <2>3
<1> QED BY <1>4, <1>6 DEF LoaderInv

\* The service's answer, or its failure, settles the promises of the batch.
LEMMA SettleSafe ==
  ASSUME LoaderInv,
         NEW b \in Batches, NEW items, NEW failure \in BOOLEAN,
         Settle(b, items, failure),
         IF failure THEN items = <<>> ELSE items \in FoundItems(batch[b].keys)
  PROVE  LoaderInv'
<1> DEFINE keys == batch[b].keys
           values == BatchResult(keys, items)
<1>1. /\ batch[b].state = "called"
      /\ batch' = [batch EXCEPT ![b] = [state |-> "settled", failed |-> failure,
                                        values |-> values]]
      /\ UNCHANGED <<item, cacheMap, load>>
  BY DEF Settle
<1>2. LoaderTyped /\ batch[b] \in PendingBatch /\ keys \in Seq(Keys)
  BY <1>1 DEF LoaderInv, LoaderTyped, BatchStates, Free, SettledBatch, PendingBatch
<1>3. /\ items \in Seq(Items)
      /\ ~failure => \A i \in DOMAIN items : items[i] = <<items[i][1], item[items[i][1]]>>
      /\ ~failure => \A j \in DOMAIN keys : item[keys[j]] > 0 =>
                      \E i \in DOMAIN items : items[i][1] = keys[j]
  <2>1. item \in [Keys -> 0 .. MaxVersion]
    BY <1>2 DEF LoaderTyped
  <2>2. CASE ~failure
    BY <1>2, <2>1, <2>2, AnswerFacts
  <2>3. CASE failure
    <3>1. items = <<>>
      BY <2>3
    <3> QED BY <2>3, <3>1
  <2> QED BY <2>2, <2>3
<1>4. /\ values \in Seq(Items \cup {Undefined}) /\ DOMAIN values = DOMAIN keys
      /\ \A j \in DOMAIN keys :
           \/ values[j] = Undefined /\ \A i \in DOMAIN items : items[i][1] # keys[j]
           \/ /\ values[j] \in Items /\ values[j][1] = keys[j]
              /\ \E i \in DOMAIN items : values[j] = items[i]
  BY <1>2, <1>3, ResultFacts
<1> HIDE DEF values, keys
<1>5. ASSUME NEW j \in DOMAIN keys, ~failure
      PROVE  Version(values[j]) = item[keys[j]]
  <2>1. keys[j] \in Keys /\ item[keys[j]] \in Nat
    BY <1>2, LoaderAssumption DEF LoaderTyped
  <2>2. CASE values[j] = Undefined /\ \A i \in DOMAIN items : items[i][1] # keys[j]
    <3>1. ~(item[keys[j]] > 0)
      BY <1>3, <1>5, <2>2
    <3> QED BY <2>1, <2>2, <3>1 DEF Version
  <2>3. CASE /\ values[j] \in Items /\ values[j][1] = keys[j]
             /\ \E i \in DOMAIN items : values[j] = items[i]
    <3>1. values[j] = <<keys[j], item[keys[j]]>>
      BY <1>3, <1>5, <2>3
    <3>2. values[j] # Undefined
      BY <2>3, LoaderAssumption
    <3> QED BY <3>1, <3>2 DEF Version
  <2> QED BY <1>4, <2>2, <2>3
<1>6. /\ batch'[b] \in SettledBatch /\ batch'[b].values = values /\ batch'[b].failed = failure
      /\ \A c \in Batches \ {b} : batch'[c] = batch[c]
  BY <1>1, <1>2, <1>4 DEF LoaderTyped, SettledBatch
<1>7. LoaderTyped'
  BY <1>1, <1>2, <1>6 DEF LoaderTyped, BatchStates, OnePromisePerKey
<1>8. Referenced' = Referenced
  BY <1>1 DEF Referenced, Waiting
<1>9. ASSUME NEW e \in Referenced' PROVE PromiseKept(e)'
  <2>1. e \in Entries /\ PromiseKept(e) /\ e.promise[1] \in Batches
    BY <1>2, <1>8, ReferencedEntries DEF LoaderInv, Entries
  <2>2. CASE e.promise[1] = b
    <3>1. ~(batch[b] \in SettledBatch)
      BY <1>1 DEF SettledBatch
    <3>2. /\ e.promise[2] \in DOMAIN keys /\ keys[e.promise[2]] = e.key
          /\ e.since <= item[e.key]
      BY <2>1, <2>2, <3>1 DEF PromiseKept, keys
    <3>3. e.since \in Nat /\ item[e.key] \in Nat
      BY <1>2, <2>1, LoaderAssumption DEF LoaderTyped, Entries
    <3>4. ~failure => Version(values[e.promise[2]]) >= e.since
      BY <1>5, <3>2, <3>3
    <3>5. values[e.promise[2]] # Undefined => values[e.promise[2]][1] = e.key
      BY <1>4, <3>2
    <3> QED BY <1>1, <1>4, <1>6, <2>2, <3>2, <3>4, <3>5 DEF PromiseKept
  <2>3. CASE e.promise[1] # b
    BY <1>1, <1>6, <2>1, <2>3 DEF PromiseKept
  <2> QED BY <2>2, <2>3
<1> QED BY <1>7, <1>9 DEF LoaderInv

\* A new promise is for the next place in a batch that was not dispatched.
LEMMA LoadMissSafe ==
  ASSUME LoaderInv, NEW l \in Loads, NEW k \in Keys, LoadMiss(l, k)
  PROVE  LoaderInv'
<1>1. PICK b \in CurrentBatch :
         LET joined == [batch[b] EXCEPT !.keys = Append(@, k)]
             entry == [key |-> k, promise |-> <<b, Len(joined.keys)>>, since |-> item[k]]
         IN  Collect([batch EXCEPT ![b] = IF joined.state = "free"
                                          THEN [joined EXCEPT !.state = "open"] ELSE joined],
                     Purge(Append(cacheMap, entry)), [load EXCEPT ![l] = entry])
  BY DEF LoadMiss
<1> DEFINE keys == Append(batch[b].keys, k)
           joined == [batch[b] EXCEPT !.keys = keys]
           opened == IF joined.state = "free" THEN [joined EXCEPT !.state = "open"] ELSE joined
           bs == [batch EXCEPT ![b] = opened]
           entry == [key |-> k, promise |-> <<b, Len(joined.keys)>>, since |-> item[k]]
           entries == Purge(Append(cacheMap, entry))
           loads == [load EXCEPT ![l] = entry]
<1>2. Collect(bs, entries, loads) /\ UNCHANGED item /\ Cached(k) = {}
  BY <1>1 DEF LoadMiss
<1>3. LoaderTyped /\ \A e \in Referenced : PromiseKept(e)
  BY DEF LoaderInv
<1>4. b \in Batches /\ (batch[b] = Free \/ (batch[b] \in PendingBatch /\ batch[b].state = "open"))
  <2>1. b \in Batches /\ (batch[b] = Free \/ batch[b].state = "open")
    BY DEF CurrentBatch, Joinable
  <2> QED BY <1>3, <2>1 DEF LoaderTyped, BatchStates, SettledBatch
<1>5. batch[b].keys \in Seq(Keys) /\ Len(batch[b].keys) \in Nat
  <2>1. batch[b].keys \in Seq(Keys)
    <3>1. CASE batch[b] = Free
      BY <3>1 DEF Free
    <3>2. CASE batch[b] \in PendingBatch
      BY <3>2 DEF PendingBatch
    <3> QED BY <1>4, <3>1, <3>2
  <2> QED BY <2>1
<1>6. /\ keys \in Seq(Keys) /\ Len(keys) = Len(batch[b].keys) + 1
      /\ Len(keys) \in DOMAIN keys /\ keys[Len(keys)] = k
      /\ \A i \in DOMAIN batch[b].keys : i \in DOMAIN keys /\ keys[i] = batch[b].keys[i]
  BY <1>5
<1> HIDE DEF keys
<1>7. opened \in PendingBatch /\ opened.keys = keys /\ joined.keys = keys
  <2>1. CASE batch[b] = Free
    <3>1. joined = [state |-> "free", keys |-> keys]
      BY <2>1 DEF Free
    <3>2. opened = [state |-> "open", keys |-> keys]
      BY <3>1
    <3> QED BY <1>6, <3>1, <3>2 DEF PendingBatch
  <2>2. CASE batch[b] \in PendingBatch /\ batch[b].state = "open"
    <3>1. joined \in PendingBatch /\ joined.state = "open" /\ joined.keys = keys
      BY <1>6, <2>2 DEF PendingBatch
    <3>2. opened = joined
      BY <3>1
    <3> QED BY <3>1, <3>2
  <2> QED BY <1>4, <2>1, <2>2
<1>8. entry \in Entries /\ entry.key = k /\ entry.promise[1] = b
      /\ entry.promise[2] = Len(keys) /\ entry.since = item[k]
  BY <1>3, <1>4, <1>5, <1>6, <1>7 DEF Entries, LoaderTyped
<1> HIDE DEF joined, opened, entry
<1>9. bs \in [Batches -> BatchStates] /\ bs[b] = opened /\ \A c \in Batches \ {b} : bs[c] = batch[c]
  BY <1>3, <1>4, <1>7 DEF LoaderTyped, BatchStates
<1>10. /\ entries \in Seq(Entries) /\ Len(entries) <= MaxItems /\ OnePromisePerKey(entries)
       /\ {entries[i] : i \in DOMAIN entries}
            \subseteq {cacheMap[i] : i \in DOMAIN cacheMap} \cup {entry}
  <2> DEFINE all == Append(cacheMap, entry)
  <2>1. /\ all \in Seq(Entries) /\ Len(all) = Len(cacheMap) + 1
        /\ \A i \in DOMAIN all : \/ i \in DOMAIN cacheMap /\ all[i] = cacheMap[i]
                                 \/ i = Len(all) /\ all[i] = entry
    BY <1>3, <1>8 DEF LoaderTyped
  <2>2. \A i \in DOMAIN cacheMap : cacheMap[i].key # k
    BY <1>2 DEF Cached
  <2> HIDE DEF all
  <2>3. OnePromisePerKey(all)
    <3> SUFFICES ASSUME NEW i \in DOMAIN all, NEW j \in DOMAIN all, all[i].key = all[j].key
                 PROVE  i = j
      BY DEF OnePromisePerKey
    <3>1. \A h \in DOMAIN all : \/ h \in DOMAIN cacheMap /\ all[h].key = cacheMap[h].key
                                \/ h = Len(all) /\ all[h].key = k
      BY <1>8, <2>1
    <3> QED BY <1>3, <2>2, <3>1 DEF LoaderTyped, OnePromisePerKey
  <2>4. {all[i] : i \in DOMAIN all} \subseteq {cacheMap[i] : i \in DOMAIN cacheMap} \cup {entry}
    BY <2>1
  <2>5. Len(cacheMap) \in Nat /\ Len(cacheMap) <= MaxItems /\ MaxItems \in Nat
    BY <1>3, LoaderAssumption DEF LoaderTyped
  <2>6. CASE Len(all) > MaxItems
    <3>1. entries = Tail(all)
      BY <2>6 DEF Purge, all
    <3>2. all # <<>>
      BY <2>1, <2>5, <2>6
    <3>3. /\ Tail(all) \in Seq(Entries) /\ Len(Tail(all)) = Len(all) - 1
          /\ {Tail(all)[i] : i \in DOMAIN Tail(all)} \subseteq {all[i] : i \in DOMAIN all}
          /\ OnePromisePerKey(Tail(all))
      BY <2>1, <2>3, <3>2, TailFacts
    <3> HIDE DEF entries
    <3> QED BY <2>1, <2>4, <2>5, <3>1, <3>3
  <2>7. CASE ~(Len(all) > MaxItems)
    <3>1. entries = all
      BY <2>7 DEF Purge, all
    <3> HIDE DEF entries
    <3> QED BY <2>1, <2>3, <2>4, <2>5, <2>7, <3>1
  <2> QED BY <2>6, <2>7
<1>11. loads \in [Loads -> Entries \cup {NoLoad}]
  BY <1>3, <1>8 DEF LoaderTyped
<1>12. \A d \in Loads : loads[d] = entry \/ loads[d] = load[d]
  BY <1>3 DEF LoaderTyped
<1> HIDE DEF bs, entries, loads
<1>13. /\ batch' \in [Batches -> BatchStates]
       /\ cacheMap' = entries /\ load' = loads
       /\ \A e \in Referenced' :
            /\ e \in {entries[i] : i \in DOMAIN entries}
                  \cup {loads[d] : d \in {m \in Loads : loads[m] # NoLoad}}
            /\ e.promise[1] \in Batches => batch'[e.promise[1]] = bs[e.promise[1]]
  BY <1>2, <1>9, CollectFacts
<1>14. LoaderTyped'
  BY <1>2, <1>3, <1>10, <1>11, <1>13 DEF LoaderTyped
<1>15. \A e \in Referenced' : e = entry \/ e \in Referenced
  BY <1>10, <1>12, <1>13 DEF Referenced, Waiting
<1>16. ASSUME NEW e \in Referenced' PROVE PromiseKept(e)'
  <2>1. CASE e = entry
    <3>1. batch'[b] = opened
      BY <1>4, <1>8, <1>9, <1>13, <2>1
    <3>2. item[k] <= item[k]
      BY <1>3, LoaderAssumption DEF LoaderTyped
    <3> QED BY <1>2, <1>6, <1>7, <1>8, <2>1, <3>1, <3>2 DEF PromiseKept
  <2>2. CASE e \in Referenced
    <3>1. e \in Entries /\ PromiseKept(e) /\ e.promise[1] \in Batches
      BY <1>3, <2>2, ReferencedEntries DEF Entries
    <3>2. CASE e.promise[1] = b
      <4>1. batch[b] \in PendingBatch /\ ~(batch[b] \in SettledBatch)
        BY <1>4, <3>1, <3>2 DEF PromiseKept, Free, PendingBatch, SettledBatch
      <4>2. batch'[e.promise[1]] = opened
        BY <1>9, <1>13, <3>1, <3>2
      <4> QED BY <1>2, <1>6, <1>7, <3>1, <3>2, <4>1, <4>2 DEF PromiseKept
    <3>3. CASE e.promise[1] # b
      <4>1. batch'[e.promise[1]] = batch[e.promise[1]]
        BY <1>9, <1>13, <3>1, <3>3
      <4> QED BY <1>2, <3>1, <4>1 DEF PromiseKept
    <3> QED BY <3>2, <3>3
  <2> QED BY <1>15, <2>1, <2>2
<1> QED BY <1>14, <1>16 DEF LoaderInv

--------------------------------------------------------------------------------
\* LoaderInv holds while nothing is cached.
LEMMA InitLoaderInv == LoaderInit => LoaderInv
<1> SUFFICES ASSUME LoaderInit PROVE LoaderInv
  OBVIOUS
<1>1. LoaderTyped
  BY LoaderAssumption DEF LoaderInit, LoaderTyped, BatchStates, OnePromisePerKey
<1>2. Referenced = {}
  BY DEF LoaderInit, Referenced, Waiting
<1> QED BY <1>1, <1>2 DEF LoaderInv

\* Every step of the loaders preserves LoaderInv.
LEMMA NextLoaderInv == LoaderInv /\ [LoaderNext]_loaderVars => LoaderInv'
<1> SUFFICES ASSUME LoaderInv, [LoaderNext]_loaderVars PROVE LoaderInv'
  OBVIOUS
<1>1. ASSUME NEW l \in Loads, NEW k \in Keys, LoadHit(l, k) \/ LoadMiss(l, k)
      PROVE  LoaderInv'
  BY <1>1, LoadHitSafe, LoadMissSafe
<1>2. ASSUME NEW l \in Loads, Loaded(l)
      PROVE  LoaderInv'
  BY <1>2, LoadedSafe
<1>3. ASSUME NEW b \in Batches, Serve(b)
      PROVE  LoaderInv'
  <2>1. CASE Dispatch(b)
    BY <2>1, DispatchSafe
  <2>2. CASE ServiceAnswers(b)
    BY <2>2, SettleSafe DEF ServiceAnswers
  <2>3. CASE ServiceFails(b)
    BY <2>3, SettleSafe DEF ServiceFails
  <2> QED BY <1>3, <2>1, <2>2, <2>3 DEF Serve
<1>4. CASE ExpireEntry
  BY <1>4, ExpireEntrySafe
<1>5. ASSUME NEW k \in Keys, Update(k)
      PROVE  LoaderInv'
  BY <1>5, UpdateSafe
<1>6. CASE UNCHANGED loaderVars
  BY <1>6 DEF loaderVars, LoaderInv, LoaderTyped, OnePromisePerKey, PromiseKept,
              Referenced, Waiting
<1> QED BY <1>1, <1>2, <1>3, <1>4, <1>5, <1>6 DEF LoaderNext

\* LoaderInv holds in every reachable state.
THEOREM LoaderInvariance == LoaderSpec => []LoaderInv
BY InitLoaderInv, NextLoaderInv, PTL DEF LoaderSpec

\* The variables keep their types: a cached or awaited promise always points at
\* its key's place in a batch that still exists, a key has one promise in the
\* cache, and the cache never exceeds dataloaderCache.max.
THEOREM LoadersTyped == LoaderSpec => []LoaderTypeOK
<1>1. LoaderInv => LoaderTypeOK
  <2> SUFFICES ASSUME LoaderInv PROVE LoaderTypeOK
    OBVIOUS
  <2>1. ASSUME NEW e \in Referenced
        PROVE  \/ /\ State(e.promise) = "settled"
                  /\ e.promise[2] \in DOMAIN batch[e.promise[1]].values
               \/ /\ State(e.promise) \in {"open", "called"}
                  /\ e.promise[2] \in DOMAIN batch[e.promise[1]].keys
                  /\ batch[e.promise[1]].keys[e.promise[2]] = e.key
    BY DEF LoaderInv, PromiseKept, State, PendingBatch, SettledBatch
  <2> QED BY <2>1 DEF LoaderInv, LoaderTyped, LoaderTypeOK, BatchStates, OnePromisePerKey
<1> QED BY <1>1, LoaderInvariance, PTL

\* A load resolves to the item of its own key, of a version no older than the
\* item was when its promise went into the cache, however the loads of several
\* requests share batches and whatever order or selection of items the service
\* answers with (libs/graphql/index.ts:30-55).
THEOREM LoadsCorrect == LoaderSpec => []LoadsOwnFreshItem
<1>1. LoaderInv => LoadsOwnFreshItem
  <2> SUFFICES ASSUME LoaderInv, NEW e \in Referenced, State(e.promise) = "settled"
               PROVE  LET v == Value(e.promise)
                      IN  /\ v # Undefined => v[1] = e.key
                          /\ ~batch[e.promise[1]].failed => Version(v) >= e.since
    BY DEF LoadsOwnFreshItem
  <2>1. batch[e.promise[1]] \notin PendingBatch
    BY DEF State, PendingBatch
  <2> QED BY <2>1 DEF LoaderInv, PromiseKept, Value
<1> QED BY <1>1, LoaderInvariance, PTL

--------------------------------------------------------------------------------
(***************************************************************************)
(* The process with the providers that Kernel.ts keeps commented out, for  *)
(* any signals and number of outages.  Its lifecycle is that of Bootstrap  *)
(* with nine providers.  OnlyKnownLeaks speaks of the end of a shutdown;   *)
(* FullInv adds what it rests on all the time: MongoSound, which every     *)
(* event of the Mongo connection preserves, and what stands behind the     *)
(* cursor.                                                                 *)
(***************************************************************************)

BP9 == INSTANCE Bootstrap_proofs WITH NumProviders <- 9

\* A connection that is closing or closed has no other client, unless an attempt
\* to connect overlapped with close(); an open client that is not connected was
\* lost in an outage, and so was one that is abandoned.
MongoSound(m, lost) ==
    /\ m \in Connection
    /\ ~m.overlapped /\ (m.closing \/ m.isClosed) => m.client \in {"none", "closed"}
    /\ m.client = "open" => m.readyState = "connected" \/ lost > 0 \/ m.isClosed
    /\ m.abandoned => lost > 0

\* close() has been called on the connection, and not put off.
MongoEnds(m) == m.closing \/ m.isClosed

\* As long as only failures close the connection, none of it is put off.
NothingPutOff(m) == ~m.closeOnOpen /\ (m.closeCalled => MongoEnds(m))

\* What no event undoes.
MongoKeeps(m, n) ==
    /\ m.client # "none" => n.client # "none"
    /\ MongoEnds(m) => MongoEnds(n)
    /\ NothingPutOff(m) => NothingPutOff(n)

\* The HTTP server has been closed, and with it the Mongo connection.
MongoClosing == {"awaits open", "awaits close", "closed"}

\* The HTTP server exists in a producer, is closed in the close loop, and its
\* provider's close() is over when that of the Mongo connection has begun.
HttpAndMongoFollow ==
    /\ httpServer # "none" => producerServer
    /\ httpServer \in MongoClosing => ~request
    /\ httpServer \notin MongoClosing => NothingPutOff(mongo)
    /\ httpServer = "closed" => MongoEnds(mongo)
    /\ phase \in {"registering", "booting", "running"} =>
         httpServer \in {"none", "created", "listening"}

\* What stands behind the cursor in Kernel.providers is done.
ProvidersFollow ==
    /\ phase = "registering" /\ cursor > 7 => httpServer # "none"
    /\ phase \in {"booting", "running", "closing", "closed"} => httpServer # "none"
    /\ phase = "booting" /\ cursor > 8 => mongo.client # "none"
    /\ phase \in {"running", "closing", "closed"} => mongo.client # "none"
    /\ phase = "closing" /\ cursor < 6 => httpServer = "closed"
    /\ phase = "closing" /\ cursor < 3 => cache = "closed"
    /\ phase = "closed" => httpServer = "closed" /\ cache = "closed"

FullTyped ==
    /\ producerServer \in BOOLEAN /\ reachable \in BOOLEAN /\ request \in BOOLEAN
    /\ outages \in 0 .. MaxOutages
    /\ dataSource \in {"none", "created", "open"}
    /\ cache \in {"none", "open", "closed"} /\ subClient \in {"none", "open"}
    /\ httpServer \in {"none", "created", "listening", "closing"} \cup MongoClosing

FullInv ==
    /\ BP9!IndInv
    /\ FullTyped
    /\ MongoSound(mongo, outages)
    /\ HttpAndMongoFollow
    /\ ProvidersFollow

--------------------------------------------------------------------------------
\* What connection.close() makes of each state of the connection.
LEMMA CloseFields ==
  ASSUME NEW m \in Connection
  PROVE  LET c == Close(m) IN
         /\ c \in Connection
         /\ c.isClosed = m.isClosed /\ c.abandoned = m.abandoned
         /\ c.overlapped = m.overlapped
         /\ c.closeCalled
         /\ \/ /\ m.readyState = "connecting" /\ c.closeOnOpen
               /\ c.readyState = m.readyState
               /\ c.client = m.client /\ c.closing = m.closing
            \/ /\ m.readyState = "disconnecting" \/ ReturnsAtOnce(m)
               /\ c.closeOnOpen = m.closeOnOpen
               /\ c.readyState = m.readyState
               /\ c.client = m.client /\ c.closing = m.closing
            \/ /\ m.readyState \in {"connected", "disconnected"} /\ ~ReturnsAtOnce(m)
               /\ c.closeOnOpen = m.closeOnOpen /\ c.closing
               /\ c.client = IF m.client = "none" THEN "none" ELSE "closed"
<1>1. CASE m.readyState = "connecting"
  <2>1. Close(m) = [m EXCEPT !.closeCalled = TRUE, !.closeOnOpen = TRUE]
    BY <1>1 DEF Close, Connection
  <2> QED BY <1>1, <2>1 DEF Connection
<1>2. CASE m.readyState = "disconnecting"
  <2>1. Close(m) = [m EXCEPT !.closeCalled = TRUE]
    BY <1>2 DEF Close
  <2> QED BY <1>2, <2>1 DEF Connection
<1>3. CASE ReturnsAtOnce(m)
  <2>1. Close(m) = m
    BY <1>3 DEF Close, ReturnsAtOnce
  <2> QED BY <1>3, <2>1 DEF Connection, ReturnsAtOnce
<1>4. CASE m.readyState \in {"connected", "disconnected"} /\ ~ReturnsAtOnce(m)
  <2> DEFINE ended(state) ==
        [m EXCEPT !.closeCalled = TRUE, !.readyState = state, !.closing = TRUE,
                  !.client = IF @ = "none" THEN @ ELSE "closed"]
  <2>1. PICK state \in {"disconnecting", "disconnected"} : Close(m) = ended(state)
    <3>1. CASE m.readyState = "connected"
      <4>1. Close(m) = ended("disconnecting")
        BY <3>1 DEF Close, Connection
      <4> QED BY <4>1
    <3>2. CASE m.readyState = "disconnected"
      <4>1. ~m.closeCalled
        BY <1>4, <3>2 DEF ReturnsAtOnce
      <4>2. Close(m) = ended("disconnected")
        BY <3>2, <4>1 DEF Close, Connection
      <4> QED BY <4>2
    <3> QED BY <1>4, <3>1, <3>2
  <2> QED BY <1>4, <2>1 DEF Connection
<1> QED BY <1>1, <1>2, <1>3, <1>4 DEF Connection

\* close() leaves a sound connection, and one that nothing was put off on is
\* closing unless it is connecting.
LEMMA CloseSound ==
  ASSUME NEW lost \in Nat, NEW m, MongoSound(m, lost)
  PROVE  /\ MongoSound(Close(m), lost)
         /\ m.client # "none" => Close(m).client # "none"
         /\ MongoEnds(m) => MongoEnds(Close(m))
         /\ m.readyState \in {"connected", "disconnected"} => MongoKeeps(m, Close(m))
         /\ ReturnsAtOnce(m) /\ NothingPutOff(m) => MongoEnds(Close(m))
<1> DEFINE c == Close(m)
<1>1. m \in Connection
  BY DEF MongoSound
<1> HIDE DEF c
<1>2. /\ c \in Connection
      /\ c.isClosed = m.isClosed /\ c.abandoned = m.abandoned
      /\ c.overlapped = m.overlapped
      /\ c.closeCalled
      /\ \/ /\ m.readyState = "connecting" /\ c.closeOnOpen
            /\ c.readyState = m.readyState /\ c.client = m.client /\ c.closing = m.closing
         \/ /\ m.readyState = "disconnecting" \/ ReturnsAtOnce(m)
            /\ c.closeOnOpen = m.closeOnOpen
            /\ c.readyState = m.readyState /\ c.client = m.client /\ c.closing = m.closing
         \/ /\ m.readyState \in {"connected", "disconnected"} /\ ~ReturnsAtOnce(m)
            /\ c.closeOnOpen = m.closeOnOpen /\ c.closing
            /\ c.client = IF m.client = "none" THEN "none" ELSE "closed"
  BY <1>1, CloseFields DEF c
<1>3. MongoSound(c, lost)
  BY <1>2 DEF MongoSound
<1>4. /\ m.client # "none" => c.client # "none"
      /\ MongoEnds(m) => MongoEnds(c)
  BY <1>2 DEF MongoEnds
<1>5. /\ m.readyState \in {"connected", "disconnected"} => MongoKeeps(m, c)
      /\ ReturnsAtOnce(m) /\ NothingPutOff(m) => MongoEnds(c)
  BY <1>2, <1>4 DEF MongoKeeps, NothingPutOff, MongoEnds, ReturnsAtOnce
<1> QED BY <1>3, <1>4, <1>5 DEF c

\* What the event 'disconnected' makes of a connection.
LEMMA DisconnectedFields ==
  ASSUME NEW m \in Connection
  PROVE  LET d == Disconnected(m) IN
         /\ d \in Connection /\ d.readyState = "disconnected"
         /\ d.client = m.client /\ d.overlapped = m.overlapped /\ d.closing = m.closing
         /\ d.isClosed = m.isClosed /\ d.abandoned = m.abandoned
         /\ d.closeOnOpen = m.closeOnOpen /\ d.closeCalled = m.closeCalled
<1> DEFINE w == m.waits + 1
<1>1. w \in Nat
  BY DEF Connection
<1>2. Disconnected(m) = [m EXCEPT !.readyState = "disconnected", !.waits = w]
  BY DEF Disconnected
<1> HIDE DEF w
<1> QED BY <1>1, <1>2 DEF Connection

\* The connection is lost, and its handler begins to wait.
LEMMA DisconnectedSound ==
  ASSUME NEW lost \in Nat, NEW m, MongoSound(m, lost), lost > 0 \/ m.client # "open"
  PROVE  MongoSound(Disconnected(m), lost) /\ MongoKeeps(m, Disconnected(m))
<1> DEFINE d == Disconnected(m)
<1>1. m \in Connection
  BY DEF MongoSound
<1> HIDE DEF d
<1>2. /\ d \in Connection
      /\ d.client = m.client /\ d.overlapped = m.overlapped /\ d.closing = m.closing
      /\ d.isClosed = m.isClosed /\ d.abandoned = m.abandoned
      /\ d.closeOnOpen = m.closeOnOpen /\ d.closeCalled = m.closeCalled
  BY <1>1, DisconnectedFields DEF d
<1>3. MongoSound(d, lost) /\ MongoKeeps(m, d)
  BY <1>2 DEF MongoSound, MongoKeeps, NothingPutOff, MongoEnds
<1> QED BY <1>3 DEF d

\* The client's close() calls back.
LEMMA ClosedSound ==
  ASSUME NEW lost \in Nat, NEW m, MongoSound(m, lost), m.closing
  PROVE  /\ MongoSound(Closed(m), lost) /\ MongoKeeps(m, Closed(m))
         /\ MongoEnds(Closed(m))
<1> DEFINE n == IF m.readyState = "disconnected" THEN m ELSE Disconnected(m)
<1>1. /\ n \in Connection
      /\ n.client = m.client /\ n.overlapped = m.overlapped /\ n.closing = m.closing
      /\ n.isClosed = m.isClosed /\ n.abandoned = m.abandoned
      /\ n.closeOnOpen = m.closeOnOpen /\ n.closeCalled = m.closeCalled
  <2>1. m \in Connection
    BY DEF MongoSound
  <2>2. CASE m.readyState = "disconnected"
    BY <2>1, <2>2
  <2>3. CASE m.readyState # "disconnected"
    BY <2>1, <2>3, DisconnectedFields
  <2> QED BY <2>2, <2>3
<1>2. Closed(m) = [n EXCEPT !.closing = FALSE, !.isClosed = TRUE]
  BY DEF Closed
<1> HIDE DEF n
<1> QED BY <1>1, <1>2 DEF MongoSound, Connection, MongoKeeps, NothingPutOff, MongoEnds

\* A new client replaces the old one while nobody has closed the connection.
LEMMA TryConnectSound ==
  ASSUME NEW lost \in Nat, NEW m, MongoSound(m, lost), ~m.isClosed
  PROVE  MongoSound(TryConnect(m), lost) /\ MongoKeeps(m, TryConnect(m))
<1>1. CASE m.readyState \in {"connecting", "connected"}
  BY <1>1 DEF TryConnect, MongoKeeps
<1>2. CASE ~(m.readyState \in {"connecting", "connected"})
  <2>1. TryConnect(m) =
          [m EXCEPT !.readyState = "connecting", !.closeCalled = FALSE,
                    !.abandoned = @ \/ m.client = "open", !.client = "connecting",
                    !.overlapped = @ \/ m.closing]
    BY <1>2 DEF TryConnect
  <2> QED BY <1>2, <2>1 DEF MongoSound, Connection, MongoKeeps, NothingPutOff, MongoEnds
<1> QED BY <1>1, <1>2

\* A wait that is over leads to a new attempt only on a connection in use.
LEMMA WaitOverSound ==
  ASSUME NEW lost \in Nat, NEW m, MongoSound(m, lost), m.waits > 0
  PROVE  MongoSound(WaitOver(m), lost) /\ MongoKeeps(m, WaitOver(m))
<1> DEFINE n == [m EXCEPT !.waits = @ - 1]
<1>1. /\ MongoSound(n, lost) /\ n.isClosed = m.isClosed
      /\ n.client = m.client
      /\ MongoEnds(n) = MongoEnds(m) /\ NothingPutOff(n) = NothingPutOff(m)
  BY DEF MongoSound, Connection, MongoEnds, NothingPutOff
<1>2. WaitOver(m) = IF ~n.isClosed THEN TryConnect(n) ELSE n
  BY DEF WaitOver, StillWanted
<1> HIDE DEF n
<1>3. CASE n.isClosed
  BY <1>1, <1>2, <1>3 DEF MongoKeeps
<1>4. CASE ~n.isClosed
  <2>1. MongoSound(TryConnect(n), lost) /\ MongoKeeps(n, TryConnect(n))
    BY <1>1, <1>4, TryConnectSound
  <2> QED BY <1>1, <1>2, <1>4, <2>1 DEF MongoKeeps
<1> QED BY <1>3, <1>4

\* 'open' on a connection that has just become connected.
LEMMA OpenedSound ==
  ASSUME NEW lost \in Nat, NEW m, MongoSound(m, lost), m.readyState = "connected"
  PROVE  MongoSound(Opened(m), lost) /\ MongoKeeps(m, Opened(m))
<1>1. CASE ~m.closeOnOpen
  BY <1>1 DEF Opened, MongoKeeps
<1>2. CASE m.closeOnOpen
  <2> DEFINE n == [m EXCEPT !.closeOnOpen = FALSE]
  <2>1. /\ MongoSound(n, lost) /\ n.readyState = "connected"
        /\ n.client = m.client /\ MongoEnds(n) = MongoEnds(m)
    BY DEF MongoSound, Connection, MongoEnds
  <2>2. Opened(m) = Close(n)
    BY <1>2 DEF Opened
  <2>3. ~NothingPutOff(m)
    BY <1>2 DEF NothingPutOff
  <2> HIDE DEF n
  <2>4. MongoSound(Close(n), lost) /\ MongoKeeps(n, Close(n))
    BY <2>1, CloseSound
  <2> QED BY <2>1, <2>2, <2>3, <2>4 DEF MongoKeeps
<1> QED BY <1>1, <1>2 DEF MongoSound, Connection

\* connect() resolves.
LEMMA ConnectedSound ==
  ASSUME NEW lost \in Nat, NEW m, MongoSound(m, lost), m.client = "connecting"
  PROVE  MongoSound(Connected(m), lost) /\ MongoKeeps(m, Connected(m))
<1> DEFINE n == [m EXCEPT !.readyState = "connected", !.client = "open"]
<1>1. /\ MongoSound(n, lost) /\ n.readyState = "connected" /\ n.client # "none"
      /\ MongoEnds(n) = MongoEnds(m) /\ NothingPutOff(n) = NothingPutOff(m)
  BY DEF MongoSound, Connection, MongoEnds, NothingPutOff
<1>2. Connected(m) = Opened(n)
  BY DEF Connected
<1> HIDE DEF n
<1>3. MongoSound(Opened(n), lost) /\ MongoKeeps(n, Opened(n))
  BY <1>1, OpenedSound
<1> QED BY <1>1, <1>2, <1>3 DEF MongoKeeps

\* The driver finds the server again.
LEMMA ReconnectedSound ==
  ASSUME NEW lost \in Nat, NEW m, MongoSound(m, lost)
  PROVE  LET n == [m EXCEPT !.readyState = "connected"]
         IN  /\ MongoSound(n, lost) /\ MongoKeeps(m, n)
             /\ MongoSound(Opened(n), lost) /\ MongoKeeps(m, Opened(n))
<1> DEFINE n == [m EXCEPT !.readyState = "connected"]
<1>1. /\ MongoSound(n, lost) /\ n.readyState = "connected" /\ n.client = m.client
      /\ MongoEnds(n) = MongoEnds(m) /\ NothingPutOff(n) = NothingPutOff(m)
  BY DEF MongoSound, Connection, MongoEnds, NothingPutOff
<1> HIDE DEF n
<1>2. MongoSound(Opened(n), lost) /\ MongoKeeps(n, Opened(n))
  BY <1>1, OpenedSound
<1>3. /\ MongoSound(n, lost) /\ MongoKeeps(m, n)
      /\ MongoSound(Opened(n), lost) /\ MongoKeeps(m, Opened(n))
  BY <1>1, <1>2 DEF MongoKeeps
<1> QED BY <1>3 DEF n

\* connect() rejects, and the 'error' handler closes the connection.
LEMMA FailedSound ==
  ASSUME NEW lost \in Nat, NEW m, MongoSound(m, lost), m.client = "connecting"
  PROVE  MongoSound(ConnectFailed(m), lost) /\ MongoKeeps(m, ConnectFailed(m))
<1> DEFINE n == [m EXCEPT !.failed = TRUE, !.client = "closed"]
           d == Disconnected(n)
<1>1. /\ MongoSound(n, lost) /\ n.client = "closed"
      /\ MongoEnds(n) = MongoEnds(m) /\ NothingPutOff(n) = NothingPutOff(m)
  BY DEF MongoSound, Connection, MongoEnds, NothingPutOff
<1>2. ConnectFailed(m) = Close(d)
  BY DEF ConnectFailed
<1> HIDE DEF n
<1>3. MongoSound(d, lost) /\ MongoKeeps(n, d)
  BY <1>1, DisconnectedSound
<1>4. d.readyState = "disconnected" /\ d.client = "closed"
  BY <1>1 DEF Disconnected, MongoSound, Connection
<1> HIDE DEF d
<1>5. MongoSound(Close(d), lost) /\ MongoKeeps(d, Close(d))
  BY <1>3, <1>4, CloseSound
<1> QED BY <1>1, <1>2, <1>3, <1>4, <1>5 DEF MongoKeeps
--------------------------------------------------------------------------------
\* Which provider stands where in Kernel.providers.
LEMMA FullKernelOrder ==
  \A i \in 1 .. 9 : /\ Kernel[i] = "cache" <=> i = 2
                    /\ Kernel[i] = "http" <=> i = 6
                    /\ Kernel[i] = "graphql" <=> i = 7
                    /\ Kernel[i] = "mongodb" <=> i = 8
                    /\ Kernel[i] # "nothing"
  BY DEF Kernel

\* What the parts below need of the lifecycle.
LEMMA FullCursorInList ==
  ASSUME BP9!IndInv
  PROVE  /\ phase \in {"registering", "booting", "running", "closing", "closed", "exited"}
         /\ cursor \in 0 .. 9
         /\ phase \in {"registering", "booting", "closing"} => cursor \in 1 .. 9
         /\ phase = "running" => ~shuttingDown
         /\ phase = "closing" => shuttingDown
  BY DEF BP9!IndInv, BP9!TypeOK, BP9!CursorMarksProgress, BP9!ShutdownState, BP9!Alive

\* Every step is a step of Bootstrap or leaves its variables alone.
LEMMA FullStepOfBootstrap == [KernelNext]_kernelVars => [BP9!Next]_(BP9!vars)
<1> SUFFICES ASSUME [KernelNext]_kernelVars
             PROVE  BP9!Next \/ UNCHANGED bootstrapVars
  BY DEF BP9!vars, bootstrapVars
<1>1. CASE RegisterProvider
  BY <1>1 DEF RegisterProvider, B!RegisterResolves, B!LoopAtLast, B!shutdownVars,
              BP9!Next, BP9!RegisterResolves, BP9!LoopAtLast, BP9!shutdownVars
<1>2. CASE BootProvider
  BY <1>2 DEF BootProvider, B!BootResolves, B!LoopAtLast, B!shutdownVars,
              BP9!Next, BP9!BootResolves, BP9!LoopAtLast, BP9!shutdownVars
<1>3. CASE BootstrapRejects
  BY <1>3 DEF BootstrapRejects, B!BootstrapRejects, B!ExitWith, B!shutdownVars,
              BP9!Next, BP9!BootstrapRejects, BP9!ExitWith, BP9!shutdownVars
<1>4. ASSUME NEW s \in Signals, Signal(s)
      PROVE  BP9!Next
  <2>1. BP9!Signal(s)
    BY <1>4 DEF Signal, B!Signal, B!HandleCloseStarts, B!MayStartShutdown,
                B!TimerSet, B!FirstToClose, B!HandleCloseIgnores,
                B!DefaultDisposition, B!ExitWith, B!Alive, B!shutdownVars,
                BP9!Signal, BP9!HandleCloseStarts, BP9!MayStartShutdown,
                BP9!TimerSet, BP9!FirstToClose, BP9!HandleCloseIgnores,
                BP9!DefaultDisposition, BP9!ExitWith, BP9!Alive, BP9!shutdownVars
  <2> QED BY <2>1 DEF BP9!Next
<1>5. CASE CloseProvider
  <2>1. BP9!CloseSettles(TRUE)
    BY <1>5 DEF CloseProvider, B!CloseSettles, B!TimerCleared, BP9!CloseSettles,
                BP9!TimerCleared
  <2> QED BY <2>1 DEF BP9!Next
<1>6. CASE ForceExit
  BY <1>6 DEF ForceExit, B!ForceExit, B!ExitWith, B!Alive, B!shutdownVars,
              BP9!Next, BP9!ForceExit, BP9!ExitWith, BP9!Alive, BP9!shutdownVars
<1>7. CASE MongoBoots \/ HttpServerCloses \/ MongoCloses \/ RequestArrives \/ RequestAnswered
  BY <1>7 DEF MongoBoots, HttpServerCloses, MongoCloses, RequestArrives, RequestAnswered
<1>8. CASE \/ Outage \/ Returns \/ DriverReconnects
           \/ ConnectResolves \/ ConnectRejects \/ WaitEnds
  BY <1>8 DEF Outage, Returns, DriverReconnects, ConnectResolves, ConnectRejects,
              WaitEnds, Mongo
<1>9. CASE UNCHANGED kernelVars
  BY <1>9 DEF kernelVars
<1> QED
  BY <1>1, <1>2, <1>3, <1>4, <1>5, <1>6, <1>7, <1>8, <1>9 DEF KernelNext

\* The process with all providers implements the lifecycle of Bootstrap.
THEOREM FullImplementsBootstrap == KernelSpec => BP9!Spec
<1>1. KernelInit => BP9!Init
  BY DEF KernelInit, B!Init, BP9!Init
<1> QED BY <1>1, FullStepOfBootstrap, PTL DEF KernelSpec, BP9!Spec

--------------------------------------------------------------------------------
\* The steps of the Mongo connection, whatever the lifecycle does meanwhile.
MongoStep ==
    \/ Outage \/ Returns \/ DriverReconnects
    \/ ConnectResolves \/ ConnectRejects \/ WaitEnds

\* No step leaves the connection in an unsound state or takes close() back, and
\* only HttpProvider.close can put something off.
LEMMA MongoMoves ==
  ASSUME MongoSound(mongo, outages), outages \in Nat, [KernelNext]_kernelVars
  PROVE  /\ MongoSound(mongo', outages')
         /\ mongo.client # "none" => mongo'.client # "none"
         /\ MongoEnds(mongo) => MongoEnds(mongo')
         /\ HttpServerCloses \/ (NothingPutOff(mongo) => NothingPutOff(mongo'))
<1>1. CASE MongoStep
  <2>1. CASE Outage
    <3>1. outages' = outages + 1
          /\ mongo' = IF mongo.readyState = "connected" THEN Disconnected(mongo)
                      ELSE mongo
      BY <2>1 DEF Outage, Mongo
    <3>2. MongoSound(mongo, outages') /\ outages' \in Nat /\ outages' > 0
      BY <3>1 DEF MongoSound
    <3>3. /\ MongoSound(Disconnected(mongo), outages')
          /\ MongoKeeps(mongo, Disconnected(mongo))
      BY <3>2, DisconnectedSound
    <3> QED BY <3>1, <3>2, <3>3 DEF MongoKeeps
  <2>2. CASE Returns
    BY <2>2 DEF Returns, Mongo
  <2>3. CASE DriverReconnects
    <3> DEFINE m == [mongo EXCEPT !.readyState = "connected"]
    <3>1. outages' = outages /\ (mongo' = m \/ mongo' = Opened(m))
      BY <2>3 DEF DriverReconnects, Mongo
    <3>2. /\ MongoSound(m, outages) /\ MongoKeeps(mongo, m)
          /\ MongoSound(Opened(m), outages) /\ MongoKeeps(mongo, Opened(m))
      BY ReconnectedSound
    <3> HIDE DEF m
    <3> QED BY <3>1, <3>2 DEF MongoKeeps
  <2>4. CASE ConnectResolves
    <3>1. outages' = outages /\ mongo.client = "connecting" /\ mongo' = Connected(mongo)
      BY <2>4 DEF ConnectResolves, Mongo
    <3> QED BY <3>1, ConnectedSound DEF MongoKeeps
  <2>5. CASE ConnectRejects
    <3>1. outages' = outages /\ mongo.client = "connecting" /\ mongo' = ConnectFailed(mongo)
      BY <2>5 DEF ConnectRejects, Mongo
    <3> QED BY <3>1, FailedSound DEF MongoKeeps
  <2>6. CASE WaitEnds
    <3>1. outages' = outages /\ mongo.waits > 0 /\ mongo' = WaitOver(mongo)
      BY <2>6 DEF WaitEnds, Mongo
    <3> QED BY <3>1, WaitOverSound DEF MongoKeeps
  <2> QED BY <1>1, <2>1, <2>2, <2>3, <2>4, <2>5, <2>6 DEF MongoStep
<1>2. CASE MongoBoots
  <2>1. outages' = outages /\ ~mongo.isClosed /\ mongo' = TryConnect(mongo)
    BY <1>2 DEF MongoBoots, NotConnected
  <2> QED BY <2>1, TryConnectSound DEF MongoKeeps
<1>3. CASE HttpServerCloses
  <2>1. outages' = outages /\ mongo' = Close(mongo)
    BY <1>3 DEF HttpServerCloses
  <2> QED BY <1>3, <2>1, CloseSound
<1>4. CASE MongoCloses
  <2>1. outages' = outages /\ mongo.closing /\ mongo' = Closed(mongo)
    BY <1>4 DEF MongoCloses
  <2> QED BY <2>1, ClosedSound DEF MongoKeeps
<1>5. CASE UNCHANGED mongoVars
  BY <1>5 DEF mongoVars
<1>6. CASE \/ RegisterProvider \/ BootProvider \/ BootstrapRejects \/ CloseProvider
           \/ (\E s \in Signals : Signal(s)) \/ ForceExit \/ RequestArrives \/ RequestAnswered
           \/ UNCHANGED kernelVars
  <2>1. UNCHANGED mongoVars
    BY <1>6 DEF RegisterProvider, BootProvider, BootstrapRejects, CloseProvider,
                Signal, ForceExit, RequestArrives, RequestAnswered, kernelVars
  <2> QED BY <1>5, <2>1
<1> QED BY <1>1, <1>2, <1>3, <1>4, <1>6 DEF KernelNext, MongoStep

\* What each step does to what the parts of FullInv speak of.
LEMMA FullTypedStep ==
  ASSUME FullTyped, [KernelNext]_kernelVars
  PROVE  FullTyped'
<1> USE DEF FullTyped, MongoClosing
<1>1. CASE RegisterProvider
  BY <1>1 DEF RegisterProvider, mongoVars
<1>2. CASE BootProvider
  BY <1>2 DEF BootProvider, mongoVars
<1>3. CASE MongoStep
  <2>1. UNCHANGED <<producerServer, handles, request>>
    BY <1>3 DEF MongoStep, Outage, Returns, DriverReconnects, ConnectResolves,
                ConnectRejects, WaitEnds, Mongo
  <2>2. /\ reachable' = reachable \/ reachable' = TRUE \/ reachable' = FALSE
        /\ outages' = outages \/ (outages' = outages + 1 /\ outages < MaxOutages)
    BY <1>3 DEF MongoStep, Outage, Returns, DriverReconnects, ConnectResolves,
                ConnectRejects, WaitEnds, Mongo
  <2>3. reachable' \in BOOLEAN
    BY <2>2
  <2>4. outages' \in 0 .. MaxOutages
    <3>1. outages \in 0 .. MaxOutages
      OBVIOUS
    <3> HIDE DEF FullTyped, MongoClosing
    <3> QED BY <2>2, <3>1, MaxOutagesAssumption
  <2> QED BY <2>1, <2>3, <2>4 DEF handles
<1>4. CASE MongoBoots
  BY <1>4 DEF MongoBoots, handles
<1>5. CASE HttpServerCloses
  BY <1>5 DEF HttpServerCloses, MongoAwaited
<1>6. CASE MongoCloses
  BY <1>6 DEF MongoCloses
<1>7. CASE CloseProvider
  BY <1>7 DEF CloseProvider, CloseCalled, mongoVars
<1>8. CASE \/ BootstrapRejects \/ (\E s \in Signals : Signal(s)) \/ ForceExit
           \/ UNCHANGED kernelVars
  BY <1>8 DEF BootstrapRejects, Signal, ForceExit, kernelVars, mongoVars, handles
<1>9. CASE RequestArrives \/ RequestAnswered
  BY <1>9 DEF RequestArrives, RequestAnswered, mongoVars, handles
<1> QED BY <1>1, <1>2, <1>3, <1>4, <1>5, <1>6, <1>7, <1>8, <1>9 DEF KernelNext, MongoStep

\* What a step does to the HTTP server, the cache, the requests and the cursor.
LEMMA FollowersStep ==
  ASSUME FullInv, [KernelNext]_kernelVars, MongoEnds(mongo) => MongoEnds(mongo'),
         mongo.client # "none" => mongo'.client # "none",
         HttpServerCloses \/ (NothingPutOff(mongo) => NothingPutOff(mongo'))
  PROVE  HttpAndMongoFollow' /\ ProvidersFollow'
<1> USE DEF HttpAndMongoFollow, ProvidersFollow
<1>1. /\ FullTyped /\ HttpAndMongoFollow /\ ProvidersFollow /\ BP9!IndInv
      /\ MongoSound(mongo, outages) /\ outages \in Nat
      /\ phase \in {"registering", "booting", "running", "closing", "closed", "exited"}
      /\ cursor \in 0 .. 9
      /\ phase \in {"registering", "booting", "closing"} => cursor \in 1 .. 9
  BY FullCursorInList DEF FullInv, FullTyped
<1>2. CASE RegisterProvider
  <2>1. /\ phase = "registering" /\ cursor \in 1 .. 9
        /\ \/ cursor # 9 /\ phase' = "registering" /\ cursor' = cursor + 1
           \/ cursor = 9 /\ phase' = "booting" /\ cursor' = 1
        /\ cursor = 7 => httpServer # "none"
        /\ httpServer' = httpServer \/ (httpServer' = "created" /\ producerServer)
        /\ UNCHANGED <<producerServer, mongo, request>>
    BY <1>1, <1>2, FullKernelOrder
    DEF RegisterProvider, B!RegisterResolves, B!LoopAtLast, Constructible, mongoVars
  <2>2. HttpAndMongoFollow'
    BY <1>1, <2>1 DEF MongoClosing
  <2> HIDE DEF HttpAndMongoFollow
  <2>3. ProvidersFollow'
    BY <1>1, <2>1
  <2> QED BY <2>2, <2>3
<1>3. CASE BootProvider
  <2>1. /\ phase = "booting" /\ cursor \in 1 .. 9
        /\ \/ cursor # 9 /\ phase' = "booting" /\ cursor' = cursor + 1
           \/ cursor = 9 /\ phase' = "running" /\ cursor' = cursor
        /\ cursor = 8 => mongo.client = "open"
        /\ httpServer' = httpServer \/ (httpServer' = "listening" /\ producerServer)
        /\ UNCHANGED <<producerServer, mongo, request>>
    BY <1>1, <1>3, FullKernelOrder
    DEF BootProvider, B!BootResolves, B!LoopAtLast, mongoVars
  <2>2. HttpAndMongoFollow'
    BY <1>1, <2>1 DEF MongoClosing
  <2> HIDE DEF HttpAndMongoFollow
  <2>3. ProvidersFollow'
    BY <1>1, <2>1
  <2> QED BY <2>2, <2>3
<1>4. CASE CloseProvider
  <2>1. /\ phase = "closing" /\ cursor \in 1 .. 9
        /\ cursor' = cursor - 1
        /\ \/ cursor > 1 /\ phase' = "closing"
           \/ cursor = 1 /\ phase' = "closed"
        /\ cursor = 6 => httpServer = "closed"
        /\ UNCHANGED <<producerServer, mongo, request>>
    BY <1>1, <1>4, FullKernelOrder DEF CloseProvider, B!CloseSettles, mongoVars
  <2>2. /\ httpServer' = IF cursor = 7 /\ httpServer = "listening" THEN "closing"
                         ELSE httpServer
        /\ cache' = IF cursor = 3 THEN "closed" ELSE cache
    <3>1. CASE cursor > 1
      <4>1. cursor - 1 \in 1 .. 9
        BY <2>1, <3>1
      <4>2. CloseCalled(Kernel[cursor - 1])
        BY <1>4, <3>1 DEF CloseProvider
      <4>3. (Kernel[cursor - 1] = "http" <=> cursor = 7)
            /\ (Kernel[cursor - 1] = "cache" <=> cursor = 3)
        BY <2>1, <4>1, FullKernelOrder
      <4> QED BY <4>2, <4>3 DEF CloseCalled
    <3>2. CASE ~(cursor > 1)
      <4>1. CloseCalled("nothing")
        BY <1>4, <3>2 DEF CloseProvider
      <4> QED BY <2>1, <3>2, <4>1 DEF CloseCalled
    <3> QED BY <3>1, <3>2
  <2>3. HttpAndMongoFollow'
    BY <1>1, <2>1, <2>2 DEF MongoClosing
  <2> HIDE DEF HttpAndMongoFollow
  <2>4. ProvidersFollow'
    BY <1>1, <2>1, <2>2
  <2> QED BY <2>3, <2>4
<1>5. CASE HttpServerCloses
  <2>1. /\ httpServer = "closing" /\ ~request
        /\ httpServer' = MongoAwaited(mongo) /\ mongo' = Close(mongo)
        /\ UNCHANGED <<phase, cursor, producerServer, cache, request>>
    BY <1>5 DEF HttpServerCloses, bootstrapVars
  <2>2. httpServer' \in MongoClosing
    BY <2>1 DEF MongoAwaited, MongoClosing
  <2>3. httpServer' = "closed" => ReturnsAtOnce(mongo)
    BY <2>1 DEF MongoAwaited
  <2>4. httpServer' = "closed" => MongoEnds(mongo')
    BY <1>1, <2>1, <2>3, CloseSound DEF MongoClosing
  <2> QED BY <1>1, <2>1, <2>2, <2>4 DEF MongoClosing
<1>6. CASE MongoCloses
  <2>1. /\ mongo.closing /\ mongo' = Closed(mongo)
        /\ httpServer' = httpServer \/ (httpServer \in MongoClosing /\ httpServer' = "closed")
        /\ UNCHANGED <<phase, cursor, producerServer, cache, request>>
    BY <1>6 DEF MongoCloses, MongoClosing, bootstrapVars
  <2>2. MongoEnds(mongo')
    BY <1>1, <2>1, ClosedSound
  <2>3. NothingPutOff(mongo) => NothingPutOff(mongo')
    BY <1>1, <2>1, ClosedSound DEF MongoKeeps
  <2> QED BY <1>1, <2>1, <2>2, <2>3 DEF MongoClosing
<1>7. CASE MongoStep \/ MongoBoots
  <2>1. UNCHANGED <<phase, cursor, producerServer, httpServer, cache, request>>
    BY <1>7 DEF MongoStep, Outage, Returns, DriverReconnects, ConnectResolves,
                ConnectRejects, WaitEnds, Mongo, MongoBoots, bootstrapVars, handles
  <2>2. ~HttpServerCloses
    BY <1>1, <2>1 DEF HttpServerCloses, MongoAwaited
  <2> QED BY <1>1, <2>1, <2>2
<1>8. CASE \/ BootstrapRejects \/ (\E s \in Signals : Signal(s)) \/ ForceExit
           \/ UNCHANGED kernelVars
  <2>1. UNCHANGED <<producerServer, mongo, httpServer, cache, request>>
    BY <1>8 DEF BootstrapRejects, Signal, ForceExit, kernelVars, mongoVars, handles
  <2>2. \/ phase' = "exited"
        \/ UNCHANGED <<phase, cursor>>
        \/ phase = "running" /\ phase' = "closing" /\ cursor' = 9
    <3>1. ASSUME NEW s \in Signals, Signal(s)
          PROVE  \/ phase' = "exited"
                 \/ UNCHANGED <<phase, cursor>>
                 \/ phase = "running" /\ phase' = "closing" /\ cursor' = 9
      <4>1. CASE B!HandleCloseStarts(s)
        <5>1. /\ phase' = "closing" /\ cursor' = 9 /\ s \in listeners
              /\ B!Alive /\ ~shuttingDown
          BY <4>1 DEF B!HandleCloseStarts, B!FirstToClose, B!MayStartShutdown
        <5>2. phase = "running"
          BY <1>1, <5>1 DEF BP9!IndInv, BP9!TypeOK, BP9!CursorMarksProgress,
                            BP9!ShutdownState, BP9!Alive, B!Alive
        <5> QED BY <5>1, <5>2
      <4>2. CASE ~B!HandleCloseStarts(s)
        BY <3>1, <4>2 DEF Signal, B!Signal, B!HandleCloseIgnores, B!DefaultDisposition,
                          B!ExitWith
      <4> QED BY <4>1, <4>2
    <3>2. CASE BootstrapRejects \/ ForceExit
      BY <3>2 DEF BootstrapRejects, ForceExit, B!BootstrapRejects, B!ForceExit,
                  B!ExitWith
    <3>3. CASE UNCHANGED kernelVars
      BY <3>3 DEF kernelVars, bootstrapVars
    <3> QED BY <1>8, <3>1, <3>2, <3>3
  <2> QED BY <1>1, <2>1, <2>2
<1>9. CASE RequestArrives \/ RequestAnswered
  <2>1. /\ UNCHANGED <<phase, cursor, producerServer, mongo, httpServer, cache>>
        /\ httpServer = "listening" \/ ~request'
    BY <1>9 DEF RequestArrives, RequestAnswered, bootstrapVars, mongoVars, handles
  <2> QED BY <1>1, <2>1 DEF MongoClosing
<1> QED BY <1>2, <1>3, <1>4, <1>5, <1>6, <1>7, <1>8, <1>9 DEF KernelNext, MongoStep

--------------------------------------------------------------------------------
\* FullInv holds when the process starts.
LEMMA InitFullInv ==
  KernelInit => FullInv
<1> SUFFICES ASSUME KernelInit PROVE FullInv
  OBVIOUS
<1>1. BP9!Init
  BY DEF KernelInit, B!Init, BP9!Init
<1>2. BP9!IndInv /\ phase = "registering" /\ cursor = 1
  <2>1. BP9!IndInv
    BY <1>1, BP9!InitIndInv
  <2> QED BY <1>1, <2>1 DEF BP9!Init
<1>3. FullTyped
  <2>1. outages \in 0 .. MaxOutages
    BY MaxOutagesAssumption DEF KernelInit
  <2> QED BY <2>1 DEF KernelInit, FullTyped
<1>4. MongoSound(mongo, outages)
  BY DEF KernelInit, MongoSound, NotConnected, Connection
<1>5. HttpAndMongoFollow /\ ProvidersFollow
  BY <1>2 DEF KernelInit, HttpAndMongoFollow, ProvidersFollow, NothingPutOff, NotConnected,
              MongoClosing
<1> QED BY <1>2, <1>3, <1>4, <1>5 DEF FullInv

\* Every step preserves FullInv.
LEMMA NextFullInv ==
  FullInv /\ [KernelNext]_kernelVars => FullInv'
<1> SUFFICES ASSUME FullInv, [KernelNext]_kernelVars PROVE FullInv'
  OBVIOUS
<1>1. BP9!IndInv'
  BY FullStepOfBootstrap, BP9!NextIndInv DEF FullInv
<1>2. FullTyped'
  BY FullTypedStep DEF FullInv
<1>3. MongoSound(mongo, outages) /\ outages \in Nat
  BY DEF FullInv, FullTyped
<1>4. /\ MongoSound(mongo', outages')
      /\ mongo.client # "none" => mongo'.client # "none"
      /\ MongoEnds(mongo) => MongoEnds(mongo')
      /\ HttpServerCloses \/ (NothingPutOff(mongo) => NothingPutOff(mongo'))
  BY <1>3, MongoMoves
<1>5. HttpAndMongoFollow' /\ ProvidersFollow'
  BY <1>4, FollowersStep
<1> QED BY <1>1, <1>2, <1>4, <1>5 DEF FullInv

\* FullInv holds in every reachable state.
THEOREM FullInvariance == KernelSpec => []FullInv
<1> QED BY InitFullInv, NextFullInv, PTL DEF KernelSpec

\* The variables keep their types; in particular a process without an HTTP server
\* never comes up, and no request is left once the HTTP server's close() is over.
THEOREM FullTypeCorrect == KernelSpec => []KernelTypeOK
<1>1. FullInv => KernelTypeOK
  <2> SUFFICES ASSUME FullInv PROVE KernelTypeOK
    OBVIOUS
  <2>1. B!TypeOK
    BY DEF FullInv, BP9!IndInv, BP9!TypeOK, B!TypeOK, BP9!Providers, B!Providers
  <2>2. phase \in {"running", "closing", "closed"} => producerServer /\ mongo.client # "none"
    BY DEF FullInv, HttpAndMongoFollow, ProvidersFollow
  <2>3. httpServer \in MongoClosing => ~request
    BY DEF FullInv, HttpAndMongoFollow
  <2> QED BY <2>1, <2>2, <2>3 DEF FullInv, FullTyped, MongoSound, KernelTypeOK, MongoClosing
<1> QED BY <1>1, FullInvariance, PTL

\* Whatever the Mongo connection was doing, a shutdown that completes leaves no
\* client but those that overlapped with close() or were abandoned in an outage.
THEOREM OnlyKnownLeft == KernelSpec => []OnlyKnownLeaks
<1>1. ASSUME FullInv, phase = "closed"
      PROVE  /\ OpenHandles \subseteq {"dataSource", "subClient", "mongo", "abandoned client"}
             /\ "mongo" \in OpenHandles => mongo.overlapped
             /\ mongo.abandoned => outages > 0
             /\ mongo.isClosed \/ mongo.closing
  <2>1. httpServer = "closed" /\ cache = "closed" /\ MongoEnds(mongo)
    BY <1>1 DEF FullInv, ProvidersFollow, HttpAndMongoFollow
  <2>2. mongo.client \in {"connecting", "open"} => mongo.overlapped
    BY <1>1, <2>1 DEF FullInv, MongoSound, MongoEnds
  <2> QED BY <1>1, <2>1, <2>2 DEF OpenHandles, FullInv, MongoSound, MongoEnds
<1>2. FullInv => OnlyKnownLeaks
  BY <1>1 DEF OnlyKnownLeaks
<1> QED BY <1>2, FullInvariance, PTL

\* What Bootstrap_proofs shows of the lifecycle holds of all nine providers.
THEOREM FullLifecycleInherited ==
  KernelSpec => []BP9!OrderedLifecycle /\ []BP9!TimerGuardsClosing /\ BP9!ShutdownRunsOnce
<1>1. BP9!Spec => []BP9!OrderedLifecycle
  BY BP9!LifecycleOrdered
<1>2. BP9!Spec => []BP9!TimerGuardsClosing
  BY BP9!TimerCorrect
<1>3. BP9!Spec => BP9!ShutdownRunsOnce
  BY BP9!ClosesOnce
<1> QED BY <1>1, <1>2, <1>3, FullImplementsBootstrap, PTL
================================================================================
