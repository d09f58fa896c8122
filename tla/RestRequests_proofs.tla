-------------------------- MODULE RestRequests_proofs --------------------------
(***************************************************************************)
(* What holds of any number of REST requests, tokens, cache keys and       *)
(* inputs.  IndInv says of a request, stage by stage, what its identity,   *)
(* its history and the keys it has still to delete are; the world around   *)
(* it and the other requests only make tokens invalid and entries younger. *)
(***************************************************************************)
EXTENDS RestRequests, TLAPS

\* Whoever has an identity showed a token that was valid on arrival: tokens
\* expire, but none becomes valid again.
IdentityGenuine(r) ==
    /\ stage[r] \in {"none", "received"} => identity[r] = None
    /\ stage[r] # "none" /\ input[r].token \in valid => genuine[r]
    /\ identity[r] # None => identity[r] = input[r].token /\ genuine[r]

\* A request is past its controller's guards only without errors.
PastGuards(r) ==
    /\ stage[r] = "none" => answer[r] = None
    /\ stage[r] \in {"listing", "deleting", "calling"} \/ done[r] \/ answer[r] = "200"
         => (Authorized(r) => identity[r] \in Admins)
    /\ stage[r] = "listing" => input[r].route \in {"/configs/keys", "/configs/expire"}
    /\ stage[r] = "deleting" => input[r].route = "/configs/expire"
    /\ stage[r] = "calling" =>
         input[r].route \in {"/jobs-demo/dispatch", "/kafka-demo/produce"}

\* Nothing is done before a controller's method runs, nor by one that awaits its
\* only call.
DoneLate(r) ==
    /\ stage[r] \in {"none", "received", "routed", "listing", "calling"} => ~done[r]
    /\ done[r] => answer[r] \in {None, "200", "500"}

\* The entries older than the request are in Redis; once the keys are listed they
\* are still to be deleted.
OldKnown(r) ==
    /\ stage[r] # "none" => old[r] \subseteq cached \cap input[r].prefix
    /\ stage[r] = "deleting" => old[r] \subseteq left[r]
    /\ answer[r] = "200" /\ input[r].route = "/configs/expire" => old[r] = {}

RequestInv(r) == IdentityGenuine(r) /\ PastGuards(r) /\ DoneLate(r) /\ OldKnown(r)

IndInv == TypeOK /\ \A r \in Requests : RequestInv(r)

--------------------------------------------------------------------------------
\* IndInv holds before the first request.
LEMMA InitIndInv == Init => IndInv
<1> SUFFICES ASSUME Init
             PROVE  IndInv
  OBVIOUS
<1>1. TypeOK
  BY DEF Init, TypeOK
<1>2. ASSUME NEW r \in Requests
      PROVE  RequestInv(r)
  BY RestAssumption
  DEF Init, RequestInv, IdentityGenuine, PastGuards, DoneLate, OldKnown, Authorized, Codes
<1> QED BY <1>1, <1>2 DEF IndInv

\* The steps of the world and of the other requests leave everything of r alone
\* but the age of its entries and the validity of its token.
Unaffected(r) ==
    /\ valid' \subseteq valid
    /\ stage'[r] = stage[r] /\ input'[r] = input[r] /\ genuine'[r] = genuine[r]
    /\ identity'[r] = identity[r] /\ left'[r] = left[r]
    /\ answer'[r] = answer[r] /\ done'[r] = done[r]
    /\ old'[r] \subseteq old[r] /\ old[r] \cap cached \subseteq cached' \cup (old[r] \ old'[r])

LEMMA UnaffectedInv ==
  ASSUME NEW r \in Requests, RequestInv(r), Unaffected(r)
  PROVE  RequestInv(r)'
<1> USE DEF RequestInv, Unaffected
<1>1. IdentityGenuine(r)'
  BY DEF IdentityGenuine
<1>2. PastGuards(r)'
  BY DEF PastGuards, Authorized
<1>3. DoneLate(r)'
  BY DEF DoneLate
<1>4. OldKnown(r)'
  BY DEF OldKnown
<1> QED BY <1>1, <1>2, <1>3, <1>4

\* The steps of one request leave the others alone.
LEMMA OthersUnaffected ==
  ASSUME TypeOK, NEW r \in Requests, NEW s \in Requests \ {r},
         Proceed(r) \/ \E in \in Inputs : Arrives(r, in)
  PROVE  Unaffected(s)
<1>1. CASE \E k \in CacheKeys : Del(r, k)
  BY <1>1 DEF TypeOK, Del, Changes, Unaffected, process, arrival
<1>2. CASE \E in \in Inputs : Arrives(r, in)
  BY <1>2 DEF TypeOK, Arrives, Go, Unaffected, process
<1>3. CASE Health(r) \/ Use(r) \/ Refused(r)
  BY <1>3 DEF TypeOK, Health, Use, Refused, Throws, Answered, Go, Unaffected, process, arrival
<1>4. CASE ChangeLogLevel(r) \/ Test(r) \/ ListKeys(r) \/ KeysListed(r)
  BY <1>4 DEF TypeOK, ChangeLogLevel, Test, ListKeys, KeysListed, Throws, Changes,
              Answered, Go, Unaffected, process, arrival
<1>5. CASE Expire(r) \/ CallService(r) \/ ServiceAnswers(r) \/ ServiceFails(r)
  BY <1>5 DEF TypeOK, Expire, CallService, ServiceAnswers, ServiceFails, Throws,
              Changes, Answered, Go, Unaffected, process, arrival
<1> QED BY <1>1, <1>2, <1>3, <1>4, <1>5 DEF Proceed

\* ErrorHandlerMiddleware answers an error with one of four codes.
LEMMA StatusCodes == \A error : Status(error) \in {"400", "401", "403", "500"}
  BY Zenon DEF Status

\* The world leaves every request alone but for ages and validity.
LEMMA WorldUnaffected ==
  ASSUME TypeOK, NEW r \in Requests,
         \/ \E k \in CacheKeys : Cached(k) \/ EntryExpires(k)
         \/ \E t \in Tokens : TokenExpires(t)
         \/ ShutdownStarts
         \/ UNCHANGED vars
  PROVE  Unaffected(r)
<1>1. CASE \E k \in CacheKeys : Cached(k) \/ EntryExpires(k)
  BY <1>1 DEF TypeOK, Cached, EntryExpires, Unaffected, process, arrival
<1>2. CASE \E t \in Tokens : TokenExpires(t)
  BY <1>2 DEF TokenExpires, Unaffected, arrival
<1>3. CASE ShutdownStarts \/ UNCHANGED vars
  BY <1>3 DEF ShutdownStarts, vars, Unaffected, process, arrival
<1> QED BY <1>1, <1>2, <1>3

\* What the request itself does keeps what is known of it.
LEMMA ProceedInv ==
  ASSUME TypeOK, NEW r \in Requests, RequestInv(r), Proceed(r)
  PROVE  RequestInv(r)'
<1> USE RestAssumption DEF RequestInv, Go, Answered, Changes, process, arrival
<1>0. /\ "200" # None /\ \A error : Status(error) # None
      /\ \A error : Status(error) \in {"400", "401", "403", "500"}
      /\ None \notin Admins
  BY StatusCodes DEF Codes
<1>1. CASE Health(r)
  <2>1. /\ stage[r] = "received" /\ stage'[r] = "answered" /\ answer'[r] \in {"200", "503"}
        /\ input[r].route = "/health" /\ old'[r] = old[r] /\ done'[r] = done[r]
        /\ UNCHANGED <<cached, valid, input, genuine, identity>>
    BY <1>1 DEF Health, TypeOK
  <2> QED BY <1>0, <2>1 DEF IdentityGenuine, PastGuards, DoneLate, OldKnown, Authorized
<1>2. CASE Use(r)
  <2>1. /\ stage[r] = "received"
        /\ UNCHANGED <<cached, valid, input, genuine, old, done>>
    BY <1>2 DEF Use
  <2>2. \/ /\ stage'[r] = "routed" /\ answer'[r] = answer[r]
           /\ \/ identity'[r] = None
              \/ identity'[r] = input[r].token /\ input[r].token \in valid
        \/ /\ stage'[r] = "answered" /\ identity'[r] = identity[r]
           /\ answer'[r] = Status("UnauthorizedError")
    BY <1>2 DEF Use, Throws, Verify, TypeOK
  <2>3. answer[r] = None /\ Status("UnauthorizedError") # "200"
    BY <2>1 DEF TypeOK, Status
  <2> QED BY <1>0, <2>1, <2>2, <2>3 DEF IdentityGenuine, PastGuards, DoneLate, OldKnown, Authorized
<1>3. CASE Refused(r)
  <2>1. /\ stage[r] = "routed" /\ stage'[r] = "answered"
        /\ UNCHANGED <<cached, valid, input, genuine, identity, old, done>>
    BY <1>3 DEF Refused, Throws, TypeOK
  <2>2. answer'[r] \in {"404", "400", "401", "403", "500"}
    BY <1>0, <1>3 DEF Refused, Throws, TypeOK
  <2> QED BY <1>0, <2>1, <2>2 DEF IdentityGenuine, PastGuards, DoneLate, OldKnown, Authorized
<1>4. ASSUME NEW routes, Calls(r, routes)
      PROVE  /\ stage[r] = "routed" /\ input[r].route \in routes
             /\ Authorized(r) => identity[r] \in Admins
  BY <1>4 DEF Calls, Errors
<1>5. CASE ChangeLogLevel(r) \/ Test(r)
  <2>1. /\ stage[r] = "routed" /\ input[r].route \in {"/configs/log-level", "/configs/test"}
        /\ stage'[r] = "answered"
        /\ UNCHANGED <<cached, valid, input, genuine, identity, old>>
    BY <1>4, <1>5 DEF ChangeLogLevel, Test, Throws, TypeOK
  <2>2. /\ answer'[r] \in {"200", "500"}
        /\ Authorized(r) => identity[r] \in Admins
    <3>1. Status("BusinessLogicError") = "500"
      BY Zenon DEF Status
    <3> QED BY <1>4, <1>5, <3>1 DEF ChangeLogLevel, Test, Throws, TypeOK
  <2> QED BY <1>0, <2>1, <2>2 DEF IdentityGenuine, PastGuards, DoneLate, OldKnown, Authorized
<1>6. CASE ListKeys(r)
  <2>1. /\ stage[r] = "routed" /\ input[r].route \in {"/configs/keys", "/configs/expire"}
        /\ stage'[r] = "listing" /\ (Authorized(r) => identity[r] \in Admins)
        /\ UNCHANGED <<cached, valid, input, genuine, identity, answer, old, done>>
    BY <1>4, <1>6 DEF ListKeys, TypeOK
  <2>2. answer[r] = None
    BY <2>1 DEF TypeOK
  <2> QED BY <1>0, <2>1, <2>2 DEF IdentityGenuine, PastGuards, DoneLate, OldKnown, Authorized
<1>7. CASE KeysListed(r)
  <2>1. /\ stage[r] = "listing"
        /\ UNCHANGED <<cached, valid, input, genuine, identity, old, done>>
    BY <1>7 DEF KeysListed
  <2>2. \/ /\ input[r].route = "/configs/expire" /\ stage'[r] = "deleting"
           /\ left'[r] = cached \cap input[r].prefix /\ answer'[r] = answer[r]
        \/ /\ input[r].route # "/configs/expire" /\ stage'[r] = "answered"
           /\ answer'[r] = "200"
    BY <1>7 DEF KeysListed, TypeOK
  <2>3. answer[r] = None
    BY <2>1 DEF TypeOK
  <2> QED BY <1>0, <2>1, <2>2, <2>3 DEF IdentityGenuine, PastGuards, DoneLate, OldKnown, Authorized
<1>8. ASSUME NEW k \in CacheKeys, Del(r, k)
      PROVE  RequestInv(r)'
  <2>1. /\ stage[r] = "deleting" /\ cached' = cached \ {k}
        /\ left'[r] = left[r] \ {k} /\ old'[r] = old[r] \ {k} /\ done'[r]
        /\ UNCHANGED <<valid, stage, input, genuine, identity, answer>>
    BY <1>8 DEF Del, TypeOK
  <2>2. answer[r] = None
    BY <2>1 DEF TypeOK
  <2> QED BY <1>0, <2>1, <2>2 DEF IdentityGenuine, PastGuards, DoneLate, OldKnown, Authorized
<1>9. CASE Expire(r)
  <2>1. /\ stage[r] = "deleting" /\ left[r] = {} /\ stage'[r] = "answered"
        /\ answer'[r] = "200"
        /\ UNCHANGED <<cached, valid, input, genuine, identity, left, old, done>>
    BY <1>9 DEF Expire, AllDeleted, TypeOK
  <2> QED BY <1>0, <2>1 DEF IdentityGenuine, PastGuards, DoneLate, OldKnown, Authorized
<1>10. CASE CallService(r)
  <2>1. /\ stage[r] = "routed"
        /\ input[r].route \in {"/jobs-demo/dispatch", "/kafka-demo/produce"}
        /\ stage'[r] = "calling"
        /\ UNCHANGED <<cached, valid, input, genuine, identity, answer, old, done>>
    BY <1>4, <1>10 DEF CallService, TypeOK
  <2>2. answer[r] = None
    BY <2>1 DEF TypeOK
  <2> QED BY <1>0, <2>1, <2>2 DEF IdentityGenuine, PastGuards, DoneLate, OldKnown, Authorized
<1>11. CASE ServiceAnswers(r)
  <2>1. /\ stage[r] = "calling" /\ stage'[r] = "answered" /\ answer'[r] = "200" /\ done'[r]
        /\ UNCHANGED <<cached, valid, input, genuine, identity, old>>
    BY <1>11 DEF ServiceAnswers, TypeOK
  <2> QED BY <1>0, <2>1 DEF IdentityGenuine, PastGuards, DoneLate, OldKnown, Authorized
<1>12. CASE ServiceFails(r)
  <2>1. /\ stage[r] \in {"listing", "deleting", "calling"} /\ stage'[r] = "answered"
        /\ answer'[r] = Status("Error")
        /\ UNCHANGED <<cached, valid, input, genuine, identity, old>>
    BY <1>12 DEF ServiceFails, Throws, TypeOK
  <2>2. Status("Error") = "500"
    BY Zenon DEF Status
  <2> QED BY <1>0, <2>1, <2>2 DEF IdentityGenuine, PastGuards, DoneLate, OldKnown, Authorized
<1> QED
  BY <1>1, <1>2, <1>3, <1>5, <1>6, <1>7, <1>8, <1>9, <1>10, <1>11, <1>12 DEF Proceed

\* A request arrives with nothing done and its token checked by nobody yet.
LEMMA ArrivesInv ==
  ASSUME TypeOK, NEW r \in Requests, RequestInv(r), NEW in \in Inputs, Arrives(r, in)
  PROVE  RequestInv(r)'
<1>1. /\ stage[r] = "none" /\ stage'[r] = "received" /\ input'[r] = in
      /\ genuine'[r] = (in.token \in valid) /\ old'[r] = cached \cap in.prefix
      /\ UNCHANGED <<cached, valid, identity, answer, done>>
  BY DEF Arrives, Go, TypeOK, process
<1>2. ~done[r] /\ answer[r] # "200" /\ identity[r] = None
  BY <1>1, RestAssumption
  DEF RequestInv, IdentityGenuine, PastGuards, DoneLate, Codes
<1> QED
  BY <1>1, <1>2 DEF RequestInv, IdentityGenuine, PastGuards, DoneLate, OldKnown

\* Every step keeps the types, and the code that ErrorHandlerMiddleware answers
\* is one of the codes.
LEMMA TypesStep ==
  ASSUME TypeOK, [Next]_vars
  PROVE  TypeOK'
<1> USE RestAssumption DEF TypeOK, Go, Answered, Changes, process, arrival
<1>0. \A error : Status(error) \in Codes \ {None}
  BY StatusCodes DEF Codes
<1>1. CASE \/ \E k \in CacheKeys : Cached(k) \/ EntryExpires(k)
           \/ \E t \in Tokens : TokenExpires(t)
           \/ ShutdownStarts
  <2>1. /\ UNCHANGED <<stage, input, identity, left, answer, genuine, done>>
        /\ cached' \subseteq CacheKeys /\ valid' \subseteq Tokens
        /\ shutdownInProgress' \in BOOLEAN
    BY <1>1 DEF Cached, EntryExpires, TokenExpires, ShutdownStarts
  <2>2. old' \in [Requests -> SUBSET CacheKeys]
    BY <1>1 DEF Cached, EntryExpires, TokenExpires, ShutdownStarts
  <2> QED BY <2>1, <2>2
<1>2. ASSUME NEW r \in Requests, NEW in \in Inputs, Arrives(r, in)
      PROVE  TypeOK'
  BY <1>2 DEF Arrives
<1>3. ASSUME NEW r \in Requests, Health(r)
      PROVE  TypeOK'
  BY <1>3 DEF Health, Codes
<1>4. ASSUME NEW r \in Requests, Use(r)
      PROVE  TypeOK'
  <2>1. input[r].token = None \/ Verify(input[r].token) => input[r].token \in Tokens \cup {None}
    BY DEF Verify
  <2> QED BY <1>0, <1>4, <2>1 DEF Use, Throws
<1>5. ASSUME NEW r \in Requests, Refused(r)
      PROVE  TypeOK'
  <2>1. PICK code \in Codes \ {None} : Answered(r, code)
    BY <1>0, <1>5 DEF Refused, Throws, Codes
  <2> QED BY <1>5, <2>1 DEF Refused
<1>6. ASSUME NEW r \in Requests, ChangeLogLevel(r) \/ Test(r) \/ Expire(r) \/ ServiceAnswers(r)
      PROVE  TypeOK'
  <2>1. PICK code \in Codes \ {None} : Answered(r, code)
    BY <1>0, <1>6 DEF ChangeLogLevel, Test, Expire, ServiceAnswers, Throws, Codes
  <2> QED BY <1>6, <2>1 DEF ChangeLogLevel, Test, Expire, ServiceAnswers
<1>7. ASSUME NEW r \in Requests, ServiceFails(r)
      PROVE  TypeOK'
  BY <1>0, <1>7 DEF ServiceFails, Throws
<1>8. ASSUME NEW r \in Requests, ListKeys(r) \/ CallService(r)
      PROVE  TypeOK'
  BY <1>8 DEF ListKeys, CallService, Calls
<1>9. ASSUME NEW r \in Requests, KeysListed(r)
      PROVE  TypeOK'
  BY <1>9 DEF KeysListed, Codes
<1>10. ASSUME NEW r \in Requests, NEW k \in CacheKeys, Del(r, k)
       PROVE  TypeOK'
  BY <1>10 DEF Del
<1>11. CASE UNCHANGED vars
  BY <1>11 DEF vars
<1> QED
  BY <1>1, <1>2, <1>3, <1>4, <1>5, <1>6, <1>7, <1>8, <1>9, <1>10, <1>11
  DEF Next, Proceed

\* Every step preserves IndInv.
LEMMA NextIndInv == IndInv /\ [Next]_vars => IndInv'
<1> SUFFICES ASSUME IndInv, [Next]_vars
             PROVE  IndInv'
  OBVIOUS
<1>1. TypeOK'
  BY TypesStep DEF IndInv
<1>2. ASSUME NEW r \in Requests
      PROVE  RequestInv(r)'
  <2>1. CASE Proceed(r) \/ \E in \in Inputs : Arrives(r, in)
    BY <2>1, ProceedInv, ArrivesInv DEF IndInv
  <2>2. ASSUME NEW s \in Requests \ {r}, Proceed(s) \/ \E in \in Inputs : Arrives(s, in)
        PROVE  RequestInv(r)'
    <3>1. Unaffected(r)
      BY <2>2, OthersUnaffected DEF IndInv
    <3> QED BY <3>1, UnaffectedInv DEF IndInv
  <2>3. CASE \/ \E k \in CacheKeys : Cached(k) \/ EntryExpires(k)
             \/ \E t \in Tokens : TokenExpires(t)
             \/ ShutdownStarts
             \/ UNCHANGED vars
    <3>1. Unaffected(r)
      BY <2>3, WorldUnaffected DEF IndInv
    <3> QED BY <3>1, UnaffectedInv DEF IndInv
  <2> QED BY <2>1, <2>2, <2>3 DEF Next
<1> QED BY <1>1, <1>2 DEF IndInv

\* IndInv holds in every reachable state.
THEOREM Invariance == Spec => []IndInv
<1> QED BY InitIndInv, NextIndInv, PTL DEF Spec

\* The variables keep the types the code gives them: a request is answered once
\* it has an answer, with one of the known codes.
THEOREM TypeCorrect == Spec => []TypeOK
<1>1. IndInv => TypeOK
  BY DEF IndInv
<1> QED BY <1>1, Invariance, PTL

\* 4xx and 503 mean that nothing was changed (ErrorHandlerMiddleware.ts).
THEOREM RefusalsSafe == Spec => []RefusalsChangeNothing
<1>1. IndInv => RefusalsChangeNothing
  BY DEF IndInv, RequestInv, DoneLate, RefusalsChangeNothing
<1> QED BY <1>1, Invariance, PTL

\* The keys are listed and deleted for administrators alone, however tokens
\* expire meanwhile (AuthenticationMiddleware.ts, ConfigController.ts).
THEOREM AdminsOnly == Spec => []GuardedForAdmins
<1>1. IndInv => GuardedForAdmins
  BY RestAssumption
  DEF IndInv, RequestInv, IdentityGenuine, PastGuards, GuardedForAdmins
<1> QED BY <1>1, Invariance, PTL

\* expire answers when no entry that is older than the request is left
\* (ConfigService.expireConfigs), however many calls write meanwhile.
THEOREM ExpireComplete == Spec => []ExpireLeavesNothingOld
<1>1. IndInv => ExpireLeavesNothingOld
  BY DEF IndInv, RequestInv, OldKnown, ExpireLeavesNothingOld
<1> QED BY <1>1, Invariance, PTL
================================================================================
