--------------------------- MODULE MCGraphqlRequests ---------------------------
(***************************************************************************)
(* Two requests over three resolvers: one without a guard, one behind      *)
(* @Authorized, one behind HasRoles; a user who has the role of one of     *)
(* them.                                                                   *)
(***************************************************************************)
EXTENDS GraphqlRequests

MCRoles == [u \in {"u1"} |-> {"user"}]

MCResolver ==
    [demo |-> [authorized |-> None, hasRoles |-> None, throws |-> {"Error"}],
     me |-> [authorized |-> {"user"}, hasRoles |-> None, throws |-> {"BusinessLogicError"}],
     audit |-> [authorized |-> {}, hasRoles |-> {"admin"}, throws |-> {}],
     find |-> [authorized |-> None, hasRoles |-> {"user"}, throws |-> {}]]
MCFields == DOMAIN MCResolver

Op(user, fields) ==
    [user |-> user, introspection |-> FALSE, fields |-> fields, invalid |-> {}]
MCOperations ==
    {Op("u1", {"me", "audit"}), Op("u1", {"demo", "find", "me"}), Op(None, {"demo", "find"}),
     [Op("u1", {"me", "find"}) EXCEPT !.introspection = TRUE],
     [Op(None, {"demo", "audit"}) EXCEPT !.invalid = {"demo"}]}
================================================================================
