------------------------------ MODULE MCMatching ------------------------------
(* Every way in which four people may have approved in three roles. *)
EXTENDS RoleMatching

MCRoles == {"security", "operations", "owner"}
MCPeople == {"ann", "bob", "cyn", "dan"}
=============================================================================
