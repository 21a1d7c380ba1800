-------------------------------- MODULE Access --------------------------------
(***************************************************************************)
(* How accounts come to be used: the start of the servers, Kumbuka's own   *)
(* accounts, and on servers that are up in an external mode the logins and *)
(* account decisions of Identities.  The two parts share the administrator *)
(* and the rows of users, and are explored one at a time, each beside the  *)
(* initial state of the other.                                             *)
(***************************************************************************)
EXTENDS Startup, Identities

\* Every server is up with the settings of an external mode.
External ==
    /\ NewInfrastructure
    /\ begun = 0
    /\ stored.mode = "external" /\ \A a \in Accounts : user[a].admin

AccessInit ==
    /\ StartInit
    /\ LoginInit
    /\ users[Legacy].name = CHOOSE n \in Names : TRUE

AccessNext ==
    \/ /\ LoginInit  \* no login or decision has been made
       /\ mode = "oidc" \/ begun' = 0
       /\ StartNext
       /\ UNCHANGED loginVars
    \/ External /\ LoginNext /\ UNCHANGED <<vars, schemaVars>>

AccessSpec == AccessInit /\ [][AccessNext]_<<vars, schemaVars, loginVars>>
=============================================================================
