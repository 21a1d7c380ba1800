-------------------------------- MODULE Startup --------------------------------
(***************************************************************************)
(* NewInfrastructure: a server process opens the database, which migrates  *)
(* it, reads whether setup is required, and only then serves accounts.     *)
(* Accounts are explored after a start in which every process came up with *)
(* the newest release at its first attempt; Migrations has the others.     *)
(***************************************************************************)
EXTENDS Accounts, Migrations

ASSUME StartupAssumption == Processes = Servers

NewInfrastructure ==
    /\ history = Releases
    /\ starts = Cardinality(Processes)
    /\ \A p \in Processes : phase[p] = "up" /\ release[p] = Newest

StartInit == Init /\ SchemaInit

StartNext ==
    \/ begun = 0 /\ SchemaNext /\ UNCHANGED vars
    \/ NewInfrastructure /\ Next /\ UNCHANGED schemaVars

StartSpec == StartInit /\ [][StartNext]_<<vars, schemaVars>>
=============================================================================
