----------------------------- MODULE AccountRows -----------------------------
(* The rows of users and the browsers that act for them, which the modules  *)
(* about accounts share.                                                     *)
CONSTANTS Accounts,  \* identifiers the users table may hand out
          Clients,   \* browsers that sign in, log in or administer
          None
=============================================================================
