-------------------------- MODULE MCBillingMessages --------------------------
(* A small instance of BillingMessages for TLC. *)
EXTENDS BillingMessages
CONSTANTS user, admin1, admin2
\* An alert nobody can get stands before one the superadmins wait for.
Rows == <<"alert", "notice", "receipt", "alert">>
Chats == <<{}, {user}, {user}, {admin1, admin2}>>
==============================================================================
