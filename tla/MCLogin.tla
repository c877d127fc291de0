------------------------------- MODULE MCLogin ------------------------------
(* Login with model values for logins. *)
EXTENDS Login

CONSTANTS l1, l2, l3
=============================================================================
