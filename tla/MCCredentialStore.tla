------------------------- MODULE MCCredentialStore --------------------------
(* CredentialStore with model values for logins. *)
EXTENDS CredentialStore

CONSTANTS l1, l2, l3
=============================================================================
