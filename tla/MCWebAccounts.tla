--------------------------- MODULE MCWebAccounts ---------------------------
(* Two windows on the account pages, two tabs at the gate. *)
EXTENDS WebAccounts
=============================================================================
