------------------------------ MODULE Accounts ------------------------------
(***************************************************************************)
(* The accounts of the chain, shared by the modules whose objects hold     *)
(* balances of accounts or act for them.                                   *)
(***************************************************************************)

CONSTANT Account
=============================================================================
