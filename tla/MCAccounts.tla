------------------------------ MODULE MCAccounts ------------------------------
(* Small instances of Accounts for TLC; the cfg file gives the constants.     *)
EXTENDS Accounts
===============================================================================
