----------------------------- MODULE MCAccounts -----------------------------
EXTENDS Accounts

CONSTANTS e1, e2
MCRegistered == <<e1, e2>>
=============================================================================
