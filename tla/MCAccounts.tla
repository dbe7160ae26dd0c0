------------------------------- MODULE MCAccounts -------------------------------
EXTENDS Accounts
=============================================================================
