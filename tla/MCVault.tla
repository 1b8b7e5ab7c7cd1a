------------------------------- MODULE MCVault -------------------------------
EXTENDS Vault
=============================================================================
