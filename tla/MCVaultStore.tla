---------------------------- MODULE MCVaultStore ----------------------------
EXTENDS VaultStore
=============================================================================
