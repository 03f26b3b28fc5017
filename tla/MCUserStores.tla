---------------------------- MODULE MCUserStores ----------------------------
EXTENDS UserStores
=============================================================================
