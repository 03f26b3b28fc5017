---------------------------- MODULE MCCatalogDB ----------------------------
EXTENDS CatalogDB, TLC

Symmetry == Permutations(Uids)
=============================================================================
