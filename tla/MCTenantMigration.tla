------------------------- MODULE MCTenantMigration -------------------------
\* Model values for TLC: the pool threads are alike.
EXTENDS TenantMigration, TLC

MigratorsAlike == Permutations(Migrators)
=============================================================================
