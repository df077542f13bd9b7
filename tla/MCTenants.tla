------------------------------ MODULE MCTenants ------------------------------
(* TenantRepository for TLC.                                                *)
EXTENDS TenantInvariant, TLC

\* Neither callers, connections, tenants nor values are named by a property.
Alike == Permutations(Callers) \union Permutations(Conns) \union Permutations(Tenants)
         \union Permutations(Values)
=============================================================================
