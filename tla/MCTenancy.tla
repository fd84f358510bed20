----------------------------- MODULE MCTenancy -----------------------------
\* The instance of Tenancy that TLC checks: one organization that changes from
\* one Stripe subscription to another, one billed by a provider.
EXTENDS Tenancy, TLC

MCOrgOf == [s \in {"stripe1", "stripe2", "provider"} |-> IF s = "provider" THEN "b" ELSE "a"]

Symmetry == Permutations(Users)
=============================================================================
