----------------------------- MODULE MCRegistry -----------------------------
EXTENDS Registry, TLC

CONSTANTS t1, t2, t3, r1, r2

MCFaults == <<"first", "second">>

RegistrySymmetry == Permutations({t1, t2, t3}) \union Permutations({r1, r2})

InUse == {manager} \union {request[t].manager : t \in Threads}

\* A manager that no request can reach any more matters by its runs only.
Reachable ==
  <<manager, [m \in Threads |-> IF m \in InUse THEN catalog[m] ELSE <<>>], runs, driven, request,
    accepted, sure, overlapped \intersect InUse, abandoned \intersect InUse>>

=============================================================================
