------------------------------ MODULE MCCache ------------------------------
(***************************************************************************)
(* Cache for TLC.  Keys and clients are interchangeable: no action and no  *)
(* property names one of them, and every property is a safety property.    *)
(***************************************************************************)
EXTENDS Cache

\* A cheap entry that expires and one without a TTL that is over MaxCost.
MCOffers == {[cost |-> 1, ttl |-> 1], [cost |-> 2, ttl |-> 0]}

Symmetry == Permutations(Keys) \cup Permutations(Clients)
=============================================================================
