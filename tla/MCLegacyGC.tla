------------------------------ MODULE MCLegacyGC ------------------------------
(***************************************************************************)
(* LegacyGC for TLC.  No symmetry: a liveness property is checked.         *)
(***************************************************************************)
EXTENDS LegacyGC

\* An entry for ever, a short one and a longer one.
MCTTLs == {0, 1, 2}
=============================================================================
