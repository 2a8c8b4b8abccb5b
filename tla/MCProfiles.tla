----------------------------- MODULE MCProfiles -----------------------------
(* Model-checking instance of Profiles: one person with two addresses.       *)
EXTENDS Profiles, TLC

CONSTANTS pn, lid

MCAlt == [u \in Users |-> IF u = pn THEN lid ELSE pn]
MCSymmetry == Permutations(Jobs) \cup Permutations(Rows)
=============================================================================
