------------------------------ MODULE MCDraft ------------------------------
(* Model-checking instance of Draft: two chats, a message in one of them, an *)
(* image and another file.                                                 *)
EXTENDS Draft, TLC

CONSTANTS a, b, m, i, f

MCHome == [x \in Msgs |-> a]
MCSymmetry == Permutations(Jobs)
=============================================================================
