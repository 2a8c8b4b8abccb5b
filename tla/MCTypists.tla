----------------------------- MODULE MCTypists ------------------------------
(* Model-checking instance of Typists: one partner, one group of two.      *)
EXTENDS Typists
=============================================================================
