------------------------------ MODULE MCMedia ------------------------------
(* Model-checking instance of Media: a sticker without a thumbnail, a photo  *)
(* and a document.                                                         *)
EXTENDS Media, TLC

CONSTANTS s, p, d

MCKind == [m \in Msgs |-> IF m = s THEN "sticker" ELSE IF m = p THEN "image" ELSE "document"]
MCThumb == [m \in Msgs |-> IF m = p THEN "good" ELSE "none"]
MCSymmetry == Permutations(Cells) \cup Permutations(Jobs)
=============================================================================
