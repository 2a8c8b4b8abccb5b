----------------------------- MODULE MCSidebar ------------------------------
(* Model-checking instance of Sidebar: two direct chats.  One is stored     *)
(* from the start, pinned above newer ones, or archived with a newer time  *)
(* (which takes the pin); the other is plain, and of that newer time.       *)
EXTENDS Sidebar, TLC

CONSTANTS a, b

MCRow(at, pinned, archived) == [at |-> at, pinned |-> pinned, archived |-> archived]
MCRowsOf ==
    [c \in Chats |->
        IF c = a THEN {MCRow(1, TRUE, FALSE), MCRow(2, FALSE, TRUE)}
        ELSE {MCRow(2, FALSE, FALSE)}]
MCRows == UNION {MCRowsOf[c] : c \in Chats}
MCStartTables == {[c \in Chats |-> IF c = a THEN MCRow(1, TRUE, FALSE) ELSE NoRow]}
MCMatches == [q \in Queries |-> {a}]
MCSymmetry == Permutations(Calls) \cup Permutations(Queries) \cup Permutations(Writers)
=============================================================================
