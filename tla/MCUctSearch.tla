----------------------------- MODULE MCUctSearch -----------------------------
(* Two threads on a tree of three plies: from r, moves to a, b (mate) and x *)
(* (illegal); below a, c (beyond the last ply) and d (ends the game).       *)
EXTENDS UctSearch

MCParent == [c \in {"a", "b", "x", "c", "d"} |->
               CASE c \in {"a", "b", "x"} -> "r" [] OTHER -> "a"]
MCDepth == [n \in Node |-> CASE n = "r" -> 1 [] n \in {"a", "b", "x"} -> 2
                             [] OTHER -> 3]
MCValue == [n \in Node |-> CASE n = "a" -> 2 [] n = "c" -> 1 [] n = "d" -> 1
                             [] n = "b" -> -2 [] OTHER -> 0]
=============================================================================
