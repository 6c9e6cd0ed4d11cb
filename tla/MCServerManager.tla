--------------------------- MODULE MCServerManager ---------------------------
(* ServerManager for TLC: two calls ask for one model, the third for another. *)
EXTENDS ServerManager

CONSTANTS c1, c2, c3, m1, m2

MCModel == [c \in Calls |-> IF c = c3 THEN m2 ELSE m1]
=============================================================================
