--------------------------- MODULE MCTextInsertion ---------------------------
(***************************************************************************)
(* A run, and beside it another Dictate or a draft, which is not polished  *)
(* by the AI and is begun before the user moves: what it does to the first *)
(* one, or is done by it, it does to the pill, the flags and the           *)
(* clipboard.                                                              *)
(***************************************************************************)
EXTENDS TextInsertion

CONSTANT Second   \* the runs that are short

SecondIsShort ==
  /\ \A r \in Second : ~At(r, "asking") /\ (At(r, "new") \/ moves = 0)
  /\ \A q, r \in Second : q = r \/ At(q, "new") \/ At(r, "new")

=============================================================================
