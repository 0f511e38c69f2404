---------------------------- MODULE MCReasoning -----------------------------
(* Reasoning for TLC: scores below 0, and at the end of the scale. *)
EXTENDS Reasoning

MCScores == {-1, 10}
=============================================================================
