---------------------------- MODULE MCLLMGateway ----------------------------
(* LLMGateway for TLC: a setting that allows no attempt, one, or three. *)
EXTENDS LLMGateway

Retries == {-1, 0, 2}
=============================================================================
