--------------------------- MODULE MCConversation ---------------------------
(***************************************************************************)
(* Conversation for TLC: one agent with a summary beside one with a buffer  *)
(* or a window.                                                            *)
(***************************************************************************)
EXTENDS Conversation

CONSTANTS a1, a2

MCMemories == {a1 :> other @@ a2 :> "summary" : other \in {"buffer", "window"}}
=============================================================================
