---------------------------- MODULE PromptHistory ----------------------------
(***************************************************************************)
(* What the prompt service promises: every prompt has a history of texts   *)
(* that only grows, one text of one prompt at a time.  Nothing is lost,    *)
(* reordered or rewritten.                                                 *)
(***************************************************************************)
EXTENDS Sequences

CONSTANTS Prompts, Templates

VARIABLE history  \* history[p][v] is the text of version v of prompt p

Init == history = [p \in Prompts |-> <<>>]

AddVersion(p, t) == history' = [history EXCEPT ![p] = Append(@, t)]

Next == \E p \in Prompts, t \in Templates : AddVersion(p, t)

Spec == Init /\ [][Next]_history
=============================================================================
