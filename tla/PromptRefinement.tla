-------------------------- MODULE PromptRefinement --------------------------
(***************************************************************************)
(* The two tables of the prompt service implement PromptHistory: version v *)
(* of a prompt is the text of its prompt_versions row v, for every v up to *)
(* current_version.                                                        *)
(***************************************************************************)
EXTENDS PromptVersions

TextOf(p, v) ==
    (CHOOSE row \in rows : row.prompt = p /\ row.version = v).template

HistoryOf(p) == [v \in 1..current[p] |-> TextOf(p, v)]

History == INSTANCE PromptHistory
    WITH history <- [p \in Prompts |-> HistoryOf(p)]

\* The service behaves like the append-only history: a commit of Create or of
\* CreateVersion adds one text to one prompt, every other step adds nothing.
ImplementsHistory == History!Spec
=============================================================================
