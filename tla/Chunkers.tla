------------------------------ MODULE Chunkers ------------------------------
(***************************************************************************)
(* The chunkers of pkg/chunker (chunker.go, semantic.go) as operators.  A     *)
(* text is a sequence of characters; whatever the chunkers cut out of it is   *)
(* an interval of its positions, because they put back each separator that    *)
(* they took out inside a chunk.                                            *)
(***************************************************************************)
EXTENDS Integers, Sequences, FiniteSets, SequencesExt, FiniteSetsExt

Letter == "a"
Space == " "
NewLine == "newline"
Stop == "."
Blank == {Space, NewLine}

Separators == << <<NewLine, NewLine>>, <<NewLine>>, <<Stop, Space>>, <<Space>> >>

Cut(from, to) == [from |-> from, to |-> to]
Size(cut) == cut.to - cut.from + 1
Positions(cut) == cut.from..cut.to

Content(text, cut) == {i \in Positions(cut) : text[i] \notin Blank}

\* strings.TrimSpace; a blank interval becomes an empty one.
TrimSpace(text, cut) ==
    LET written == Content(text, cut)
    IN IF written = {} THEN Cut(cut.from, cut.from - 1) ELSE Cut(Min(written), Max(written))

\* chunkFixed and the last resort of splitRecursive: pieces of `size`, each `step`
\* after the one before.
Pieces(cut, size, step) ==
    LET count == (Size(cut) + step - 1) \div step
        Start(k) == cut.from + (k - 1) * step
    IN [k \in 1..count |-> Cut(Start(k), Min({cut.to, Start(k) + size - 1}))]

\* A blank chunk is dropped.
NonBlank(text, cuts) ==
    FoldLeft(LAMBDA kept, cut : IF Content(text, cut) = {} THEN kept ELSE Append(kept, cut),
             <<>>, cuts)

ChunkFixed(text, size, overlap) ==
    LET step == IF size - overlap <= 0 THEN size ELSE size - overlap
    IN NonBlank(text, Pieces(Cut(1, Len(text)), size, step))

\* strings.Split: from left to right, and on behind each separator.
SplitAt(text, sep, cut) ==
    LET At(i) == i + Len(sep) - 1 <= cut.to /\ SubSeq(text, i, i + Len(sep) - 1) = sep
        split == FoldLeft(LAMBDA p, i :
                     IF i >= p.from /\ At(i)
                     THEN [done |-> Append(p.done, Cut(p.from, i - 1)), from |-> i + Len(sep)]
                     ELSE p,
                   [done |-> <<>>, from |-> cut.from],
                   [k \in 1..Size(cut) |-> cut.from + k - 1])
    IN Append(split.done, Cut(split.from, cut.to))

\* Faulty variant: the rest after the loop is forgotten.
MergeUnfinished(parts, size) ==
    FoldLeft(LAMBDA m, p :
               IF Size(m.current) = 0 THEN [m EXCEPT !.current = p]
               ELSE IF p.to - m.current.from + 1 > size
                 THEN [done |-> Append(m.done, m.current), current |-> p]
               ELSE [m EXCEPT !.current.to = p.to],
             [done |-> <<>>, current |-> Cut(1, 0)], parts).done

\* The loop of splitRecursive: parts are joined again, with the separator between
\* them, as long as they fit.
Merge(parts, size) ==
    LET merged == FoldLeft(LAMBDA m, p :
               IF Size(m.current) = 0 THEN [m EXCEPT !.current = p]
               ELSE IF p.to - m.current.from + 1 > size
                 THEN [done |-> Append(m.done, m.current), current |-> p]
               ELSE [m EXCEPT !.current.to = p.to],
             [done |-> <<>>, current |-> Cut(1, 0)], parts)
    IN IF Size(merged.current) = 0 THEN merged.done ELSE Append(merged.done, merged.current)

\* One level of splitRecursive: what is too long is split at the separator.
Finer(text, size, cuts, sep) ==
    FlattenSeq([k \in DOMAIN cuts |->
        IF Size(cuts[k]) <= size THEN <<cuts[k]>> ELSE Merge(SplitAt(text, sep, cuts[k]), size)])

\* splitRecursive, which goes on with the next separator and in the end without one.
Split(text, cut, size) ==
    LET cuts == FoldLeft(LAMBDA coarse, sep : Finer(text, size, coarse, sep), <<cut>>, Separators)
    IN FlattenSeq([k \in DOMAIN cuts |->
           IF Size(cuts[k]) <= size THEN <<cuts[k]>> ELSE Pieces(cuts[k], size, size)])

ChunkRecursive(text, size) ==
    LET cuts == NonBlank(text, Split(text, Cut(1, Len(text)), size))
    IN [k \in DOMAIN cuts |-> TrimSpace(text, cuts[k])]

\* A sentence ends at a stop before a space: the stop is its last character, the space
\* the first one of the next.
Sentences(text) ==
    LET parts == SplitAt(text, <<Stop, Space>>, Cut(1, Len(text)))
    IN IF text = <<>> THEN <<>>
       ELSE [k \in DOMAIN parts |->
               Cut(IF k = 1 THEN 1 ELSE parts[k].from - 1,
                   IF k = Len(parts) THEN Len(text) ELSE parts[k].to + 1)]

\* Sentences joined as long as they fit, and trimmed.  A blank one is kept.
ChunkBySentence(text, size) ==
    LET merged == Merge(Sentences(text), size)
    IN [i \in DOMAIN merged |-> TrimSpace(text, merged[i])]

\* SemanticChunker: chunks end with any sentences, where their embeddings happen to
\* differ, and with the last.
SemanticChunks(text) ==
    LET sentences == Sentences(text)
        n == Len(sentences)
        splits == {s \in SeqOf(1..n, n) :
                      /\ s # <<>> /\ s[Len(s)] = n
                      /\ \A j, k \in DOMAIN s : j < k => s[j] < s[k]}
        Joined(s) == [k \in DOMAIN s |->
                        Cut(sentences[IF k = 1 THEN 1 ELSE s[k - 1] + 1].from, sentences[s[k]].to)]
    IN IF n = 0 THEN {<<>>} ELSE {Joined(s) : s \in splits}

\* ChunkTextWithEmbeddings: what may come of a text.  When its embeddings fail the
\* semantic chunker gives way to the recursive one.
Chunkings(text, strategy, size, overlap) ==
    CASE strategy = "fixed"     -> {ChunkFixed(text, size, overlap)}
      [] strategy = "sentence"  -> {ChunkBySentence(text, size)}
      [] strategy = "semantic"  -> SemanticChunks(text) \cup {ChunkRecursive(text, size)}
      [] strategy = "recursive" -> {ChunkRecursive(text, size)}
=============================================================================
