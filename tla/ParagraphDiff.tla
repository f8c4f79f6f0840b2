--------------------------- MODULE ParagraphDiff ---------------------------
(***************************************************************************)
(* Texts, their paragraphs, and how a new text is laid over an old one:     *)
(* backend/app/services/paragraph_diff.py.                                  *)
(*                                                                          *)
(* A text is a sequence of lines. A line is blank, a line of words in some  *)
(* language, or a fence of a code block: its character, its length, and     *)
(* whether an info string follows. White space within a line is left out.   *)
(***************************************************************************)
EXTENDS Naturals, FiniteSets, SequencesExt

Blank == <<"blank">>
Words(language, w) == <<language, w>>
Fence(char, length, info) == <<"fence", char, length, info>>
IsFence(line) == line[1] = "fence"

NoFence == <<"none">>

\* A fence closes a block when it has the character of the fence that opened
\* it, is not shorter and carries no info string.
Closes(line, open) == line[2] = open[2] /\ line[3] >= open[3] /\ ~line[4]

\* str.strip() of the lines of a paragraph.
Strip(lines) ==
    LET written == {i \in DOMAIN lines : lines[i] # Blank}
    IN IF written = {} THEN <<>> ELSE SubSeq(lines, Min(written), Max(written))

Flush(acc) ==
    LET paragraph == Strip(acc.current)
    IN [paragraphs |-> IF paragraph = <<>> THEN acc.paragraphs
                       ELSE Append(acc.paragraphs, paragraph),
        current |-> <<>>, open |-> acc.open]

\* open_fence after a line.
OpenAfter(open, line) ==
    IF ~IsFence(line) THEN open
    ELSE IF open = NoFence THEN line
    ELSE IF Closes(line, open) THEN NoFence ELSE open

\* One round of the loop of split_paragraphs.
NextLine(acc, line) ==
    IF acc.open = NoFence /\ line = Blank
      THEN Flush(acc)
      ELSE [paragraphs |-> acc.paragraphs, current |-> Append(acc.current, line),
            open |-> OpenAfter(acc.open, line)]

Start == [paragraphs |-> <<>>, current |-> <<>>, open |-> NoFence]

Loop(text) == FoldLeft(NextLine, Start, text)

Split(text) == Flush(Loop(text)).paragraphs

\* Every block of code is closed: what is appended to the text stands outside.
ClosesBlocks(text) == Loop(text).open = NoFence

\* Mutated form of Join: "\n".join(paragraphs)
JoinWithoutBlank(paragraphs) == FoldLeft(LAMBDA text, p : text \o p, <<>>, paragraphs)

\* "\n\n".join(paragraphs)
Glue(text, paragraph) ==
    IF text = <<>> THEN paragraph ELSE text \o <<Blank>> \o paragraph

Join(paragraphs) == FoldLeft(Glue, <<>>, paragraphs)

-----------------------------------------------------------------------------
(* difflib.SequenceMatcher: which paragraphs of the new text are those of   *)
(* the old one. It finds equal blocks in the same order, and between two    *)
(* blocks nothing that is equal is left.                                    *)

Common(new, old) ==
    {A \in UNION {[D -> DOMAIN old] : D \in SUBSET DOMAIN new} :
        /\ \A j \in DOMAIN A : new[j] = old[A[j]]
        /\ \A i, j \in DOMAIN A : i < j => A[i] < A[j]}

Extends(A, B) == DOMAIN B \subseteq DOMAIN A /\ \A j \in DOMAIN B : A[j] = B[j]

Alignments(new, old) ==
    {A \in Common(new, old) : \A B \in Common(new, old) : Extends(B, A) => B = A}

-----------------------------------------------------------------------------
\* find_dirty_paragraphs: what is in no equal block, or nowhere in the old text.
FindDirty(new, old, A) ==
    (DOMAIN new \ DOMAIN A) \cup {j \in DOMAIN new : \A k \in DOMAIN old : new[j] # old[k]}

\* sorted(dirty)
Sorted(dirty) ==
    CHOOSE order \in [1..Cardinality(dirty) -> dirty] :
        \A k, l \in DOMAIN order : k < l => order[k] < order[l]

\* Mutated form of AlignOld: the old translation is looked up by the new index.
AlignOldByPosition(A, oldRu) == [j \in {i \in DOMAIN A : i \in DOMAIN oldRu} |-> oldRu[j]]

\* map_unchanged_to_old, followed by the old translation at the old index.
AlignOld(A, oldRu) == [j \in {i \in DOMAIN A : A[i] \in DOMAIN oldRu} |-> oldRu[A[j]]]

\* Mutated form of Merge: the k-th dirty paragraph looks for translation k.
MergeByCount(new, dirty, translated, aligned) ==
    LET k(i) == Cardinality({d \in dirty : d <= i})
    IN [i \in DOMAIN new |->
          IF i \in dirty
            THEN IF k(i) \in DOMAIN translated THEN translated[k(i)] ELSE new[i]
          ELSE IF i \in DOMAIN aligned THEN aligned[i] ELSE new[i]]

\* merge_translations; a paragraph nobody translated stays as it is.
Merge(new, dirty, translated, aligned) ==
    [i \in DOMAIN new |->
        IF i \in dirty
          THEN IF i \in DOMAIN translated THEN translated[i] ELSE new[i]
        ELSE IF i \in DOMAIN aligned THEN aligned[i] ELSE new[i]]
=============================================================================
