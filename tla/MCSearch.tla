------------------------------ MODULE MCSearch ------------------------------
(***************************************************************************)
(* Small instances of Search for TLC.                                      *)
(***************************************************************************)
EXTENDS Search, SequencesExt, TLC

Para(size) == [type |-> "paragraph", size |-> size, breaks |-> {}]
Heading(size) == [type |-> "heading", size |-> size, breaks |-> {}]
Broken(size, breaks) == [type |-> "paragraph", size |-> size, breaks |-> breaks]

\* Blocks of these sizes, one after the other.
Laid(blocks) ==
    [i \in DOMAIN blocks |->
        LET before == FoldLeft(LAMBDA n, b : n + b.size, 0, SubSeq(blocks, 1, i - 1))
        IN  [type |-> blocks[i].type, first |-> before + 1, last |-> before + blocks[i].size,
             breaks |-> {before + n : n \in blocks[i].breaks}]]

\* Neighbours that merge and some that do not, and an empty block; a block in three segments
\* behind a short one, whose hits lie in three regions; one in two segments before a short
\* one, which its tail takes; and an empty text.
SomeTexts ==
    {Laid(<<Heading(1), Para(2), Para(1), Heading(0)>>),
     Laid(<<Heading(1), Broken(12, {4})>>),
     Laid(<<Broken(6, {4}), Para(1)>>),
     <<>>}

DocumentSymmetry == Permutations(Documents)
=============================================================================
