------------------------------ MODULE Chunker ------------------------------
(***************************************************************************)
(* How the text of a version is cut into chunks                            *)
(* (rekanvault/evidence/chunker.py).  A text is a run of tokens, numbered  *)
(* through the document; a character is a token here, and the line breaks  *)
(* that join the parts of a chunk are not counted, as in the code.  The    *)
(* code first cuts the long blocks into segments and then plans chunks of  *)
(* what it has; here a segment is cut when it is its turn.  A step is one  *)
(* iteration of the loop over blocks or of the loop over windows.          *)
(***************************************************************************)
EXTENDS Naturals, Sequences

CONSTANTS
    Documents,
    Texts,          \* the texts a document may have: sequences of blocks
    BlockTypes,
    MaxTokens,      \* MAX_BLOCK_TOKENS, which is also WINDOW_TOKENS
    Overlap,        \* OVERLAP_TOKENS
    MaxChars,       \* MAX_BLOCK_CHARS
    SubIndex        \* the indexes a block has for its segments: 10_000

ASSUME SizesAssumption ==
    /\ MaxTokens \in Nat \ {0} /\ MaxChars \in Nat \ {0} /\ SubIndex \in Nat \ {0}
    /\ Overlap \in 0 .. MaxTokens - 1

\* A block holds the tokens first .. last, none if last = first - 1; breaks are the tokens
\* that end a line.
ContentBlock == [type : BlockTypes, first : Nat \ {0}, last : Nat, breaks : SUBSET Nat]
Size(part) == part.last + 1 - part.first

\* The blocks of a text follow each other: each begins behind all that come before it.
IsText(t) ==
    /\ t \in Seq(ContentBlock)
    /\ t # <<>> => t[1].first = 1
    /\ \A i \in DOMAIN t :
          /\ t[i].first <= t[i].last + 1
          /\ t[i].breaks \subseteq t[i].first .. t[i].last
          /\ i + 1 \in DOMAIN t => t[i + 1].first = t[i].last + 1
          /\ \A j \in DOMAIN t : i < j => t[i].last < t[j].first

ASSUME TextsAssumption == \A t \in Texts : IsText(t)

VARIABLES
    text,           \* text[d]: the blocks of the latest version of d
    chunks,         \* chunks[d]: planned; the place in the sequence is the number in the id
    at              \* at[d]: where the loops are in the text of d

\* The cursor: the block (counted from one), the segment in it (counted from zero) and its
\* first token, and the first token of the next window.
StartOfText == [block |-> 1, segment |-> 0, pos |-> 1, window |-> 1]

ChunkerInit ==
    /\ text \in [Documents -> Texts]
    /\ chunks = [d \in Documents |-> <<>>]
    /\ at = [d \in Documents |-> StartOfText]

Chunked(d) == at[d].block > Len(text[d])

----------------------------------------------------------------------------
(* _maybe_split_oversized: of the text t, with the cursor at a *)

\* A part of the text: its type, its first and last block index, its tokens.
Whole(t, i) ==
    [type |-> t[i].type, start |-> i - 1, end |-> i - 1, first |-> t[i].first, last |-> t[i].last]

IsLong(b) == Size(b) > MaxChars

Latest(S) == CHOOSE n \in S : \A m \in S : m <= n

\* The last token of the segment that begins at pos: the last line break in its second
\* half, if there is one, unless the block ends before.
SegmentEnd(b, pos) ==
    LET limit == pos + MaxChars - 1
        breaks == {n \in b.breaks : pos + (MaxChars \div 2) < n /\ n <= limit}
    IN  IF b.last <= limit THEN b.last
        ELSE IF breaks # {} THEN Latest(breaks) ELSE limit

\* What the loop over blocks has before it: a block, or a segment with an index of its own.
Part(t, a) ==
    LET b == t[a.block]
        index == (a.block - 1) * SubIndex + a.segment
    IN  IF IsLong(b)
        THEN [type |-> b.type, start |-> index, end |-> index,
              first |-> a.pos, last |-> SegmentEnd(b, a.pos)]
        ELSE Whole(t, a.block)

\* The cursor behind the part that begins at it.
Past(t, a) ==
    LET next == Part(t, a).last + 1
    IN  IF next <= t[a.block].last
        THEN [block |-> a.block, segment |-> a.segment + 1, pos |-> next, window |-> next]
        ELSE [block |-> a.block + 1, segment |-> 0, pos |-> next, window |-> next]

----------------------------------------------------------------------------
(* _plan_chunks *)

\* Whether a part goes into the last of the chunks c, which may be the tail of a block that
\* was split.
Merges(c, part) ==
    /\ c # <<>>
    /\ c[Len(c)].type = part.type
    /\ Size(c[Len(c)]) + Size(part) <= MaxTokens

\* _merge_or_emit
MergedOrEmitted(c, part) ==
    IF Merges(c, part) THEN [c EXCEPT ![Len(c)].last = part.last, ![Len(c)].end = part.end]
    ELSE Append(c, part)

MergeOrEmit(d) ==
    LET part == Part(text[d], at[d])
    IN  /\ ~Chunked(d)
        /\ Size(part) <= MaxTokens
        /\ chunks' = [chunks EXCEPT ![d] = MergedOrEmitted(chunks[d], part)]
        /\ at' = [at EXCEPT ![d] = Past(text[d], at[d])]
        /\ UNCHANGED text

Step == IF MaxTokens - Overlap > 1 THEN MaxTokens - Overlap ELSE 1

\* The window of a part that begins at the cursor.
WindowOf(part, a) ==
    LET end == a.window + MaxTokens - 1
    IN  [type |-> part.type, start |-> part.start, end |-> part.end,
         first |-> a.window, last |-> IF end < part.last THEN end ELSE part.last]

\* Mutant of PastWindow: a window begins at each step, also when the last has been reached.
PastEachWindow(t, a) ==
    IF a.window + Step > Part(t, a).last THEN Past(t, a)
    ELSE [a EXCEPT !.window = a.window + Step]

\* The cursor behind a window, which is the last of its part if it reaches its end.
PastWindow(t, a) ==
    IF WindowOf(Part(t, a), a).last = Part(t, a).last THEN Past(t, a)
    ELSE [a EXCEPT !.window = a.window + Step]

\* One window of _split_block.
SplitBlock(d) ==
    LET part == Part(text[d], at[d])
    IN  /\ ~Chunked(d)
        /\ Size(part) > MaxTokens
        /\ chunks' = [chunks EXCEPT ![d] = Append(chunks[d], WindowOf(part, at[d]))]
        /\ at' = [at EXCEPT ![d] = PastWindow(text[d], at[d])]
        /\ UNCHANGED text
=============================================================================
