----------------------------- MODULE Retrieval -----------------------------
(***************************************************************************)
(* What RetrievalPipeline (rekanvault/evidence/retrieval.py) does to       *)
(* ranked lists of hits: two of them are fused, and a list is freed of     *)
(* overlaps and capped.                                                    *)
(***************************************************************************)
EXTENDS Naturals, Sequences, FiniteSetsExt, Functions

CONSTANTS
    TopK,           \* top_k of the request
    Window,         \* blocks that count as one region: 10
    PerDocument,    \* the most results of one document: 5
    Top,            \* how many results are looked at for diversity: 10
    Scale           \* what makes the scores of the ranks whole numbers

ASSUME LimitsAssumption ==
    /\ {TopK, Window, PerDocument, Top} \subseteq Nat \ {0}
    /\ PerDocument < Top

RrfFanout == 15

\* part has the place of the hit: its block indexes and tokens.
Hit(d, part, tokens, source, score) ==
    [doc |-> d, start |-> part.start, end |-> part.end, first |-> part.first,
     last |-> part.last, tokens |-> tokens, source |-> source, score |-> score]

Cut(q, n) == SubSeq(q, 1, IF n < Len(q) THEN n ELSE Len(q))

\* n different elements of S, in some order.
Selections(S, n) == {q \in [1 .. n -> S] : IsInjective(q)}

\* list.sort(key = score, reverse = True), which is stable: the order of the elements of S.
Descending(order, score) ==
    \A m, n \in DOMAIN order :
       m < n => \/ score[order[m]] > score[order[n]]
                \/ score[order[m]] = score[order[n]] /\ order[m] < order[n]

----------------------------------------------------------------------------
(* _rrf_fuse *)

\* _rrf_key: an end of zero counts as none.
Region(h) ==
    LET end == IF h.end = 0 THEN h.start ELSE h.end
    IN  <<h.doc, ((h.start + end) \div 2) \div Window>>

\* 1 / (k + rank), k = 60, as a multiple of 1 / Scale.
Share(rank) == Scale \div (60 + rank)

At(hits, region) == {i \in DOMAIN hits : Region(hits[i]) = region}
Score(hits, region) == FoldSet(LAMBDA i, sum : sum + Share(i), 0, At(hits, region))

\* The hits that are the first of their region, in either list.
Heads(all) ==
    {i \in DOMAIN all : \A j \in DOMAIN all : j < i => Region(all[j]) # Region(all[i])}

\* What is shown of a region: the first lexical hit, or else the first dense one.  Every
\* hit in the region counts for its score.
Merged(lexical, dense, h) ==
    LET both == At(lexical, Region(h)) # {} /\ At(dense, Region(h)) # {}
    IN  Hit(h.doc, h, h.tokens, IF both THEN "both" ELSE h.source,
            Score(lexical, Region(h)) + Score(dense, Region(h)))

----------------------------------------------------------------------------
(* _dedup_overlap, _finalize *)

\* The end of a range, never before its start.
End(h) == IF h.end < h.start THEN h.start ELSE h.end
Overlaps(g, h) == g.start <= End(h) /\ h.start <= End(g)

\* Mutant of Kept: only the hit before is compared.
KeptFromNext(kept, h) ==
    IF kept # <<>> /\ kept[Len(kept)].doc = h.doc /\ Overlaps(kept[Len(kept)], h) THEN kept
    ELSE Append(kept, h)

\* Mutant of Kept: the documents are not compared.
KeptOfAny(kept, h) ==
    IF \E i \in DOMAIN kept : Overlaps(kept[i], h) THEN kept ELSE Append(kept, h)

Kept(kept, h) ==
    IF \E i \in DOMAIN kept : kept[i].doc = h.doc /\ Overlaps(kept[i], h) THEN kept
    ELSE Append(kept, h)

Of(q, doc) == {i \in DOMAIN q : q[i].doc = doc}
Docs(q) == {q[i].doc : i \in DOMAIN q}

\* Mutant of Capped: a document may have one more.
CappedLate(capped, h) ==
    IF Cardinality(Of(capped, h.doc)) <= PerDocument THEN Append(capped, h) ELSE capped

Capped(capped, h) ==
    IF Cardinality(Of(capped, h.doc)) < PerDocument THEN Append(capped, h) ELSE capped

\* The rescue: the best hit of another document, if all of the head is of one.
Rescued(capped, pool) ==
    LET head == Docs(Cut(capped, Top))
        others == {i \in DOMAIN pool : /\ pool[i].doc \notin head
                                       /\ Cardinality(Of(capped, pool[i].doc)) < PerDocument}
    IN  IF Len(capped) >= Top /\ Cardinality(head) < 2 /\ others # {}
        THEN Append(capped, pool[Min(others)]) ELSE capped
=============================================================================
