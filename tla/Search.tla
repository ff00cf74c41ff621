------------------------------- MODULE Search -------------------------------
(***************************************************************************)
(* From the blocks of documents to the evidence of an answer: the versions *)
(* are chunked and indexed (IndexingPipeline), a query finds blocks in     *)
(* PostgreSQL and chunks in Qdrant (RetrievalPipeline.search), and what is *)
(* left of them is packed (EvidenceAssembler).  Which blocks and chunks    *)
(* match, in what order, and what the models score is open.  A step of the *)
(* request is a call, or one iteration of a loop over a list.              *)
(***************************************************************************)
EXTENDS Chunker, Retrieval

CONSTANTS
    MaxHits,        \* bound: the hits of each leg
    Scores,         \* the scores of the models
    TokenBudget     \* token_budget of build_context_pack

ASSUME HitsAssumption ==
    /\ MaxHits \in Nat /\ Scale \in Nat
    /\ \A rank \in 1 .. MaxHits : Scale % (60 + rank) = 0
ASSUME BudgetAssumption == TokenBudget \in Nat /\ Scores \subseteq Nat

VARIABLES
    phase,          \* what the request does next
    next,           \* the element the loop of the phase is at
    lexical, dense, \* lexical_hits, dense_hits
    fused, ranked,  \* fused, reranked
    kept, capped,   \* of _dedup_overlap and _finalize
    results,        \* what the search returns
    pack, used      \* selected, used of build_context_pack

vars == <<text, chunks, at, phase, next, lexical, dense, fused, ranked, kept, capped,
          results, pack, used>>
indexed == <<text, chunks, at>>
found == <<lexical, dense>>
packed == <<pack, used>>

Init ==
    /\ ChunkerInit
    /\ phase = "index" /\ next = 1
    /\ lexical = <<>> /\ dense = <<>> /\ fused = <<>> /\ ranked = <<>>
    /\ kept = <<>> /\ capped = <<>> /\ results = <<>>
    /\ pack = <<>> /\ used = 0

\* IndexingPipeline.index_version: chunk_version, and the chunks are stored.
Index ==
    /\ phase = "index"
    /\ \/ (\E d \in Documents : MergeOrEmit(d) \/ SplitBlock(d)) /\ UNCHANGED phase
       \/ (\A d \in Documents : Chunked(d)) /\ phase' = "lexical" /\ UNCHANGED indexed
    /\ UNCHANGED <<next, found, fused, ranked, kept, capped, results, packed>>

----------------------------------------------------------------------------

\* A block as PostgreSQL finds it: no token count, and never a segment of a block.
BlockHits ==
    UNION {{Hit(d, Whole(text[d], i), 0, "lexical", 0) :
               i \in {j \in DOMAIN text[d] : Size(text[d][j]) > 0}} : d \in Documents}
ChunkHits ==
    UNION {{Hit(d, chunks[d][k], Size(chunks[d][k]), "dense", 0) :
               k \in DOMAIN chunks[d]} : d \in Documents}

\* The ranked lists that a leg may return.
Rankings(S) == UNION {Selections(S, n) : n \in 0 .. MaxHits}

\* lexical_search: an error of the query is rolled back and is no hit.
LexicalSearch ==
    /\ phase = "lexical"
    /\ lexical' \in Rankings(BlockHits)
    /\ phase' = "dense"
    /\ UNCHANGED <<indexed, next, dense, fused, ranked, kept, capped, results, packed>>

\* dense_search: an error of the store is an error of the request.
DenseSearch ==
    /\ phase = "dense"
    /\ \/ dense' \in Rankings(ChunkHits) /\ phase' = "fuse"
       \/ phase' = "failed" /\ UNCHANGED dense
    /\ UNCHANGED <<indexed, next, lexical, fused, ranked, kept, capped, results, packed>>

\* _rrf_fuse; without a hit the answer is empty.
Fuse ==
    /\ phase = "fuse"
    /\ LET all == lexical \o dense
           heads == Heads(all)
           shown == [i \in heads |-> Merged(lexical, dense, all[i])]
       IN  \E order \in Selections(heads, Cardinality(heads)) :
              /\ Descending(order, [i \in heads |-> shown[i].score])
              /\ fused' = Cut([n \in DOMAIN order |-> shown[order[n]]], RrfFanout * TopK)
    /\ phase' = IF fused' = <<>> THEN "packed" ELSE "rerank"
    /\ UNCHANGED <<indexed, next, found, ranked, kept, capped, results, packed>>

\* _rerank: the model scores the candidates, their titles boost the scores, and both times
\* the best come first.  As the scores may be any, any candidates may be left, in any order.
Rerank ==
    /\ phase = "rerank"
    /\ LET left == IF TopK < Len(fused) THEN TopK ELSE Len(fused)
       IN  \E best \in Selections(DOMAIN fused, left), score \in [1 .. left -> Scores] :
              /\ \A m, n \in 1 .. left : m < n => score[m] >= score[n]
              /\ ranked' = [n \in 1 .. left |->
                              LET h == fused[best[n]]
                              IN  Hit(h.doc, h, h.tokens, h.source, score[n])]
    /\ phase' = "dedup"
    /\ UNCHANGED <<indexed, next, found, fused, kept, capped, results, packed>>

\* The loop of this phase goes on with the next element of q, or the next phase begins.
Iterates(q, after) ==
    IF next < Len(q) THEN next' = next + 1 /\ phase' = phase
    ELSE next' = 1 /\ phase' = after

\* _dedup_overlap
Deduplicate ==
    /\ phase = "dedup"
    /\ kept' = Kept(kept, ranked[next])
    /\ Iterates(ranked, "cap")
    /\ UNCHANGED <<indexed, found, fused, ranked, capped, results, packed>>

\* _finalize, its first loop
Cap ==
    /\ phase = "cap"
    /\ capped' = Capped(capped, kept[next])
    /\ Iterates(kept, "finalize")
    /\ UNCHANGED <<indexed, found, fused, ranked, kept, results, packed>>

\* The rest of _finalize.  The scores are scaled to [0, 1], which leaves their order as it is.
Finalize ==
    /\ phase = "finalize"
    /\ LET all == Rescued(capped, fused)
       IN  \E order \in Selections(DOMAIN all, Len(all)) :
              /\ Descending(order, [i \in DOMAIN all |-> all[i].score])
              /\ results' = [n \in DOMAIN order |-> all[order[n]]]
    /\ phase' = "pack"
    /\ UNCHANGED <<indexed, next, found, fused, ranked, kept, capped, packed>>


\* A chunk goes into the pack: the first one always, another if the budget allows it.
Fits(h) == pack = <<>> \/ used + h.tokens <= TokenBudget

\* assemble and build_context_pack, one chunk at a time: those of the best results, until one
\* does not fit or the budget is used up.
Pack ==
    /\ phase = "pack"
    /\ LET h == results[next]
           last == next = TopK \/ next = Len(results)
       IN  \/ /\ Fits(h)
              /\ pack' = Append(pack, h)
              /\ used' = used + h.tokens
              /\ IF used' >= TokenBudget \/ last THEN phase' = "packed" /\ UNCHANGED next
                 ELSE next' = next + 1 /\ UNCHANGED phase
           \/ ~Fits(h) /\ phase' = "packed" /\ UNCHANGED <<next, packed>>
    /\ UNCHANGED <<indexed, found, fused, ranked, kept, capped, results>>

Next ==
    \/ Index \/ LexicalSearch \/ DenseSearch \/ Fuse \/ Rerank
    \/ Deduplicate \/ Cap \/ Finalize \/ Pack

Spec == Init /\ [][Next]_vars

----------------------------------------------------------------------------

\* The chunks of a version are its text, from the first token to the last: none exceeds the
\* budget of the embedder, nothing is left out, nothing is in two of them but the overlap
\* between two windows of one block, and no window has only what the one before it has.
ChunksCoverText ==
    phase # "index" => \A d \in Documents :
       LET t == text[d]
           c == chunks[d]
           follows(k) ==
              \/ c[k + 1].first = c[k].last + 1
              \/ /\ c[k + 1].first = c[k].last + 1 - Overlap
                 /\ c[k].last < c[k + 1].last
                 /\ c[k].start = c[k].end /\ c[k].end = c[k + 1].start
       IN  IF t = <<>> THEN c = <<>>
           ELSE /\ c # <<>> /\ c[1].first = 1 /\ c[Len(c)].last = t[Len(t)].last
                /\ \A k \in DOMAIN c : Size(c[k]) <= MaxTokens
                /\ \A k \in 1 .. Len(c) - 1 : follows(k)

\* Nothing is dropped after the reranking without a reason: a candidate that is not among
\* the results overlaps one of its document that is no worse, or its document has as many
\* results as it may have and none of them is worse.
Returned == phase \in {"pack", "packed"} /\ results # <<>>
DropsAreJustified ==
    Returned =>
       \A c \in Range(ranked) \ Range(results) :
          LET better == {i \in Of(results, c.doc) : results[i].score >= c.score}
          IN  \/ \E i \in better : Overlaps(results[i], c)
              \/ Cardinality(better) = PerDocument

Tokens(h) == h.first .. h.last

\* A chunk of the index that begins inside a block so long that it was cut into segments:
\* it has the index of the segment, which says nothing of the block.
Displaced(h) ==
    /\ h.source = "dense"
    /\ \E i \in DOMAIN text[h.doc] :
          IsLong(text[h.doc][i]) /\ h.first \in Tokens(text[h.doc][i])

\* No token of a document is in two results, and no document has more than its share of
\* them, though the two legs find the same text under different ids.  The exception is a
\* chunk whose first index is that of a segment.
TextReturnedOnce ==
    Returned =>
       /\ \A d \in Documents : Cardinality(Of(results, d)) <= PerDocument
       /\ \A i, j \in DOMAIN results :
             /\ i # j /\ results[i].doc = results[j].doc
             /\ Tokens(results[i]) \cap Tokens(results[j]) # {}
             => Displaced(results[i]) \/ Displaced(results[j])

=============================================================================
