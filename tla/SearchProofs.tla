---------------------------- MODULE SearchProofs ----------------------------
(***************************************************************************)
(* Theorems about Search: the chunks of the index cover the texts, and the *)
(* results of a search drop and repeat nothing without a reason.           *)
(***************************************************************************)
EXTENDS Search, ProofLemmas

----------------------------------------------------------------------------
(* Chunking a text: of the text t there are the chunks c, the cursor is at a *)

Cursor == [block : Nat \ {0}, segment : Nat, pos : Nat \ {0}, window : Nat \ {0}]
ChunkType == [type : BlockTypes, start : Nat, end : Nat, first : Nat \ {0}, last : Nat]

AtEnd(t, a) == a.block > Len(t)
InWindows(a) == a.window # a.pos

CursorInv(t, a) ==
    /\ a \in Cursor
    /\ a.block <= Len(t) + 1
    /\ AtEnd(t, a) => /\ ~InWindows(a)
                      /\ t # <<>> => a.pos = t[Len(t)].last + 1
    /\ ~AtEnd(t, a) =>
          /\ t[a.block].first <= a.pos
          /\ IF IsLong(t[a.block]) THEN a.pos <= t[a.block].last ELSE a.pos = t[a.block].first
          /\ InWindows(a) => /\ Size(Part(t, a)) > MaxTokens
                             /\ a.window \in a.pos .. Part(t, a).last

\* Two neighbours among the chunks.
Follows(c, k) ==
    \/ c[k + 1].first = c[k].last + 1
    \/ /\ c[k + 1].first = c[k].last + 1 - Overlap
       /\ c[k].last < c[k + 1].last
       /\ c[k].start = c[k].end /\ c[k].end = c[k + 1].start

\* A window of a part.
IsWindow(chunk, part) ==
    chunk.start = part.start /\ chunk.end = part.start /\ chunk.last <= part.last

CoverInv(t, c, a) ==
    /\ c = <<>> => a.block = 1 /\ a.pos = 1 /\ ~InWindows(a)
    /\ c # <<>> =>
          /\ c[1].first = 1
          /\ ~InWindows(a) => c[Len(c)].last = a.pos - 1
    /\ InWindows(a) =>
          /\ c # <<>>
          /\ IsWindow(c[Len(c)], Part(t, a))
          /\ c[Len(c)].last = a.window + Overlap - 1
          /\ c[Len(c)].last < Part(t, a).last
    /\ \A k \in DOMAIN c : Size(c[k]) <= MaxTokens /\ c[k].first <= c[k].last + 1
    /\ \A k \in DOMAIN c : k + 1 \in DOMAIN c => Follows(c, k)

\* Chunks have no tokens in common unless they are windows of one part, but for the last of
\* them, which may go on behind the part.
PairsInv(t, c, a) ==
    /\ \A j, k \in DOMAIN c :
          j < k => \/ c[j].last < c[k].first
                   \/ (c[j].start = c[j].end /\ c[j].end = c[k].start)
    /\ \A k \in DOMAIN c :
          c[k].last < a.pos \/ (InWindows(a) /\ IsWindow(c[k], Part(t, a)))

\* A chunk spans the blocks i to j of the text: what its indexes say of them.
Spans(t, chunk, i, j) ==
    /\ i <= j
    /\ t[i].first <= chunk.first /\ chunk.last <= t[j].last
    /\ j - 1 <= chunk.end
    /\ IF IsLong(t[i]) THEN chunk.first <= t[i].last ELSE chunk.start = i - 1

SpansInv(t, c, a) ==
    \A k \in DOMAIN c : \E i, j \in DOMAIN t : j <= a.block /\ Spans(t, c[k], i, j)

ChunkingInv(t, c, a) ==
    /\ c \in Seq(ChunkType)
    /\ CursorInv(t, a)
    /\ CoverInv(t, c, a)
    /\ PairsInv(t, c, a)
    /\ SpansInv(t, c, a)

----------------------------------------------------------------------------

\* A segment ends in its block, at its first token or behind it.
LEMMA SegmentEnds ==
    ASSUME NEW b \in ContentBlock, NEW pos \in b.first .. b.last
    PROVE  SegmentEnd(b, pos) \in pos .. b.last
  <1> DEFINE limit == pos + MaxChars - 1
             half == MaxChars \div 2
             breaks == {n \in b.breaks : pos + half < n /\ n <= limit}
  <1>1. b.first \in Nat \ {0} /\ b.last \in Nat /\ b.breaks \subseteq Nat /\ pos \in Nat \ {0}
    BY DEF ContentBlock
  <1>2. MaxChars \in Nat \ {0} /\ half \in Nat
    BY SizesAssumption
  <1>3. SegmentEnd(b, pos) = IF b.last <= limit THEN b.last
                             ELSE IF breaks # {} THEN Latest(breaks) ELSE limit
    BY DEF SegmentEnd
  <1> HIDE DEF half
  <1>4. ASSUME breaks # {} PROVE Latest(breaks) \in pos .. limit
    <2>1. breaks \in SUBSET (1 .. limit) /\ limit \in Nat
      BY <1>1, <1>2
    <2>2. \E n \in breaks : \A m \in breaks : m <= n
      <3> HIDE DEF breaks, limit
      <3> QED
        BY <1>4, <2>1, LastExists
    <2>3. Latest(breaks) \in breaks
      <3> HIDE DEF breaks
      <3> QED
        BY <2>2 DEF Latest
    <2> QED
      BY <1>1, <1>2, <2>3
  <1> HIDE DEF breaks
  <1> QED
    BY <1>1, <1>2, <1>3, <1>4

\* What there is to know of the part at the cursor.
LEMMA PartFacts ==
    ASSUME NEW t, IsText(t), NEW a, CursorInv(t, a), ~AtEnd(t, a)
    PROVE  /\ a.block \in DOMAIN t
           /\ t[a.block] \in ContentBlock
           /\ Part(t, a) \in ChunkType
           /\ Part(t, a).first = a.pos
           /\ Part(t, a).end = Part(t, a).start
           /\ a.block - 1 <= Part(t, a).start
           /\ a.pos <= Part(t, a).last + 1
           /\ Part(t, a).last <= t[a.block].last
           /\ IF IsLong(t[a.block]) THEN a.pos <= Part(t, a).last
              ELSE Part(t, a).last = t[a.block].last /\ Part(t, a).start = a.block - 1
  <1> DEFINE b == t[a.block]
  <1>1. a.block \in DOMAIN t /\ a \in Cursor
    BY DEF IsText, CursorInv, AtEnd, Cursor
  <1>2. b \in ContentBlock /\ b.first <= b.last + 1
    BY <1>1 DEF IsText
  <1>3. /\ a.block \in Nat \ {0} /\ a.segment \in Nat /\ a.pos \in Nat \ {0}
        /\ b.type \in BlockTypes /\ b.first \in Nat \ {0} /\ b.last \in Nat
    BY <1>1, <1>2 DEF Cursor, ContentBlock
  <1>4. CASE IsLong(b)
    <2> DEFINE index == (a.block - 1) * SubIndex + a.segment
               end == SegmentEnd(b, a.pos)
    <2>1. a.pos \in b.first .. b.last
      BY <1>3, <1>4 DEF CursorInv
    <2>2. end \in a.pos .. b.last
      BY <1>2, <2>1, SegmentEnds
    <2>3. index \in Nat /\ a.block - 1 <= index
      <3>1. \A m, n \in Nat : n # 0 => m * n \in Nat /\ m <= m * n
        OBVIOUS
      <3>2. (a.block - 1) * SubIndex \in Nat /\ a.block - 1 <= (a.block - 1) * SubIndex
        BY <1>3, <3>1, SizesAssumption
      <3> QED
        BY <1>3, <3>2
    <2>4. Part(t, a) = [type |-> b.type, start |-> index, end |-> index,
                        first |-> a.pos, last |-> end]
      BY <1>4 DEF Part
    <2> HIDE DEF index, end
    <2> QED
      BY <1>1, <1>2, <1>3, <1>4, <2>2, <2>3, <2>4 DEF ChunkType
  <1>5. CASE ~IsLong(b)
    <2>1. Part(t, a) = Whole(t, a.block)
      BY <1>5 DEF Part
    <2>2. a.pos = b.first
      BY <1>5 DEF CursorInv
    <2> QED
      BY <1>1, <1>2, <1>3, <1>5, <2>1, <2>2 DEF ChunkType, Whole
  <1> QED
    BY <1>4, <1>5

\* The cursor behind a part is where the text goes on.
LEMMA PastFacts ==
    ASSUME NEW t, IsText(t), NEW a, CursorInv(t, a), ~AtEnd(t, a)
    PROVE  /\ CursorInv(t, Past(t, a))
           /\ ~InWindows(Past(t, a))
           /\ Past(t, a).pos = Part(t, a).last + 1
           /\ a.block <= Past(t, a).block
  <1> DEFINE b == t[a.block]
             p == Part(t, a)
             z == Past(t, a)
             go == p.last + 1
  <1>1. /\ a.block \in DOMAIN t /\ b \in ContentBlock /\ p \in ChunkType
        /\ a.pos <= p.last + 1 /\ p.last <= b.last
        /\ IF IsLong(b) THEN a.pos <= p.last ELSE p.last = b.last
    BY PartFacts
  <1>2. /\ a.block \in Nat \ {0} /\ a.segment \in Nat /\ a.pos \in Nat \ {0} /\ b.first <= a.pos
    BY DEF CursorInv, Cursor
  <1>3. /\ b.first \in Nat \ {0} /\ b.last \in Nat /\ p.last \in Nat /\ go \in Nat \ {0}
    BY <1>1 DEF ContentBlock, ChunkType
  <1>4. z = IF go <= b.last
            THEN [block |-> a.block, segment |-> a.segment + 1, pos |-> go, window |-> go]
            ELSE [block |-> a.block + 1, segment |-> 0, pos |-> go, window |-> go]
    BY DEF Past
  <1>5. z \in Cursor /\ z.pos = go /\ z.window = go /\ z.block \in {a.block, a.block + 1}
    BY <1>2, <1>3, <1>4 DEF Cursor
  <1>6. CursorInv(t, z)
    <2>1. CASE go <= b.last
      <3>1. z.block = a.block /\ IsLong(b)
        BY <1>1, <1>3, <1>4, <2>1
      <3> HIDE DEF z, p, b
      <3>2. ~AtEnd(t, z) /\ t[z.block] = b
        BY <3>1 DEF AtEnd, b
      <3>3. b.first <= z.pos
        BY <1>1, <1>2, <1>3, <1>5, <3>1
      <3> QED
        BY <1>1, <1>5, <2>1, <3>1, <3>2, <3>3 DEF CursorInv, InWindows, AtEnd, IsText
    <2>2. CASE ~(go <= b.last)
      <3>1. z.block = a.block + 1 /\ go = b.last + 1
        BY <1>1, <1>3, <1>4, <2>2
      <3> HIDE DEF z, p
      <3>2. CASE a.block = Len(t)
        BY <1>1, <1>5, <3>1, <3>2 DEF CursorInv, InWindows, AtEnd, IsText
      <3>3. CASE a.block # Len(t)
        <4>1. z.block \in DOMAIN t /\ ~AtEnd(t, z)
          BY <1>1, <1>2, <3>1, <3>3 DEF IsText, AtEnd
        <4>2. t[z.block].first = z.pos /\ t[z.block] \in ContentBlock
          BY <1>1, <1>5, <3>1, <4>1 DEF IsText
        <4>3. IsLong(t[z.block]) => z.pos <= t[z.block].last
          BY <4>2, SizesAssumption DEF IsLong, Size, ContentBlock
        <4> QED
          BY <1>1, <1>5, <4>1, <4>2, <4>3 DEF CursorInv, InWindows, AtEnd, IsText, ContentBlock
      <3> QED
        BY <3>2, <3>3
    <2> QED
      BY <2>1, <2>2
  <1> QED
    BY <1>2, <1>4, <1>5, <1>6 DEF InWindows

\* A text is chunked, one step of it: a part is merged into the last chunk or is one.
LEMMA EmitKeeps ==
    ASSUME NEW t, IsText(t), NEW c, NEW a, ChunkingInv(t, c, a), ~AtEnd(t, a),
           Size(Part(t, a)) <= MaxTokens
    PROVE  ChunkingInv(t, MergedOrEmitted(c, Part(t, a)), Past(t, a))
  <1> DEFINE b == t[a.block]
             p == Part(t, a)
             z == Past(t, a)
             n == Len(c)
             e == MergedOrEmitted(c, p)
  <1>1. /\ a.block \in DOMAIN t /\ p \in ChunkType
        /\ p.first = a.pos /\ p.end = p.start /\ a.block - 1 <= p.start
        /\ a.pos <= p.last + 1 /\ p.last <= b.last /\ b.first <= a.pos
        /\ IF IsLong(b) THEN a.pos <= p.last ELSE p.start = a.block - 1
    BY PartFacts DEF ChunkingInv, CursorInv
  <1>2. CursorInv(t, z) /\ ~InWindows(z) /\ z.pos = p.last + 1 /\ a.block <= z.block
    BY PastFacts DEF ChunkingInv
  <1>3. ~InWindows(a)
    BY <1>1, SizesAssumption DEF ChunkingInv, CursorInv, ChunkType, Size
  <1>4. c \in Seq(ChunkType) /\ n \in Nat /\ DOMAIN c = 1 .. n /\ CoverInv(t, c, a) /\ PairsInv(t, c, a)
    BY DEF ChunkingInv
  <1>5. /\ a.block \in Nat \ {0} /\ a.pos \in Nat \ {0}
        /\ p.first \in Nat \ {0} /\ p.last \in Nat /\ p.start \in Nat /\ p.end \in Nat
        /\ MaxTokens \in Nat /\ b.first \in Nat /\ b.last \in Nat
    BY <1>1, PartFacts, SizesAssumption DEF ChunkingInv, CursorInv, Cursor, ChunkType, ContentBlock
  <1>6. ASSUME NEW k \in 1 .. n
        PROVE  /\ c[k].first \in Nat /\ c[k].last \in Nat /\ c[k].start \in Nat /\ c[k].end \in Nat
               /\ c[k].last < a.pos
    <2>1. c[k] \in ChunkType
      BY <1>4
    <2> QED
      BY <1>3, <1>4, <2>1 DEF PairsInv, ChunkType
  <1>7. Spans(t, p, a.block, a.block)
    BY <1>1, <1>5 DEF Spans
  <1>8. \A k \in 1 .. n : \E i, j \in DOMAIN t : j <= a.block /\ Spans(t, c[k], i, j)
    BY <1>4 DEF ChunkingInv, SpansInv
  <1>9. z.pos \in Nat /\ z.block \in Nat
    BY <1>2 DEF CursorInv, Cursor
  <1>10. CASE Merges(c, p)
    <2>1. n > 0 /\ Size(c[n]) + Size(p) <= MaxTokens
      BY <1>4, <1>10 DEF Merges
    <2> DEFINE m == [c[n] EXCEPT !.last = p.last, !.end = p.end]
    <2>2. /\ m \in ChunkType
          /\ m.start = c[n].start /\ m.first = c[n].first /\ m.last = p.last /\ m.end = p.end
      <3>1. c[n] \in ChunkType
        BY <1>4, <2>1
      <3> QED
        BY <1>1, <1>5, <3>1 DEF ChunkType
    <2>3. e = [c EXCEPT ![n] = m]
      BY <1>4, <1>10, <2>1 DEF MergedOrEmitted
    <2> HIDE DEF m, e, z, p, b, n
    <2>10. /\ n \in 1 .. n /\ n \in Nat /\ c[n].first \in Nat /\ c[n].last \in Nat
           /\ a.pos <= p.last + 1 /\ p.first = a.pos
      BY <1>1, <1>4, <1>6, <2>1
    <2>4. /\ e \in Seq(ChunkType) /\ Len(e) = n /\ DOMAIN e = 1 .. n /\ e # <<>>
          /\ e[n] = m /\ \A k \in 1 .. n - 1 : e[k] = c[k]
      BY <1>4, <2>1, <2>2, <2>3
    <2>11. ASSUME NEW k \in 1 .. n
           PROVE  /\ e[k].first = c[k].first /\ e[k].start = c[k].start
                  /\ c[k].last <= e[k].last /\ e[k].last \in Nat
      <3>1. c[k].last \in Nat /\ c[k].last < a.pos
        BY <1>6
      <3>2. CASE k = n
        <4>1. e[k].first = c[k].first /\ e[k].start = c[k].start /\ e[k].last = p.last
          BY <2>2, <2>4, <3>2
        <4>2. c[k].last <= p.last
          BY <1>5, <2>10, <3>1
        <4> QED
          BY <1>5, <4>1, <4>2
      <3>3. CASE k # n
        <4>1. k \in 1 .. n - 1
          BY <2>10, <3>3
        <4>2. e[k] = c[k]
          BY <2>4, <4>1
        <4> QED
          BY <3>1, <4>2
      <3> QED
        BY <3>2, <3>3
    <2>5. c[n].last = a.pos - 1 /\ c[1].first = 1 /\ c[n].first <= c[n].last + 1
      BY <1>3, <1>4, <2>1 DEF CoverInv
    <2>6. CoverInv(t, e, z)
      <3>1. e[1].first = 1
        BY <2>1, <2>2, <2>4, <2>5
      <3>2. e[n].last = z.pos - 1
        BY <1>2, <1>5, <2>2, <2>4
      <3>3. Size(m) <= MaxTokens /\ m.first <= m.last + 1
        BY <1>5, <2>1, <2>2, <2>5, <2>10 DEF Size
      <3>4. ASSUME NEW k \in 1 .. n PROVE Size(e[k]) <= MaxTokens /\ e[k].first <= e[k].last + 1
        BY <1>4, <2>4, <3>3 DEF CoverInv
      <3>5. ASSUME NEW k \in 1 .. n - 1 PROVE Follows(e, k)
        <4>1. Follows(c, k)
          BY <1>4 DEF CoverInv
        <4>2. k \in 1 .. n /\ k + 1 \in 1 .. n
          BY <2>10
        <4>3. e[k] = c[k]
          BY <2>4
        <4>4. /\ e[k + 1].first = c[k + 1].first /\ e[k + 1].start = c[k + 1].start
              /\ c[k + 1].last <= e[k + 1].last /\ e[k + 1].last \in Nat
          BY <2>11, <4>2
        <4>5. c[k].last \in Nat /\ c[k + 1].last \in Nat
          BY <1>6, <4>2
        <4>6. CASE c[k].last < c[k + 1].last
          <5>1. c[k].last < e[k + 1].last
            BY <4>4, <4>5, <4>6
          <5> QED
            BY <4>1, <4>3, <4>4, <5>1 DEF Follows
        <4>7. CASE ~(c[k].last < c[k + 1].last)
          BY <4>1, <4>3, <4>4, <4>7 DEF Follows
        <4> QED
          BY <4>6, <4>7
      <3> QED
        BY <1>2, <2>1, <2>4, <3>1, <3>2, <3>4, <3>5 DEF CoverInv
    <2>7. PairsInv(t, e, z)
      <3>1. ASSUME NEW j \in 1 .. n, NEW k \in 1 .. n, j < k
            PROVE  e[j].last < e[k].first \/ (e[j].start = e[j].end /\ e[j].end = e[k].start)
        <4>1. j \in 1 .. n - 1
          BY <2>10, <3>1
        <4>2. e[j] = c[j] /\ e[k].first = c[k].first /\ e[k].start = c[k].start
          BY <2>4, <2>11, <4>1
        <4> QED
          BY <1>4, <3>1, <4>2 DEF PairsInv
      <3>2. ASSUME NEW k \in 1 .. n PROVE e[k].last < z.pos
        <4>1. k \in Nat /\ (k = n \/ k \in 1 .. n - 1)
          BY <2>10
        <4> QED
          BY <1>2, <1>5, <1>6, <2>2, <2>4, <2>10, <4>1
      <3> QED
        BY <2>4, <3>1, <3>2 DEF PairsInv
    <2>8. SpansInv(t, e, z)
      <3>1. ASSUME NEW k \in 1 .. n
            PROVE  \E i, j \in DOMAIN t : j <= z.block /\ Spans(t, e[k], i, j)
        <4>1. PICK i \in DOMAIN t, j \in DOMAIN t : j <= a.block /\ Spans(t, c[k], i, j)
          BY <1>8
        <4>2. i \in Nat /\ j \in Nat
          BY DEF IsText
        <4>3. CASE k # n
          <5>1. k \in 1 .. n - 1
            BY <2>10, <4>3
          <5>2. e[k] = c[k]
            BY <2>4, <5>1
          <5>3. a.block \in Nat /\ a.block <= z.block
            BY <1>2, <1>5, <1>6, <1>9
          <5>4. j <= z.block
            BY <1>9, <4>1, <4>2, <5>3
          <5> QED
            BY <4>1, <5>2, <5>4
        <4>4. CASE k = n
          <5>1. Spans(t, m, i, a.block)
            BY <1>1, <1>5, <2>2, <4>1, <4>2, <4>4 DEF Spans, b
          <5> QED
            BY <1>1, <1>2, <2>4, <4>4, <5>1
        <4> QED
          BY <4>3, <4>4
      <3> QED
        BY <2>4, <3>1 DEF SpansInv
    <2> QED
      BY <1>2, <2>4, <2>6, <2>7, <2>8 DEF ChunkingInv, e, z, p
  <1>11. CASE ~Merges(c, p)
    <2>1. e = Append(c, p)
      BY <1>11 DEF MergedOrEmitted
    <2> HIDE DEF e, z, p, b, n
    <2>2. /\ e \in Seq(ChunkType) /\ Len(e) = n + 1 /\ DOMAIN e = 1 .. n + 1 /\ e # <<>>
          /\ e[n + 1] = p /\ \A k \in 1 .. n : e[k] = c[k]
      BY <1>1, <1>4, <2>1
    <2>3. CoverInv(t, e, z)
      <3>1. e[1].first = 1
        BY <1>1, <1>3, <1>4, <2>2 DEF CoverInv
      <3>2. ASSUME NEW k \in 1 .. n + 1
            PROVE  Size(e[k]) <= MaxTokens /\ e[k].first <= e[k].last + 1
        BY <1>1, <1>4, <2>2 DEF CoverInv, p
      <3>3. ASSUME NEW k \in 1 .. n PROVE Follows(e, k)
        <4>1. CASE k = n
          BY <1>1, <1>3, <1>4, <1>5, <2>2, <4>1 DEF CoverInv, Follows
        <4>2. CASE k # n
          <5>1. Follows(c, k)
            BY <1>4, <4>2 DEF CoverInv
          <5>2. e[k] = c[k] /\ e[k + 1] = c[k + 1]
            BY <1>4, <2>2, <4>2
          <5> QED
            BY <5>1, <5>2 DEF Follows
        <4> QED
          BY <4>1, <4>2
      <3> QED
        BY <1>2, <1>4, <1>5, <2>2, <3>1, <3>2, <3>3 DEF CoverInv
    <2>4. PairsInv(t, e, z)
      <3>1. ASSUME NEW j \in 1 .. n + 1, NEW k \in 1 .. n + 1, j < k
            PROVE  e[j].last < e[k].first \/ (e[j].start = e[j].end /\ e[j].end = e[k].start)
        <4>1. j \in 1 .. n /\ e[j] = c[j]
          BY <1>4, <2>2, <3>1
        <4>2. CASE k = n + 1
          BY <1>1, <1>6, <2>2, <4>1, <4>2
        <4>3. CASE k # n + 1
          BY <1>4, <2>2, <3>1, <4>1, <4>3 DEF PairsInv
        <4> QED
          BY <4>2, <4>3
      <3>2. ASSUME NEW k \in 1 .. n + 1 PROVE e[k].last < z.pos
        <4>1. CASE k = n + 1
          BY <1>2, <1>5, <2>2, <4>1
        <4>2. CASE k # n + 1
          <5>1. k \in 1 .. n /\ e[k] = c[k]
            BY <1>4, <2>2, <4>2
          <5> QED
            BY <1>1, <1>2, <1>5, <1>6, <5>1
        <4> QED
          BY <4>1, <4>2
      <3> QED
        BY <2>2, <3>1, <3>2 DEF PairsInv
    <2>5. SpansInv(t, e, z)
      <3>1. ASSUME NEW k \in 1 .. n + 1
            PROVE  \E i, j \in DOMAIN t : j <= z.block /\ Spans(t, e[k], i, j)
        <4>1. CASE k = n + 1
          BY <1>1, <1>2, <1>7, <2>2, <4>1
        <4>2. CASE k # n + 1
          <5>1. PICK i \in DOMAIN t, j \in DOMAIN t : j <= a.block /\ Spans(t, c[k], i, j)
            BY <1>4, <1>8, <4>2
          <5>2. j <= z.block
            BY <1>2, <1>5, <1>9, <5>1 DEF IsText
          <5>3. e[k] = c[k]
            BY <1>4, <2>2, <4>2
          <5> QED
            BY <5>1, <5>2, <5>3
        <4> QED
          BY <4>1, <4>2
      <3> QED
        BY <2>2, <3>1 DEF SpansInv
    <2> QED
      BY <1>2, <2>2, <2>3, <2>4, <2>5 DEF ChunkingInv, e, z, p
  <1> QED
    BY <1>10, <1>11

\* A text is chunked, one step of it: a window of a part is a chunk.
LEMMA WindowKeeps ==
    ASSUME NEW t, IsText(t), NEW c, NEW a, ChunkingInv(t, c, a), ~AtEnd(t, a),
           Size(Part(t, a)) > MaxTokens
    PROVE  ChunkingInv(t, Append(c, WindowOf(Part(t, a), a)), PastWindow(t, a))
  <1> DEFINE b == t[a.block]
             p == Part(t, a)
             w == WindowOf(p, a)
             z == PastWindow(t, a)
             n == Len(c)
             e == Append(c, w)
  <1>1. /\ a.block \in DOMAIN t /\ p \in ChunkType /\ b \in ContentBlock
        /\ p.first = a.pos /\ p.end = p.start /\ a.block - 1 <= p.start
        /\ a.pos <= p.last + 1 /\ p.last <= b.last /\ b.first <= a.pos
        /\ IF IsLong(b) THEN a.pos <= p.last ELSE p.start = a.block - 1
    BY PartFacts DEF ChunkingInv, CursorInv
  <1>2. /\ a \in Cursor /\ a.block \in Nat \ {0} /\ a.pos \in Nat \ {0} /\ a.window \in Nat \ {0}
        /\ p.type \in BlockTypes
        /\ p.first \in Nat \ {0} /\ p.last \in Nat /\ p.start \in Nat /\ p.end \in Nat
        /\ b.first \in Nat /\ b.last \in Nat
    BY <1>1 DEF ChunkingInv, CursorInv, Cursor, ChunkType, ContentBlock
  <1>3. MaxTokens \in Nat \ {0} /\ Overlap \in Nat /\ Overlap < MaxTokens /\ Step = MaxTokens - Overlap
    BY SizesAssumption DEF Step
  <1>4. /\ c \in Seq(ChunkType) /\ n \in Nat /\ DOMAIN c = 1 .. n
        /\ CursorInv(t, a) /\ CoverInv(t, c, a) /\ PairsInv(t, c, a)
    BY DEF ChunkingInv
  <1>5. p.last + 1 - p.first > MaxTokens
    BY DEF Size
  <1>6. a.pos <= a.window /\ a.window <= p.last
    <2>1. CASE InWindows(a)
      BY <1>2, <1>4, <2>1 DEF CursorInv
    <2>2. CASE ~InWindows(a)
      BY <1>1, <1>2, <1>3, <1>5, <2>2 DEF InWindows
    <2> QED
      BY <2>1, <2>2
  <1>7. /\ w = [type |-> p.type, start |-> p.start, end |-> p.end, first |-> a.window, last |-> w.last]
        /\ w.last = IF a.window + MaxTokens - 1 < p.last THEN a.window + MaxTokens - 1 ELSE p.last
    BY DEF WindowOf
  <1>8. /\ w.start = p.start /\ w.end = p.start /\ w.first = a.window
        /\ a.window <= w.last /\ w.last <= p.last /\ w.last \in Nat
        /\ w.last + 1 - a.window <= MaxTokens
        /\ w \in ChunkType
    <2> HIDE DEF w, p
    <2>1. w.start = p.start /\ w.end = p.start /\ w.first = a.window
      BY <1>1, <1>7
    <2>2. a.window <= w.last /\ w.last <= p.last /\ w.last \in Nat /\ w.last + 1 - a.window <= MaxTokens
      BY <1>2, <1>3, <1>6, <1>7
    <2> QED
      BY <1>2, <1>7, <2>1, <2>2 DEF ChunkType
  <1> HIDE DEF w, n, e
  <1>9. /\ e \in Seq(ChunkType) /\ Len(e) = n + 1 /\ DOMAIN e = 1 .. n + 1 /\ e # <<>>
        /\ e[n + 1] = w /\ \A k \in 1 .. n : e[k] = c[k]
    BY <1>4, <1>8 DEF e, n
  <1>10. ASSUME NEW k \in 1 .. n
         PROVE  /\ c[k].first \in Nat /\ c[k].last \in Nat /\ c[k].start \in Nat /\ c[k].end \in Nat
                /\ c[k].last < a.pos \/ IsWindow(c[k], p)
    <2>1. c[k] \in ChunkType
      BY <1>4
    <2> QED
      BY <1>4, <2>1 DEF PairsInv, ChunkType
  <1>11. ASSUME NEW k \in 1 .. n + 1
         PROVE  \E i, j \in DOMAIN t : j <= a.block /\ Spans(t, e[k], i, j)
    <2>1. CASE k = n + 1
      <3>1. Spans(t, w, a.block, a.block)
        <4> HIDE DEF p
        <4> QED
          BY <1>1, <1>2, <1>6, <1>8 DEF Spans, b
      <3> QED
        BY <1>1, <1>2, <1>9, <2>1, <3>1
    <2>2. CASE k # n + 1
      <3>1. k \in 1 .. n /\ e[k] = c[k]
        BY <1>4, <1>9, <2>2
      <3> QED
        BY <1>4, <3>1 DEF ChunkingInv, SpansInv
    <2> QED
      BY <2>1, <2>2
  <1>12. ASSUME NEW j \in 1 .. n + 1, NEW k \in 1 .. n + 1, j < k
         PROVE  e[j].last < e[k].first \/ (e[j].start = e[j].end /\ e[j].end = e[k].start)
    <2>1. j \in 1 .. n /\ e[j] = c[j]
      BY <1>4, <1>9, <1>12
    <2>2. CASE k = n + 1
      <3>1. e[k].first = a.window /\ e[k].start = p.start
        BY <1>8, <1>9, <2>2
      <3> HIDE DEF p
      <3> QED
        BY <1>2, <1>6, <1>10, <2>1, <3>1 DEF IsWindow
    <2>3. CASE k # n + 1
      BY <1>4, <1>9, <1>12, <2>1, <2>3 DEF PairsInv
    <2> QED
      BY <2>2, <2>3
  <1>13. ASSUME NEW k \in 1 .. n + 1
         PROVE  Size(e[k]) <= MaxTokens /\ e[k].first <= e[k].last + 1
    <2>1. CASE k = n + 1
      BY <1>2, <1>8, <1>9, <2>1 DEF Size
    <2>2. CASE k # n + 1
      <3>1. k \in 1 .. n /\ e[k] = c[k]
        BY <1>4, <1>9, <2>2
      <3> QED
        BY <1>4, <3>1 DEF CoverInv
    <2> QED
      BY <2>1, <2>2
  <1>14. ASSUME NEW k \in 1 .. n PROVE Follows(e, k)
    <2>1. CASE k = n
      <3>1. n \in 1 .. n /\ c # <<>> /\ e[k] = c[n] /\ e[k + 1] = w
        BY <1>4, <1>9, <2>1
      <3>2. CASE InWindows(a)
        <4>1. /\ IsWindow(c[n], p) /\ c[n].last = a.window + Overlap - 1 /\ c[n].last < p.last
          BY <1>4, <3>2 DEF CoverInv, n
        <4>2. c[n].last < w.last
          <5> HIDE DEF p
          <5> QED
            BY <1>2, <1>3, <1>7, <4>1
        <4> HIDE DEF p
        <4>3. w.first = c[n].last + 1 - Overlap
          BY <1>2, <1>3, <1>8, <4>1
        <4> QED
          BY <1>8, <3>1, <4>1, <4>2, <4>3 DEF IsWindow, Follows
      <3>3. CASE ~InWindows(a)
        <4>1. c[n].last = a.pos - 1 /\ a.window = a.pos
          BY <1>4, <3>1, <3>3 DEF CoverInv, InWindows, n
        <4> QED
          BY <1>2, <1>8, <3>1, <4>1 DEF Follows
      <3> QED
        BY <3>2, <3>3
    <2>2. CASE k # n
      <3>1. k + 1 \in 1 .. n
        BY <1>4, <2>2
      <3>2. Follows(c, k)
        BY <1>4, <3>1 DEF CoverInv
      <3>3. e[k] = c[k] /\ e[k + 1] = c[k + 1]
        BY <1>9, <3>1
      <3> QED
        BY <3>2, <3>3 DEF Follows
    <2> QED
      BY <2>1, <2>2
  <1>15. e[1].first = 1
    <2>1. CASE n = 0
      <3>1. c = <<>>
        BY <1>4, <2>1 DEF n
      <3>2. a.window = 1
        BY <1>4, <3>1 DEF CoverInv, InWindows
      <3> QED
        BY <1>8, <1>9, <2>1, <3>2
    <2>2. CASE n # 0
      <3>1. c # <<>> /\ 1 \in 1 .. n
        BY <1>4, <2>2
      <3> QED
        BY <1>4, <1>9, <3>1 DEF CoverInv
    <2> QED
      BY <2>1, <2>2
  <1>16. /\ \A k \in DOMAIN e : Size(e[k]) <= MaxTokens /\ e[k].first <= e[k].last + 1
         /\ \A k \in DOMAIN e : k + 1 \in DOMAIN e => Follows(e, k)
         /\ e[Len(e)] = w
    <2>1. ASSUME NEW k \in DOMAIN e, k + 1 \in DOMAIN e PROVE k \in 1 .. n
      BY <1>4, <1>9, <2>1
    <2> QED
      BY <1>9, <1>13, <1>14, <2>1
  <1>17. CASE w.last = p.last
    <2>1. z = Past(t, a)
      BY <1>17 DEF PastWindow, w
    <2>2. CursorInv(t, z) /\ ~InWindows(z) /\ z.pos = p.last + 1 /\ a.block <= z.block
      BY <1>4, <2>1, PastFacts
    <2>3. z.block \in Nat
      BY <2>2 DEF CursorInv, Cursor
    <2> HIDE DEF z, p
    <2>4. CoverInv(t, e, z)
      <3>1. w.last = z.pos - 1
        BY <1>2, <1>17, <2>2
      <3> QED
        BY <1>9, <1>15, <1>16, <2>2, <3>1 DEF CoverInv
    <2>5. ASSUME NEW k \in 1 .. n + 1 PROVE e[k].last < z.pos
      <3>1. CASE k = n + 1
        BY <1>2, <1>9, <1>17, <2>2, <3>1
      <3>2. CASE k # n + 1
        <4>1. k \in 1 .. n /\ e[k] = c[k]
          BY <1>4, <1>9, <3>2
        <4> QED
          BY <1>1, <1>2, <1>10, <2>2, <4>1 DEF IsWindow
      <3> QED
        BY <3>1, <3>2
    <2>6. SpansInv(t, e, z)
      <3>1. ASSUME NEW k \in 1 .. n + 1
            PROVE  \E i, j \in DOMAIN t : j <= z.block /\ Spans(t, e[k], i, j)
        <4>1. PICK i \in DOMAIN t, j \in DOMAIN t : j <= a.block /\ Spans(t, e[k], i, j)
          BY <1>11
        <4>2. j <= z.block
          BY <1>2, <2>2, <2>3, <4>1 DEF IsText
        <4> QED
          BY <4>1, <4>2
      <3> QED
        BY <1>9, <3>1 DEF SpansInv
    <2> QED
      BY <1>9, <1>12, <2>2, <2>4, <2>5, <2>6 DEF ChunkingInv, PairsInv, z, p, e, w
  <1>18. CASE w.last # p.last
    <2>1. z = [a EXCEPT !.window = a.window + Step]
      BY <1>18 DEF PastWindow, w
    <2>2. w.last = a.window + MaxTokens - 1 /\ w.last < p.last
      <3> HIDE DEF p
      <3> QED
        BY <1>2, <1>7, <1>8, <1>18
    <2>3. /\ z \in Cursor /\ z.block = a.block /\ z.segment = a.segment /\ z.pos = a.pos
          /\ z.window = a.window + MaxTokens - Overlap
      <3>1. a.window + Step \in Nat \ {0}
        BY <1>2, <1>3
      <3> QED
        BY <1>2, <1>3, <2>1, <3>1 DEF Cursor
    <2>4. Part(t, z) = p
      BY <2>3 DEF Part
    <2> HIDE DEF z
    <2>5. InWindows(z) /\ z.window \in z.pos .. p.last
      <3> HIDE DEF p
      <3> QED
        BY <1>2, <1>3, <1>6, <2>2, <2>3 DEF InWindows
    <2>6. CursorInv(t, z)
      BY <1>4, <2>3, <2>4, <2>5 DEF CursorInv, AtEnd
    <2>7. IsWindow(w, p) /\ w.last = z.window + Overlap - 1
      <3> HIDE DEF p
      <3> QED
        BY <1>2, <1>3, <1>8, <2>2, <2>3 DEF IsWindow
    <2>8. CoverInv(t, e, z)
      BY <1>9, <1>15, <1>16, <2>2, <2>4, <2>5, <2>7 DEF CoverInv
    <2>9. ASSUME NEW k \in 1 .. n + 1 PROVE e[k].last < z.pos \/ IsWindow(e[k], p)
      <3>1. CASE k = n + 1
        BY <1>9, <2>7, <3>1
      <3>2. CASE k # n + 1
        <4>1. k \in 1 .. n /\ e[k] = c[k]
          BY <1>4, <1>9, <3>2
        <4> QED
          BY <1>10, <2>3, <4>1
      <3> QED
        BY <3>1, <3>2
    <2>10. PairsInv(t, e, z)
      BY <1>9, <1>12, <2>4, <2>5, <2>9 DEF PairsInv
    <2>11. SpansInv(t, e, z)
      BY <1>9, <1>11, <2>3 DEF SpansInv
    <2> QED
      BY <1>9, <2>6, <2>8, <2>10, <2>11 DEF ChunkingInv, z, e, w
  <1> QED
    BY <1>17, <1>18

----------------------------------------------------------------------------
(* The search *)

IndexingInv ==
    /\ text \in [Documents -> Texts]
    /\ chunks \in [Documents -> Seq(ChunkType)]
    /\ at \in [Documents -> Cursor]
    /\ \A d \in Documents : ChunkingInv(text[d], chunks[d], at[d])
    /\ phase # "index" => \A d \in Documents : Chunked(d)

\* A hit of the dense leg is where a chunk is, any other where a block is.
Place(h, part) ==
    h.start = part.start /\ h.end = part.end /\ h.first = part.first /\ h.last = part.last
OnBlock(h) == \E i \in DOMAIN text[h.doc] : Place(h, Whole(text[h.doc], i))
OnChunk(h) == \E k \in DOMAIN chunks[h.doc] : Place(h, chunks[h.doc][k])
Known(h) == h.doc \in Documents /\ (IF h.source = "dense" THEN OnChunk(h) ELSE OnBlock(h))

IsList(q) == q \in Seq(Elements(q))

ListsInv ==
    /\ IsList(lexical) /\ \A i \in DOMAIN lexical : Known(lexical[i]) /\ lexical[i].source # "dense"
    /\ IsList(dense) /\ \A i \in DOMAIN dense : Known(dense[i]) /\ dense[i].source = "dense"
    /\ IsList(fused) /\ \A i \in DOMAIN fused : Known(fused[i])
    /\ IsList(ranked) /\ \A i \in DOMAIN ranked : Known(ranked[i]) /\ ranked[i].score \in Nat
    /\ \A m, n \in DOMAIN ranked : m < n => ranked[m].score >= ranked[n].score

\* What _dedup_overlap has kept of the first n candidates.
KeptUpTo(n) ==
    /\ kept \in Seq(Elements(ranked))
    /\ \A k \in DOMAIN kept : \E m \in 1 .. n : kept[k] = ranked[m]
    /\ \A j, k \in DOMAIN kept : j < k => kept[j].score >= kept[k].score
    /\ \A j, k \in DOMAIN kept :
          j # k /\ kept[j].doc = kept[k].doc => ~Overlaps(kept[j], kept[k])
    /\ \A m \in 1 .. n : \E k \in DOMAIN kept :
          /\ kept[k].doc = ranked[m].doc /\ kept[k].score >= ranked[m].score
          /\ kept[k] = ranked[m] \/ Overlaps(kept[k], ranked[m])

\* A document has its share of the results, and none of them is worse than h.
Full(h) ==
    /\ Cardinality(Of(capped, h.doc)) = PerDocument
    /\ \A i \in Of(capped, h.doc) : capped[i].score >= h.score

\* What _finalize has left of the first n of these.
CappedUpTo(n) ==
    /\ capped \in Seq(Elements(ranked))
    /\ \A i \in DOMAIN capped : \E m \in 1 .. n : capped[i] = kept[m]
    /\ \A i, j \in DOMAIN capped :
          i # j /\ capped[i].doc = capped[j].doc => ~Overlaps(capped[i], capped[j])
    /\ \A d \in Documents : Cardinality(Of(capped, d)) <= PerDocument
    /\ \A m \in 1 .. n : (\E i \in DOMAIN capped : capped[i] = kept[m]) \/ Full(kept[m])

KeptInv ==
    IF phase = "dedup" THEN next \in DOMAIN ranked /\ KeptUpTo(next - 1)
    ELSE KeptUpTo(Len(ranked))

CappedInv ==
    IF phase = "cap" THEN next \in DOMAIN kept /\ CappedUpTo(next - 1)
    ELSE IF phase = "dedup" THEN capped = <<>>
    ELSE CappedUpTo(Len(kept))

\* The results are what is left, in some order.
IsOrder(f, q, r) ==
    /\ f \in [DOMAIN q -> DOMAIN r]
    /\ \A i, j \in DOMAIN q : i # j => f[i] # f[j]
    /\ \A n \in DOMAIN r : \E i \in DOMAIN q : f[i] = n
    /\ \A i \in DOMAIN q : q[i] = r[f[i]]

ResultsInv ==
    IF phase \in {"pack", "packed"}
    THEN results \in Seq(Elements(ranked)) /\ \E f : IsOrder(f, results, capped)
    ELSE results = <<>>

Early == {"index", "lexical", "dense", "fuse", "rerank"}
Late == {"dedup", "cap", "finalize", "pack", "packed", "failed"}

PhaseInv ==
    /\ phase \in Early \cup Late
    /\ phase \in Early =>
          ranked = <<>> /\ kept = <<>> /\ capped = <<>> /\ next = 1
    /\ phase = "index" => lexical = <<>> /\ dense = <<>> /\ fused = <<>>
    /\ phase = "rerank" => fused # <<>>

SearchInv ==
    IndexingInv /\ ListsInv /\ KeptInv /\ CappedInv /\ ResultsInv /\ PhaseInv

\* Nothing of a text is chunked yet.
LEMMA StartOfChunking ==
    ASSUME NEW t, IsText(t)
    PROVE  ChunkingInv(t, <<>>, StartOfText)
  <1> DEFINE a == StartOfText
             none == <<>>
  <1>1. a \in Cursor /\ a.block = 1 /\ a.pos = 1 /\ a.window = 1 /\ ~InWindows(a)
    BY DEF StartOfText, Cursor, InWindows
  <1>2. t \in Seq(ContentBlock) /\ Len(t) \in Nat
    BY DEF IsText
  <1>3. none \in Seq(ChunkType) /\ DOMAIN none = {}
    OBVIOUS
  <1>4. CursorInv(t, a)
    <2>1. CASE t = <<>>
      BY <1>1, <2>1 DEF CursorInv, AtEnd
    <2>2. CASE t # <<>>
      <3>1. 1 \in DOMAIN t /\ ~AtEnd(t, a)
        BY <1>1, <1>2, <2>2 DEF AtEnd
      <3>2. t[1] \in ContentBlock /\ t[1].first = 1
        BY <1>2, <2>2, <3>1 DEF IsText
      <3>3. IsLong(t[1]) => 1 <= t[1].last
        BY <3>2, SizesAssumption DEF IsLong, Size, ContentBlock
      <3> HIDE DEF a
      <3>4. CursorInv(t, a)
        BY <1>1, <1>2, <3>1, <3>2, <3>3 DEF CursorInv
      <3> QED
        BY <3>4
    <2> QED
      BY <2>1, <2>2
  <1> HIDE DEF a, none
  <1>5. CoverInv(t, none, a) /\ PairsInv(t, none, a) /\ SpansInv(t, none, a)
    BY <1>1, <1>3 DEF CoverInv, PairsInv, SpansInv, none
  <1> QED
    BY <1>3, <1>4, <1>5 DEF ChunkingInv, a, none

LEMMA TextOf ==
    ASSUME IndexingInv, NEW d \in Documents
    PROVE  IsText(text[d])
  BY TextsAssumption DEF IndexingInv

\* What does not change.
LEMMA SameIndexing ==
    ASSUME IndexingInv, UNCHANGED indexed, phase' # "index", phase # "index"
    PROVE  IndexingInv'
  BY DEF IndexingInv, indexed, Chunked

LEMMA SameKnown ==
    ASSUME UNCHANGED indexed, NEW h, Known(h)
    PROVE  Known(h)'
  BY DEF indexed, Known, OnChunk, OnBlock

LEMMA SameLists ==
    ASSUME ListsInv, UNCHANGED <<indexed, found, fused, ranked>>
    PROVE  ListsInv'
  BY DEF ListsInv, indexed, found, Known, OnChunk, OnBlock, IsList

LEMMA SameKept ==
    ASSUME NEW n, KeptUpTo(n), UNCHANGED <<ranked, kept>>
    PROVE  KeptUpTo(n)'
  BY DEF KeptUpTo

LEMMA SameCapped ==
    ASSUME NEW n, CappedUpTo(n), UNCHANGED <<ranked, kept, capped>>
    PROVE  CappedUpTo(n)'
  BY DEF CappedUpTo, Full

\* Nothing is kept at first, and nothing has been looked at.
LEMMA NoneKept ==
    kept = <<>> => KeptUpTo(0)
  <1>1. kept = <<>> => DOMAIN kept = {} /\ kept \in Seq(Elements(ranked))
    OBVIOUS
  <1> QED
    BY <1>1 DEF KeptUpTo

LEMMA NoneCapped ==
    capped = <<>> => CappedUpTo(0)
  <1> SUFFICES ASSUME capped = <<>> PROVE CappedUpTo(0)
    OBVIOUS
  <1>1. DOMAIN capped = {} /\ capped \in Seq(Elements(ranked))
    OBVIOUS
  <1>2. \A d : Of(capped, d) = {}
    BY <1>1 DEF Of
  <1>3. \A d \in Documents : Cardinality(Of(capped, d)) <= PerDocument
    <2>1. Cardinality({}) = 0 /\ PerDocument \in Nat
      BY FS_EmptySet, LimitsAssumption
    <2> QED
      BY <1>2, <2>1
  <1> QED
    BY <1>1, <1>3 DEF CappedUpTo

LEMMA InitSearchInv ==
    Init => SearchInv
  <1> SUFFICES ASSUME Init PROVE SearchInv
    OBVIOUS
  <1> DEFINE none == <<>>
  <1>1. /\ text \in [Documents -> Texts]
        /\ chunks = [d \in Documents |-> <<>>]
        /\ at = [d \in Documents |-> StartOfText]
        /\ phase = "index" /\ next = 1
        /\ lexical = <<>> /\ dense = <<>> /\ fused = <<>> /\ ranked = <<>>
        /\ kept = <<>> /\ capped = <<>> /\ results = <<>>
    BY DEF Init, ChunkerInit
  <1>2. IndexingInv
    <2>1. ASSUME NEW d \in Documents PROVE ChunkingInv(text[d], chunks[d], at[d])
      BY <1>1, TextsAssumption, StartOfChunking
    <2>2. chunks \in [Documents -> Seq(ChunkType)] /\ at \in [Documents -> Cursor]
      BY <1>1 DEF StartOfText, Cursor
    <2> QED
      BY <1>1, <2>1, <2>2 DEF IndexingInv
  <1>3. none \in Seq(Elements(none)) /\ DOMAIN none = {} /\ Len(none) = 0
    OBVIOUS
  <1>4. KeptUpTo(0) /\ CappedUpTo(0)
    BY <1>1, NoneKept, NoneCapped
  <1>5. /\ lexical = none /\ dense = none /\ fused = none /\ ranked = none
        /\ kept = none /\ capped = none /\ results = none
    BY <1>1
  <1> HIDE DEF none
  <1>6. ListsInv
    BY <1>3, <1>5 DEF ListsInv, IsList
  <1>7. KeptInv /\ CappedInv /\ ResultsInv
    BY <1>1, <1>3, <1>4, <1>5 DEF KeptInv, CappedInv, ResultsInv
  <1>8. PhaseInv
    BY <1>1 DEF PhaseInv, Early, Late
  <1> QED
    BY <1>2, <1>6, <1>7, <1>8 DEF SearchInv

LEMMA IndexKeeps ==
    ASSUME SearchInv, Index
    PROVE  SearchInv'
  <1> DEFINE none == <<>>
  <1>1. /\ phase = "index" /\ phase' \in {"index", "lexical"}
        /\ UNCHANGED <<next, lexical, dense, fused, ranked, kept, capped, results>>
    BY DEF Index, found
  <1>2. IndexingInv /\ text' = text
    BY DEF SearchInv, Index, MergeOrEmit, SplitBlock, indexed
  <1>3. /\ lexical = none /\ dense = none /\ fused = none /\ ranked = none
        /\ kept = none /\ capped = none /\ next = 1 /\ results = none
    BY <1>1 DEF SearchInv, PhaseInv, ResultsInv, Early
  <1>4. ASSUME NEW d \in Documents, NEW c, NEW z, ChunkingInv(text[d], c, z),
               chunks' = [chunks EXCEPT ![d] = c], at' = [at EXCEPT ![d] = z], phase' = phase
        PROVE  IndexingInv'
    <2>1. c \in Seq(ChunkType) /\ z \in Cursor
      BY <1>4 DEF ChunkingInv, CursorInv
    <2>2. \A e \in Documents : ChunkingInv(text[e], chunks[e], at[e])'
      BY <1>2, <1>4 DEF IndexingInv
    <2> QED
      BY <1>1, <1>2, <1>4, <2>1, <2>2 DEF IndexingInv
  <1>5. ASSUME NEW d \in Documents, MergeOrEmit(d), phase' = phase
        PROVE  IndexingInv'
    <2>1. ~AtEnd(text[d], at[d])
      BY <1>5 DEF MergeOrEmit, Chunked, AtEnd
    <2>2. ChunkingInv(text[d], MergedOrEmitted(chunks[d], Part(text[d], at[d])), Past(text[d], at[d]))
      BY <1>2, <1>5, <2>1, EmitKeeps, TextOf DEF IndexingInv, MergeOrEmit
    <2> QED
      BY <1>4, <1>5, <2>2 DEF MergeOrEmit
  <1>6. ASSUME NEW d \in Documents, SplitBlock(d), phase' = phase
        PROVE  IndexingInv'
    <2>1. ~AtEnd(text[d], at[d])
      BY <1>6 DEF SplitBlock, Chunked, AtEnd
    <2>2. ChunkingInv(text[d], Append(chunks[d], WindowOf(Part(text[d], at[d]), at[d])),
                      PastWindow(text[d], at[d]))
      BY <1>2, <1>6, <2>1, WindowKeeps, TextOf DEF IndexingInv, SplitBlock
    <2> QED
      BY <1>4, <1>6, <2>2 DEF SplitBlock
  <1>7. ASSUME \A d \in Documents : Chunked(d), UNCHANGED indexed
        PROVE  IndexingInv'
    BY <1>2, <1>7 DEF IndexingInv, indexed, Chunked
  <1>8. IndexingInv'
    BY <1>5, <1>6, <1>7 DEF Index
  <1>9. none \in Seq(Elements(none)) /\ DOMAIN none = {} /\ Len(none) = 0
    OBVIOUS
  <1>10. KeptUpTo(0)' /\ CappedUpTo(0)'
    BY <1>1, <1>3, NoneKept, NoneCapped, SameKept, SameCapped
  <1> HIDE DEF none
  <1>11. ListsInv'
    BY <1>1, <1>3, <1>9 DEF ListsInv, IsList
  <1>12. KeptInv' /\ CappedInv' /\ ResultsInv'
    BY <1>1, <1>3, <1>9, <1>10 DEF KeptInv, CappedInv, ResultsInv
  <1>13. PhaseInv'
    BY <1>1, <1>3 DEF PhaseInv, Early, Late, none
  <1> QED
    BY <1>8, <1>11, <1>12, <1>13 DEF SearchInv

\* A ranking of hits is a list of them.
LEMMA RankingsAreLists ==
    ASSUME NEW S, NEW q \in Rankings(S)
    PROVE  IsList(q) /\ \A i \in DOMAIN q : q[i] \in S
  <1>1. PICK n \in 0 .. MaxHits : q \in [1 .. n -> S]
    BY DEF Rankings, Selections
  <1>2. n \in Nat
    BY <1>1, HitsAssumption
  <1>3. DOMAIN q = 1 .. n /\ \A i \in 1 .. n : q[i] \in Elements(q)
    BY <1>1 DEF Elements
  <1>4. q \in Seq(Elements(q))
    BY <1>1, <1>2, <1>3
  <1> QED
    BY <1>1, <1>4 DEF IsList

LEMMA BlockHitsAreKnown ==
    ASSUME NEW h \in BlockHits
    PROVE  Known(h) /\ h.source = "lexical"
  <1>1. PICK d \in Documents :
           \E i \in DOMAIN text[d] : h = Hit(d, Whole(text[d], i), 0, "lexical", 0)
    BY DEF BlockHits
  <1>2. PICK i \in DOMAIN text[d] : h = Hit(d, Whole(text[d], i), 0, "lexical", 0)
    BY <1>1
  <1>3. h.doc = d /\ h.source = "lexical" /\ Place(h, Whole(text[d], i))
    BY <1>2 DEF Hit, Place
  <1> QED
    BY <1>3 DEF Known, OnBlock

LEMMA ChunkHitsAreKnown ==
    ASSUME NEW h \in ChunkHits
    PROVE  Known(h) /\ h.source = "dense"
  <1>1. PICK d \in Documents :
           \E k \in DOMAIN chunks[d] : h = Hit(d, chunks[d][k], Size(chunks[d][k]), "dense", 0)
    BY DEF ChunkHits
  <1>2. PICK k \in DOMAIN chunks[d] : h = Hit(d, chunks[d][k], Size(chunks[d][k]), "dense", 0)
    BY <1>1
  <1>3. h.doc = d /\ h.source = "dense" /\ Place(h, chunks[d][k])
    BY <1>2 DEF Hit, Place
  <1> QED
    BY <1>3 DEF Known, OnChunk

LEMMA LexicalKeeps ==
    ASSUME SearchInv, LexicalSearch
    PROVE  SearchInv'
  <1>1. /\ phase = "lexical" /\ phase' = "dense" /\ lexical' \in Rankings(BlockHits)
        /\ UNCHANGED <<indexed, next, dense, fused, ranked, kept, capped, results>>
    BY DEF LexicalSearch
  <1>2. IndexingInv'
    BY <1>1, SameIndexing DEF SearchInv
  <1>3. PICK q \in Rankings(BlockHits) : q = lexical'
    BY <1>1
  <1>4. ASSUME NEW i \in DOMAIN q PROVE Known(q[i])' /\ q[i].source # "dense"
    BY <1>1, BlockHitsAreKnown, SameKnown, RankingsAreLists
  <1>5. IsList(q)
    BY RankingsAreLists
  <1>6. (IsList(lexical) /\ \A i \in DOMAIN lexical : Known(lexical[i]) /\ lexical[i].source # "dense")'
    BY <1>3, <1>4, <1>5 DEF IsList, Known, OnChunk, OnBlock
  <1>7. ListsInv'
    BY <1>1, <1>6 DEF SearchInv, ListsInv, indexed, Known, OnChunk, OnBlock, IsList
  <1>8. KeptInv' /\ CappedInv' /\ ResultsInv'
    BY <1>1, SameKept, SameCapped DEF SearchInv, KeptInv, CappedInv, ResultsInv
  <1>9. PhaseInv'
    BY <1>1 DEF SearchInv, PhaseInv, Early, Late
  <1> QED
    BY <1>2, <1>7, <1>8, <1>9 DEF SearchInv

LEMMA DenseKeeps ==
    ASSUME SearchInv, DenseSearch
    PROVE  SearchInv'
  <1>1. /\ phase = "dense" /\ phase' \in {"fuse", "failed"}
        /\ UNCHANGED <<indexed, next, lexical, fused, ranked, kept, capped, results>>
    BY DEF DenseSearch
  <1>2. dense' = dense \/ dense' \in Rankings(ChunkHits)
    BY DEF DenseSearch
  <1>3. IndexingInv'
    BY <1>1, SameIndexing DEF SearchInv
  <1>4. ASSUME dense' \in Rankings(ChunkHits) PROVE ListsInv'
    <2>1. PICK q \in Rankings(ChunkHits) : q = dense'
      BY <1>4
    <2>2. ASSUME NEW i \in DOMAIN q PROVE Known(q[i])' /\ q[i].source = "dense"
      BY <1>1, ChunkHitsAreKnown, SameKnown, RankingsAreLists
    <2>3. IsList(q)
      BY RankingsAreLists
    <2>4. (IsList(dense) /\ \A i \in DOMAIN dense : Known(dense[i]) /\ dense[i].source = "dense")'
      BY <2>1, <2>2, <2>3 DEF IsList, Known, OnChunk, OnBlock
    <2> QED
      BY <1>1, <2>4 DEF SearchInv, ListsInv, indexed, Known, OnChunk, OnBlock, IsList
  <1>5. ASSUME dense' = dense PROVE ListsInv'
    BY <1>1, <1>5, SameLists DEF SearchInv, found
  <1>6. ListsInv'
    BY <1>2, <1>4, <1>5
  <1>7. KeptInv' /\ CappedInv' /\ ResultsInv'
    BY <1>1, SameKept, SameCapped DEF SearchInv, KeptInv, CappedInv, ResultsInv
  <1>8. PhaseInv'
    BY <1>1 DEF SearchInv, PhaseInv, Early, Late
  <1> QED
    BY <1>3, <1>6, <1>7, <1>8 DEF SearchInv

\* A function on 1 .. n is a list, and so is what it is cut to.
LEMMA FunctionsAreLists ==
    ASSUME NEW n \in Nat, NEW q, q = [i \in 1 .. n |-> q[i]]
    PROVE  IsList(q) /\ Len(q) = n /\ DOMAIN q = 1 .. n
  <1>1. DOMAIN q = 1 .. n
    OBVIOUS
  <1>2. \A i \in 1 .. n : q[i] \in Elements(q)
    BY <1>1 DEF Elements
  <1>3. q \in [1 .. n -> Elements(q)]
    BY <1>1, <1>2
  <1>4. q \in Seq(Elements(q)) /\ Len(q) = n
    <2> DEFINE S == Elements(q)
    <2> HIDE DEF S
    <2> QED
      BY <1>1, <1>3 DEF S
  <1> QED
    BY <1>1, <1>4 DEF IsList

LEMMA CutIsList ==
    ASSUME NEW q, IsList(q), NEW n \in Nat
    PROVE  /\ IsList(Cut(q, n))
           /\ \A i \in DOMAIN Cut(q, n) : i \in DOMAIN q /\ Cut(q, n)[i] = q[i]
  <1> DEFINE m == IF n < Len(q) THEN n ELSE Len(q)
             r == Cut(q, n)
             S == Elements(q)
  <1>1. q \in Seq(S) /\ Len(q) \in Nat /\ DOMAIN q = 1 .. Len(q)
    BY DEF IsList
  <1>2. m \in Nat /\ m <= Len(q)
    BY <1>1
  <1>3. r = [i \in 1 .. m |-> q[i]]
    <2> HIDE DEF S, m
    <2>1. SubSeq(q, 1, m) = [i \in 1 .. m |-> q[i]]
      BY <1>1, <1>2
    <2> QED
      BY <2>1 DEF Cut, m
  <1> HIDE DEF m, r
  <1>4. DOMAIN r = 1 .. m /\ \A i \in 1 .. m : r[i] = q[i]
    BY <1>3
  <1>5. IsList(r)
    BY <1>2, <1>3, <1>4, FunctionsAreLists
  <1>6. \A i \in DOMAIN r : i \in DOMAIN q /\ r[i] = q[i]
    BY <1>1, <1>2, <1>4
  <1> QED
    BY <1>5, <1>6 DEF r

\* What is shown of a region is where its head is, and of the same leg unless both are.
LEMMA MergedIsKnown ==
    ASSUME ListsInv, NEW k \in Heads(lexical \o dense)
    PROVE  Known(Merged(lexical, dense, (lexical \o dense)[k]))
  <1> DEFINE all == lexical \o dense
             h == all[k]
             g == Merged(lexical, dense, h)
             both == At(lexical, Region(h)) # {} /\ At(dense, Region(h)) # {}
             A == Elements(lexical) \cup Elements(dense)
  <1>1. lexical \in Seq(Elements(lexical)) /\ dense \in Seq(Elements(dense))
    BY DEF ListsInv, IsList
  <1>2. lexical \in Seq(A) /\ dense \in Seq(A)
    BY <1>1
  <1>3. /\ Len(lexical) \in Nat /\ Len(dense) \in Nat
        /\ DOMAIN lexical = 1 .. Len(lexical) /\ DOMAIN dense = 1 .. Len(dense)
        /\ DOMAIN all = 1 .. Len(lexical) + Len(dense)
        /\ \A i \in 1 .. Len(lexical) : all[i] = lexical[i]
        /\ \A i \in 1 .. Len(lexical) + Len(dense) :
              i > Len(lexical) => all[i] = dense[i - Len(lexical)]
    <2> HIDE DEF A
    <2> QED
      BY <1>2
  <1> HIDE DEF all
  <1>4. k \in DOMAIN all /\ \A j \in DOMAIN all : j < k => Region(all[j]) # Region(h)
    BY DEF Heads, all
  <1>5. /\ g.doc = h.doc /\ g.start = h.start /\ g.end = h.end
        /\ g.first = h.first /\ g.last = h.last
        /\ g.source = IF both THEN "both" ELSE h.source
    BY DEF Merged, Hit
  <1> HIDE DEF g, h, both
  <1>6. Known(h) => (Known(g) <=> (g.doc \in Documents /\
                        (IF g.source = "dense" THEN OnChunk(h) ELSE OnBlock(h))))
    BY <1>5 DEF Known, OnChunk, OnBlock, Place
  <1>7. CASE k <= Len(lexical)
    <2>1. k \in DOMAIN lexical /\ h = lexical[k]
      BY <1>3, <1>4, <1>7 DEF h
    <2>2. Known(h) /\ h.source # "dense"
      BY <2>1 DEF ListsInv
    <2> QED
      BY <1>5, <1>6, <2>2 DEF Known, g, all, h
  <1>8. CASE ~(k <= Len(lexical))
    <2>1. k - Len(lexical) \in DOMAIN dense /\ h = dense[k - Len(lexical)]
      BY <1>3, <1>4, <1>8 DEF h
    <2>2. Known(h) /\ h.source = "dense"
      BY <2>1 DEF ListsInv
    <2>3. ~both
      <3> SUFFICES ASSUME NEW j \in DOMAIN lexical, Region(lexical[j]) = Region(h)
                   PROVE  FALSE
        BY DEF both, At
      <3>1. j \in DOMAIN all /\ j < k /\ all[j] = lexical[j]
        BY <1>3, <1>4, <1>8
      <3> QED
        BY <1>4, <3>1
    <2> QED
      BY <1>5, <1>6, <2>2, <2>3 DEF Known, g, all, h
  <1> QED
    BY <1>7, <1>8

LEMMA FuseKeeps ==
    ASSUME SearchInv, Fuse
    PROVE  SearchInv'
  <1> DEFINE all == lexical \o dense
             heads == Heads(all)
             shown == [i \in heads |-> Merged(lexical, dense, all[i])]
             n == Cardinality(heads)
             none == <<>>
  <1>1. /\ phase = "fuse"
        /\ phase' = IF fused' = none THEN "packed" ELSE "rerank"
        /\ UNCHANGED <<indexed, next, lexical, dense, ranked, kept, capped, results>>
    BY DEF Fuse, found
  <1>2. PICK order \in Selections(heads, n) :
           fused' = Cut([m \in DOMAIN order |-> shown[order[m]]], RrfFanout * TopK)
    BY DEF Fuse
  <1> DEFINE q == [m \in DOMAIN order |-> shown[order[m]]]
  <1>3. ListsInv
    BY DEF SearchInv
  <1>4. n \in Nat
    <2> DEFINE A == Elements(lexical) \cup Elements(dense)
    <2>1. lexical \in Seq(Elements(lexical)) /\ dense \in Seq(Elements(dense))
      BY <1>3 DEF ListsInv, IsList
    <2>2. lexical \in Seq(A) /\ dense \in Seq(A)
      BY <2>1
    <2>3. all \in Seq(A)
      <3> HIDE DEF A
      <3> QED
        BY <2>2
    <2>4. DOMAIN all = 1 .. Len(all) /\ Len(all) \in Nat
      <3> HIDE DEF A, all
      <3> QED
        BY <2>3
    <2> HIDE DEF all
    <2>5. heads \subseteq 1 .. Len(all)
      BY <2>4 DEF Heads
    <2>6. IsFiniteSet(1 .. Len(all))
      BY <2>4, FS_Interval
    <2> HIDE DEF heads
    <2> QED
      BY <2>5, <2>6, FS_Subset, FS_CardinalityType
  <1>5. order \in [1 .. n -> heads]
    BY <1>2 DEF Selections
  <1>6. q = [m \in 1 .. n |-> shown[order[m]]] /\ fused' = Cut(q, RrfFanout * TopK)
    BY <1>2, <1>5
  <1>7. RrfFanout * TopK \in Nat
    BY LimitsAssumption DEF RrfFanout
  <1>8. \A m \in 1 .. n : q[m] = Merged(lexical, dense, all[order[m]])
    BY <1>5
  <1> HIDE DEF q, shown, n, all, none
  <1>9. IsList(q) /\ DOMAIN q = 1 .. n
    BY <1>4, <1>6, FunctionsAreLists
  <1>10. \A m \in DOMAIN q : Known(q[m])
    BY <1>3, <1>5, <1>8, <1>9, MergedIsKnown DEF all
  <1> DEFINE r == Cut(q, RrfFanout * TopK)
  <1>11. IsList(r) /\ \A i \in DOMAIN r : Known(r[i])
    BY <1>7, <1>9, <1>10, CutIsList
  <1>12. fused' = r
    BY <1>6
  <1> HIDE DEF r
  <1>13. (IsList(fused) /\ \A i \in DOMAIN fused : Known(fused[i]))'
    BY <1>1, <1>11, <1>12 DEF IsList, Known, OnChunk, OnBlock, indexed
  <1>14. ListsInv'
    BY <1>1, <1>3, <1>13 DEF ListsInv, indexed, Known, OnChunk, OnBlock, IsList
  <1>15. IndexingInv'
    BY <1>1, SameIndexing DEF SearchInv
  <1>16. /\ ranked = none /\ kept = none /\ capped = none /\ next = 1 /\ results = none
    BY <1>1 DEF SearchInv, PhaseInv, ResultsInv, Early, none
  <1>17. none \in Seq(Elements(none)) /\ DOMAIN none = {} /\ Len(none) = 0
    BY DEF none
  <1>18. KeptUpTo(0)' /\ CappedUpTo(0)'
    BY <1>1, <1>16, NoneKept, NoneCapped, SameKept, SameCapped DEF none
  <1>19. IsOrder(none, none, none)
    BY <1>17 DEF IsOrder
  <1>20. KeptInv' /\ CappedInv' /\ ResultsInv'
    <2>1. KeptInv' /\ CappedInv'
      BY <1>1, <1>16, <1>17, <1>18 DEF KeptInv, CappedInv
    <2>2. results' = none /\ ranked' = none /\ capped' = none
      BY <1>1, <1>16
    <2>3. results' \in Seq(Elements(ranked')) /\ \E f : IsOrder(f, results', capped')
      BY <1>17, <1>19, <2>2
    <2> QED
      BY <2>1, <2>2, <2>3 DEF ResultsInv, none
  <1>21. PhaseInv'
    BY <1>1, <1>16 DEF PhaseInv, Early, Late, none
  <1> QED
    BY <1>14, <1>15, <1>20, <1>21 DEF SearchInv

LEMMA RerankKeeps ==
    ASSUME SearchInv, Rerank
    PROVE  SearchInv'
  <1> DEFINE left == IF TopK < Len(fused) THEN TopK ELSE Len(fused)
  <1>1. /\ phase = "rerank" /\ phase' = "dedup"
        /\ UNCHANGED <<indexed, next, lexical, dense, fused, kept, capped, results>>
    BY DEF Rerank, found
  <1>2. PICK best \in Selections(DOMAIN fused, left), score \in [1 .. left -> Scores] :
           /\ \A m, n \in 1 .. left : m < n => score[m] >= score[n]
           /\ ranked' = [n \in 1 .. left |->
                           LET h == fused[best[n]]
                           IN  Hit(h.doc, h, h.tokens, h.source, score[n])]
    BY DEF Rerank
  <1> DEFINE r == [n \in 1 .. left |->
                           LET h == fused[best[n]]
                           IN  Hit(h.doc, h, h.tokens, h.source, score[n])]
  <1>3. ListsInv /\ PhaseInv
    BY DEF SearchInv
  <1>4. kept = <<>> /\ capped = <<>> /\ next = 1 /\ results = <<>> /\ fused # <<>>
    BY <1>1, <1>3 DEF PhaseInv, Early, SearchInv, ResultsInv
  <1>5. left \in Nat /\ 1 <= left
    <2> DEFINE S == Elements(fused)
    <2>1. fused \in Seq(S)
      BY <1>3 DEF ListsInv, IsList
    <2> HIDE DEF S
    <2>2. Len(fused) \in Nat /\ 1 <= Len(fused)
      BY <1>4, <2>1
    <2>3. TopK \in Nat /\ 1 <= TopK
      BY LimitsAssumption
    <2> QED
      BY <2>2, <2>3
  <1>6. best \in [1 .. left -> DOMAIN fused]
    BY <1>2 DEF Selections
  <1> HIDE DEF left
  <1>7. ASSUME NEW n \in 1 .. left
        PROVE  /\ Known(r[n]) /\ r[n].score = score[n] /\ score[n] \in Nat
    <2>1. best[n] \in DOMAIN fused
      BY <1>6
    <2>2. Known(fused[best[n]])
      BY <1>3, <2>1 DEF ListsInv
    <2>3. score[n] \in Nat
      BY <1>2, BudgetAssumption
    <2> DEFINE h == fused[best[n]]
               g == r[n]
    <2>4. /\ g.doc = h.doc /\ g.start = h.start /\ g.end = h.end /\ g.first = h.first
          /\ g.last = h.last /\ g.source = h.source /\ g.score = score[n]
      BY DEF Hit
    <2> HIDE DEF g, h
    <2>5. Known(h) => Known(g)
      BY <2>4 DEF Known, OnChunk, OnBlock, Place
    <2> QED
      BY <2>2, <2>3, <2>4, <2>5 DEF g, h
  <1>8. r = [n \in 1 .. left |-> r[n]] /\ ranked' = r
    BY <1>2
  <1> HIDE DEF r
  <1>9. IsList(r) /\ DOMAIN r = 1 .. left
    BY <1>5, <1>8, FunctionsAreLists
  <1>10. PICK q : q = r
    OBVIOUS
  <1>11. (/\ IsList(ranked) /\ \A i \in DOMAIN ranked : Known(ranked[i]) /\ ranked[i].score \in Nat
          /\ \A m, n \in DOMAIN ranked : m < n => ranked[m].score >= ranked[n].score)'
    <2>1. IsList(q) /\ ranked' = q /\ DOMAIN q = 1 .. left
      BY <1>8, <1>9, <1>10
    <2>2. \A n \in DOMAIN q : Known(q[n]) /\ q[n].score \in Nat /\ q[n].score = score[n]
      BY <1>7, <1>10, <2>1
    <2>3. \A n \in DOMAIN q : Known(q[n])'
      BY <1>1, <2>2, SameKnown
    <2>4. \A m, n \in DOMAIN q : m < n => q[m].score >= q[n].score
      BY <1>2, <2>1, <2>2
    <2> QED
      BY <2>1, <2>2, <2>3, <2>4 DEF IsList, Known, OnChunk, OnBlock
  <1>12. ListsInv'
    BY <1>1, <1>3, <1>11 DEF ListsInv, indexed, Known, OnChunk, OnBlock, IsList
  <1>13. IndexingInv'
    BY <1>1, SameIndexing DEF SearchInv
  <1>14. KeptUpTo(0)'
    <2>1. (kept = <<>> => KeptUpTo(0))'
      BY NoneKept, PTL
    <2> QED
      BY <1>1, <1>4, <2>1
  <1>15. KeptInv' /\ CappedInv' /\ ResultsInv'
    BY <1>1, <1>4, <1>5, <1>8, <1>9, <1>14 DEF KeptInv, CappedInv, ResultsInv
  <1>16. PhaseInv'
    BY <1>1 DEF PhaseInv, Early, Late
  <1> QED
    BY <1>12, <1>13, <1>15, <1>16 DEF SearchInv

\* One candidate more is kept, or one that is kept overlaps it.
LEMMA KeptOneMore ==
    ASSUME ListsInv, NEW n \in DOMAIN ranked, KeptUpTo(n - 1), kept' = Kept(kept, ranked[n]),
           UNCHANGED ranked
    PROVE  KeptUpTo(n)'
  <1> DEFINE h == ranked[n]
             S == Elements(ranked)
             l == Len(kept)
             e == kept'
  <1>1. n \in Nat /\ 1 <= n /\ ranked \in Seq(S) /\ DOMAIN ranked = 1 .. Len(ranked) /\ Len(ranked) \in Nat
    BY DEF ListsInv, IsList
  <1>2. kept \in Seq(S) /\ l \in Nat /\ DOMAIN kept = 1 .. l /\ h \in S
    BY <1>1 DEF KeptUpTo, Elements
  <1>3. ASSUME NEW k \in DOMAIN kept
        PROVE  \E m \in 1 .. n - 1 : m \in DOMAIN ranked /\ kept[k] = ranked[m]
    BY <1>1 DEF KeptUpTo
  <1>4. \A m \in DOMAIN ranked : ranked[m].score \in Nat
    BY DEF ListsInv
  <1>5. ASSUME NEW k \in DOMAIN kept
        PROVE  kept[k].score >= h.score /\ kept[k].score \in Nat
    <2>1. PICK m \in 1 .. n - 1 : m \in DOMAIN ranked /\ kept[k] = ranked[m]
      BY <1>3
    <2>2. m < n
      BY <1>1, <2>1
    <2> QED
      BY <1>4, <2>1, <2>2 DEF ListsInv
  <1>6. CASE \E i \in DOMAIN kept : kept[i].doc = h.doc /\ Overlaps(kept[i], h)
    <2>1. e = kept
      BY <1>6 DEF Kept
    <2>2. \A m \in 1 .. n : m \in 1 .. n - 1 \/ m = n
      BY <1>1
    <2>3. \A m \in 1 .. n - 1 : m \in 1 .. n
      BY <1>1
    <2>4. ASSUME NEW m \in 1 .. n
          PROVE  \E k \in DOMAIN kept :
                    /\ kept[k].doc = ranked[m].doc /\ kept[k].score >= ranked[m].score
                    /\ kept[k] = ranked[m] \/ Overlaps(kept[k], ranked[m])
      <3>1. CASE m = n
        BY <1>5, <1>6, <3>1
      <3>2. CASE m # n
        BY <2>2, <3>2 DEF KeptUpTo
      <3> QED
        BY <3>1, <3>2
    <2> HIDE DEF e, S
    <2> QED
      BY <2>1, <2>3, <2>4 DEF KeptUpTo, e
  <1>7. CASE ~\E i \in DOMAIN kept : kept[i].doc = h.doc /\ Overlaps(kept[i], h)
    <2>1. e = Append(kept, h)
      BY <1>7 DEF Kept
    <2> HIDE DEF S, e
    <2>2. /\ e \in Seq(S) /\ DOMAIN e = 1 .. l + 1 /\ e[l + 1] = h
          /\ \A k \in 1 .. l : e[k] = kept[k]
      BY <1>2, <2>1
    <2>3. \A k \in 1 .. l + 1 : k = l + 1 \/ k \in 1 .. l
      BY <1>2
    <2>4. ASSUME NEW k \in 1 .. l + 1 PROVE \E m \in 1 .. n : e[k] = ranked[m]
      <3>1. CASE k = l + 1
        <4>1. n \in 1 .. n
          BY <1>1
        <4> QED
          BY <2>2, <3>1, <4>1
      <3>2. CASE k # l + 1
        <4>1. k \in DOMAIN kept /\ e[k] = kept[k]
          BY <1>2, <2>2, <2>3, <3>2
        <4>2. PICK m \in 1 .. n - 1 : kept[k] = ranked[m]
          BY <1>3, <4>1
        <4>3. m \in 1 .. n
          BY <1>1
        <4> QED
          BY <4>1, <4>2, <4>3
      <3> QED
        BY <3>1, <3>2
    <2>5. ASSUME NEW j \in 1 .. l + 1, NEW k \in 1 .. l + 1, j < k
          PROVE  e[j].score >= e[k].score
      <3>1. j \in DOMAIN kept /\ e[j] = kept[j]
        BY <1>2, <2>2, <2>5
      <3>2. CASE k = l + 1
        BY <1>5, <2>2, <3>1, <3>2
      <3>3. CASE k # l + 1
        <4>1. k \in DOMAIN kept /\ e[k] = kept[k]
          BY <1>2, <2>2, <2>3, <3>3
        <4> QED
          BY <2>5, <3>1, <4>1 DEF KeptUpTo
      <3> QED
        BY <3>2, <3>3
    <2>6. \A g, f : Overlaps(g, f) <=> Overlaps(f, g)
      BY DEF Overlaps
    <2>7. ASSUME NEW j \in 1 .. l + 1, NEW k \in 1 .. l + 1, j # k, e[j].doc = e[k].doc
          PROVE  ~Overlaps(e[j], e[k])
      <3>1. CASE k = l + 1
        <4>1. j \in DOMAIN kept /\ e[j] = kept[j]
          BY <1>2, <2>2, <2>3, <2>7, <3>1
        <4> QED
          BY <1>7, <2>2, <2>7, <3>1, <4>1
      <3>2. CASE j = l + 1
        <4>1. k \in DOMAIN kept /\ e[k] = kept[k]
          BY <1>2, <2>2, <2>3, <2>7, <3>2
        <4> QED
          BY <1>7, <2>2, <2>6, <2>7, <3>2, <4>1
      <3>3. CASE k # l + 1 /\ j # l + 1
        <4>1. j \in DOMAIN kept /\ e[j] = kept[j] /\ k \in DOMAIN kept /\ e[k] = kept[k]
          BY <1>2, <2>2, <2>3, <3>3
        <4> QED
          BY <2>7, <4>1 DEF KeptUpTo
      <3> QED
        BY <3>1, <3>2, <3>3
    <2>8. ASSUME NEW m \in 1 .. n
          PROVE  \E k \in 1 .. l + 1 :
                    /\ e[k].doc = ranked[m].doc /\ e[k].score >= ranked[m].score
                    /\ e[k] = ranked[m] \/ Overlaps(e[k], ranked[m])
      <3>1. CASE m = n
        <4>1. l + 1 \in 1 .. l + 1 /\ h.score \in Nat
          BY <1>2, <1>4
        <4>2. e[l + 1].score >= h.score
          BY <2>2, <4>1
        <4> QED
          BY <2>2, <3>1, <4>1, <4>2
      <3>2. CASE m # n
        <4>1. m \in 1 .. n - 1
          BY <1>1, <3>2
        <4>2. PICK k \in DOMAIN kept :
                    /\ kept[k].doc = ranked[m].doc /\ kept[k].score >= ranked[m].score
                    /\ kept[k] = ranked[m] \/ Overlaps(kept[k], ranked[m])
          BY <4>1 DEF KeptUpTo
        <4>3. k \in 1 .. l + 1 /\ e[k] = kept[k]
          BY <1>2, <2>2
        <4>4. /\ e[k].doc = ranked[m].doc /\ e[k].score >= ranked[m].score
              /\ e[k] = ranked[m] \/ Overlaps(e[k], ranked[m])
          BY <4>2, <4>3
        <4> QED
          BY <4>3, <4>4
      <3> QED
        BY <3>1, <3>2
    <2>9. \A k \in DOMAIN e : \E m \in 1 .. n : e[k] = ranked[m]
      BY <2>2, <2>4
    <2>10. \A j, k \in DOMAIN e : j < k => e[j].score >= e[k].score
      BY <2>2, <2>5
    <2>11. \A j, k \in DOMAIN e : j # k /\ e[j].doc = e[k].doc => ~Overlaps(e[j], e[k])
      BY <2>2, <2>7
    <2>12. \A m \in 1 .. n : \E k \in DOMAIN e :
              /\ e[k].doc = ranked[m].doc /\ e[k].score >= ranked[m].score
              /\ e[k] = ranked[m] \/ Overlaps(e[k], ranked[m])
      BY <2>2, <2>8
    <2>13. e \in Seq(Elements(ranked'))
      BY <2>2 DEF S
    <2> QED
      BY <2>9, <2>10, <2>11, <2>12, <2>13 DEF KeptUpTo, e, Overlaps
  <1> QED
    BY <1>6, <1>7

LEMMA DeduplicateKeeps ==
    ASSUME SearchInv, Deduplicate
    PROVE  SearchInv'
  <1>1. /\ phase = "dedup" /\ kept' = Kept(kept, ranked[next])
        /\ UNCHANGED <<indexed, lexical, dense, fused, ranked, capped, results>>
        /\ IF next < Len(ranked) THEN next' = next + 1 /\ phase' = phase
           ELSE next' = 1 /\ phase' = "cap"
    BY DEF Deduplicate, Iterates, found
  <1>2. /\ next \in DOMAIN ranked /\ KeptUpTo(next - 1) /\ ListsInv
        /\ capped = <<>> /\ results = <<>>
    BY <1>1 DEF SearchInv, KeptInv, CappedInv, ResultsInv
  <1>3. PICK n \in DOMAIN ranked : n = next
    BY <1>2
  <1>4. KeptUpTo(n)'
    BY <1>1, <1>2, <1>3, KeptOneMore
  <1>5. ranked \in Seq(Elements(ranked)) /\ Len(ranked) \in Nat /\ DOMAIN ranked = 1 .. Len(ranked)
    BY <1>2 DEF ListsInv, IsList
  <1>6. CappedUpTo(0)'
    <2>1. (capped = <<>> => CappedUpTo(0))'
      BY NoneCapped, PTL
    <2> QED
      BY <1>1, <1>2, <2>1
  <1>7. CASE n < Len(ranked)
    <2>1. next' = n + 1 /\ phase' = "dedup" /\ next' \in DOMAIN ranked /\ next' - 1 = n
      BY <1>1, <1>3, <1>5, <1>7
    <2>2. KeptInv'
      BY <1>1, <1>4, <2>1 DEF KeptInv
    <2>3. CappedInv' /\ ResultsInv' /\ PhaseInv'
      BY <1>1, <1>2, <2>1 DEF CappedInv, ResultsInv, PhaseInv, Early, Late
    <2> QED
      BY <1>1, <1>2, <2>1, <2>2, <2>3, SameLists, SameIndexing DEF SearchInv, found
  <1>8. CASE ~(n < Len(ranked))
    <2>1. next' = 1 /\ phase' = "cap" /\ n = Len(ranked) /\ n \in 1 .. n
      BY <1>1, <1>3, <1>5, <1>8
    <2>2. KeptInv'
      BY <1>1, <1>4, <2>1 DEF KeptInv
    <2>3. kept' \in Seq(Elements(ranked)) /\ \E k \in DOMAIN kept' : TRUE
      BY <1>1, <1>4, <2>1 DEF KeptUpTo
    <2>4. next' \in DOMAIN kept'
      <3> DEFINE S == Elements(ranked)
      <3> HIDE DEF S
      <3>1. kept' \in Seq(S) /\ \E k \in DOMAIN kept' : TRUE
        BY <2>3 DEF S
      <3>2. 1 \in DOMAIN kept'
        BY <3>1
      <3> QED
        BY <2>1, <3>2
    <2>5. CappedInv' /\ ResultsInv' /\ PhaseInv'
      BY <1>1, <1>2, <1>6, <2>1, <2>4 DEF CappedInv, ResultsInv, PhaseInv, Early, Late
    <2> QED
      BY <1>1, <1>2, <2>1, <2>2, <2>5, SameLists, SameIndexing DEF SearchInv, found
  <1> QED
    BY <1>7, <1>8

\* There are finitely many hits of a document in a list.
LEMMA OfIsFinite ==
    ASSUME NEW S, NEW q \in Seq(S), NEW d
    PROVE  IsFiniteSet(Of(q, d)) /\ Cardinality(Of(q, d)) \in Nat
  <1> DEFINE l == Len(q)
             O == Of(q, d)
  <1>1. l \in Nat /\ O \subseteq 1 .. l
    BY DEF Of
  <1>2. IsFiniteSet(1 .. l)
    BY <1>1, FS_Interval
  <1> HIDE DEF O
  <1>3. IsFiniteSet(O) /\ Cardinality(O) \in Nat
    BY <1>1, <1>2, FS_Subset, FS_CardinalityType
  <1> QED
    BY <1>3 DEF O

\* The hits of a document in a list that gets one more.
LEMMA OfAppend ==
    ASSUME NEW S, NEW q \in Seq(S), NEW h \in S, NEW d
    PROVE  /\ h.doc # d => Of(Append(q, h), d) = Of(q, d)
           /\ h.doc = d => Cardinality(Of(Append(q, h), d)) = Cardinality(Of(q, d)) + 1
  <1> DEFINE l == Len(q)
             e == Append(q, h)
             O == Of(q, d)
             P == Of(e, d)
  <1>1. l \in Nat /\ DOMAIN q = 1 .. l
    OBVIOUS
  <1>2. DOMAIN e = 1 .. l + 1 /\ e[l + 1] = h /\ \A k \in 1 .. l : e[k] = q[k]
    OBVIOUS
  <1> HIDE DEF e, l
  <1>3. \A k : k \in 1 .. l + 1 <=> k \in 1 .. l \/ k = l + 1
    BY <1>1
  <1>4. l + 1 \notin O
    BY <1>1 DEF Of
  <1>5. h.doc # d => P = O
    BY <1>1, <1>2, <1>3 DEF Of
  <1>6. h.doc = d => P = O \cup {l + 1}
    BY <1>1, <1>2, <1>3 DEF Of
  <1>7. IsFiniteSet(O)
    BY OfIsFinite
  <1>8. h.doc = d => Cardinality(P) = Cardinality(O) + 1
    <2> HIDE DEF O, P
    <2> QED
      BY <1>4, <1>6, <1>7, FS_AddElement
  <1> QED
    BY <1>5, <1>8 DEF e

\* One candidate more is among the results, or its document has its share.
LEMMA CappedOneMore ==
    ASSUME ListsInv, NEW m, KeptUpTo(m), NEW n \in DOMAIN kept, CappedUpTo(n - 1),
           capped' = Capped(capped, kept[n]), UNCHANGED <<ranked, kept>>
    PROVE  CappedUpTo(n)'
  <1> DEFINE h == kept[n]
             S == Elements(ranked)
             l == Len(capped)
             e == capped'
  <1>1. kept \in Seq(S) /\ n \in Nat /\ 1 <= n /\ DOMAIN kept = 1 .. Len(kept) /\ h \in S
    BY DEF KeptUpTo
  <1>2. capped \in Seq(S) /\ l \in Nat /\ DOMAIN capped = 1 .. l
    BY DEF CappedUpTo
  <1>3. ASSUME NEW i \in DOMAIN capped
        PROVE  \E k \in 1 .. n - 1 : k \in DOMAIN kept /\ k < n /\ capped[i] = kept[k]
    BY <1>1 DEF CappedUpTo
  <1>4. \A k \in 1 .. n : k = n \/ k \in 1 .. n - 1
    BY <1>1
  <1>5. \A k \in 1 .. n - 1 : k \in 1 .. n
    BY <1>1
  <1>6. n \in 1 .. n
    BY <1>1
  <1>7. \A d : Cardinality(Of(capped, d)) \in Nat
    BY <1>2, OfIsFinite
  <1>8. PerDocument \in Nat
    BY LimitsAssumption
  <1>9. h.doc \in Documents
    <2>1. PICK k \in DOMAIN ranked : h = ranked[k]
      BY <1>1 DEF Elements
    <2> QED
      BY <2>1 DEF ListsInv, Known
  <1>10. CASE ~(Cardinality(Of(capped, h.doc)) < PerDocument)
    <2>1. e = capped
      BY <1>10 DEF Capped
    <2>2. Cardinality(Of(capped, h.doc)) = PerDocument
      <3>1. Cardinality(Of(capped, h.doc)) <= PerDocument
        BY <1>9 DEF CappedUpTo
      <3> QED
        BY <1>7, <1>8, <1>10, <3>1
    <2>3. ASSUME NEW i \in DOMAIN capped PROVE capped[i].score >= h.score
      <3>1. PICK k \in 1 .. n - 1 : k \in DOMAIN kept /\ k < n /\ capped[i] = kept[k]
        BY <1>3
      <3> QED
        BY <3>1 DEF KeptUpTo
    <2>4. Full(h)
      BY <2>2, <2>3 DEF Full, Of
    <2>5. ASSUME NEW k \in 1 .. n
          PROVE  (\E i \in DOMAIN capped : capped[i] = kept[k]) \/ Full(kept[k])
      <3>1. CASE k = n
        BY <2>4, <3>1
      <3>2. CASE k # n
        BY <1>4, <3>2 DEF CappedUpTo
      <3> QED
        BY <3>1, <3>2
    <2>6. CappedUpTo(n)
      BY <1>5, <2>5 DEF CappedUpTo
    <2> HIDE DEF e, h, S, l
    <2> QED
      BY <2>1, <2>6, SameCapped DEF e
  <1>11. CASE Cardinality(Of(capped, h.doc)) < PerDocument
    <2>1. e = Append(capped, h)
      BY <1>11 DEF Capped
    <2> HIDE DEF S, e
    <2>2. /\ e \in Seq(S) /\ DOMAIN e = 1 .. l + 1 /\ e[l + 1] = h
          /\ \A k \in 1 .. l : e[k] = capped[k]
      BY <1>1, <1>2, <2>1
    <2>3. \A k \in 1 .. l + 1 : k = l + 1 \/ k \in 1 .. l
      BY <1>2
    <2>4. ASSUME NEW i \in 1 .. l + 1 PROVE \E k \in 1 .. n : e[i] = kept[k]
      <3>1. CASE i = l + 1
        BY <1>6, <2>2, <3>1
      <3>2. CASE i # l + 1
        <4>1. i \in DOMAIN capped /\ e[i] = capped[i]
          BY <1>2, <2>2, <2>3, <3>2
        <4> QED
          BY <1>3, <1>5, <4>1
      <3> QED
        BY <3>1, <3>2
    <2>5. \A g, f : Overlaps(g, f) <=> Overlaps(f, g)
      BY DEF Overlaps
    <2>6. ASSUME NEW i \in DOMAIN capped, capped[i].doc = h.doc
          PROVE  ~Overlaps(capped[i], h) /\ ~Overlaps(h, capped[i])
      <3>1. PICK k \in 1 .. n - 1 : k \in DOMAIN kept /\ k < n /\ capped[i] = kept[k]
        BY <1>3
      <3>2. k # n
        BY <3>1
      <3>3. ~Overlaps(kept[k], h)
        BY <2>6, <3>1, <3>2 DEF KeptUpTo
      <3> QED
        BY <2>5, <3>1, <3>3
    <2>7. ASSUME NEW i \in 1 .. l + 1, NEW j \in 1 .. l + 1, i # j, e[i].doc = e[j].doc
          PROVE  ~Overlaps(e[i], e[j])
      <3>1. CASE j = l + 1
        <4>1. i \in DOMAIN capped /\ e[i] = capped[i]
          BY <1>2, <2>2, <2>3, <2>7, <3>1
        <4> QED
          BY <2>2, <2>6, <2>7, <3>1, <4>1
      <3>2. CASE i = l + 1
        <4>1. j \in DOMAIN capped /\ e[j] = capped[j]
          BY <1>2, <2>2, <2>3, <2>7, <3>2
        <4> QED
          BY <2>2, <2>6, <2>7, <3>2, <4>1
      <3>3. CASE i # l + 1 /\ j # l + 1
        <4>1. i \in DOMAIN capped /\ e[i] = capped[i] /\ j \in DOMAIN capped /\ e[j] = capped[j]
          BY <1>2, <2>2, <2>3, <3>3
        <4> QED
          BY <2>7, <4>1 DEF CappedUpTo
      <3> QED
        BY <3>1, <3>2, <3>3
    <2>8. ASSUME NEW d PROVE /\ d # h.doc => Of(e, d) = Of(capped, d)
                             /\ d = h.doc => Cardinality(Of(e, d)) = Cardinality(Of(capped, d)) + 1
      BY <1>1, <1>2, <2>1, OfAppend
    <2>9. ASSUME NEW d \in Documents PROVE Cardinality(Of(e, d)) <= PerDocument
      <3>1. CASE d = h.doc
        BY <1>7, <1>8, <1>11, <2>8, <3>1
      <3>2. CASE d # h.doc
        BY <2>8, <3>2 DEF CappedUpTo
      <3> QED
        BY <3>1, <3>2
    <2>10. ASSUME NEW k \in 1 .. n
           PROVE  \/ \E i \in 1 .. l + 1 : e[i] = kept[k]
                  \/ /\ Cardinality(Of(e, kept[k].doc)) = PerDocument
                     /\ \A i \in Of(e, kept[k].doc) : e[i].score >= kept[k].score
      <3>1. CASE k = n
        <4>1. l + 1 \in 1 .. l + 1
          BY <1>2
        <4> QED
          BY <2>2, <3>1, <4>1
      <3>2. CASE k # n /\ \E i \in DOMAIN capped : capped[i] = kept[k]
        <4>1. PICK i \in DOMAIN capped : capped[i] = kept[k]
          BY <3>2
        <4>2. i \in 1 .. l + 1 /\ e[i] = capped[i]
          BY <1>2, <2>2
        <4> QED
          BY <4>1, <4>2
      <3>3. CASE k # n /\ Full(kept[k])
        <4> DEFINE g == kept[k]
        <4>1. Cardinality(Of(capped, g.doc)) = PerDocument
          BY <3>3 DEF Full
        <4>2. g.doc # h.doc
          BY <1>8, <1>11, <4>1
        <4>3. Of(e, g.doc) = Of(capped, g.doc)
          BY <2>8, <4>2
        <4>4. ASSUME NEW i \in Of(capped, g.doc) PROVE e[i] = capped[i]
          BY <1>2, <2>2 DEF Of
        <4> QED
          BY <3>3, <4>1, <4>3, <4>4 DEF Full
      <3> QED
        BY <1>4, <3>1, <3>2, <3>3 DEF CappedUpTo
    <2> QED
      BY <2>2, <2>4, <2>7, <2>9, <2>10 DEF CappedUpTo, Full, e, S
  <1> QED
    BY <1>10, <1>11

LEMMA CapKeeps ==
    ASSUME SearchInv, Cap
    PROVE  SearchInv'
  <1>1. /\ phase = "cap" /\ capped' = Capped(capped, kept[next])
        /\ UNCHANGED <<indexed, lexical, dense, fused, ranked, kept, results>>
        /\ IF next < Len(kept) THEN next' = next + 1 /\ phase' = phase
           ELSE next' = 1 /\ phase' = "finalize"
    BY DEF Cap, Iterates, found
  <1>2. /\ next \in DOMAIN kept /\ CappedUpTo(next - 1) /\ ListsInv
        /\ KeptUpTo(Len(ranked)) /\ results = <<>>
    BY <1>1 DEF SearchInv, KeptInv, CappedInv, ResultsInv
  <1>3. PICK n \in DOMAIN kept : n = next
    BY <1>2
  <1>4. CappedUpTo(n)'
    BY <1>1, <1>2, <1>3, CappedOneMore
  <1>5. Len(kept) \in Nat /\ DOMAIN kept = 1 .. Len(kept)
    BY <1>2 DEF KeptUpTo
  <1>6. KeptUpTo(Len(ranked))'
    <2>1. PICK m : m = Len(ranked)
      OBVIOUS
    <2>2. KeptUpTo(m)' /\ m = Len(ranked')
      BY <1>1, <1>2, <2>1, SameKept
    <2> QED
      BY <2>2 DEF KeptUpTo
  <1>7. CASE n < Len(kept)
    <2>1. next' = n + 1 /\ phase' = "cap" /\ next' \in DOMAIN kept /\ next' - 1 = n
      BY <1>1, <1>3, <1>5, <1>7
    <2>2. CappedInv'
      BY <1>1, <1>4, <2>1 DEF CappedInv
    <2>3. KeptInv' /\ ResultsInv' /\ PhaseInv'
      BY <1>1, <1>2, <1>6, <2>1 DEF KeptInv, ResultsInv, PhaseInv, Early, Late
    <2> QED
      BY <1>1, <1>2, <2>1, <2>2, <2>3, SameLists, SameIndexing DEF SearchInv, found
  <1>8. CASE ~(n < Len(kept))
    <2>1. next' = 1 /\ phase' = "finalize" /\ n = Len(kept)
      BY <1>1, <1>3, <1>5, <1>8
    <2>2. CappedInv'
      BY <1>1, <1>4, <2>1 DEF CappedInv
    <2>3. KeptInv' /\ ResultsInv' /\ PhaseInv'
      BY <1>1, <1>2, <1>6, <2>1 DEF KeptInv, ResultsInv, PhaseInv, Early, Late
    <2> QED
      BY <1>1, <1>2, <2>1, <2>2, <2>3, SameLists, SameIndexing DEF SearchInv, found
  <1> QED
    BY <1>7, <1>8

\* The rescue never happens: a document has fewer results than are looked at for diversity.
LEMMA NothingIsRescued ==
    ASSUME ListsInv, NEW n, CappedUpTo(n)
    PROVE  Rescued(capped, fused) = capped
  <1> SUFFICES ASSUME Len(capped) >= Top, Cardinality(Docs(Cut(capped, Top))) < 2
               PROVE  FALSE
    BY DEF Rescued
  <1> DEFINE S == Elements(ranked)
             l == Len(capped)
             head == Cut(capped, Top)
             D == Docs(head)
             d == capped[1].doc
  <1>1. capped \in Seq(S) /\ l \in Nat /\ DOMAIN capped = 1 .. l
    BY DEF CappedUpTo
  <1>2. Top \in Nat /\ 1 <= Top /\ PerDocument < Top /\ PerDocument \in Nat
    BY LimitsAssumption
  <1>3. DOMAIN head = 1 .. Top /\ \A i \in 1 .. Top : head[i] = capped[i]
    <2> DEFINE m == IF Top < Len(capped) THEN Top ELSE Len(capped)
    <2> HIDE DEF S
    <2>1. m = Top
      <3>1. \A k, j \in Nat : k >= j => (IF j < k THEN j ELSE k) = j
        OBVIOUS
      <3>2. Len(capped) \in Nat /\ Top \in Nat /\ Len(capped) >= Top
        BY <1>1, <1>2
      <3> QED
        BY <3>1, <3>2
    <2>2. head = SubSeq(capped, 1, Top)
      <3>1. head = SubSeq(capped, 1, m)
        BY DEF Cut
      <3> HIDE DEF m
      <3> QED
        BY <2>1, <3>1
    <2>3. 1 \in 1 .. l + 1 /\ Top \in 0 .. l
      BY <1>1, <1>2
    <2>4. SubSeq(capped, 1, Top) = [i \in 1 .. Top |-> capped[i]]
      BY <1>1, <1>2, <2>3
    <2> QED
      BY <2>2, <2>4
  <1>4. IsFiniteSet(D) /\ D = {capped[i].doc : i \in 1 .. Top}
    <2> DEFINE f == [i \in 1 .. Top |-> capped[i].doc]
    <2>1. D = ImageOf(f, 1 .. Top) /\ D = {capped[i].doc : i \in 1 .. Top}
      BY <1>3 DEF Docs, ImageOf
    <2>2. IsFiniteSet(1 .. Top)
      BY <1>2, FS_Interval
    <2> HIDE DEF f, D
    <2> QED
      BY <2>1, <2>2, ImageIsFinite
  <1>5. d \in D /\ 1 \in DOMAIN capped
    BY <1>1, <1>2, <1>4
  <1>6. ASSUME NEW i \in 1 .. Top PROVE capped[i].doc = d
    <2> DEFINE g == capped[i].doc
    <2> SUFFICES ASSUME g # d PROVE FALSE
      OBVIOUS
    <2>1. g \in D
      BY <1>4
    <2> HIDE DEF g, d, D
    <2>2. Cardinality({d}) = 1 /\ IsFiniteSet({d})
      BY FS_Singleton
    <2> DEFINE P == {d} \cup {g}
    <2>3. Cardinality(P) = 2
      BY <2>2, FS_AddElement
    <2>4. P \in SUBSET D
      BY <1>5, <2>1
    <2> HIDE DEF P
    <2>5. Cardinality(P) <= Cardinality(D)
      BY <1>4, <2>4, FS_Subset
    <2>6. Cardinality(D) \in Nat
      BY <1>4, FS_CardinalityType
    <2>7. Cardinality(D) < 2
      BY DEF D
    <2> QED
      BY <2>3, <2>5, <2>6, <2>7
  <1>7. 1 .. Top \subseteq Of(capped, d) /\ Of(capped, d) \subseteq 1 .. l
    BY <1>1, <1>2, <1>6 DEF Of
  <1> DEFINE O == Of(capped, d)
  <1>8. Cardinality(1 .. Top) = Top
    BY <1>2, FS_Interval
  <1>9. Top <= Cardinality(O) /\ Cardinality(O) \in Nat
    <2> HIDE DEF O
    <2>1. IsFiniteSet(1 .. l)
      BY <1>1, FS_Interval
    <2>2. IsFiniteSet(O)
      BY <1>7, <2>1, FS_Subset DEF O
    <2> DEFINE I == 1 .. Top
    <2>3. I \in SUBSET O /\ Cardinality(I) = Top
      BY <1>7, <1>8 DEF O
    <2> HIDE DEF I
    <2> QED
      BY <2>2, <2>3, FS_Subset, FS_CardinalityType
  <1>10. d \in Documents
    <2>1. PICK k \in DOMAIN ranked : capped[1] = ranked[k]
      BY <1>1, <1>5 DEF Elements
    <2> QED
      BY <2>1 DEF ListsInv, Known
  <1>11. Cardinality(O) <= PerDocument
    BY <1>10 DEF CappedUpTo
  <1> QED
    BY <1>2, <1>9, <1>11

LEMMA FinalizeKeeps ==
    ASSUME SearchInv, Finalize
    PROVE  SearchInv'
  <1> DEFINE S == Elements(ranked)
             l == Len(capped)
  <1>1. /\ phase = "finalize" /\ phase' = "pack"
        /\ UNCHANGED <<indexed, next, lexical, dense, fused, ranked, kept, capped>>
    BY DEF Finalize, found
  <1>2. ListsInv /\ CappedUpTo(Len(kept)) /\ KeptUpTo(Len(ranked))
    BY <1>1 DEF SearchInv, CappedInv, KeptInv
  <1>3. Rescued(capped, fused) = capped
    BY <1>2, NothingIsRescued
  <1>4. PICK order \in Selections(DOMAIN capped, l) :
           results' = [n \in DOMAIN order |-> capped[order[n]]]
    BY <1>3 DEF Finalize
  <1>5. capped \in Seq(S) /\ l \in Nat /\ DOMAIN capped = 1 .. l
    BY <1>2 DEF CappedUpTo
  <1>6. order \in [1 .. l -> 1 .. l] /\ \A i, j \in 1 .. l : i # j => order[i] # order[j]
    BY <1>4, <1>5 DEF Selections, IsInjective
  <1>7. \A n \in 1 .. l : \E i \in 1 .. l : order[i] = n
    <2>1. order \in Injection(1 .. l, 1 .. l)
      BY <1>6 DEF Injection, IsInjective
    <2>2. IsFiniteSet(1 .. l)
      BY <1>5, FS_Interval
    <2> HIDE DEF l
    <2>3. order \in Surjection(1 .. l, 1 .. l)
      BY <2>1, <2>2, FS_Injection
    <2> QED
      BY <2>3 DEF Surjection
  <1> DEFINE r == [n \in 1 .. l |-> capped[order[n]]]
  <1>8. results' = r
    BY <1>4, <1>6
  <1>9. DOMAIN r = 1 .. l /\ \A n \in 1 .. l : r[n] = capped[order[n]] /\ r[n] \in S
    BY <1>5, <1>6
  <1>10. r \in Seq(S)
    <2>1. r \in [1 .. l -> S]
      BY <1>9
    <2> HIDE DEF r, S, l
    <2> QED
      BY <1>5, <2>1 DEF l
  <1> HIDE DEF r
  <1>11. IsOrder(order, r, capped)
    BY <1>5, <1>6, <1>7, <1>9 DEF IsOrder
  <1>12. ResultsInv'
    <2>1. results' \in Seq(Elements(ranked')) /\ \E f : IsOrder(f, results', capped')
      BY <1>1, <1>8, <1>10, <1>11
    <2> QED
      BY <1>1, <2>1 DEF ResultsInv
  <1>13. KeptUpTo(Len(ranked))' /\ CappedUpTo(Len(kept))'
    <2>1. PICK m, n : m = Len(ranked) /\ n = Len(kept)
      OBVIOUS
    <2>2. KeptUpTo(m)' /\ m = Len(ranked') /\ CappedUpTo(n)' /\ n = Len(kept')
      BY <1>1, <1>2, <2>1, SameKept, SameCapped
    <2> QED
      BY <2>2 DEF KeptUpTo, CappedUpTo, Full
  <1>14. KeptInv' /\ CappedInv' /\ PhaseInv'
    BY <1>1, <1>13 DEF KeptInv, CappedInv, PhaseInv, Early, Late
  <1> QED
    BY <1>1, <1>2, <1>12, <1>14, SameLists, SameIndexing DEF SearchInv, found

LEMMA PackKeeps ==
    ASSUME SearchInv, Pack
    PROVE  SearchInv'
  <1>1. /\ phase = "pack" /\ phase' \in {"pack", "packed"}
        /\ UNCHANGED <<indexed, lexical, dense, fused, ranked, kept, capped, results>>
    BY DEF Pack, found
  <1>2. ListsInv /\ CappedUpTo(Len(kept)) /\ KeptUpTo(Len(ranked))
    BY <1>1 DEF SearchInv, CappedInv, KeptInv
  <1>3. KeptUpTo(Len(ranked))' /\ CappedUpTo(Len(kept))'
    <2>1. PICK m, n : m = Len(ranked) /\ n = Len(kept)
      OBVIOUS
    <2>2. KeptUpTo(m)' /\ m = Len(ranked') /\ CappedUpTo(n)' /\ n = Len(kept')
      BY <1>1, <1>2, <2>1, SameKept, SameCapped
    <2> QED
      BY <2>2 DEF KeptUpTo, CappedUpTo, Full
  <1>4. KeptInv' /\ CappedInv' /\ PhaseInv' /\ ResultsInv'
    BY <1>1, <1>3 DEF SearchInv, KeptInv, CappedInv, PhaseInv, ResultsInv, Early, Late
  <1> QED
    BY <1>1, <1>2, <1>4, SameLists, SameIndexing DEF SearchInv, found

\* The invariant holds in every state that the indexing and a search can be in.
LEMMA SearchInvariant ==
    Spec => []SearchInv
  <1>1. ASSUME SearchInv, [Next]_vars PROVE SearchInv'
    <2>1. CASE UNCHANGED vars
      <3>1. UNCHANGED <<indexed, phase, next, lexical, dense, fused, ranked, kept, capped, results>>
        BY <2>1 DEF vars, indexed
      <3>2. IndexingInv'
        BY <1>1, <3>1 DEF SearchInv, IndexingInv, indexed, Chunked
      <3>3. ListsInv'
        BY <1>1, <3>1, SameLists DEF SearchInv, found
      <3>4. KeptInv' /\ CappedInv'
        BY <1>1, <3>1 DEF SearchInv, KeptInv, CappedInv, KeptUpTo, CappedUpTo, Full
      <3>5. ResultsInv' /\ PhaseInv'
        BY <1>1, <3>1 DEF SearchInv, ResultsInv, PhaseInv
      <3> QED
        BY <3>2, <3>3, <3>4, <3>5 DEF SearchInv
    <2> QED
      BY <1>1, <2>1, IndexKeeps, LexicalKeeps, DenseKeeps, FuseKeeps, RerankKeeps,
         DeduplicateKeeps, CapKeeps, FinalizeKeeps, PackKeeps DEF Next
  <1> QED
    BY <1>1, InitSearchInv, PTL DEF Spec


----------------------------------------------------------------------------
(* The theorems *)

\* Whatever the texts, and whatever the sizes of the chunker: the chunks of a version are
\* its text, without a gap, and with no overlap but that of two windows of one block.
THEOREM ChunksAreTheText ==
    Spec => []ChunksCoverText
  <1>1. ASSUME SearchInv PROVE ChunksCoverText
    <2> SUFFICES ASSUME phase # "index", NEW d \in Documents
                 PROVE  LET t == text[d]
                            c == chunks[d]
                        IN  IF t = <<>> THEN c = <<>>
                            ELSE /\ c # <<>> /\ c[1].first = 1 /\ c[Len(c)].last = t[Len(t)].last
                                 /\ \A k \in DOMAIN c : Size(c[k]) <= MaxTokens
                                 /\ \A k \in 1 .. Len(c) - 1 : Follows(c, k)
      BY DEF ChunksCoverText, Follows
    <2> DEFINE t == text[d]
               c == chunks[d]
               a == at[d]
    <2>1. ChunkingInv(t, c, a) /\ IsText(t) /\ AtEnd(t, a)
      BY <1>1, TextOf DEF SearchInv, IndexingInv, Chunked, AtEnd
    <2> HIDE DEF t, c, a
    <2>2. /\ c \in Seq(ChunkType) /\ Len(c) \in Nat /\ DOMAIN c = 1 .. Len(c)
          /\ t \in Seq(ContentBlock) /\ Len(t) \in Nat /\ DOMAIN t = 1 .. Len(t)
      BY <2>1 DEF ChunkingInv, IsText
    <2>3. CASE t = <<>>
      <3>1. DOMAIN t = {}
        BY <2>3
      <3>2. DOMAIN c = {}
        BY <2>1, <3>1 DEF ChunkingInv, SpansInv
      <3>3. Len(c) = 0
        BY <2>2, <3>2
      <3>4. c = <<>>
        BY <2>2, <3>3
      <3> QED
        BY <2>3, <3>4 DEF t, c
    <2>4. CASE t # <<>>
      <3>1. Len(t) >= 1 /\ Len(t) \in DOMAIN t /\ t[Len(t)] \in ContentBlock
        BY <2>2, <2>4
      <3>2. a.block \in Nat /\ a.block > Len(t) /\ ~InWindows(a) /\ a.pos = t[Len(t)].last + 1
        BY <2>1, <2>4 DEF ChunkingInv, CursorInv, AtEnd, Cursor
      <3>3. a.block # 1
        BY <2>2, <3>1, <3>2
      <3>4. c # <<>> /\ c[1].first = 1 /\ c[Len(c)].last = a.pos - 1
        BY <2>1, <3>2, <3>3 DEF ChunkingInv, CoverInv
      <3>5. a.pos - 1 = t[Len(t)].last
        BY <3>1, <3>2 DEF ContentBlock
      <3>6. \A k \in DOMAIN c : Size(c[k]) <= MaxTokens
        BY <2>1 DEF ChunkingInv, CoverInv
      <3>7. ASSUME NEW k \in 1 .. Len(c) - 1 PROVE Follows(c, k)
        <4>1. k \in DOMAIN c /\ k + 1 \in DOMAIN c
          BY <2>2
        <4> QED
          BY <2>1, <4>1 DEF ChunkingInv, CoverInv
      <3> QED
        BY <2>4, <3>4, <3>5, <3>6, <3>7 DEF t, c
    <2> QED
      BY <2>3, <2>4
  <1> QED
    BY <1>1, SearchInvariant, PTL

\* The results have as many hits of a document as what _finalize has left.
LEMMA AsManyOf ==
    ASSUME NEW S, NEW q \in Seq(S), NEW r, NEW f, IsOrder(f, q, r), NEW d
    PROVE  Cardinality(Of(q, d)) = Cardinality(Of(r, d))
  <1>1. IsFiniteSet(Of(q, d))
    BY OfIsFinite
  <1>2. ImageOf(f, Of(q, d)) = Of(r, d)
    <2>1. ASSUME NEW i \in Of(q, d) PROVE f[i] \in Of(r, d)
      BY DEF IsOrder, Of
    <2>2. ASSUME NEW n \in Of(r, d) PROVE \E i \in Of(q, d) : f[i] = n
      <3>1. PICK i \in DOMAIN q : f[i] = n
        BY DEF IsOrder, Of
      <3> QED
        BY <3>1 DEF IsOrder, Of
    <2> QED
      BY <2>1, <2>2 DEF ImageOf
  <1>3. \A i, j \in Of(q, d) : f[i] = f[j] => i = j
    BY DEF IsOrder, Of
  <1> QED
    BY <1>1, <1>2, <1>3, ImageIsFinite

\* What is known of the results once there are some.
LEMMA ResultsFacts ==
    ASSUME SearchInv, Returned
    PROVE  /\ KeptUpTo(Len(ranked)) /\ CappedUpTo(Len(kept)) /\ ListsInv
           /\ results \in Seq(Elements(ranked))
           /\ \E f : IsOrder(f, results, capped)
  BY DEF SearchInv, Returned, KeptInv, CappedInv, ResultsInv

\* A candidate of the reranking that is not returned overlaps a result that is no worse, or
\* its document has its share of results, none of them worse.
THEOREM NothingIsDroppedForNothing ==
    Spec => []DropsAreJustified
  <1>1. ASSUME SearchInv PROVE DropsAreJustified
    <2> SUFFICES ASSUME Returned, NEW c \in Range(ranked) \ Range(results)
                 PROVE  LET better == {i \in Of(results, c.doc) : results[i].score >= c.score}
                        IN  \/ \E i \in better : Overlaps(results[i], c)
                            \/ Cardinality(better) = PerDocument
      BY DEF DropsAreJustified
    <2> DEFINE better == {i \in Of(results, c.doc) : results[i].score >= c.score}
    <2>1. KeptUpTo(Len(ranked)) /\ CappedUpTo(Len(kept)) /\ ListsInv
          /\ results \in Seq(Elements(ranked))
      BY <1>1, ResultsFacts
    <2>2. PICK f : IsOrder(f, results, capped)
      BY <1>1, ResultsFacts
    <2>3. DOMAIN ranked = 1 .. Len(ranked) /\ DOMAIN kept = 1 .. Len(kept)
      BY <2>1 DEF ListsInv, IsList, KeptUpTo
    <2>4. PICK m \in DOMAIN ranked : c = ranked[m]
      BY DEF Range
    <2>5. PICK k \in DOMAIN kept :
             /\ kept[k].doc = c.doc /\ kept[k].score >= c.score
             /\ kept[k] = c \/ Overlaps(kept[k], c)
      BY <2>1, <2>3, <2>4 DEF KeptUpTo
    <2>6. CASE \E i \in DOMAIN capped : capped[i] = kept[k]
      <3>1. PICK i \in DOMAIN capped : capped[i] = kept[k]
        BY <2>6
      <3>2. PICK j \in DOMAIN results : f[j] = i
        BY <2>2 DEF IsOrder
      <3>3. results[j] = kept[k]
        BY <2>2, <3>1, <3>2 DEF IsOrder
      <3>4. kept[k] # c
        BY <3>3 DEF Range
      <3> QED
        BY <2>5, <3>3, <3>4 DEF Of
    <2>7. CASE Full(kept[k])
      <3>1. ASSUME NEW j \in Of(results, c.doc) PROVE results[j].score >= c.score
        <4>1. f[j] \in Of(capped, c.doc) /\ results[j] = capped[f[j]]
          BY <2>2 DEF IsOrder, Of
        <4>2. results[j].score >= kept[k].score
          BY <2>5, <2>7, <4>1 DEF Full
        <4>3. PICK n \in DOMAIN ranked : results[j] = ranked[n]
          BY <2>1 DEF Of, Elements
        <4>4. PICK l \in DOMAIN ranked : kept[k] = ranked[l]
          BY <2>1, <2>3 DEF KeptUpTo, Elements
        <4>5. results[j].score \in Nat /\ kept[k].score \in Nat /\ c.score \in Nat
          BY <2>1, <2>4, <4>3, <4>4 DEF ListsInv
        <4> QED
          BY <2>5, <4>2, <4>5
      <3>2. better = Of(results, c.doc)
        BY <3>1
      <3>3. Cardinality(Of(results, c.doc)) = Cardinality(Of(capped, c.doc))
        BY <2>1, <2>2, AsManyOf
      <3>4. Cardinality(Of(capped, c.doc)) = PerDocument
        BY <2>5, <2>7 DEF Full
      <3> QED
        BY <3>2, <3>3, <3>4
    <2> QED
      BY <2>1, <2>3, <2>6, <2>7 DEF CappedUpTo
  <1> QED
    BY <1>1, SearchInvariant, PTL

\* A block and a chunk with a token in common overlap, if the chunk does not begin in a
\* segment.
LEMMA BlockMeetsChunk ==
    ASSUME IndexingInv, NEW g, NEW h, g.doc \in Documents, h.doc = g.doc, OnBlock(g), OnChunk(h),
           h.source = "dense", NEW n \in Tokens(g) \cap Tokens(h), ~Displaced(h)
    PROVE  Overlaps(g, h)
  <1> DEFINE d == g.doc
             t == text[d]
  <1>1. PICK i \in DOMAIN t : Place(g, Whole(t, i))
    BY DEF OnBlock
  <1>2. PICK k \in DOMAIN chunks[d] : Place(h, chunks[d][k])
    BY DEF OnChunk
  <1> DEFINE c == chunks[d][k]
  <1>3. ChunkingInv(t, chunks[d], at[d]) /\ IsText(t) /\ chunks[d] \in Seq(ChunkType)
    BY TextOf DEF IndexingInv
  <1>4. PICK p \in DOMAIN t, q \in DOMAIN t : Spans(t, c, p, q)
    BY <1>3 DEF ChunkingInv, SpansInv
  <1>5. c \in ChunkType
    BY <1>3
  <1>6. /\ i \in Nat /\ p \in Nat /\ q \in Nat
        /\ \A j \in DOMAIN t : t[j].first \in Nat /\ t[j].last \in Nat
        /\ \A j, l \in DOMAIN t : j < l => t[j].last < t[l].first
    <2>1. \A j \in DOMAIN t : t[j] \in ContentBlock
      BY <1>3 DEF IsText
    <2>2. \A j \in DOMAIN t : t[j].first \in Nat /\ t[j].last \in Nat
      BY <2>1 DEF ContentBlock
    <2>3. t \in Seq(ContentBlock) /\ \A j, l \in DOMAIN t : j < l => t[j].last < t[l].first
      BY <1>3 DEF IsText
    <2> HIDE DEF t
    <2>4. DOMAIN t = 1 .. Len(t)
      BY <2>3
    <2>5. i \in Nat /\ p \in Nat /\ q \in Nat
      BY <2>4
    <2> QED
      BY <2>2, <2>3, <2>5
  <1> DEFINE s == c.start
             e == c.end
             first == c.first
             last == c.last
  <1>7. /\ g.start = i - 1 /\ g.end = i - 1 /\ g.first = t[i].first /\ g.last = t[i].last
        /\ h.start = s /\ h.end = e /\ h.first = first /\ h.last = last
        /\ s \in Nat /\ e \in Nat /\ first \in Nat /\ last \in Nat
    BY <1>1, <1>2, <1>5 DEF Place, Whole, ChunkType
  <1>8. ~IsLong(t[p])
    <2> SUFFICES ASSUME IsLong(t[p]) PROVE FALSE
      OBVIOUS
    <2>1. t[p].first <= first /\ first <= t[p].last
      BY <1>4 DEF Spans
    <2>2. h.first \in Tokens(t[p])
      BY <1>6, <1>7, <2>1 DEF Tokens
    <2> QED
      BY <2>2 DEF Displaced
  <1>9. s = p - 1 /\ q - 1 <= e /\ t[p].first <= first /\ last <= t[q].last
    BY <1>4, <1>8 DEF Spans
  <1> HIDE DEF s, e, first, last, c, t, d
  <1>10. n \in Nat /\ first <= n /\ n <= last /\ t[i].first <= n /\ n <= t[i].last
    BY <1>6, <1>7 DEF Tokens
  <1>11. ~(i < p)
    BY <1>6, <1>7, <1>9, <1>10
  <1>12. ~(q < i)
    BY <1>6, <1>7, <1>9, <1>10
  <1>13. i - 1 <= e /\ s <= i - 1
    BY <1>6, <1>7, <1>9, <1>11, <1>12
  <1>14. End(g) = i - 1 /\ e <= End(h)
    BY <1>6, <1>7 DEF End
  <1>15. End(h) \in Nat
    BY <1>7 DEF End
  <1> QED
    BY <1>6, <1>7, <1>13, <1>14, <1>15 DEF Overlaps

\* Two hits of a document with a token in common overlap, if neither begins in a segment.
LEMMA CommonTextOverlaps ==
    ASSUME IndexingInv, NEW g, NEW h, Known(g), Known(h), g.doc = h.doc,
           NEW n \in Tokens(g) \cap Tokens(h), ~Displaced(g), ~Displaced(h)
    PROVE  Overlaps(g, h)
  <1> DEFINE d == g.doc
             t == text[d]
  <1>1. g.doc \in Documents /\ IsText(t) /\ ChunkingInv(t, chunks[d], at[d])
    BY TextOf DEF Known, IndexingInv
  <1>2. \A f, k : Overlaps(f, k) <=> Overlaps(k, f)
    BY DEF Overlaps
  <1>3. CASE g.source # "dense" /\ h.source = "dense"
    BY <1>1, <1>3, BlockMeetsChunk DEF Known
  <1>4. CASE g.source = "dense" /\ h.source # "dense"
    <2>1. Overlaps(h, g)
      BY <1>1, <1>4, BlockMeetsChunk DEF Known
    <2> QED
      BY <1>2, <2>1
  <1>5. CASE g.source # "dense" /\ h.source # "dense"
    <2>1. PICK i \in DOMAIN t : Place(g, Whole(t, i))
      BY <1>5 DEF Known, OnBlock
    <2>2. PICK j \in DOMAIN t : Place(h, Whole(t, j))
      BY <1>5 DEF Known, OnBlock
    <2>3. /\ g.start = i - 1 /\ g.end = i - 1 /\ g.first = t[i].first /\ g.last = t[i].last
          /\ h.start = j - 1 /\ h.end = j - 1 /\ h.first = t[j].first /\ h.last = t[j].last
      BY <2>1, <2>2 DEF Place, Whole
    <2>4. t[i] \in ContentBlock /\ t[j] \in ContentBlock /\ i \in Nat /\ j \in Nat
      BY <1>1 DEF IsText
    <2>5. /\ t[i].first \in Nat /\ t[i].last \in Nat /\ t[j].first \in Nat /\ t[j].last \in Nat
      BY <2>4 DEF ContentBlock
    <2>6. (i < j => t[i].last < t[j].first) /\ (j < i => t[j].last < t[i].first)
      BY <1>1 DEF IsText
    <2> HIDE DEF t, d
    <2>7. i = j
      BY <2>3, <2>4, <2>5, <2>6 DEF Tokens
    <2> QED
      BY <2>3, <2>4, <2>7 DEF Overlaps, End
  <1>6. CASE g.source = "dense" /\ h.source = "dense"
    <2> DEFINE c == chunks[d]
    <2>1. PICK k \in DOMAIN c : Place(g, c[k])
      BY <1>6 DEF Known, OnChunk
    <2>2. PICK l \in DOMAIN c : Place(h, c[l])
      BY <1>6 DEF Known, OnChunk
    <2>3. c \in Seq(ChunkType) /\ PairsInv(t, c, at[d])
      BY <1>1 DEF ChunkingInv
    <2>4. c[k] \in ChunkType /\ c[l] \in ChunkType /\ k \in Nat /\ l \in Nat
      BY <2>3
    <2>5. /\ g.start = c[k].start /\ g.end = c[k].end /\ g.first = c[k].first /\ g.last = c[k].last
          /\ h.start = c[l].start /\ h.end = c[l].end /\ h.first = c[l].first /\ h.last = c[l].last
      BY <2>1, <2>2 DEF Place
    <2>6. /\ g.start \in Nat /\ g.end \in Nat /\ g.first \in Nat /\ g.last \in Nat
          /\ h.start \in Nat /\ h.end \in Nat /\ h.first \in Nat /\ h.last \in Nat
      BY <2>4, <2>5 DEF ChunkType
    <2>7. k < l => g.last < h.first \/ g.start = h.start
      BY <2>3, <2>5 DEF PairsInv
    <2>8. l < k => h.last < g.first \/ g.start = h.start
      BY <2>3, <2>5 DEF PairsInv
    <2> HIDE DEF c, t, d
    <2>9. g.start = h.start
      BY <2>4, <2>5, <2>6, <2>7, <2>8 DEF Tokens
    <2> QED
      BY <2>6, <2>9 DEF Overlaps, End
  <1> QED
    BY <1>3, <1>4, <1>5, <1>6

\* No token is in two results, unless one of them is a chunk that begins in a segment, and
\* no document has more than its share of them.
THEOREM NoTextTwice ==
    Spec => []TextReturnedOnce
  <1>1. ASSUME SearchInv PROVE TextReturnedOnce
    <2> SUFFICES ASSUME Returned
                 PROVE  /\ \A d \in Documents : Cardinality(Of(results, d)) <= PerDocument
                        /\ \A i, j \in DOMAIN results :
                              /\ i # j /\ results[i].doc = results[j].doc
                              /\ Tokens(results[i]) \cap Tokens(results[j]) # {}
                              => Displaced(results[i]) \/ Displaced(results[j])
      BY DEF TextReturnedOnce
    <2>1. CappedUpTo(Len(kept)) /\ ListsInv /\ results \in Seq(Elements(ranked)) /\ IndexingInv
      BY <1>1, ResultsFacts DEF SearchInv
    <2>2. PICK f : IsOrder(f, results, capped)
      BY <1>1, ResultsFacts
    <2>3. ASSUME NEW d \in Documents PROVE Cardinality(Of(results, d)) <= PerDocument
      <3>1. Cardinality(Of(results, d)) = Cardinality(Of(capped, d))
        BY <2>1, <2>2, AsManyOf
      <3> QED
        BY <2>1, <3>1 DEF CappedUpTo
    <2>4. ASSUME NEW i \in DOMAIN results PROVE Known(results[i])
      <3>1. PICK m \in DOMAIN ranked : results[i] = ranked[m]
        BY <2>1 DEF Elements
      <3> QED
        BY <2>1, <3>1 DEF ListsInv
    <2>5. ASSUME NEW i \in DOMAIN results, NEW j \in DOMAIN results,
                 i # j, results[i].doc = results[j].doc
          PROVE  ~Overlaps(results[i], results[j])
      <3>1. /\ f[i] \in DOMAIN capped /\ f[j] \in DOMAIN capped /\ f[i] # f[j]
            /\ results[i] = capped[f[i]] /\ results[j] = capped[f[j]]
        BY <2>2, <2>5 DEF IsOrder
      <3> QED
        BY <2>1, <2>5, <3>1 DEF CappedUpTo
    <2>6. ASSUME NEW i \in DOMAIN results, NEW j \in DOMAIN results,
                 i # j, results[i].doc = results[j].doc,
                 Tokens(results[i]) \cap Tokens(results[j]) # {}
          PROVE  Displaced(results[i]) \/ Displaced(results[j])
      <3>1. PICK n : n \in Tokens(results[i]) \cap Tokens(results[j])
        BY <2>6
      <3> QED
        BY <2>1, <2>4, <2>5, <2>6, <3>1, CommonTextOverlaps
    <2> QED
      BY <2>3, <2>6
  <1> QED
    BY <1>1, SearchInvariant, PTL
=============================================================================
