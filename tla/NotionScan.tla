----------------------------- MODULE NotionScan -----------------------------
(***************************************************************************)
(* NotionConnector.scan (rekanvault/sources/notion.py): from the root page *)
(* down, each page and each row of a database becomes a document of the    *)
(* blocks on it, with the blocks inside other blocks but without what is   *)
(* on its sub-pages.  The recursion of the code is the agenda here, whose  *)
(* head is the innermost call.  Pages are moved and trashed meanwhile; the *)
(* blocks of one page, and the rows of one database, are read from one     *)
(* moment.                                                                 *)
(***************************************************************************)
EXTENDS Naturals, Sequences, FiniteSets

CONSTANTS
    Pages, Databases, Containers,   \* blocks; a container may be empty, as a text is
    Root,           \* the page the source is configured with
    Nowhere,        \* the parent of a block that is gone
    MaxDepth,       \* _MAX_DEPTH
    MaxEdits        \* bound: how often anything is moved or trashed

\* What ConnectorScan assumes of them
NotionConstants ==
    /\ Root \in Pages
    /\ Pages \cap Databases = {} /\ (Pages \cup Databases) \cap Containers = {}
    /\ Nowhere \notin Pages \cup Databases \cup Containers
    /\ IsFiniteSet(Pages \cup Databases \cup Containers)
    /\ MaxDepth \in Nat /\ MaxEdits \in Nat

VARIABLES
    parent,         \* parent[b]: the block that has b
    trashed,        \* the pages in the trash
    edited,         \* what has been moved or trashed since the scan began
    agenda,         \* the calls under way, the innermost first
    seen,           \* seen_page_ids
    documents,      \* the documents: [page, blocks]
    odd,            \* an error page was taken for an answer
    status          \* "running", "done" or "failed"

vars == <<parent, trashed, edited, agenda, seen, documents, odd, status>>
tree == <<parent, trashed, edited>>

Blocks == Pages \cup Databases \cup Containers
Inner == Blocks \ {Root}
Task == [do : {"collect", "list", "rows"}, at : Blocks, depth : Nat]
Document == [page : Pages, blocks : SUBSET Blocks]

TypeOK ==
    /\ parent \in [Inner -> Blocks \cup {Nowhere}]
    /\ trashed \subseteq Pages /\ edited \subseteq Blocks
    /\ agenda \in Seq(Task)
    /\ seen \subseteq Pages
    /\ documents \in Seq(Document)
    /\ odd \in BOOLEAN
    /\ status \in {"running", "done", "failed"}

Kids(b) == {c \in Inner : parent[c] = b}

\* No block is inside itself, and the rows of a database are pages.
Tree ==
    /\ ~\E S \in (SUBSET Inner) \ {{}} : \A b \in S : parent[b] \in S
    /\ \A b \in Inner : parent[b] \in Databases => b \in Pages

Init ==
    /\ parent \in [Inner -> Blocks \cup {Nowhere}]
    /\ Tree
    /\ trashed = {} /\ edited = {}
    /\ agenda = <<[do |-> "collect", at |-> Root, depth |-> 0]>>
    /\ seen = {} /\ documents = <<>> /\ odd = FALSE
    /\ status = "running"

----------------------------------------------------------------------------
(* People *)

Edit(b) ==
    /\ status = "running"
    /\ Cardinality(edited) < MaxEdits
    /\ edited' = edited \cup {b}
    /\ UNCHANGED <<agenda, seen, documents, odd, status>>

Move(b, p) ==
    /\ Edit(b)
    /\ p # parent[b]
    /\ parent' = [parent EXCEPT ![b] = p]
    /\ Tree'
    /\ UNCHANGED trashed

Trash(p) ==
    /\ Edit(p)
    /\ trashed' = trashed \cup {p}
    /\ UNCHANGED parent

----------------------------------------------------------------------------
(* One call: _call *)

MaxRetries == 5

\* The result of n retryable statuses or network errors in a row and the answer that would
\* follow: "denied" is 401 or 404; every other status, an error or not, is returned.
Called(n, answer) == IF n = MaxRetries \/ answer = "denied" THEN "raises" ELSE answer

Results == {Called(n, a) : n \in 0 .. MaxRetries, a \in {"ok", "error page", "denied"}}

----------------------------------------------------------------------------
(* The scan *)

Now(what) == status = "running" /\ agenda # <<>> /\ Head(agenda).do = what

Fails == status' = "failed" /\ UNCHANGED <<agenda, seen, documents, odd>>

Continue(calls) == agenda' = calls \o Tail(agenda) /\ UNCHANGED status

Orders(S) == {q \in [1 .. Cardinality(S) -> S] : \A i, j \in DOMAIN q : q[i] = q[j] => i = j}

\* Mutant of Opened: sub-pages are read as part of the page they are on.
OpenedAll == Inner

\* The blocks whose children are read along with them.
Opened == Containers

\* _walk_block_children: the blocks in b, or in a block opened on the way down from b.
\* A block too deep has no children.
Walk(b, depth) ==
    {c \in Inner : \E k \in 0 .. MaxDepth - depth : \E way \in [1 .. k -> Opened] :
        LET above(i) == IF i = 1 THEN b ELSE way[i - 1]
        IN  parent[c] = above(k + 1) /\ \A i \in 1 .. k : parent[way[i]] = above(i)}

\* Mutant of Collected: the page is not looked up.
CollectedNever(p) == FALSE

Collected(p) == p \in seen

Return ==
    /\ Now("collect")
    /\ LET t == Head(agenda) IN t.depth > MaxDepth \/ Collected(t.at)
    /\ Continue(<<>>)
    /\ UNCHANGED <<tree, seen, documents, odd>>

\* _collect_page: the page itself, its blocks, and its document.
CollectPage ==
    /\ Now("collect")
    /\ LET t == Head(agenda)
       IN  /\ t.depth <= MaxDepth /\ ~Collected(t.at)
           /\ \E meta, blocks \in Results :
                 IF meta = "raises" \/ blocks = "raises" THEN Fails
                 ELSE /\ seen' = seen \cup {t.at}
                      /\ IF meta = "ok" /\ t.at \in trashed
                         THEN Continue(<<>>) /\ UNCHANGED <<documents, odd>>
                         ELSE /\ Continue(<<[t EXCEPT !.do = "list"]>>)
                              /\ documents' = Append(documents, [page |-> t.at, blocks |->
                                     IF blocks = "ok" THEN Walk(t.at, t.depth) ELSE {}])
                              /\ odd' = (odd \/ meta # "ok" \/ blocks # "ok")
    /\ UNCHANGED tree

Calls(q, depth) ==
    [i \in DOMAIN q |-> [do |-> IF q[i] \in Pages THEN "collect" ELSE "rows",
                         at |-> q[i], depth |-> depth]]

\* The children of the page are listed again, for its sub-pages and databases.
ListChildren ==
    /\ Now("list")
    /\ LET t == Head(agenda)
       IN  \E r \in Results :
              CASE r = "raises" -> Fails
                [] r = "ok" -> /\ \E q \in Orders(Kids(t.at) \cap (Pages \cup Databases)) :
                                     Continue(Calls(q, t.depth + 1))
                               /\ UNCHANGED <<seen, documents, odd>>
                [] OTHER -> Continue(<<>>) /\ odd' = TRUE /\ UNCHANGED <<seen, documents>>
    /\ UNCHANGED tree

\* Mutant of RowDepth: each row is one level below its database.
RowDepthBelow(t) == t.depth + 1

\* Rows are as deep as their database.
RowDepth(t) == t.depth

\* _collect_database_rows: only the first of its two calls is guarded.
CollectRows ==
    /\ Now("rows")
    /\ LET t == Head(agenda)
           rows == Kids(t.at) \ trashed
       IN  \E db, query \in Results :
              IF db = "ok" /\ query = "raises" THEN Fails
              ELSE /\ IF db = "ok" /\ query = "ok"
                      THEN \E q \in Orders(rows) : Continue(Calls(q, RowDepth(t)))
                      ELSE Continue(<<>>)
                   /\ odd' = (odd \/ db # "ok" \/ query # "ok")
                   /\ UNCHANGED <<seen, documents>>
    /\ UNCHANGED tree

Finish ==
    /\ status = "running" /\ agenda = <<>>
    /\ status' = "done"
    /\ UNCHANGED <<tree, agenda, seen, documents, odd>>

Scan == Return \/ CollectPage \/ ListChildren \/ CollectRows \/ Finish

Next ==
    \/ \E b \in Inner, p \in Blocks \cup {Nowhere} : Move(b, p)
    \/ \E p \in Pages : Trash(p)
    \/ Scan

Spec == Init /\ [][Next]_vars

----------------------------------------------------------------------------
(* What a scan returns *)

Docs(p) == {i \in DOMAIN documents : documents[i].page = p}

\* A page that is moved ahead of the walk, or is met as a row and as a sub-page, is one
\* document (seen_page_ids).
PagesOnce == \A p \in Pages : Cardinality(Docs(p)) <= 1

\* A block is in the text of one document only: sub-pages and rows are documents of their
\* own, and not part of their parents ("P3 dedup fix").  Two documents can share blocks
\* only if one that they share was moved from the one page to the other meanwhile.
BlocksOnce ==
    \A i, j \in DOMAIN documents :
       LET both == documents[i].blocks \cap documents[j].blocks
       IN  i # j /\ both # {} => both \cap edited # {}

\* The pages and databases that can be reached from the root over sub-pages and rows that
\* nobody has edited, by the depth at which they are met: they are in every set that has
\* the root and whatever is met from its members.
Start == {<<Root, 0>>} \ (edited \X {0})
Spots == ((Pages \cup Databases) \ (edited \cup {Root})) \X (1 .. MaxDepth)
Met(bd, S) ==
    \/ parent[bd[1]] \in Pages /\ <<parent[bd[1]], bd[2] - 1>> \in S
    \/ parent[bd[1]] \in Databases /\ <<parent[bd[1]], bd[2]>> \in S
AtDepth ==
    {bd \in Start \cup Spots :
        \A S \in SUBSET Spots :
           (\A cd \in Spots : Met(cd, Start \cup S) => cd \in S) => bd \in Start \cup S}

\* However the workspace changes under the walk, a scan whose calls were all answered has
\* every such page, with all of its blocks that are within the depth, if these were left
\* alone as well.  Sub-pages inside a container are in no document: only the direct
\* children of a page are looked at for them.
SettledPagesFound ==
    status = "done" /\ ~odd =>
       \A pd \in AtDepth : pd[1] \in Pages =>
          \E i \in Docs(pd[1]) :
             Walk(pd[1], pd[2]) \cap edited = {} /\ edited \cap Containers = {}
                => documents[i].blocks \ edited = Walk(pd[1], pd[2])
=============================================================================
