-------------------------- MODULE MemoryExtraction --------------------------
(***************************************************************************)
(* The extract_memory job (apps/worker/main.py, memory/extraction.py,      *)
(* memory/llm.py) next to the reviews of MemoryReview: a worker asks the   *)
(* model about one chunk after the other, stages the memories it gets, and *)
(* commits all of them together.  A chunk whose extraction fails is put on *)
(* record in the same transaction.                                         *)
(***************************************************************************)
EXTENDS MemoryReview

CONSTANTS
    ChunkList,          \* the chunks of the version, in the order of the Chunker
    Replies,            \* what the model may answer, see Reply
    ThinkingDisabled,   \* RV_LLM_DISABLE_THINKING
    NoChunk

\* A reply is a list of items, an object that is no list of items, no JSON object at
\* all, or none: an upstream error, or empty content.  An item is misshapen when the
\* envelope refuses it, a misfit when its type is unknown or its own model refuses it,
\* rotten when PostgreSQL refuses the row made of it, and else sound.  If naming, it
\* brings its own evidence_chunk_ids in place of the chunk it was extracted from.
Item == [fate : {"misshapen", "misfit", "rotten", "sound"}, class : Classes,
         naming : BOOLEAN, names : SUBSET Chunks]
Reply == [kind : {"list"}, items : Seq(Item)]
            \cup [kind : {"object", "text", "none"}, items : {<<>>}]

ASSUME ChunkListAssumption ==
    /\ ChunkList \in Seq(Chunks)
    /\ \A i, j \in DOMAIN ChunkList : ChunkList[i] = ChunkList[j] => i = j
ASSUME RepliesAssumption == Replies \subseteq Reply
ASSUME ThinkingAssumption == ThinkingDisabled \in BOOLEAN

VARIABLES
    job,            \* "pending", "running" or "done"
    todo,           \* the chunks the worker has not begun
    items,          \* what it has still to store of the chunk it is at, see Numbered
    staged,         \* the rows it has flushed: [m, class, chunk, names]
    failed,         \* the chunks whose failure it has flushed
    owed,           \* owed[c]: how many memories extract returned for c in this run
    failures,       \* the committed extraction_failures, by chunk
    origin          \* origin[m]: the chunk m was extracted from, or NoChunk

extractionVars == <<job, todo, items, staged, failed, owed, failures, origin>>
vars == <<reviewVars, extractionVars>>

ASSUME NoChunkAssumption == NoChunk \notin Chunks

\* The items of a reply, with their places in it.
Numbered == [at : Nat, item : Item]
Staged == [m : Memories, class : Classes, chunk : Chunks, names : SUBSET Chunks]

ExtractionTypeOK ==
    /\ TypeOK
    /\ job \in {"pending", "running", "done"}
    /\ todo \in Seq(Chunks)
    /\ items \subseteq [at : Nat, item : Item, chunk : Chunks]
    /\ staged \subseteq Staged
    /\ failed \subseteq Chunks
    /\ owed \in [Chunks -> Nat]
    /\ failures \subseteq Chunks
    /\ origin \in [Memories -> Chunks \cup {NoChunk}]

ExtractionInit ==
    /\ Init
    /\ job = "pending"
    /\ todo = <<>> /\ items = {} /\ staged = {} /\ failed = {}
    /\ owed = [c \in Chunks |-> 0]
    /\ failures = {}
    /\ origin = [m \in Memories |-> NoChunk]

----------------------------------------------------------------------------
(* One chunk and the model *)

MaxParseAttempts == 3

Valid(r) == r.kind = "list" /\ \A i \in DOMAIN r.items : r.items[i].fate # "misshapen"
WellShaped(list) == {[at |-> i, item |-> list[i]] :
                       i \in {i \in DOMAIN list : list[i].fate # "misshapen"}}
FirstOf(S) == CHOOSE i \in S : \A j \in S : i <= j

Raises == <<>>
Returns(found) == <<found>>

\* extract_structured, where r[i] is what the i-th call gets (r[4] with thinking disabled):
\* the first valid list or missing reply ends it; after three attempts the last object
\* is salvaged if it is a list; the fallback is asked only when that is not so.
ExtractStructured(r) ==
    LET tries == 1 .. MaxParseAttempts
        ends == {i \in tries : r[i].kind = "none" \/ Valid(r[i])}
        parsed == {i \in tries : r[i].kind \in {"list", "object"}}
        fallback == r[MaxParseAttempts + 1]
    IN  IF ends # {}
        THEN IF Valid(r[FirstOf(ends)]) THEN Returns(WellShaped(r[FirstOf(ends)].items))
             ELSE Raises
        ELSE IF parsed # {} /\ r[LastOf(parsed)].kind = "list"
        THEN Returns(WellShaped(r[LastOf(parsed)].items))
        ELSE IF ~ThinkingDisabled /\ Valid(fallback) THEN Returns(WellShaped(fallback.items))
        ELSE Raises

Outcomes == {ExtractStructured(r) : r \in [1 .. MaxParseAttempts + 1 -> Replies]}

\* extract: misfits are dropped one by one.
Materialised(found) == {n \in found : n.item.fate # "misfit"}

----------------------------------------------------------------------------
(* The handler *)

StartExtraction ==
    /\ job = "pending"
    /\ job' = "running"
    /\ todo' = ChunkList
    /\ owed' = [c \in Chunks |-> 0]
    /\ UNCHANGED <<reviewVars, items, staged, failed, failures, origin>>

RecordFailure(c) == failed' = failed \cup {c} /\ UNCHANGED <<items, owed>>

ExtractChunk ==
    /\ job = "running" /\ items = {} /\ todo # <<>>
    /\ LET c == Head(todo)
       IN  \E o \in Outcomes :
              IF o = Raises THEN RecordFailure(c)
              ELSE LET found == Materialised(o[1])
                   IN  /\ items' = {[at |-> n.at, item |-> n.item, chunk |-> c] : n \in found}
                       /\ owed' = [owed EXCEPT ![c] = Cardinality(found)]
                       /\ UNCHANGED failed
    /\ todo' = Tail(todo)
    /\ UNCHANGED <<reviewVars, job, staged, failures, origin>>

\* uuid4: an id that no row has, and that nobody else is about to use.
Fresh == {m \in Memories : memory[m] = Unborn /\ \A r \in staged : r.m # m}

\* They are stored in the order of the reply.
IsNext(n) == n \in items /\ \A k \in items : n.at <= k.at

CreateMemory ==
    /\ \E n \in items, m \in Fresh :
          /\ IsNext(n) /\ n.item.fate = "sound"
          /\ staged' = staged \cup
                {[m |-> m, class |-> n.item.class, chunk |-> n.chunk,
                  names |-> IF n.item.naming THEN n.item.names ELSE {n.chunk}]}
          /\ items' = items \ {n}
    /\ UNCHANGED <<reviewVars, job, todo, failed, owed, failures, origin>>

\* The dispatcher rolls the job back; it is claimed again.
Undo == job' = "pending" /\ todo' = <<>> /\ items' = {} /\ staged' = {} /\ failed' = {}

\* Mutant of CreateRefused: the session can be used on, and the failure is recorded.
CreateRefusedRecorded ==
    /\ \E n \in items : /\ IsNext(n) /\ n.item.fate = "rotten"
                        /\ failed' = failed \cup {n.chunk}
    /\ items' = {}
    /\ UNCHANGED <<reviewVars, job, todo, staged, owed, failures, origin>>

\* PostgreSQL refuses a row: the handler catches that, but its session takes no further
\* statement, so the record of the failure raises as well.
CreateRefused ==
    /\ \E n \in items : IsNext(n) /\ n.item.fate = "rotten"
    /\ Undo
    /\ UNCHANGED <<reviewVars, owed, failures, origin>>

ExtractionCrash ==
    /\ job = "running"
    /\ Undo
    /\ UNCHANGED <<reviewVars, owed, failures, origin>>

NewMemories == {r.m : r \in staged}
StagedRow(m) == CHOOSE r \in staged : r.m = m

CommitExtraction ==
    /\ job = "running" /\ todo = <<>> /\ items = {}
    /\ Create([m \in NewMemories |-> StagedRow(m).class],
              [m \in NewMemories |-> StagedRow(m).names])
    /\ origin' = [m \in Memories |->
                     IF m \in NewMemories THEN StagedRow(m).chunk ELSE origin[m]]
    /\ failures' = failed
    /\ job' = "done"
    /\ staged' = {} /\ failed' = {}
    /\ UNCHANGED <<sess, requests, todo, items, owed>>

Extraction ==
    \/ StartExtraction \/ ExtractChunk \/ CreateMemory \/ CreateRefused
    \/ ExtractionCrash \/ CommitExtraction

Next ==
    \/ Extraction
    \/ ReviewNext /\ UNCHANGED extractionVars /\ \A r \in staged : memory'[r.m] = Unborn

(***************************************************************************)
(* When the job is done, each chunk has either a failure on record and no  *)
(* memory, or every memory the model's answer gave for it, once; before,   *)
(* there is no trace of it.  Crashes, refused rows and repeated runs leave *)
(* neither halves nor duplicates (_handle_extract_memory).                 *)
(***************************************************************************)
From(c) == {m \in Memories : origin[m] = c}

ChunksSettled ==
    \A c \in {ChunkList[i] : i \in DOMAIN ChunkList} :
       IF job # "done" THEN From(c) = {} /\ c \notin failures
       ELSE IF c \in failures THEN From(c) = {}
       ELSE Cardinality(From(c)) = owed[c]

Spec == ExtractionInit /\ [][Next]_vars
FairSpec == Spec /\ ReviewFairness
=============================================================================
