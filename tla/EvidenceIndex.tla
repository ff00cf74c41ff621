---------------------------- MODULE EvidenceIndex ----------------------------
(***************************************************************************)
(* How documents get from a provider into the dense index: the scan that   *)
(* upserts a document and its versions (rekanvault/storage/                *)
(* document_repo.py), the sync that notices a deletion (sources/           *)
(* manager.py), and the index and deactivate jobs of apps/worker/main.py   *)
(* that write to Qdrant (evidence/indexing.py, storage/qdrant.py).         *)
(*                                                                         *)
(* PostgreSQL and Qdrant share no transaction.  What a job does in         *)
(* PostgreSQL takes place when it commits and is undone when it raises or  *)
(* crashes; what it does in Qdrant takes place at once and stays.  A job   *)
(* that did not commit is pending again (JobQueue).                        *)
(***************************************************************************)
EXTENDS Naturals, Sequences, FiniteSets

CONSTANTS
    Workers,        \* the worker daemons
    Docs,           \* the documents rows there may ever be
    ExternalId,     \* external_id of a document; chunk locators start with it
    Contents,       \* what a document may say
    Shape,          \* block types and lengths of a content: its fingerprint
    Blank,          \* the contents that yield no chunk
    NoContent,      \* the provider has the document no more
    Nobody,         \* a row is not locked
    Restores,       \* may a document that is gone from the provider come back?
    Rebuilds,       \* is the index wiped now and then?
    MaxRequests     \* bound: scan and sync jobs that are requested

ASSUME ShapeAssumption == Shape \in [Contents -> STRING] /\ Blank \subseteq Contents
ASSUME ContentAssumption == NoContent \notin Contents
ASSUME NobodyAssumption == Nobody \notin Workers
ASSUME RestoresAssumption == {Restores, Rebuilds} \subseteq BOOLEAN
ASSUME MaxRequestsAssumption == MaxRequests \in Nat

VARIABLES
    provider,       \* provider[d]: what the provider has of d
    versions,       \* versions[d]: the committed document_versions of d, by number
    active,         \* active[d]: status of the row of d is not "deactivated"
    jobs,           \* the committed jobs, in the order of created_at
    points,         \* what the collection has, see Point
    pc,             \* pc[w]: how far worker w is with its job
    cur,            \* cur[w]: the index of that job in jobs, or 0
    buf,            \* buf[w]: what w read from the provider
    todo,           \* todo[w]: the versions whose points w has still to delete, or
                    \* the one it has still to write
    docLock         \* docLock[d]: the worker whose transaction locks row d

vars == <<provider, versions, active, jobs, points, pc, cur, buf, todo, docLock>>

Job == [kind : {"scan", "sync", "index", "deactivate"}, doc : Docs, n : Nat, done : BOOLEAN]

\* External id and version number give the ids of the points of a version; the payload
\* has the document.  One point stands for all chunks of a version.
Point == [external : {ExternalId[d] : d \in Docs}, n : Nat, doc : Docs]
PointOf(d, n) == [external |-> ExternalId[d], n |-> n, doc |-> d]

\* ensure_collection: a collection that was just created is empty.
NoPoints == {}

TypeOK ==
    /\ provider \in [Docs -> Contents \cup {NoContent}]
    /\ versions \in [Docs -> Seq(Contents)]
    /\ active \in [Docs -> BOOLEAN]
    /\ jobs \in Seq(Job)
    /\ points \subseteq Point
    /\ pc \in [Workers -> {"idle", "claimed", "fetched", "insert", "held", "loaded",
                       "cleaning"}]
    /\ cur \in [Workers -> 0 .. Len(jobs)]
    /\ buf \in [Workers -> Contents \cup {NoContent}]
    /\ todo \in [Workers -> SUBSET Nat]
    /\ docLock \in [Docs -> Workers \cup {Nobody}]

Init ==
    /\ provider \in [Docs -> Contents]
    /\ versions = [d \in Docs |-> <<>>]
    /\ active = [d \in Docs |-> TRUE]
    /\ jobs = <<>>
    /\ points = NoPoints
    /\ pc = [w \in Workers |-> "idle"]
    /\ cur = [w \in Workers |-> 0]
    /\ buf = [w \in Workers |-> NoContent]
    /\ todo = [w \in Workers |-> {}]
    /\ docLock = [d \in Docs |-> Nobody]

----------------------------------------------------------------------------
(* The provider, and whoever asks for scans and syncs *)

Edit(d) ==
    /\ provider[d] # NoContent \/ Restores
    /\ \E c \in (Contents \cup {NoContent}) \ {provider[d]} : provider' = [provider EXCEPT ![d] = c]
    /\ UNCHANGED <<versions, active, jobs, points, pc, cur, buf, todo, docLock>>

\* Mutant of NewJob: version numbers start one too low.
NewJobEarly(kind, d, n) == [kind |-> kind, doc |-> d, n |-> n - 1, done |-> FALSE]

NewJob(kind, d, n) == [kind |-> kind, doc |-> d, n |-> n, done |-> FALSE]

Requests == {i \in DOMAIN jobs : jobs[i].kind \in {"scan", "sync"}}

Request(kind, d) ==
    /\ Cardinality(Requests) < MaxRequests
    /\ jobs' = Append(jobs, NewJob(kind, d, 0))
    /\ UNCHANGED <<provider, versions, active, points, pc, cur, buf, todo, docLock>>

----------------------------------------------------------------------------
(* The job of a worker *)

MyKind(w) == jobs[cur[w]].kind
MyDoc(w) == jobs[cur[w]].doc
MyVersion(w) == jobs[cur[w]].n

\* claim_next_job: the oldest open job that no other worker's transaction locks
Free(i) == ~jobs[i].done /\ \A w \in Workers : cur[w] # i

Claim(w) ==
    /\ pc[w] = "idle"
    /\ \E i \in DOMAIN jobs :
          /\ Free(i) /\ \A k \in 1 .. i - 1 : ~Free(k)
          /\ cur' = [cur EXCEPT ![w] = i]
    /\ pc' = [pc EXCEPT ![w] = "claimed"]
    /\ UNCHANGED <<provider, versions, active, jobs, points, buf, todo, docLock>>

\* The end of a transaction: its locks are released.
Release(w) ==
    /\ pc' = [pc EXCEPT ![w] = "idle"]
    /\ cur' = [cur EXCEPT ![w] = 0]
    /\ buf' = [buf EXCEPT ![w] = NoContent]
    /\ todo' = [todo EXCEPT ![w] = {}]
    /\ docLock' = [d \in Docs |-> IF docLock[d] = w THEN Nobody ELSE docLock[d]]

\* Mutant of Commit: the jobs it enqueued are lost.
CommitAlone(w, enqueued) ==
    /\ jobs' = [jobs EXCEPT ![cur[w]].done = TRUE]
    /\ Release(w)

\* The job commits as done, with the jobs it enqueued.
Commit(w, enqueued) ==
    /\ jobs' = [jobs EXCEPT ![cur[w]].done = TRUE] \o enqueued
    /\ Release(w)

\* A handler raises or its worker dies: all of it is rolled back but Qdrant.
Rollback(w) ==
    /\ Release(w)
    /\ UNCHANGED <<provider, versions, active, jobs, points>>

\* ... for a reason outside: the provider, Qdrant or PostgreSQL fails, a crash.
Abort(w) == pc[w] # "idle" /\ Rollback(w)

\* Mutant of RowFree: the row is read without FOR UPDATE.
RowUnlocked(d) == TRUE

\* SELECT ... FOR UPDATE on the row of d waits until this holds.
RowFree(d) == docLock[d] = Nobody

Lock(w, d) ==
    /\ RowFree(d)
    /\ docLock' = [docLock EXCEPT ![d] = w]
    /\ pc' = [pc EXCEPT ![w] = "held"]

----------------------------------------------------------------------------
(* scan_source and sync_source *)

\* connector.scan and connector.fetch_changes: a look at the provider
Fetch(w) ==
    /\ pc[w] = "claimed"
    /\ MyKind(w) \in {"scan", "sync"}
    /\ buf' = [buf EXCEPT ![w] = provider[MyDoc(w)]]
    /\ pc' = [pc EXCEPT ![w] = "fetched"]
    /\ UNCHANGED <<provider, versions, active, jobs, points, cur, todo, docLock>>

\* run_sync: a deletion in the change feed of a document that is known and not
\* yet deactivated enqueues a deactivate job.  Other events are counted only.
Sync(w) ==
    /\ pc[w] = "fetched" /\ MyKind(w) = "sync"
    /\ LET d == MyDoc(w)
           deleted == buf[w] = NoContent /\ versions[d] # <<>> /\ active[d]
       IN  Commit(w, IF deleted THEN <<NewJob("deactivate", d, 0)>> ELSE <<>>)
    /\ UNCHANGED <<provider, versions, active, points>>

\* A scan that does not find the document leaves its row as it is.
ScanNothing(w) ==
    /\ pc[w] = "fetched" /\ MyKind(w) = "scan"
    /\ buf[w] = NoContent
    /\ Commit(w, <<>>)
    /\ UNCHANGED <<provider, versions, active, points>>

\* upsert_document: SELECT FOR UPDATE finds the row and locks it, or finds none.
Select(w) ==
    /\ pc[w] = "fetched" /\ MyKind(w) = "scan"
    /\ buf[w] # NoContent
    /\ \/ /\ versions[MyDoc(w)] # <<>>
          /\ Lock(w, MyDoc(w))
       \/ /\ versions[MyDoc(w)] = <<>>
          /\ pc' = [pc EXCEPT ![w] = "insert"]
          /\ UNCHANGED docLock
    /\ UNCHANGED <<provider, versions, active, jobs, points, cur, buf, todo>>

\* _insert_new: the INSERT waits for another one under the same unique key ...
Insert(w) ==
    /\ pc[w] = "insert"
    /\ versions[MyDoc(w)] = <<>>
    /\ Lock(w, MyDoc(w))
    /\ UNCHANGED <<provider, versions, active, jobs, points, cur, buf, todo>>

\* ... and fails if that one commits.
InsertConflict(w) ==
    /\ pc[w] = "insert"
    /\ versions[MyDoc(w)] # <<>>
    /\ Rollback(w)

\* Mutant of Changed: a comparison with the first version, not the latest.
ChangedFromFirst(old, c) == old = <<>> \/ Shape[old[1]] # Shape[c]

\* upsert_document skips the write if the fingerprint is that of the latest
\* version.  The fingerprint has the lengths of the blocks, not their text.
Changed(old, c) == old = <<>> \/ Shape[old[Len(old)]] # Shape[c]

\* _latest_version, and the number of the version to be written, if any
Compare(w) ==
    /\ pc[w] = "held" /\ MyKind(w) = "scan"
    /\ LET old == versions[MyDoc(w)]
       IN  todo' = [todo EXCEPT ![w] = IF Changed(old, buf[w]) THEN {Len(old) + 1} ELSE {}]
    /\ pc' = [pc EXCEPT ![w] = "loaded"]
    /\ UNCHANGED <<provider, versions, active, jobs, points, cur, buf, docLock>>

\* _insert_new, _insert_new_version: the version and its index job commit
\* together.  Neither looks at the status of the document.
Upsert(w) ==
    /\ pc[w] = "loaded" /\ MyKind(w) = "scan"
    /\ IF todo[w] = {}
       THEN UNCHANGED versions /\ Commit(w, <<>>)
       ELSE LET d == MyDoc(w)
            IN  /\ versions' = [versions EXCEPT ![d] = Append(@, buf[w])]
                /\ Commit(w, <<NewJob("index", d, Len(versions[d]) + 1)>>)
    /\ UNCHANGED <<provider, active, points>>

----------------------------------------------------------------------------
(* index_document_version and deactivate_document *)

LockDocument(w) ==
    /\ pc[w] = "claimed"
    /\ MyKind(w) \in {"index", "deactivate"}
    /\ Lock(w, MyDoc(w))
    /\ UNCHANGED <<provider, versions, active, jobs, points, cur, buf, todo>>

\* index_version raises for a deactivated document ...
IndexRefused(w) ==
    /\ pc[w] = "held" /\ MyKind(w) = "index"
    /\ ~active[MyDoc(w)]
    /\ Rollback(w)

\* ... and otherwise chunks and embeds the version.
LoadVersion(w) ==
    /\ pc[w] = "held" /\ MyKind(w) = "index"
    /\ active[MyDoc(w)]
    /\ pc' = [pc EXCEPT ![w] = "loaded"]
    /\ UNCHANGED <<provider, versions, active, jobs, points, cur, buf, todo, docLock>>

\* Mutants of Superseded: nothing is cleaned up; only newer versions are.
SupersededNone(d, n) == {}
SupersededNewer(d, n) == {k \in 1 .. Len(versions[d]) : k > n}

\* handle_document_change: every version but the one just indexed
Superseded(d, n) == (1 .. Len(versions[d])) \ {n}

\* upsert_chunks: the point ids come from the external id and the version
\* number, so a second run, or a namesake, overwrites the points of the first.
UpsertChunks(w) ==
    /\ pc[w] = "loaded" /\ MyKind(w) = "index"
    /\ LET d == MyDoc(w)
           n == MyVersion(w)
       IN  /\ points' = IF versions[d][n] \in Blank THEN points
                        ELSE {p \in points : p.external # ExternalId[d] \/ p.n # n}
                                \cup {PointOf(d, n)}
           /\ todo' = [todo EXCEPT ![w] = Superseded(d, n)]
    /\ pc' = [pc EXCEPT ![w] = "cleaning"]
    /\ UNCHANGED <<provider, versions, active, jobs, cur, buf, docLock>>

\* deactivate_version: delete by document_id and version_id
Without(d, n) == points \ {PointOf(d, n)}

\* The loop of handle_document_change, newest version first
DeleteOld(w) ==
    /\ pc[w] = "cleaning"
    /\ \E n \in todo[w] :
          /\ \A k \in todo[w] : k <= n
          /\ points' = Without(MyDoc(w), n)
          /\ todo' = [todo EXCEPT ![w] = @ \ {n}]
    /\ UNCHANGED <<provider, versions, active, jobs, pc, cur, buf, docLock>>

CommitIndex(w) ==
    /\ pc[w] = "cleaning" /\ MyKind(w) = "index"
    /\ todo[w] = {}
    /\ Commit(w, <<>>)
    /\ UNCHANGED <<provider, versions, active, points>>

\* _handle_deactivate_document: the points of the latest version only
DeleteLatest(w) ==
    /\ pc[w] = "held" /\ MyKind(w) = "deactivate"
    /\ points' = Without(MyDoc(w), Len(versions[MyDoc(w)]))
    /\ pc' = [pc EXCEPT ![w] = "cleaning"]
    /\ UNCHANGED <<provider, versions, active, jobs, cur, buf, todo, docLock>>

\* deactivate_document, and the commit
CommitDeactivate(w) ==
    /\ pc[w] = "cleaning" /\ MyKind(w) = "deactivate"
    /\ active' = [active EXCEPT ![MyDoc(w)] = FALSE]
    /\ Commit(w, <<>>)
    /\ UNCHANGED <<provider, versions, points>>

\* rebuild_from_postgres, by hand: the collection is dropped and created again, empty.
Rebuild ==
    /\ Rebuilds
    /\ points' = NoPoints
    /\ UNCHANGED <<provider, versions, active, jobs, pc, cur, buf, todo, docLock>>

----------------------------------------------------------------------------

Environment(d) == Edit(d) \/ Request("scan", d) \/ Request("sync", d)

Handle(w) ==
    \/ Fetch(w) \/ Sync(w) \/ ScanNothing(w)
    \/ Select(w) \/ Insert(w) \/ InsertConflict(w)
    \/ Compare(w) \/ Upsert(w)
    \/ LockDocument(w) \/ IndexRefused(w) \/ LoadVersion(w)
    \/ UpsertChunks(w) \/ DeleteOld(w) \/ CommitIndex(w)
    \/ DeleteLatest(w) \/ CommitDeactivate(w)

Next ==
    \/ \E d \in Docs : Environment(d)
    \/ \E w \in Workers : Claim(w) \/ Handle(w) \/ Abort(w)
    \/ Rebuild

Spec == Init /\ [][Next]_vars

\* The daemons go on for ever, and the faults around them end at last.  (What
\* the code refuses by itself it refuses for ever.)
Fairness ==
    /\ \A w \in Workers : WF_vars(Claim(w)) /\ WF_vars(Handle(w))
    /\ <>[][\A w \in Workers : Abort(w) => IndexRefused(w) \/ InsertConflict(w)]_vars

FairSpec == Spec /\ Fairness

----------------------------------------------------------------------------
(* Properties *)

\* The versions of d that a dense search can return
Indexed(d) == {n \in 1 .. Len(versions[d]) : PointOf(d, n) \in points}

\* ... and those it should
Wanted(d) ==
    {n \in {Len(versions[d])} : n > 0 /\ active[d] /\ versions[d][n] \notin Blank}

\* No job is open that would still change the points of d.
Settled(d) ==
    \A i \in DOMAIN jobs :
       jobs[i].doc = d /\ jobs[i].kind \in {"index", "deactivate"} => jobs[i].done

\* handle_document_change: once the jobs of a document are through, at most
\* one of its versions is in the index, in whatever order, and after however
\* many half-done runs, they went through.
OneVersionIndexed ==
    \A d \in Docs : active[d] /\ Settled(d) => Cardinality(Indexed(d)) <= 1

\* upsert_document with its row lock and unique key: scans that run at the
\* same time never commit the same fingerprint twice in a row.
NoDuplicateVersion ==
    \A d \in Docs : \A n \in 2 .. Len(versions[d]) :
       Shape[versions[d][n - 1]] # Shape[versions[d][n]]

\* Once a document is deactivated nothing of it enters the index any more, not
\* even by an index job that was under way (lock_document in both handlers).
NothingIndexedAfterDeactivation ==
    [][\A d \in Docs : ~active[d] => Indexed(d)' \subseteq Indexed(d)]_vars

\* With one daemon, and documents that do not come back, the index says what
\* PostgreSQL says as soon as the jobs of a document are through.
Converged == \A d \in Docs : Settled(d) => Indexed(d) = Wanted(d)

\* With one daemon, and documents that do not come back, a version that was
\* committed is in the index at last, unless a newer one or a deactivation
\* overtakes it.
VersionIndexedAtLast ==
    \A d \in Docs : \A n \in 1 .. MaxRequests :
       (Len(versions[d]) = n /\ active[d]) ~>
          (Indexed(d) = Wanted(d) \/ Len(versions[d]) > n \/ ~active[d])

\* "No stale active chunk remains queryable after successful update, deletion,
\* revocation, or reconciliation" (the product build plan), for any number of
\* daemons.
NoStaleChunk == \A d \in Docs : Settled(d) => Indexed(d) \subseteq Wanted(d)
============================================================================
