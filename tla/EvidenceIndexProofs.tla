------------------------ MODULE EvidenceIndexProofs ------------------------
(***************************************************************************)
(* Proofs about EvidenceIndex, for any number of daemons, documents and    *)
(* requests, documents that share an external id, restores and rebuilds.   *)
(*                                                                         *)
(* The argument is about the row lock.  Whoever has got as far as "held"   *)
(* has the lock of the document's row (LockInv), so that what it has       *)
(* looked at since stays true until its transaction ends: the latest       *)
(* version it compared with, the status it checked, the versions whose     *)
(* points it has still to delete (PhaseInv).  No two workers have the same *)
(* job, and an index job names a version that exists (JobsInv).            *)
(*                                                                         *)
(* The last part is about one daemon, documents that do not come back and  *)
(* no wipes: what the index then holds is what PostgreSQL says (Calm).     *)
(***************************************************************************)
EXTENDS EvidenceIndex, FiniteSetTheorems, SequenceTheorems, TLAPS

JobsInv ==
    /\ \A w \in Workers : pc[w] = "idle" => cur[w] = 0
    /\ \A w \in Workers : pc[w] # "idle" => cur[w] \in DOMAIN jobs /\ ~jobs[cur[w]].done
    /\ \A v, w \in Workers : cur[v] = cur[w] /\ cur[v] # 0 => v = w
    /\ \A i \in DOMAIN jobs :
          jobs[i].kind = "index" => jobs[i].n \in 1 .. Len(versions[jobs[i].doc])

LockInv == \A w \in Workers : pc[w] \in {"held", "loaded", "cleaning"} => docLock[MyDoc(w)] = w

PointsInv ==
    \A p \in points : p.external = ExternalId[p.doc] /\ p.n \in 1 .. Len(versions[p.doc])

\* What w has found out under the lock
WorkerInv(w) ==
    /\ pc[w] = "insert" => buf[w] # NoContent
    /\ pc[w] \in {"held", "loaded"} /\ MyKind(w) = "scan" => buf[w] # NoContent
    /\ pc[w] = "loaded" /\ MyKind(w) = "scan" /\ todo[w] # {} => Changed(versions[MyDoc(w)], buf[w])
    /\ pc[w] = "loaded" /\ MyKind(w) = "index" => active[MyDoc(w)]
    /\ pc[w] = "cleaning" => MyKind(w) \in {"index", "deactivate"}
    /\ pc[w] = "cleaning" /\ MyKind(w) = "index" =>
          Indexed(MyDoc(w)) \subseteq todo[w] \cup {MyVersion(w)}

PhaseInv == \A w \in Workers : WorkerInv(w)

AtMostOne == \A d \in Docs : active[d] /\ Settled(d) => \A m, n \in Indexed(d) : m = n

IndexInv ==
    /\ TypeOK /\ JobsInv /\ LockInv /\ PointsInv /\ PhaseInv
    /\ NoDuplicateVersion /\ AtMostOne

----------------------------------------------------------------------------

LEMMA Initially == Init => IndexInv
  <1> SUFFICES ASSUME Init PROVE IndexInv
    OBVIOUS
  <1>1. TypeOK
    BY DEF Init, TypeOK, NoPoints
  <1>2. JobsInv /\ LockInv /\ PhaseInv
    BY DEF Init, JobsInv, LockInv, PhaseInv, WorkerInv
  <1>3. PointsInv /\ AtMostOne
    BY DEF Init, PointsInv, AtMostOne, Indexed, NoPoints
  <1>4. NoDuplicateVersion
    BY DEF Init, NoDuplicateVersion
  <1> QED
    BY <1>1, <1>2, <1>3, <1>4 DEF IndexInv

----------------------------------------------------------------------------
(* The jobs *)

\* A job that is requested
LEMMA Appended ==
    ASSUME IndexInv, NEW j \in Job, jobs' = Append(jobs, j)
    PROVE  /\ jobs' \in Seq(Job) /\ Len(jobs') = Len(jobs) + 1
           /\ \A i \in DOMAIN jobs : i \in DOMAIN jobs' /\ jobs'[i] = jobs[i]
           /\ \A i \in DOMAIN jobs' : i \in DOMAIN jobs \/ jobs'[i] = j
  BY DEF IndexInv, TypeOK

\* The jobs after a commit: one more is done, and at most one is new.
LEMMA Committed ==
    ASSUME IndexInv, NEW w \in Workers, pc[w] # "idle", NEW enqueued \in Seq(Job),
           Commit(w, enqueued)
    PROVE  /\ jobs' \in Seq(Job) /\ Len(jobs') = Len(jobs) + Len(enqueued)
           /\ \A i \in DOMAIN jobs :
                 /\ i \in DOMAIN jobs'
                 /\ jobs'[i] = IF i = cur[w] THEN [jobs[i] EXCEPT !.done = TRUE] ELSE jobs[i]
           /\ \A i \in DOMAIN jobs' :
                 i \notin DOMAIN jobs =>
                    i - Len(jobs) \in DOMAIN enqueued /\ jobs'[i] = enqueued[i - Len(jobs)]
  <1> DEFINE marked == [jobs EXCEPT ![cur[w]].done = TRUE]
  <1>1. jobs \in Seq(Job) /\ cur[w] \in DOMAIN jobs
    BY DEF IndexInv, TypeOK, JobsInv
  <1>2. /\ marked \in Seq(Job) /\ Len(marked) = Len(jobs)
        /\ \A i \in DOMAIN jobs :
              marked[i] = IF i = cur[w] THEN [jobs[i] EXCEPT !.done = TRUE] ELSE jobs[i]
    <2> DEFINE job == [jobs[cur[w]] EXCEPT !.done = TRUE]
    <2>1. marked = [jobs EXCEPT ![cur[w]] = job]
      OBVIOUS
    <2>2. job \in Job
      <3>1. jobs[cur[w]] \in Job
        BY <1>1
      <3> QED
        BY <3>1 DEF Job
    <2> HIDE DEF job, marked
    <2>3. marked \in Seq(Job) /\ Len(marked) = Len(jobs)
      BY <1>1, <2>1, <2>2
    <2>4. \A i \in DOMAIN jobs : marked[i] = IF i = cur[w] THEN job ELSE jobs[i]
      BY <1>1, <2>1
    <2> QED
      BY <2>3, <2>4 DEF job
  <1>3. jobs' = marked \o enqueued
    BY DEF Commit
  <1> HIDE DEF marked
  <1>4. jobs' \in Seq(Job) /\ Len(jobs') = Len(jobs) + Len(enqueued)
    <2>1. marked \in Seq(Job) /\ enqueued \in Seq(Job) /\ Len(marked) = Len(jobs)
      BY <1>2
    <2>2. marked \o enqueued \in Seq(Job) /\ Len(marked \o enqueued) = Len(marked) + Len(enqueued)
      BY <2>1, ConcatProperties
    <2> QED
      BY <1>3, <2>1, <2>2
  <1>5. \A i \in DOMAIN jobs : i \in DOMAIN jobs' /\ jobs'[i] = marked[i]
    BY <1>1, <1>2, <1>3, <1>4
  <1>6. \A i \in DOMAIN jobs' :
           i \notin DOMAIN jobs =>
              i - Len(jobs) \in DOMAIN enqueued /\ jobs'[i] = enqueued[i - Len(jobs)]
    <2>1. /\ Len(jobs) \in Nat /\ DOMAIN jobs = 1 .. Len(jobs)
          /\ Len(enqueued) \in Nat /\ DOMAIN enqueued = 1 .. Len(enqueued)
          /\ DOMAIN jobs' = 1 .. Len(jobs) + Len(enqueued)
      BY <1>1, <1>4
    <2>2. \A i \in 1 .. Len(jobs) + Len(enqueued) :
             i > Len(jobs) => jobs'[i] = enqueued[i - Len(jobs)]
      BY <1>2, <1>3, <2>1
    <2> QED
      BY <2>1, <2>2
  <1> QED
    BY <1>2, <1>4, <1>5, <1>6

\* What is left of a transaction that has ended
LEMMA Released ==
    ASSUME IndexInv, NEW w \in Workers, Release(w)
    PROVE  /\ pc' = [pc EXCEPT ![w] = "idle"]
           /\ cur' = [cur EXCEPT ![w] = 0]
           /\ buf' = [buf EXCEPT ![w] = NoContent]
           /\ todo' = [todo EXCEPT ![w] = {}]
           /\ docLock' \in [Docs -> Workers \cup {Nobody}]
           /\ \A v \in Workers \ {w}, d \in Docs : docLock[d] = v => docLock'[d] = v
           /\ pc' \in [Workers -> {"idle", "claimed", "fetched", "insert", "held", "loaded",
                       "cleaning"}]
           /\ buf' \in [Workers -> Contents \cup {NoContent}]
           /\ todo' \in [Workers -> SUBSET Nat]
  BY DEF IndexInv, TypeOK, Release

\* The job of a worker keeps its kind, its document and its version.
LEMMA SameJob ==
    ASSUME IndexInv, NEW v \in Workers, pc[v] # "idle", cur'[v] = cur[v],
           jobs'[cur[v]] = jobs[cur[v]]
    PROVE  MyKind(v)' = MyKind(v) /\ MyDoc(v)' = MyDoc(v) /\ MyVersion(v)' = MyVersion(v)
  BY DEF MyKind, MyDoc, MyVersion

\* ... whose document is one of Docs.
LEMMA MyJob ==
    ASSUME IndexInv, NEW v \in Workers, pc[v] # "idle"
    PROVE  /\ cur[v] \in DOMAIN jobs /\ jobs[cur[v]] \in Job /\ ~jobs[cur[v]].done
           /\ MyDoc(v) \in Docs
  <1>1. jobs \in Seq(Job) /\ cur[v] \in DOMAIN jobs /\ ~jobs[cur[v]].done
    BY DEF IndexInv, TypeOK, JobsInv
  <1>2. jobs[cur[v]] \in Job
    BY <1>1
  <1> QED
    BY <1>1, <1>2 DEF MyDoc, Job

----------------------------------------------------------------------------
(* Steps outside a transaction *)

LEMMA EditStep ==
    ASSUME IndexInv, NEW d \in Docs, Edit(d)
    PROVE  IndexInv'
  <1>1. UNCHANGED <<versions, active, jobs, points, pc, cur, buf, todo, docLock>>
    BY DEF Edit
  <1>2. TypeOK'
    BY DEF Edit, IndexInv, TypeOK
  <1>3. JobsInv' /\ LockInv' /\ PointsInv' /\ NoDuplicateVersion' /\ AtMostOne'
    BY <1>1 DEF IndexInv, JobsInv, LockInv, PointsInv, NoDuplicateVersion, AtMostOne, Indexed,
       Settled, MyDoc
  <1>4. PhaseInv'
    BY <1>1 DEF IndexInv, PhaseInv, WorkerInv, Indexed, MyKind, MyDoc, MyVersion
  <1> QED
    BY <1>2, <1>3, <1>4 DEF IndexInv

LEMMA RebuildStep ==
    ASSUME IndexInv, Rebuild
    PROVE  IndexInv'
  <1>1. \A d \in Docs : Indexed(d)' = {}
    BY DEF Rebuild, NoPoints, Indexed
  <1>2. /\ UNCHANGED <<provider, versions, active, jobs, pc, cur, buf, todo, docLock>>
        /\ points' = {}
    BY DEF Rebuild, NoPoints
  <1>3. TypeOK'
    BY <1>2 DEF IndexInv, TypeOK
  <1>4. JobsInv' /\ LockInv' /\ PointsInv' /\ NoDuplicateVersion'
    BY <1>2 DEF IndexInv, JobsInv, LockInv, PointsInv, NoDuplicateVersion, MyDoc
  <1>5. AtMostOne'
    BY <1>1 DEF AtMostOne
  <1>6. ASSUME NEW w \in Workers PROVE WorkerInv(w)'
    <2>1. WorkerInv(w)
      BY DEF IndexInv, PhaseInv
    <2>2. pc[w] = "cleaning" => Indexed(MyDoc(w))' = {}
      BY <1>2 DEF Indexed
    <2> QED
      BY <1>2, <2>1, <2>2 DEF WorkerInv, MyKind, MyDoc, MyVersion
  <1> QED
    BY <1>3, <1>4, <1>5, <1>6 DEF IndexInv, PhaseInv

LEMMA RequestStep ==
    ASSUME IndexInv, NEW kind \in {"scan", "sync"}, NEW d \in Docs, Request(kind, d)
    PROVE  IndexInv'
  <1> DEFINE j == NewJob(kind, d, 0)
  <1>1. j \in Job /\ j.kind = kind /\ ~j.done
    BY DEF NewJob, Job
  <1>2. /\ jobs' \in Seq(Job) /\ Len(jobs') = Len(jobs) + 1
        /\ \A i \in DOMAIN jobs : i \in DOMAIN jobs' /\ jobs'[i] = jobs[i]
        /\ \A i \in DOMAIN jobs' : i \in DOMAIN jobs \/ jobs'[i] = j
    BY <1>1, Appended DEF Request
  <1> HIDE DEF j
  <1>3. \A w \in Workers : pc[w] # "idle" =>
           MyKind(w)' = MyKind(w) /\ MyDoc(w)' = MyDoc(w) /\ MyVersion(w)' = MyVersion(w)
    BY <1>2, SameJob, MyJob DEF Request
  <1>4. TypeOK'
    BY <1>2 DEF IndexInv, TypeOK, Request
  <1>5. JobsInv'
    BY <1>1, <1>2 DEF IndexInv, JobsInv, Request
  <1>6. LockInv' /\ PointsInv' /\ NoDuplicateVersion'
    BY <1>3 DEF IndexInv, LockInv, PointsInv, NoDuplicateVersion, Request
  <1>7. PhaseInv'
    BY <1>3 DEF IndexInv, PhaseInv, WorkerInv, Indexed, Request
  <1>8. AtMostOne'
    BY <1>2 DEF IndexInv, AtMostOne, Indexed, Settled, Request
  <1> QED
    BY <1>4, <1>5, <1>6, <1>7, <1>8 DEF IndexInv

LEMMA ClaimStep ==
    ASSUME IndexInv, NEW w \in Workers, Claim(w)
    PROVE  IndexInv'
  <1>1. PICK i \in DOMAIN jobs : Free(i) /\ cur' = [cur EXCEPT ![w] = i]
    BY DEF Claim
  <1>2. pc[w] = "idle" /\ pc' = [pc EXCEPT ![w] = "claimed"]
    BY DEF Claim
  <1>3. \A v \in Workers \ {w} : pc'[v] = pc[v] /\ cur'[v] = cur[v]
    BY <1>1, <1>2 DEF IndexInv, TypeOK
  <1>4. pc'[w] = "claimed" /\ cur'[w] = i
    BY <1>1, <1>2 DEF IndexInv, TypeOK
  <1>5. \A v \in Workers \ {w} : pc[v] # "idle" =>
           MyKind(v)' = MyKind(v) /\ MyDoc(v)' = MyDoc(v) /\ MyVersion(v)' = MyVersion(v)
    BY <1>3, SameJob DEF Claim
  <1>6. TypeOK'
    BY <1>1, <1>2 DEF IndexInv, TypeOK, Claim
  <1>7. JobsInv'
    BY <1>1, <1>2, <1>3, <1>4 DEF IndexInv, TypeOK, JobsInv, Claim, Free
  <1>8. LockInv' /\ PointsInv' /\ NoDuplicateVersion' /\ AtMostOne'
    BY <1>3, <1>4, <1>5 DEF IndexInv, LockInv, PointsInv, NoDuplicateVersion, AtMostOne,
       Indexed, Settled, Claim
  <1>9. PhaseInv'
    BY <1>3, <1>4, <1>5 DEF IndexInv, PhaseInv, WorkerInv, Indexed, Claim
  <1> QED
    BY <1>6, <1>7, <1>8, <1>9 DEF IndexInv

LEMMA RollbackStep ==
    ASSUME IndexInv, NEW w \in Workers, Rollback(w)
    PROVE  IndexInv'
  <1>1. UNCHANGED <<provider, versions, active, jobs, points>>
    BY DEF Rollback
  <1>2. \A v \in Workers \ {w} : pc'[v] = pc[v] /\ cur'[v] = cur[v] /\ buf'[v] = buf[v]
                                  /\ todo'[v] = todo[v]
    BY Released DEF Rollback, IndexInv, TypeOK
  <1>3. pc'[w] = "idle" /\ cur'[w] = 0
    BY Released DEF Rollback, IndexInv, TypeOK
  <1>4. \A v \in Workers \ {w} : pc[v] # "idle" =>
           MyKind(v)' = MyKind(v) /\ MyDoc(v)' = MyDoc(v) /\ MyVersion(v)' = MyVersion(v)
    BY <1>1, <1>2, SameJob
  <1>5. TypeOK'
    BY <1>1, Released DEF Rollback, IndexInv, TypeOK
  <1>6. JobsInv'
    BY <1>1, <1>2, <1>3 DEF IndexInv, JobsInv
  <1>7. LockInv'
    BY <1>1, <1>2, <1>3, <1>4, Released, MyJob DEF IndexInv, LockInv, Rollback
  <1>8. PointsInv' /\ NoDuplicateVersion' /\ AtMostOne'
    BY <1>1 DEF IndexInv, PointsInv, NoDuplicateVersion, AtMostOne, Indexed, Settled
  <1>9. PhaseInv'
    BY <1>1, <1>2, <1>3, <1>4 DEF IndexInv, PhaseInv, WorkerInv, Indexed
  <1> QED
    BY <1>5, <1>6, <1>7, <1>8, <1>9 DEF IndexInv

----------------------------------------------------------------------------
(* Steps inside a transaction.  Each comes with what is true of the other   *)
(* workers and their jobs while w goes on.                                  *)

\* Worker w goes to another phase, with its job, and takes no lock of another.
GoesOn(w, to) ==
    /\ pc' = [pc EXCEPT ![w] = to]
    /\ pc[w] # "idle" /\ to # "idle"
    /\ UNCHANGED <<jobs, cur>>

LEMMA Going ==
    ASSUME IndexInv, NEW w \in Workers,
           NEW to \in {"claimed", "fetched", "insert", "held", "loaded", "cleaning"}, GoesOn(w, to)
    PROVE  /\ \A v \in Workers : pc[v] # "idle" =>
                 MyKind(v)' = MyKind(v) /\ MyDoc(v)' = MyDoc(v) /\ MyVersion(v)' = MyVersion(v)
           /\ \A v \in Workers \ {w} : pc'[v] = pc[v]
           /\ pc'[w] = to
           /\ pc' \in [Workers -> {"idle", "claimed", "fetched", "insert", "held", "loaded",
                       "cleaning"}]
           /\ UNCHANGED versions => JobsInv'
  <1>1. pc \in [Workers -> {"idle", "claimed", "fetched", "insert", "held", "loaded",
                       "cleaning"}]
    BY DEF IndexInv, TypeOK
  <1>2. /\ \A v \in Workers \ {w} : pc'[v] = pc[v]
        /\ pc'[w] = to
        /\ pc' \in [Workers -> {"idle", "claimed", "fetched", "insert", "held", "loaded",
                       "cleaning"}]
    BY <1>1 DEF GoesOn
  <1>3. UNCHANGED versions => JobsInv'
    BY <1>2 DEF IndexInv, JobsInv, GoesOn
  <1> QED
    BY <1>2, <1>3, SameJob DEF GoesOn, IndexInv

\* LOCK steps: the row was free, so no other worker had it.
LEMMA Locking ==
    ASSUME IndexInv, NEW w \in Workers, NEW d \in Docs, pc[w] # "idle", MyDoc(w) = d, Lock(w, d),
           UNCHANGED <<jobs, cur>>
    PROVE  /\ GoesOn(w, "held") /\ LockInv'
           /\ docLock' \in [Docs -> Workers \cup {Nobody}]
  <1>1. GoesOn(w, "held")
    BY DEF Lock, GoesOn
  <1>2. docLock' = [docLock EXCEPT ![d] = w] /\ docLock[d] = Nobody
    BY DEF Lock, RowFree
  <1>3. docLock \in [Docs -> Workers \cup {Nobody}]
    BY DEF IndexInv, TypeOK
  <1>4. ASSUME NEW v \in Workers, pc'[v] \in {"held", "loaded", "cleaning"}
        PROVE  docLock'[MyDoc(v)'] = v
    <2>1. CASE v = w
      BY <1>1, <1>2, <1>3, <2>1, Going, MyJob
    <2>2. CASE v # w
      <3>1. pc[v] \in {"held", "loaded", "cleaning"}
        BY <1>1, <1>4, <2>2, Going
      <3>2. MyDoc(v)' = MyDoc(v) /\ MyDoc(v) \in Docs /\ docLock[MyDoc(v)] = v
        BY <1>1, <3>1, Going, MyJob DEF IndexInv, LockInv
      <3> QED
        BY <1>2, <1>3, <3>2, NobodyAssumption
    <2> QED
      BY <2>1, <2>2
  <1> QED
    BY <1>1, <1>2, <1>3, <1>4 DEF LockInv

\* Steps that leave versions, active and points alone: only what w itself has found out
\* may change.
LEMMA GoingQuietly ==
    ASSUME IndexInv, NEW w \in Workers,
           NEW to \in {"claimed", "fetched", "insert", "held", "loaded", "cleaning"}, GoesOn(w, to),
           UNCHANGED <<provider, versions, active, points>>,
           buf' \in [Workers -> Contents \cup {NoContent}],
           todo' \in [Workers -> SUBSET Nat],
           docLock' \in [Docs -> Workers \cup {Nobody}],
           \A v \in Workers \ {w} : buf'[v] = buf[v] /\ todo'[v] = todo[v],
           LockInv', WorkerInv(w)'
    PROVE  IndexInv'
  <1>1. TypeOK'
    BY Going DEF IndexInv, TypeOK, GoesOn
  <1>2. JobsInv'
    BY Going
  <1>3. PointsInv' /\ NoDuplicateVersion' /\ AtMostOne'
    BY DEF IndexInv, PointsInv, NoDuplicateVersion, AtMostOne, Indexed, Settled, GoesOn
  <1>4. ASSUME NEW v \in Workers \ {w} PROVE WorkerInv(v)'
    <2>1. pc'[v] = pc[v] /\ buf'[v] = buf[v] /\ todo'[v] = todo[v] /\ WorkerInv(v)
      BY Going DEF IndexInv, PhaseInv
    <2>2. CASE pc[v] = "idle"
      BY <2>1, <2>2 DEF WorkerInv
    <2>3. CASE pc[v] # "idle"
      <3>1. MyKind(v)' = MyKind(v) /\ MyDoc(v)' = MyDoc(v) /\ MyVersion(v)' = MyVersion(v)
        BY <2>3, Going
      <3>2. Indexed(MyDoc(v))' = Indexed(MyDoc(v))
        BY <3>1 DEF Indexed
      <3> QED
        BY <2>1, <3>1, <3>2 DEF WorkerInv
    <2> QED
      BY <2>2, <2>3
  <1> QED
    BY <1>1, <1>2, <1>3, <1>4 DEF IndexInv, PhaseInv

\* A step that changes no lock and starts or ends none keeps LockInv.
LEMMA LocksKept ==
    ASSUME IndexInv, NEW w \in Workers,
           NEW to \in {"claimed", "fetched", "insert", "held", "loaded", "cleaning"}, GoesOn(w, to),
           to \in {"held", "loaded", "cleaning"} => pc[w] \in {"held", "loaded", "cleaning"},
           UNCHANGED docLock
    PROVE  LockInv'
  BY Going DEF IndexInv, LockInv, GoesOn

----------------------------------------------------------------------------
(* The handlers up to their commit *)

LEMMA FetchStep ==
    ASSUME IndexInv, NEW w \in Workers, Fetch(w)
    PROVE  IndexInv'
  <1>1. GoesOn(w, "fetched")
    BY DEF Fetch, GoesOn
  <1>2. LockInv'
    BY <1>1, LocksKept DEF Fetch
  <1>3. /\ buf' \in [Workers -> Contents \cup {NoContent}]
        /\ \A v \in Workers \ {w} : buf'[v] = buf[v] /\ todo'[v] = todo[v]
    BY MyJob DEF Fetch, IndexInv, TypeOK
  <1>4. WorkerInv(w)'
    BY <1>1, Going DEF WorkerInv
  <1> QED
    BY <1>1, <1>2, <1>3, <1>4, GoingQuietly DEF Fetch, IndexInv, TypeOK

LEMMA SelectStep ==
    ASSUME IndexInv, NEW w \in Workers, Select(w)
    PROVE  IndexInv'
  <1>1. /\ pc[w] = "fetched" /\ buf[w] # NoContent /\ MyDoc(w) \in Docs
        /\ UNCHANGED <<provider, versions, active, jobs, points, cur, buf, todo>>
    BY MyJob DEF Select
  <1>2. CASE Lock(w, MyDoc(w))
    <2>1. GoesOn(w, "held") /\ LockInv' /\ docLock' \in [Docs -> Workers \cup {Nobody}]
      BY <1>1, <1>2, Locking
    <2>2. WorkerInv(w)'
      BY <1>1, <2>1, Going DEF WorkerInv
    <2> QED
      BY <1>1, <2>1, <2>2, GoingQuietly DEF IndexInv, TypeOK
  <1>3. CASE pc' = [pc EXCEPT ![w] = "insert"] /\ UNCHANGED docLock
    <2>1. GoesOn(w, "insert")
      BY <1>1, <1>3 DEF GoesOn
    <2>2. LockInv'
      BY <1>3, <2>1, LocksKept
    <2>3. WorkerInv(w)'
      BY <1>1, <2>1, Going DEF WorkerInv
    <2> QED
      BY <1>1, <1>3, <2>1, <2>2, <2>3, GoingQuietly DEF IndexInv, TypeOK
  <1> QED
    BY <1>2, <1>3 DEF Select

LEMMA InsertStep ==
    ASSUME IndexInv, NEW w \in Workers, Insert(w)
    PROVE  IndexInv'
  <1>1. /\ pc[w] = "insert" /\ MyDoc(w) \in Docs /\ Lock(w, MyDoc(w))
        /\ UNCHANGED <<provider, versions, active, jobs, points, cur, buf, todo>>
    BY MyJob DEF Insert
  <1>2. GoesOn(w, "held") /\ LockInv' /\ docLock' \in [Docs -> Workers \cup {Nobody}]
    BY <1>1, Locking
  <1>3. WorkerInv(w)'
    BY <1>1, <1>2, Going DEF WorkerInv, IndexInv, PhaseInv
  <1> QED
    BY <1>1, <1>2, <1>3, GoingQuietly DEF IndexInv, TypeOK

LEMMA LockDocumentStep ==
    ASSUME IndexInv, NEW w \in Workers, LockDocument(w)
    PROVE  IndexInv'
  <1>1. /\ pc[w] = "claimed" /\ MyKind(w) \in {"index", "deactivate"} /\ MyDoc(w) \in Docs
        /\ Lock(w, MyDoc(w))
        /\ UNCHANGED <<provider, versions, active, jobs, points, cur, buf, todo>>
    BY MyJob DEF LockDocument
  <1>2. GoesOn(w, "held") /\ LockInv' /\ docLock' \in [Docs -> Workers \cup {Nobody}]
    BY <1>1, Locking
  <1>3. WorkerInv(w)'
    BY <1>1, <1>2, Going DEF WorkerInv
  <1> QED
    BY <1>1, <1>2, <1>3, GoingQuietly DEF IndexInv, TypeOK

\* The comparison with the latest version is made under the lock.
LEMMA CompareStep ==
    ASSUME IndexInv, NEW w \in Workers, Compare(w)
    PROVE  IndexInv'
  <1>1. /\ pc[w] = "held" /\ MyKind(w) = "scan" /\ MyDoc(w) \in Docs
        /\ UNCHANGED <<provider, versions, active, jobs, points, cur, buf, docLock>>
    BY MyJob DEF Compare
  <1>2. GoesOn(w, "loaded")
    BY <1>1 DEF Compare, GoesOn
  <1>3. LockInv'
    BY <1>1, <1>2, LocksKept
  <1>4. versions[MyDoc(w)] \in Seq(Contents) /\ Len(versions[MyDoc(w)]) + 1 \in Nat
    BY <1>1 DEF IndexInv, TypeOK
  <1>5. todo' = [todo EXCEPT ![w] = IF Changed(versions[MyDoc(w)], buf[w])
                                    THEN {Len(versions[MyDoc(w)]) + 1} ELSE {}]
    BY DEF Compare
  <1>6. /\ todo' \in [Workers -> SUBSET Nat]
        /\ \A v \in Workers \ {w} : buf'[v] = buf[v] /\ todo'[v] = todo[v]
    BY <1>1, <1>4, <1>5 DEF IndexInv, TypeOK
  <1>7. todo'[w] # {} => Changed(versions[MyDoc(w)], buf[w])
    BY <1>5 DEF IndexInv, TypeOK
  <1>8. WorkerInv(w)'
    BY <1>1, <1>2, <1>7, Going DEF WorkerInv, IndexInv, PhaseInv, Changed
  <1> QED
    BY <1>1, <1>2, <1>3, <1>6, <1>8, GoingQuietly DEF IndexInv, TypeOK

LEMMA LoadVersionStep ==
    ASSUME IndexInv, NEW w \in Workers, LoadVersion(w)
    PROVE  IndexInv'
  <1>1. /\ pc[w] = "held" /\ MyKind(w) = "index" /\ active[MyDoc(w)]
        /\ UNCHANGED <<provider, versions, active, jobs, points, cur, buf, todo, docLock>>
    BY DEF LoadVersion
  <1>2. GoesOn(w, "loaded")
    BY <1>1 DEF LoadVersion, GoesOn
  <1>3. LockInv'
    BY <1>1, <1>2, LocksKept
  <1>4. WorkerInv(w)'
    BY <1>1, <1>2, Going DEF WorkerInv
  <1> QED
    BY <1>1, <1>2, <1>3, <1>4, GoingQuietly DEF IndexInv, TypeOK

----------------------------------------------------------------------------
(* The steps that write to Qdrant *)

LEMMA GoingWithPoints ==
    ASSUME IndexInv, NEW w \in Workers, GoesOn(w, "cleaning"),
           pc[w] \in {"held", "loaded", "cleaning"}, MyKind(w) \in {"index", "deactivate"},
           UNCHANGED <<provider, versions, active, buf, docLock>>,
           todo' \in [Workers -> SUBSET Nat],
           \A v \in Workers \ {w} : todo'[v] = todo[v],
           points' \subseteq Point, PointsInv',
           \A d \in Docs \ {MyDoc(w)} : Indexed(d)' \subseteq Indexed(d),
           MyKind(w) = "index" => Indexed(MyDoc(w))' \subseteq todo'[w] \cup {MyVersion(w)}
    PROVE  IndexInv'
  <1>1. TypeOK'
    BY Going DEF IndexInv, TypeOK, GoesOn
  <1>2. JobsInv' /\ LockInv'
    BY Going, LocksKept
  <1>3. NoDuplicateVersion'
    BY DEF IndexInv, NoDuplicateVersion
  <1>4. AtMostOne'
    <2> SUFFICES ASSUME NEW d \in Docs, active[d], Settled(d)'
                 PROVE  \A m, n \in Indexed(d)' : m = n
      BY DEF AtMostOne
    <2>1. Settled(d)
      BY DEF Settled, GoesOn
    <2>2. d # MyDoc(w)
      BY <2>1, MyJob DEF Settled, MyKind, MyDoc
    <2> QED
      BY <2>1, <2>2 DEF IndexInv, AtMostOne
  <1>5. WorkerInv(w)'
    BY Going DEF WorkerInv
  <1>6. ASSUME NEW v \in Workers \ {w} PROVE WorkerInv(v)'
    <2>1. pc'[v] = pc[v] /\ buf'[v] = buf[v] /\ todo'[v] = todo[v] /\ WorkerInv(v)
      BY Going DEF IndexInv, PhaseInv
    <2>2. CASE pc[v] = "idle"
      BY <2>1, <2>2 DEF WorkerInv
    <2>3. CASE pc[v] # "idle"
      <3>1. MyKind(v)' = MyKind(v) /\ MyDoc(v)' = MyDoc(v) /\ MyVersion(v)' = MyVersion(v)
        BY <2>3, Going
      <3>2. pc[v] = "cleaning" => MyDoc(v) \in Docs \ {MyDoc(w)}
        BY <2>3, MyJob DEF IndexInv, LockInv
      <3>3. pc[v] = "cleaning" => Indexed(MyDoc(v))' \subseteq Indexed(MyDoc(v))
        <4>1. pc[v] = "cleaning" => Indexed(MyDoc(v))' = {n \in 1 .. Len(versions'[MyDoc(v)]) :
                                                          PointOf(MyDoc(v), n) \in points'}
          BY <3>1 DEF Indexed, PointOf
        <4> QED
          BY <3>2, <4>1 DEF Indexed, PointOf
      <3> QED
        BY <2>1, <3>1, <3>3 DEF WorkerInv
    <2> QED
      BY <2>2, <2>3
  <1> QED
    BY <1>1, <1>2, <1>3, <1>4, <1>5, <1>6 DEF IndexInv, PhaseInv

\* The points of a version are those of its document alone.
LEMMA OnePoint ==
    ASSUME NEW d \in Docs, NEW e \in Docs, NEW m, NEW n, PointOf(d, m) = PointOf(e, n)
    PROVE  d = e /\ m = n
  BY DEF PointOf

LEMMA UpsertChunksStep ==
    ASSUME IndexInv, NEW w \in Workers, UpsertChunks(w)
    PROVE  IndexInv'
  <1> DEFINE d == MyDoc(w)
             n == MyVersion(w)
  <1>1. /\ pc[w] = "loaded" /\ MyKind(w) = "index" /\ d \in Docs
        /\ UNCHANGED <<provider, versions, active, jobs, cur, buf, docLock>>
        /\ GoesOn(w, "cleaning")
    BY MyJob DEF UpsertChunks, GoesOn
  <1>2. n \in 1 .. Len(versions[d]) /\ versions[d] \in Seq(Contents)
    BY <1>1, MyJob DEF IndexInv, JobsInv, TypeOK, MyKind, MyDoc, MyVersion
  <1>3. \/ points' = points
        \/ points' = {p \in points : p.external # ExternalId[d] \/ p.n # n} \cup {PointOf(d, n)}
    BY DEF UpsertChunks
  <1>4. PointOf(d, n) \in Point /\ points \subseteq Point
    BY <1>1, <1>2 DEF PointOf, Point, IndexInv, TypeOK
  <1>5. points' \subseteq Point /\ PointsInv'
    BY <1>1, <1>2, <1>3, <1>4 DEF PointsInv, IndexInv, PointOf
  <1>6. todo' = [todo EXCEPT ![w] = Superseded(d, n)]
    BY DEF UpsertChunks
  <1>7. todo' \in [Workers -> SUBSET Nat] /\ \A v \in Workers \ {w} : todo'[v] = todo[v]
    BY <1>2, <1>6 DEF IndexInv, TypeOK, Superseded
  <1>8. \A e \in Docs \ {d} : Indexed(e)' \subseteq Indexed(e)
    <2> HIDE DEF d, n
    <2> SUFFICES ASSUME NEW e \in Docs \ {d}, NEW m \in 1 .. Len(versions[e]),
                        PointOf(e, m) \in points'
                 PROVE  PointOf(e, m) \in points
      BY <1>1 DEF Indexed, PointOf
    <2> QED
      BY <1>1, <1>3, OnePoint
  <1>9. Indexed(d)' \subseteq 1 .. Len(versions[d])
    BY <1>1, <1>2 DEF Indexed, MyDoc
  <1>10. Indexed(d)' \subseteq todo'[w] \cup {n}
    BY <1>6, <1>9 DEF Superseded, IndexInv, TypeOK
  <1> QED
    BY <1>1, <1>5, <1>7, <1>8, <1>10, GoingWithPoints

LEMMA WithoutPoint ==
    ASSUME IndexInv, NEW d \in Docs, NEW n, points' = Without(d, n), UNCHANGED versions
    PROVE  /\ points' \subseteq Point /\ PointsInv'
           /\ \A e \in Docs \ {d} : Indexed(e)' \subseteq Indexed(e)
           /\ Indexed(d)' \subseteq Indexed(d) \ {n}
  BY DEF IndexInv, TypeOK, PointsInv, Without, Indexed, PointOf

LEMMA DeleteOldStep ==
    ASSUME IndexInv, NEW w \in Workers, DeleteOld(w)
    PROVE  IndexInv'
  <1>1. PICK n \in todo[w] : /\ points' = Without(MyDoc(w), n)
                             /\ todo' = [todo EXCEPT ![w] = @ \ {n}]
    BY DEF DeleteOld
  <1>2. /\ pc[w] = "cleaning" /\ MyDoc(w) \in Docs
        /\ UNCHANGED <<provider, versions, active, jobs, pc, cur, buf, docLock>>
    BY MyJob DEF DeleteOld
  <1>3. GoesOn(w, "cleaning")
    BY <1>2 DEF GoesOn, IndexInv, TypeOK
  <1>4. WorkerInv(w)
    BY DEF IndexInv, PhaseInv
  <1>5. todo' \in [Workers -> SUBSET Nat] /\ \A v \in Workers \ {w} : todo'[v] = todo[v]
    BY <1>1 DEF IndexInv, TypeOK
  <1>6. todo'[w] = todo[w] \ {n}
    BY <1>1 DEF IndexInv, TypeOK
  <1>7. /\ points' \subseteq Point /\ PointsInv'
        /\ \A e \in Docs \ {MyDoc(w)} : Indexed(e)' \subseteq Indexed(e)
    BY <1>1, <1>2, WithoutPoint
  <1>8. MyKind(w) = "index" => Indexed(MyDoc(w))' \subseteq todo'[w] \cup {MyVersion(w)}
    <2> DEFINE d == MyDoc(w)
    <2>1. MyDoc(w)' = d
      BY <1>2 DEF MyDoc
    <2>2. Indexed(d)' \subseteq Indexed(d) \ {n}
      BY <1>1, <1>2, <2>1, WithoutPoint DEF Indexed
    <2> QED
      BY <1>2, <1>4, <1>6, <2>2 DEF WorkerInv
  <1> QED
    BY <1>2, <1>3, <1>4, <1>5, <1>7, <1>8, GoingWithPoints DEF WorkerInv

LEMMA DeleteLatestStep ==
    ASSUME IndexInv, NEW w \in Workers, DeleteLatest(w)
    PROVE  IndexInv'
  <1>1. /\ pc[w] = "held" /\ MyKind(w) = "deactivate" /\ MyDoc(w) \in Docs
        /\ points' = Without(MyDoc(w), Len(versions[MyDoc(w)]))
        /\ UNCHANGED <<provider, versions, active, jobs, cur, buf, todo, docLock>>
        /\ GoesOn(w, "cleaning")
    BY MyJob DEF DeleteLatest, GoesOn
  <1>2. /\ points' \subseteq Point /\ PointsInv'
        /\ \A e \in Docs \ {MyDoc(w)} : Indexed(e)' \subseteq Indexed(e)
    BY <1>1, WithoutPoint
  <1> QED
    BY <1>1, <1>2, GoingWithPoints DEF IndexInv, TypeOK

----------------------------------------------------------------------------
(* The commits *)

\* What every commit has in common.
LEMMA CommitStep ==
    ASSUME IndexInv, NEW w \in Workers, pc[w] # "idle", NEW enqueued \in Seq(Job),
           Commit(w, enqueued), UNCHANGED <<provider, points>>,
           versions' \in [Docs -> Seq(Contents)], active' \in [Docs -> BOOLEAN],
           \A d \in Docs : Len(versions[d]) <= Len(versions'[d]),
           \A i \in DOMAIN enqueued :
              enqueued[i].kind = "index" => enqueued[i].n \in 1 .. Len(versions'[enqueued[i].doc]),
           \A v \in Workers \ {w} :
              pc[v] \in {"held", "loaded", "cleaning"} =>
                 versions'[MyDoc(v)] = versions[MyDoc(v)] /\ active'[MyDoc(v)] = active[MyDoc(v)],
           NoDuplicateVersion', AtMostOne'
    PROVE  IndexInv'
  <1>1. Release(w)
    BY DEF Commit
  <1>2. /\ jobs' \in Seq(Job) /\ Len(jobs') = Len(jobs) + Len(enqueued)
        /\ \A i \in DOMAIN jobs :
              /\ i \in DOMAIN jobs'
              /\ jobs'[i] = IF i = cur[w] THEN [jobs[i] EXCEPT !.done = TRUE] ELSE jobs[i]
        /\ \A i \in DOMAIN jobs' :
              i \notin DOMAIN jobs =>
                 i - Len(jobs) \in DOMAIN enqueued /\ jobs'[i] = enqueued[i - Len(jobs)]
    BY Committed
  <1>3. \A v \in Workers \ {w} : pc'[v] = pc[v] /\ cur'[v] = cur[v] /\ buf'[v] = buf[v]
                                  /\ todo'[v] = todo[v]
    BY <1>1, Released DEF IndexInv, TypeOK
  <1>4. pc'[w] = "idle" /\ cur'[w] = 0
    BY <1>1, Released DEF IndexInv, TypeOK
  <1>5. \A v \in Workers \ {w} : pc[v] # "idle" =>
           /\ cur[v] \in DOMAIN jobs /\ cur[v] # cur[w] /\ cur[v] # 0
           /\ jobs'[cur[v]] = jobs[cur[v]]
    <2> SUFFICES ASSUME NEW v \in Workers \ {w}, pc[v] # "idle"
                 PROVE  /\ cur[v] \in DOMAIN jobs /\ cur[v] # cur[w] /\ cur[v] # 0
                        /\ jobs'[cur[v]] = jobs[cur[v]]
      OBVIOUS
    <2>1. cur[v] \in DOMAIN jobs
      BY MyJob
    <2>2. DOMAIN jobs = 1 .. Len(jobs) /\ Len(jobs) \in Nat
      BY DEF IndexInv, TypeOK
    <2>3. cur[v] # 0
      BY <2>1, <2>2
    <2>4. cur[v] # cur[w]
      BY <2>3 DEF IndexInv, JobsInv
    <2> QED
      BY <1>2, <2>1, <2>3, <2>4
  <1>6. \A v \in Workers \ {w} : pc[v] # "idle" =>
           MyKind(v)' = MyKind(v) /\ MyDoc(v)' = MyDoc(v) /\ MyVersion(v)' = MyVersion(v)
    BY <1>3, <1>5, SameJob
  <1>7. TypeOK'
    <2>1. cur' \in [Workers -> 0 .. Len(jobs')]
      <3>1. cur \in [Workers -> 0 .. Len(jobs)] /\ Len(jobs) \in Nat /\ Len(enqueued) \in Nat
        BY DEF IndexInv, TypeOK
      <3> QED
        BY <1>1, <1>2, <3>1, Released
    <2> QED
      BY <1>1, <1>2, <2>1, Released DEF IndexInv, TypeOK
  <1>8. JobsInv'
    <2>1. \A v \in Workers : pc'[v] = "idle" => cur'[v] = 0
      BY <1>3, <1>4 DEF IndexInv, JobsInv
    <2>2. \A v \in Workers : pc'[v] # "idle" => cur'[v] \in DOMAIN jobs' /\ ~jobs'[cur'[v]].done
      <3> SUFFICES ASSUME NEW v \in Workers, pc'[v] # "idle"
                   PROVE  cur'[v] \in DOMAIN jobs' /\ ~jobs'[cur'[v]].done
        OBVIOUS
      <3>1. v # w /\ pc[v] # "idle" /\ cur'[v] = cur[v]
        BY <1>3, <1>4
      <3>2. cur[v] \in DOMAIN jobs /\ ~jobs[cur[v]].done /\ jobs'[cur[v]] = jobs[cur[v]]
        BY <1>5, <3>1, MyJob
      <3> QED
        BY <1>2, <3>1, <3>2
    <2>3. \A u, v \in Workers : cur'[u] = cur'[v] /\ cur'[u] # 0 => u = v
      BY <1>3, <1>4 DEF IndexInv, JobsInv
    <2>4. ASSUME NEW i \in DOMAIN jobs', jobs'[i].kind = "index"
          PROVE  jobs'[i].n \in 1 .. Len(versions'[jobs'[i].doc])
      <3>1. CASE i \in DOMAIN jobs
        <4>1. jobs[i] \in Job
          BY <3>1 DEF IndexInv, TypeOK
        <4>2. jobs'[i].kind = jobs[i].kind /\ jobs'[i].n = jobs[i].n /\ jobs'[i].doc = jobs[i].doc
          BY <1>2, <3>1, <4>1 DEF Job
        <4>3. jobs[i].n \in 1 .. Len(versions[jobs[i].doc]) /\ jobs[i].doc \in Docs
          BY <2>4, <3>1, <4>1, <4>2 DEF IndexInv, JobsInv, Job
        <4>4. Len(versions[jobs[i].doc]) \in Nat /\ Len(versions'[jobs[i].doc]) \in Nat
          BY <4>3 DEF IndexInv, TypeOK
        <4> QED
          BY <4>2, <4>3, <4>4
      <3>2. CASE i \notin DOMAIN jobs
        BY <1>2, <2>4, <3>2
      <3> QED
        BY <3>1, <3>2
    <2> QED
      BY <2>1, <2>2, <2>3, <2>4 DEF JobsInv
  <1>9. LockInv'
    BY <1>1, <1>3, <1>4, <1>6, Released, MyJob DEF IndexInv, LockInv
  <1>10. PointsInv'
    <2> SUFFICES ASSUME NEW p \in points PROVE p.n \in 1 .. Len(versions'[p.doc])
      BY DEF IndexInv, PointsInv
    <2>1. p.doc \in Docs /\ p.n \in 1 .. Len(versions[p.doc])
      BY DEF IndexInv, PointsInv, TypeOK, Point
    <2>2. Len(versions[p.doc]) \in Nat /\ Len(versions'[p.doc]) \in Nat
      BY <2>1 DEF IndexInv, TypeOK
    <2> QED
      BY <2>1, <2>2
  <1>11. ASSUME NEW v \in Workers PROVE WorkerInv(v)'
    <2>1. CASE pc'[v] = "idle"
      BY <2>1 DEF WorkerInv
    <2>2. CASE pc'[v] # "idle"
      <3>1. v # w /\ pc'[v] = pc[v] /\ buf'[v] = buf[v] /\ todo'[v] = todo[v] /\ WorkerInv(v)
        BY <1>3, <1>4, <2>2 DEF IndexInv, PhaseInv
      <3>2. MyKind(v)' = MyKind(v) /\ MyDoc(v)' = MyDoc(v) /\ MyVersion(v)' = MyVersion(v)
        BY <1>6, <2>2, <3>1
      <3>3. pc[v] \in {"held", "loaded", "cleaning"} =>
               /\ versions'[MyDoc(v)] = versions[MyDoc(v)]
               /\ active'[MyDoc(v)] = active[MyDoc(v)]
        BY <3>1
      <3>4. pc[v] = "cleaning" => Indexed(MyDoc(v))' = Indexed(MyDoc(v))
        BY <3>2, <3>3 DEF Indexed
      <3> QED
        BY <3>1, <3>2, <3>3, <3>4 DEF WorkerInv
    <2> QED
      BY <2>1, <2>2
  <1> QED
    BY <1>7, <1>8, <1>9, <1>10, <1>11 DEF IndexInv, PhaseInv

\* A document whose jobs are through after a commit had them through before, unless the
\* job was one of its own.
LEMMA SettledBefore ==
    ASSUME IndexInv, NEW w \in Workers, pc[w] # "idle", NEW enqueued \in Seq(Job),
           Commit(w, enqueued), NEW d \in Docs, Settled(d)',
           MyKind(w) \in {"scan", "sync"} \/ MyDoc(w) # d
    PROVE  Settled(d)
  <1> SUFFICES ASSUME NEW i \in DOMAIN jobs, jobs[i].doc = d, jobs[i].kind \in {"index", "deactivate"}
               PROVE  jobs[i].done
    BY DEF Settled
  <1>1. i # cur[w]
    BY DEF MyKind, MyDoc
  <1>2. i \in DOMAIN jobs' /\ jobs'[i] = jobs[i]
    BY <1>1, Committed
  <1> QED
    BY <1>2 DEF Settled

\* The commits of scans and syncs that write no version
LEMMA PlainCommit ==
    ASSUME IndexInv, NEW w \in Workers, pc[w] # "idle", MyKind(w) \in {"scan", "sync"},
           NEW enqueued \in Seq(Job), Commit(w, enqueued),
           \A i \in DOMAIN enqueued : enqueued[i].kind # "index",
           UNCHANGED <<provider, versions, active, points>>
    PROVE  IndexInv'
  <1>1. \A d \in Docs : Len(versions[d]) <= Len(versions'[d])
    BY DEF IndexInv, TypeOK
  <1>2. NoDuplicateVersion'
    BY DEF IndexInv, NoDuplicateVersion
  <1>3. \A d \in Docs : Indexed(d)' = Indexed(d)
    BY DEF Indexed
  <1>4. AtMostOne'
    BY <1>3, SettledBefore DEF IndexInv, AtMostOne
  <1> QED
    BY <1>1, <1>2, <1>4, CommitStep DEF IndexInv, TypeOK

LEMMA SyncStep ==
    ASSUME IndexInv, NEW w \in Workers, Sync(w)
    PROVE  IndexInv'
  <1> DEFINE job == NewJob("deactivate", MyDoc(w), 0)
  <1>1. pc[w] = "fetched" /\ MyKind(w) = "sync" /\ MyDoc(w) \in Docs
    BY MyJob DEF Sync
  <1>2. job \in Job /\ job.kind = "deactivate"
    BY <1>1 DEF NewJob, Job
  <1>3. PICK enqueued \in {<<>>, <<job>>} : Commit(w, enqueued)
    BY DEF Sync
  <1> HIDE DEF job
  <1>4. enqueued \in Seq(Job) /\ \A i \in DOMAIN enqueued : enqueued[i].kind # "index"
    <2>1. CASE enqueued = <<>>
      BY <2>1
    <2>2. CASE enqueued = <<job>>
      BY <1>2, <2>2
    <2> QED
      BY <2>1, <2>2
  <1> QED
    BY <1>1, <1>3, <1>4, PlainCommit DEF Sync

LEMMA ScanNothingStep ==
    ASSUME IndexInv, NEW w \in Workers, ScanNothing(w)
    PROVE  IndexInv'
  <1>1. <<>> \in Seq(Job) /\ DOMAIN <<>> = {}
    OBVIOUS
  <1> QED
    BY <1>1, PlainCommit DEF ScanNothing

\* Whoever holds the lock of a row is the only one past "claimed" with its document.
LEMMA SoleHolder ==
    ASSUME IndexInv, NEW w \in Workers, pc[w] \in {"held", "loaded", "cleaning"},
           NEW v \in Workers \ {w}, pc[v] \in {"held", "loaded", "cleaning"}
    PROVE  MyDoc(v) # MyDoc(w)
  BY DEF IndexInv, LockInv

\* The new version differs from the latest, which nobody else has replaced meanwhile, and
\* its index job is open.
LEMMA UpsertStep ==
    ASSUME IndexInv, NEW w \in Workers, Upsert(w)
    PROVE  IndexInv'
  <1>0. PICK d \in Docs : d = MyDoc(w)
    BY MyJob DEF Upsert
  <1> DEFINE old == versions[d]
             job == NewJob("index", d, Len(old) + 1)
             enqueued == <<job>>
  <1>1. /\ pc[w] = "loaded" /\ MyKind(w) = "scan"
        /\ UNCHANGED <<provider, active, points>>
    BY DEF Upsert
  <1>2. CASE todo[w] = {}
    <2>1. UNCHANGED versions /\ Commit(w, <<>>)
      BY <1>2 DEF Upsert
    <2>2. <<>> \in Seq(Job) /\ DOMAIN <<>> = {}
      OBVIOUS
    <2> QED
      BY <1>1, <2>1, <2>2, PlainCommit
  <1>3. CASE todo[w] # {}
    <2>1. versions' = [versions EXCEPT ![d] = Append(old, buf[w])] /\ Commit(w, enqueued)
      BY <1>0, <1>3 DEF Upsert
    <2>2. buf[w] \in Contents /\ Changed(old, buf[w])
      BY <1>0, <1>1, <1>3 DEF IndexInv, PhaseInv, WorkerInv, TypeOK
    <2>3. versions \in [Docs -> Seq(Contents)] /\ old \in Seq(Contents) /\ Len(old) \in Nat
      BY <1>1 DEF IndexInv, TypeOK
    <2>4. job \in Job /\ job.kind = "index" /\ job.n = Len(old) + 1 /\ job.doc = d /\ ~job.done
      BY <1>1, <2>3 DEF NewJob, Job
    <2>5. /\ Append(old, buf[w]) \in Seq(Contents) /\ Len(Append(old, buf[w])) = Len(old) + 1
          /\ \A n \in 1 .. Len(old) : Append(old, buf[w])[n] = old[n]
          /\ Append(old, buf[w])[Len(old) + 1] = buf[w]
      BY <2>2, <2>3
    <2> HIDE DEF job
    <2>6. enqueued \in Seq(Job) /\ Len(enqueued) = 1 /\ DOMAIN enqueued = {1} /\ enqueued[1] = job
      BY <2>4
    <2>7. old = versions[d]
      OBVIOUS
    <2> HIDE DEF old, enqueued
    <2>8. /\ versions' \in [Docs -> Seq(Contents)]
          /\ versions'[d] = Append(old, buf[w])
          /\ \A e \in Docs \ {d} : versions'[e] = versions[e]
          /\ \A e \in Docs : Len(versions[e]) <= Len(versions'[e])
      <3>1. /\ versions' \in [Docs -> Seq(Contents)]
            /\ versions'[d] = Append(old, buf[w])
            /\ \A e \in Docs \ {d} : versions'[e] = versions[e]
        BY <1>1, <2>1, <2>3, <2>5
      <3>2. ASSUME NEW e \in Docs PROVE Len(versions[e]) <= Len(versions'[e])
        <4>1. CASE e = d
          BY <2>3, <2>5, <2>7, <3>1, <4>1
        <4>2. CASE e # d
          <5>1. versions'[e] = versions[e] /\ Len(versions[e]) \in Nat
            BY <2>3, <3>1, <4>2
          <5> QED
            BY <5>1
        <4> QED
          BY <4>1, <4>2
      <3> QED
        BY <3>1, <3>2
    <2>9. /\ \A i \in DOMAIN enqueued :
                enqueued[i].kind = "index" => enqueued[i].n \in 1 .. Len(versions'[enqueued[i].doc])
          /\ \A v \in Workers \ {w} :
                pc[v] \in {"held", "loaded", "cleaning"} =>
                   versions'[MyDoc(v)] = versions[MyDoc(v)] /\ active'[MyDoc(v)] = active[MyDoc(v)]
      <3>1. \A i \in DOMAIN enqueued : enqueued[i].n \in 1 .. Len(versions'[enqueued[i].doc])
        BY <2>3, <2>4, <2>5, <2>6, <2>8
      <3> QED
        BY <1>0, <1>1, <2>8, <3>1, SoleHolder, MyJob
    <2>10. NoDuplicateVersion'
      <3> SUFFICES ASSUME NEW e \in Docs, NEW n \in 2 .. Len(versions'[e])
                   PROVE  Shape[versions'[e][n - 1]] # Shape[versions'[e][n]]
        BY DEF NoDuplicateVersion
      <3>1. CASE e # d
        <4>1. versions'[e] = versions[e] /\ n \in 2 .. Len(versions[e])
          BY <2>8, <3>1
        <4> QED
          BY <4>1 DEF IndexInv, NoDuplicateVersion
      <3>2. CASE e = d /\ n \in 2 .. Len(old)
        <4>1. versions'[e][n - 1] = old[n - 1] /\ versions'[e][n] = old[n]
          <5>1. n - 1 \in 1 .. Len(old) /\ n \in 1 .. Len(old)
            BY <2>3, <3>2
          <5> QED
            BY <2>5, <2>8, <3>2, <5>1
        <4>2. Shape[old[n - 1]] # Shape[old[n]]
          BY <1>1, <2>7, <3>2 DEF IndexInv, NoDuplicateVersion
        <4> QED
          BY <4>1, <4>2
      <3>3. CASE e = d /\ n \notin 2 .. Len(old)
        <4>1. n = Len(old) + 1 /\ Len(old) >= 1
          BY <2>3, <2>5, <2>8, <3>3
        <4>2. versions'[e][n - 1] = old[Len(old)] /\ versions'[e][n] = buf[w] /\ old # <<>>
          <5>1. n - 1 = Len(old) /\ Len(old) \in 1 .. Len(old)
            BY <2>3, <4>1
          <5>2. old # <<>>
            BY <4>1
          <5>3. versions'[e] = Append(old, buf[w])
            BY <2>8, <3>3
          <5> QED
            BY <2>5, <4>1, <5>1, <5>2, <5>3
        <4> QED
          BY <2>2, <4>2 DEF Changed
      <3> QED
        BY <3>1, <3>2, <3>3
    <2>11. ~Settled(d)'
      <3>1. /\ jobs' \in Seq(Job) /\ Len(jobs') = Len(jobs) + Len(enqueued)
            /\ \A i \in DOMAIN jobs' :
                  i \notin DOMAIN jobs =>
                     i - Len(jobs) \in DOMAIN enqueued /\ jobs'[i] = enqueued[i - Len(jobs)]
        BY <1>1, <2>1, <2>6, Committed
      <3>2. Len(jobs) \in Nat /\ DOMAIN jobs = 1 .. Len(jobs)
        BY DEF IndexInv, TypeOK
      <3>3. Len(jobs) + 1 \in DOMAIN jobs' /\ Len(jobs) + 1 \notin DOMAIN jobs
        BY <2>6, <3>1, <3>2
      <3>4. jobs'[Len(jobs) + 1] = job
        BY <2>6, <3>1, <3>3
      <3> QED
        BY <2>4, <3>3, <3>4 DEF Settled
    <2>12. AtMostOne'
      <3> SUFFICES ASSUME NEW e \in Docs, active[e], Settled(e)'
                   PROVE  \A m, n \in Indexed(e)' : m = n
        BY <1>1 DEF AtMostOne
      <3>0. Settled(e)'
        OBVIOUS
      <3>1. e # d /\ Settled(e)
        <4>1. e # d
          BY <2>11, <3>0
        <4>2. Settled(e)
          BY <1>1, <2>1, <2>6, SettledBefore
        <4> QED
          BY <4>1, <4>2
      <3>2. Indexed(e)' = Indexed(e)
        BY <1>1, <2>8, <3>1 DEF Indexed
      <3> QED
        BY <3>1, <3>2 DEF IndexInv, AtMostOne
    <2> QED
      BY <1>1, <2>1, <2>6, <2>8, <2>9, <2>10, <2>12, CommitStep DEF IndexInv, TypeOK
  <1> QED
    BY <1>2, <1>3

\* Everything but the version just indexed has been deleted.
LEMMA CommitIndexStep ==
    ASSUME IndexInv, NEW w \in Workers, CommitIndex(w)
    PROVE  IndexInv'
  <1>1. /\ pc[w] = "cleaning" /\ MyKind(w) = "index" /\ todo[w] = {} /\ Commit(w, <<>>)
        /\ UNCHANGED <<provider, versions, active, points>>
    BY DEF CommitIndex
  <1>2. <<>> \in Seq(Job) /\ DOMAIN <<>> = {}
    OBVIOUS
  <1>3. \A d \in Docs : Len(versions[d]) <= Len(versions'[d]) /\ Indexed(d)' = Indexed(d)
    BY <1>1 DEF IndexInv, TypeOK, Indexed
  <1>4. NoDuplicateVersion'
    BY <1>1 DEF IndexInv, NoDuplicateVersion
  <1>5. Indexed(MyDoc(w)) \subseteq {MyVersion(w)}
    BY <1>1 DEF IndexInv, PhaseInv, WorkerInv
  <1>6. AtMostOne'
    <2> SUFFICES ASSUME NEW d \in Docs, active[d], Settled(d)'
                 PROVE  \A m, n \in Indexed(d) : m = n
      BY <1>1, <1>3 DEF AtMostOne
    <2>1. CASE d = MyDoc(w)
      BY <1>5, <2>1
    <2>2. CASE d # MyDoc(w)
      <3>1. Settled(d)
        BY <1>1, <1>2, <2>2, SettledBefore
      <3> QED
        BY <3>1 DEF IndexInv, AtMostOne
    <2> QED
      BY <2>1, <2>2
  <1> QED
    BY <1>1, <1>2, <1>3, <1>4, <1>6, CommitStep DEF IndexInv, TypeOK

LEMMA CommitDeactivateStep ==
    ASSUME IndexInv, NEW w \in Workers, CommitDeactivate(w)
    PROVE  IndexInv'
  <1>1. /\ pc[w] = "cleaning" /\ MyKind(w) = "deactivate" /\ MyDoc(w) \in Docs
        /\ active' = [active EXCEPT ![MyDoc(w)] = FALSE] /\ Commit(w, <<>>)
        /\ UNCHANGED <<provider, versions, points>>
    BY MyJob DEF CommitDeactivate
  <1>2. <<>> \in Seq(Job) /\ DOMAIN <<>> = {}
    OBVIOUS
  <1>3. \A d \in Docs : Len(versions[d]) <= Len(versions'[d]) /\ Indexed(d)' = Indexed(d)
    BY <1>1 DEF IndexInv, TypeOK, Indexed
  <1>4. /\ active' \in [Docs -> BOOLEAN] /\ ~active'[MyDoc(w)]
        /\ \A d \in Docs \ {MyDoc(w)} : active'[d] = active[d]
    BY <1>1 DEF IndexInv, TypeOK
  <1>5. NoDuplicateVersion'
    BY <1>1 DEF IndexInv, NoDuplicateVersion
  <1>6. AtMostOne'
    <2> SUFFICES ASSUME NEW d \in Docs, active'[d], Settled(d)'
                 PROVE  \A m, n \in Indexed(d) : m = n
      BY <1>3 DEF AtMostOne
    <2>1. d # MyDoc(w) /\ active[d]
      BY <1>4
    <2>2. Settled(d)
      BY <1>1, <1>2, <2>1, SettledBefore
    <2> QED
      BY <2>1, <2>2 DEF IndexInv, AtMostOne
  <1>7. \A v \in Workers \ {w} :
           pc[v] \in {"held", "loaded", "cleaning"} => active'[MyDoc(v)] = active[MyDoc(v)]
    BY <1>1, <1>4, SoleHolder, MyJob
  <1> QED
    BY <1>1, <1>2, <1>3, <1>4, <1>5, <1>6, <1>7, CommitStep DEF IndexInv, TypeOK

----------------------------------------------------------------------------
(* The invariant *)

LEMMA NextStep == IndexInv /\ [Next]_vars => IndexInv'
  <1> SUFFICES ASSUME IndexInv, [Next]_vars PROVE IndexInv'
    OBVIOUS
  <1>1. ASSUME NEW d \in Docs, Environment(d) PROVE IndexInv'
    BY <1>1, EditStep, RequestStep DEF Environment
  <1>2. ASSUME NEW w \in Workers, Claim(w) PROVE IndexInv'
    BY <1>2, ClaimStep
  <1>3. ASSUME NEW w \in Workers, Handle(w) PROVE IndexInv'
    <2>1. ASSUME InsertConflict(w) \/ IndexRefused(w) PROVE IndexInv'
      BY <2>1, RollbackStep DEF InsertConflict, IndexRefused
    <2> QED
      BY <1>3, <2>1, FetchStep, SyncStep, ScanNothingStep, SelectStep, InsertStep, CompareStep,
         UpsertStep, LockDocumentStep, LoadVersionStep, UpsertChunksStep, DeleteOldStep,
         CommitIndexStep, DeleteLatestStep, CommitDeactivateStep DEF Handle
  <1>4. ASSUME NEW w \in Workers, Abort(w) PROVE IndexInv'
    BY <1>4, RollbackStep DEF Abort
  <1>5. CASE Rebuild
    BY <1>5, RebuildStep
  <1>6. CASE UNCHANGED vars
    <2>1. TypeOK' /\ JobsInv' /\ LockInv' /\ PointsInv' /\ NoDuplicateVersion'
      BY <1>6 DEF vars, IndexInv, TypeOK, JobsInv, LockInv, PointsInv, NoDuplicateVersion, MyDoc
    <2>2. PhaseInv'
      BY <1>6 DEF vars, IndexInv, PhaseInv, WorkerInv, Changed, Indexed, MyKind, MyDoc, MyVersion
    <2>3. AtMostOne'
      BY <1>6 DEF vars, IndexInv, AtMostOne, Indexed, Settled
    <2> QED
      BY <2>1, <2>2, <2>3 DEF IndexInv
  <1> QED
    BY <1>1, <1>2, <1>3, <1>4, <1>5, <1>6 DEF Next

\* The row lock and what was found out under it hold in every state.
LEMMA IndexInvariance == Spec => []IndexInv
  <1> QED
    BY Initially, NextStep, PTL DEF Spec

\* The rows, the jobs, the points and the state of every worker keep their types.
THEOREM IndexTypes == Spec => []TypeOK
  <1>1. IndexInv => TypeOK
    BY DEF IndexInv
  <1> QED
    BY <1>1, IndexInvariance, PTL

\* upsert_document: however many daemons scan a document at the same time, and whatever
\* is rolled back, no fingerprint is committed twice in a row.
THEOREM NoVersionTwice == Spec => []NoDuplicateVersion
  <1>1. IndexInv => NoDuplicateVersion
    BY DEF IndexInv
  <1> QED
    BY <1>1, IndexInvariance, PTL

\* handle_document_change: for any number of daemons and versions, index jobs in any
\* order, half-done runs and wipes, a document whose jobs are through has at most one
\* version in the index.
THEOREM OneVersion == Spec => []OneVersionIndexed
  <1>1. IndexInv => OneVersionIndexed
    <2> SUFFICES ASSUME IndexInv, NEW d \in Docs, active[d], Settled(d)
                 PROVE  Cardinality(Indexed(d)) <= 1
      BY DEF OneVersionIndexed
    <2>1. \A m, n \in Indexed(d) : m = n
      BY DEF IndexInv, AtMostOne
    <2> HIDE DEF Indexed
    <2>2. CASE Indexed(d) = {}
      BY <2>2, FS_EmptySet
    <2>3. CASE Indexed(d) # {}
      <3>1. PICK n : Indexed(d) = {n}
        BY <2>1, <2>3
      <3>2. Cardinality({n}) = 1
        BY FS_Singleton
      <3> QED
        BY <3>1, <3>2
    <2> QED
      BY <2>2, <2>3
  <1> QED
    BY <1>1, IndexInvariance, PTL

----------------------------------------------------------------------------
(* Deactivation *)

\* Unless points are added, nothing enters the index: versions that are added have none.
LEMMA NothingEnters ==
    ASSUME IndexInv, points' \subseteq points, NEW d \in Docs
    PROVE  Indexed(d)' \subseteq Indexed(d)
  <1> SUFFICES ASSUME NEW n, PointOf(d, n) \in points PROVE n \in 1 .. Len(versions[d])
    BY DEF Indexed, PointOf
  <1> QED
    BY DEF IndexInv, PointsInv, PointOf

\* An index job adds points, those of an active document.
LEMMA OnlyActiveEnters ==
    ASSUME IndexInv, NEW w \in Workers, UpsertChunks(w), NEW d \in Docs, ~active[d]
    PROVE  Indexed(d)' \subseteq Indexed(d)
  <1> DEFINE mine == PointOf(MyDoc(w), MyVersion(w))
  <1>1. active[MyDoc(w)] /\ MyDoc(w) \in Docs
    BY MyJob DEF UpsertChunks, IndexInv, PhaseInv, WorkerInv
  <1>2. points' \subseteq points \cup {mine} /\ UNCHANGED versions
    BY DEF UpsertChunks
  <1>3. \A n : PointOf(d, n) # mine
    BY <1>1, OnePoint
  <1> HIDE DEF mine
  <1> QED
    BY <1>2, <1>3 DEF Indexed, PointOf

\* _handle_index_document_version and _handle_deactivate_document: for any number of
\* daemons, and with index jobs under way or retried, nothing of a deactivated document
\* enters the index any more.
THEOREM NothingAfterDeactivation == Spec => NothingIndexedAfterDeactivation
  <1>1. ASSUME IndexInv, [Next]_vars, NEW d \in Docs, ~active[d]
        PROVE  Indexed(d)' \subseteq Indexed(d)
    <2>1. CASE \E w \in Workers : UpsertChunks(w)
      BY <1>1, <2>1, OnlyActiveEnters
    <2>2. CASE points' \subseteq points
      BY <1>1, <2>2, NothingEnters
    <2>3. ASSUME NEW w \in Workers, Handle(w), ~UpsertChunks(w) PROVE points' \subseteq points
      BY <2>3 DEF Handle, Fetch, Sync, ScanNothing, Select, Insert, InsertConflict, Compare, Upsert,
         LockDocument, IndexRefused, LoadVersion, DeleteOld, CommitIndex, DeleteLatest,
         CommitDeactivate, Rollback, Without
    <2>4. ASSUME NEW w \in Workers, Claim(w) \/ Abort(w) PROVE points' \subseteq points
      BY <2>4 DEF Claim, Abort, Rollback
    <2>5. ASSUME NEW e \in Docs, Environment(e) PROVE points' \subseteq points
      BY <2>5 DEF Environment, Edit, Request
    <2>6. ASSUME Rebuild \/ UNCHANGED vars PROVE points' \subseteq points
      BY <2>6 DEF Rebuild, NoPoints, vars
    <2> QED
      BY <1>1, <2>1, <2>2, <2>3, <2>4, <2>5, <2>6 DEF Next
  <1>2. IndexInv /\ [Next]_vars => [\A d \in Docs : ~active[d] => Indexed(d)' \subseteq Indexed(d)]_vars
    BY <1>1
  <1> QED
    BY <1>2, IndexInvariance, PTL DEF Spec, NothingIndexedAfterDeactivation

----------------------------------------------------------------------------
(* One daemon, documents that do not come back, no rebuild, and no two      *)
(* documents under one external id: the index converges.  The jobs are then *)
(* done in the order in which they were enqueued, so that the last index    *)
(* job of a document is that of its latest version, and a deactivation      *)
(* comes after all of them: no scan finds a document that a sync has found  *)
(* to be gone.                                                              *)

Calm ==
    /\ \A v, w \in Workers : v = w
    /\ ~Restores /\ ~Rebuilds
    /\ \A d, e \in Docs : ExternalId[d] = ExternalId[e] => d = e

IsIndex(i, d) == jobs[i].kind = "index" /\ jobs[i].doc = d
IsDeactivate(i, d) == jobs[i].kind = "deactivate" /\ jobs[i].doc = d

InOrder == \A i, j \in DOMAIN jobs : i < j /\ jobs[j].done => jobs[i].done

\* The jobs of a document: index jobs by version, up to the latest, then deactivations.
JobOrder(d) ==
    /\ \A i, j \in DOMAIN jobs : IsIndex(i, d) /\ IsIndex(j, d) /\ i < j => jobs[i].n < jobs[j].n
    /\ versions[d] # <<>> => \E i \in DOMAIN jobs : IsIndex(i, d) /\ jobs[i].n = Len(versions[d])
    /\ \A i, j \in DOMAIN jobs : IsDeactivate(i, d) /\ IsIndex(j, d) => j < i
    /\ (\E i \in DOMAIN jobs : IsDeactivate(i, d)) => provider[d] = NoContent

\* What they have made of the index
InPlace(d) ==
    /\ (\A i \in DOMAIN jobs : IsIndex(i, d) => jobs[i].done) => Indexed(d) \subseteq {Len(versions[d])}
    /\ \A n \in Indexed(d) : versions[d][n] \notin Blank
    /\ Settled(d) => Indexed(d) = Wanted(d)

DaemonInv(w) ==
    /\ pc[w] \in {"idle", "claimed"} => buf[w] = NoContent
    /\ pc[w] # "idle" =>
          /\ \A k \in DOMAIN jobs : k < cur[w] => jobs[k].done
          /\ (\E i \in DOMAIN jobs : IsDeactivate(i, MyDoc(w))) => buf[w] = NoContent
    /\ pc[w] = "fetched" /\ buf[w] = NoContent => provider[MyDoc(w)] = NoContent
    /\ pc[w] = "cleaning" /\ MyKind(w) = "index" =>
          /\ active[MyDoc(w)] /\ MyVersion(w) \notin todo[w]
          /\ versions[MyDoc(w)][MyVersion(w)] \notin Blank => MyVersion(w) \in Indexed(MyDoc(w))
    /\ pc[w] = "cleaning" /\ MyKind(w) = "deactivate" => Indexed(MyDoc(w)) = {}

CalmInv ==
    /\ InOrder
    /\ \A d \in Docs : JobOrder(d) /\ InPlace(d)
    /\ \A w \in Workers : DaemonInv(w)

LEMMA CalmInitially == Init => CalmInv
  BY DEF Init, CalmInv, InOrder, JobOrder, InPlace, DaemonInv, Indexed, Wanted, NoPoints

\* Steps that leave the tables, the jobs and the index alone.
LEMMA CalmTables ==
    ASSUME CalmInv, UNCHANGED <<versions, active, jobs, points>>,
           \A d \in Docs : provider[d] = NoContent => provider'[d] = NoContent,
           \A w \in Workers : DaemonInv(w)'
    PROVE  CalmInv'
  <1>1. InOrder'
    BY DEF CalmInv, InOrder
  <1>2. \A d \in Docs : JobOrder(d)'
    BY DEF CalmInv, JobOrder, IsIndex, IsDeactivate
  <1>3. \A d \in Docs : InPlace(d)'
    BY DEF CalmInv, InPlace, Indexed, Wanted, Settled, IsIndex
  <1> QED
    BY <1>1, <1>2, <1>3 DEF CalmInv

LEMMA CalmEdit ==
    ASSUME Calm, IndexInv, CalmInv, NEW d \in Docs, Edit(d)
    PROVE  CalmInv'
  <1>1. UNCHANGED <<versions, active, jobs, points, pc, cur, buf, todo>>
    BY DEF Edit
  <1>2. \A e \in Docs : provider[e] = NoContent => provider'[e] = NoContent
    BY DEF Calm, Edit
  <1>3. ASSUME NEW w \in Workers PROVE DaemonInv(w)'
    <2>1. DaemonInv(w)
      BY DEF CalmInv
    <2>2. pc[w] # "idle" => MyDoc(w) \in Docs
      BY MyJob
    <2>3. MyDoc(w)' = MyDoc(w) /\ MyKind(w)' = MyKind(w) /\ MyVersion(w)' = MyVersion(w)
      BY <1>1 DEF MyDoc, MyKind, MyVersion
    <2>4. Indexed(MyDoc(w))' = Indexed(MyDoc(w))
      BY <1>1, <2>3 DEF Indexed
    <2> QED
      BY <1>1, <1>2, <2>1, <2>2, <2>3, <2>4 DEF DaemonInv, IsDeactivate
  <1> QED
    BY <1>1, <1>2, <1>3, CalmTables

LEMMA CalmClaim ==
    ASSUME Calm, IndexInv, CalmInv, NEW w \in Workers, Claim(w)
    PROVE  CalmInv'
  <1>1. /\ pc[w] = "idle" /\ pc' = [pc EXCEPT ![w] = "claimed"]
        /\ UNCHANGED <<provider, versions, active, jobs, points, buf, todo, docLock>>
    BY DEF Claim
  <1>2. PICK i \in DOMAIN jobs :
           /\ Free(i) /\ \A k \in 1 .. i - 1 : ~Free(k)
           /\ cur' = [cur EXCEPT ![w] = i]
    BY DEF Claim
  <1>3. pc'[w] = "claimed" /\ cur'[w] = i /\ jobs \in Seq(Job)
    BY <1>1, <1>2 DEF IndexInv, TypeOK
  <1>4. ASSUME NEW k \in DOMAIN jobs, k < i PROVE jobs[k].done
    <2>1. k \in 1 .. i - 1 /\ k # 0
      BY <1>2, <1>3, <1>4
    <2>2. \A v \in Workers : cur[v] # k
      BY <1>1, <2>1 DEF Calm, IndexInv, JobsInv
    <2> QED
      BY <1>2, <2>1, <2>2 DEF Free
  <1>5. ASSUME NEW v \in Workers PROVE DaemonInv(v)'
    <2>1. v = w
      BY DEF Calm
    <2>2. buf'[w] = NoContent
      BY <1>1 DEF CalmInv, DaemonInv
    <2> QED
      BY <1>1, <1>3, <1>4, <2>1, <2>2 DEF DaemonInv
  <1> QED
    BY <1>1, <1>5, CalmTables

LEMMA CalmRollback ==
    ASSUME Calm, IndexInv, CalmInv, NEW w \in Workers, Rollback(w)
    PROVE  CalmInv'
  <1>1. UNCHANGED <<provider, versions, active, jobs, points>>
    BY DEF Rollback
  <1>2. pc'[w] = "idle" /\ buf'[w] = NoContent
    BY Released DEF Rollback, IndexInv, TypeOK
  <1>3. \A v \in Workers : DaemonInv(v)'
    BY <1>2 DEF Calm, DaemonInv
  <1> QED
    BY <1>1, <1>3, CalmTables

LEMMA CalmFetch ==
    ASSUME Calm, IndexInv, CalmInv, NEW w \in Workers, Fetch(w)
    PROVE  CalmInv'
  <1>1. /\ pc[w] = "claimed" /\ GoesOn(w, "fetched") /\ MyDoc(w) \in Docs
        /\ buf' = [buf EXCEPT ![w] = provider[MyDoc(w)]]
        /\ UNCHANGED <<provider, versions, active, jobs, points, cur, todo, docLock>>
    BY MyJob DEF Fetch, GoesOn
  <1>2. /\ pc'[w] = "fetched" /\ buf'[w] = provider[MyDoc(w)]
        /\ MyDoc(w)' = MyDoc(w)
    BY <1>1, Going DEF IndexInv, TypeOK
  <1>3. ASSUME NEW v \in Workers PROVE DaemonInv(v)'
    <2>1. v = w
      BY DEF Calm
    <2>2. \A k \in DOMAIN jobs : k < cur[w] => jobs[k].done
      BY <1>1 DEF CalmInv, DaemonInv
    <2>3. (\E i \in DOMAIN jobs : IsDeactivate(i, MyDoc(w))) => provider[MyDoc(w)] = NoContent
      BY <1>1 DEF CalmInv, JobOrder
    <2> QED
      BY <1>1, <1>2, <2>1, <2>2, <2>3 DEF DaemonInv, IsDeactivate
  <1> QED
    BY <1>1, <1>3, CalmTables

\* Steps that take w on with what it has read
LEMMA CalmGoesOn ==
    ASSUME Calm, IndexInv, CalmInv, NEW w \in Workers, NEW to \in {"insert", "held", "loaded"},
           GoesOn(w, to), UNCHANGED <<provider, versions, active, jobs, points, cur, buf>>
    PROVE  CalmInv'
  <1>1. pc'[w] = to /\ MyDoc(w)' = MyDoc(w) /\ pc[w] # "idle"
    BY Going DEF GoesOn
  <1>2. ASSUME NEW v \in Workers PROVE DaemonInv(v)'
    <2>1. v = w
      BY DEF Calm
    <2>2. /\ \A k \in DOMAIN jobs : k < cur[w] => jobs[k].done
          /\ (\E i \in DOMAIN jobs : IsDeactivate(i, MyDoc(w))) => buf[w] = NoContent
      BY <1>1 DEF CalmInv, DaemonInv
    <2> QED
      BY <1>1, <2>1, <2>2 DEF DaemonInv, IsDeactivate
  <1> QED
    BY <1>2, CalmTables

LEMMA CalmQuiet ==
    ASSUME Calm, IndexInv, CalmInv, NEW w \in Workers,
           Select(w) \/ Insert(w) \/ Compare(w) \/ LockDocument(w) \/ LoadVersion(w)
    PROVE  CalmInv'
  <1>1. UNCHANGED <<provider, versions, active, jobs, points, cur, buf>>
    BY DEF Select, Insert, Compare, LockDocument, LoadVersion
  <1>2. \E to \in {"insert", "held", "loaded"} : GoesOn(w, to)
    BY DEF Select, Insert, Compare, LockDocument, LoadVersion, Lock, GoesOn
  <1> QED
    BY <1>1, <1>2, CalmGoesOn

LEMMA CalmRequest ==
    ASSUME Calm, IndexInv, CalmInv, NEW kind \in {"scan", "sync"}, NEW d \in Docs, Request(kind, d)
    PROVE  CalmInv'
  <1> DEFINE j == NewJob(kind, d, 0)
  <1>1. j \in Job /\ j.kind \in {"scan", "sync"} /\ ~j.done
    BY DEF NewJob, Job
  <1>2. /\ UNCHANGED <<provider, versions, active, points, pc, cur, buf, todo, docLock>>
        /\ jobs' = Append(jobs, j)
    BY DEF Request
  <1>3. /\ jobs' \in Seq(Job) /\ Len(jobs') = Len(jobs) + 1
        /\ \A i \in DOMAIN jobs : i \in DOMAIN jobs' /\ jobs'[i] = jobs[i]
        /\ \A i \in DOMAIN jobs' : i \in DOMAIN jobs \/ jobs'[i] = j
    BY <1>1, <1>2, Appended
  <1> HIDE DEF j
  <1>4. InOrder'
    <2> SUFFICES ASSUME NEW i \in DOMAIN jobs', NEW k \in DOMAIN jobs', i < k, jobs'[k].done
                 PROVE  jobs'[i].done
      BY DEF InOrder
    <2>1. k \in DOMAIN jobs
      BY <1>1, <1>3
    <2>2. i \in DOMAIN jobs
      BY <1>3, <2>1 DEF IndexInv, TypeOK
    <2> QED
      BY <1>3, <2>1, <2>2 DEF CalmInv, InOrder
  <1>5. ASSUME NEW e \in Docs
        PROVE  /\ \A i \in DOMAIN jobs' : IsIndex(i, e)' => i \in DOMAIN jobs /\ IsIndex(i, e)
               /\ \A i \in DOMAIN jobs' : IsDeactivate(i, e)' => i \in DOMAIN jobs /\ IsDeactivate(i, e)
               /\ \A i \in DOMAIN jobs : IsIndex(i, e) => i \in DOMAIN jobs' /\ IsIndex(i, e)'
    BY <1>1, <1>3 DEF IsIndex, IsDeactivate
  <1>6. ASSUME NEW e \in Docs PROVE JobOrder(e)'
    <2>1. JobOrder(e)
      BY DEF CalmInv
    <2>2. \A i, k \in DOMAIN jobs' : IsIndex(i, e)' /\ IsIndex(k, e)' /\ i < k => jobs'[i].n < jobs'[k].n
      BY <1>3, <1>5, <2>1 DEF JobOrder
    <2>3. versions'[e] # <<>> =>
             \E i \in DOMAIN jobs' : IsIndex(i, e)' /\ jobs'[i].n = Len(versions'[e])
      BY <1>2, <1>3, <1>5, <2>1 DEF JobOrder
    <2>4. \A i, k \in DOMAIN jobs' : IsDeactivate(i, e)' /\ IsIndex(k, e)' => k < i
      BY <1>5, <2>1 DEF JobOrder
    <2>5. (\E i \in DOMAIN jobs' : IsDeactivate(i, e)') => provider'[e] = NoContent
      BY <1>2, <1>5, <2>1 DEF JobOrder
    <2> QED
      BY <2>2, <2>3, <2>4, <2>5 DEF JobOrder
  <1>7. ASSUME NEW e \in Docs PROVE InPlace(e)'
    <2>1. InPlace(e) /\ Indexed(e)' = Indexed(e) /\ Wanted(e)' = Wanted(e)
      BY <1>2 DEF CalmInv, Indexed, Wanted
    <2>2. Settled(e)' => Settled(e)
      BY <1>3 DEF Settled
    <2>3. (\A i \in DOMAIN jobs' : IsIndex(i, e)' => jobs'[i].done) =>
             \A i \in DOMAIN jobs : IsIndex(i, e) => jobs[i].done
      BY <1>3, <1>5
    <2> QED
      BY <1>2, <2>1, <2>2, <2>3 DEF InPlace
  <1>8. ASSUME NEW w \in Workers PROVE DaemonInv(w)'
    <2>1. CASE pc[w] = "idle"
      BY <1>2, <2>1 DEF CalmInv, DaemonInv
    <2>2. CASE pc[w] # "idle"
      <3>1. cur[w] \in DOMAIN jobs /\ MyDoc(w) \in Docs
        BY <2>2, MyJob
      <3>2. /\ MyDoc(w)' = MyDoc(w) /\ MyKind(w)' = MyKind(w) /\ MyVersion(w)' = MyVersion(w)
            /\ Indexed(MyDoc(w))' = Indexed(MyDoc(w))
        BY <1>2, <1>3, <3>1 DEF MyDoc, MyKind, MyVersion, Indexed
      <3>3. \A k \in DOMAIN jobs' : k < cur[w] => k \in DOMAIN jobs
        BY <1>3, <3>1 DEF IndexInv, TypeOK
      <3>4. DaemonInv(w)
        BY DEF CalmInv
      <3>5. \A k \in DOMAIN jobs' : k < cur'[w] => jobs'[k].done
        BY <1>2, <1>3, <2>2, <3>3, <3>4 DEF DaemonInv
      <3>6. (\E i \in DOMAIN jobs' : IsDeactivate(i, MyDoc(w))') => buf'[w] = NoContent
        BY <1>2, <1>5, <2>2, <3>1, <3>2, <3>4 DEF DaemonInv
      <3> QED
        BY <1>2, <3>2, <3>4, <3>5, <3>6 DEF DaemonInv
    <2> QED
      BY <2>1, <2>2
  <1> QED
    BY <1>4, <1>6, <1>7, <1>8 DEF CalmInv

----------------------------------------------------------------------------
(* What the jobs do to the index *)

\* While w writes for a document, that document is not settled, and no other is touched.
LEMMA CalmPoints ==
    ASSUME Calm, IndexInv, CalmInv, NEW w \in Workers, pc[w] # "idle",
           MyKind(w) \in {"index", "deactivate"},
           UNCHANGED <<provider, versions, active, jobs, cur>>,
           \A e \in Docs \ {MyDoc(w)} : Indexed(e)' = Indexed(e),
           \A n \in Indexed(MyDoc(w))' : versions[MyDoc(w)][n] \notin Blank,
           MyKind(w) = "deactivate" => Indexed(MyDoc(w))' \subseteq Indexed(MyDoc(w)),
           \A v \in Workers : DaemonInv(v)'
    PROVE  CalmInv'
  <1>1. InOrder'
    BY DEF CalmInv, InOrder
  <1>2. \A d \in Docs : JobOrder(d)'
    BY DEF CalmInv, JobOrder, IsIndex, IsDeactivate
  <1>3. ASSUME NEW e \in Docs PROVE InPlace(e)'
    <2>1. InPlace(e)
      BY DEF CalmInv
    <2>2. CASE e # MyDoc(w)
      <3>1. Indexed(e)' = Indexed(e)
        BY <2>2
      <3> QED
        BY <2>1, <3>1 DEF InPlace, Wanted, Settled, IsIndex
    <2>3. CASE e = MyDoc(w)
      <3>0. /\ cur[w] \in DOMAIN jobs /\ ~jobs[cur[w]].done
            /\ jobs[cur[w]].doc = e /\ jobs[cur[w]].kind = MyKind(w)
        <4>1. cur[w] \in DOMAIN jobs /\ ~jobs[cur[w]].done
          BY MyJob
        <4> QED
          BY <2>3, <4>1 DEF MyDoc, MyKind
      <3>1. ~Settled(e)'
        <4>1. ~Settled(e)
          BY <3>0, Zenon DEF Settled
        <4> QED
          BY <4>1 DEF Settled
      <3>2. MyKind(w) = "index" => ~ \A i \in DOMAIN jobs : IsIndex(i, e) => jobs[i].done
        BY <3>0, Zenon DEF IsIndex
      <3>3. Indexed(MyDoc(w))' = Indexed(e)'
        BY <2>3 DEF MyDoc
      <3>4. (\A i \in DOMAIN jobs : IsIndex(i, e) => jobs[i].done) =>
               Indexed(e)' \subseteq {Len(versions[e])}
        BY <2>1, <2>3, <3>2, <3>3 DEF InPlace
      <3> QED
        BY <2>3, <3>1, <3>3, <3>4 DEF InPlace, IsIndex
    <2> QED
      BY <2>2, <2>3
  <1> QED
    BY <1>1, <1>2, <1>3 DEF CalmInv

\* What DaemonInv says of w once it is cleaning
LEMMA CalmCleaning ==
    ASSUME Calm, IndexInv, CalmInv, NEW w \in Workers, GoesOn(w, "cleaning"),
           UNCHANGED <<versions, active, jobs, cur, buf>>,
           MyKind(w) = "index" =>
              /\ active[MyDoc(w)] /\ MyVersion(w) \notin todo'[w]
              /\ versions[MyDoc(w)][MyVersion(w)] \notin Blank =>
                    MyVersion(w) \in Indexed(MyDoc(w))',
           MyKind(w) = "deactivate" => Indexed(MyDoc(w))' = {}
    PROVE  \A v \in Workers : DaemonInv(v)'
  <1>1. /\ pc[w] # "idle" /\ pc'[w] = "cleaning"
        /\ MyDoc(w)' = MyDoc(w) /\ MyKind(w)' = MyKind(w) /\ MyVersion(w)' = MyVersion(w)
    BY Going DEF GoesOn
  <1>2. DaemonInv(w)
    BY DEF CalmInv
  <1>3. PICK d : d = MyDoc(w)
    OBVIOUS
  <1>4. Indexed(MyDoc(w))' = Indexed(d)'
    BY <1>1, <1>3
  <1>5. DaemonInv(w)'
    <2>1. \A k \in DOMAIN jobs' : k < cur'[w] => jobs'[k].done
      BY <1>1, <1>2 DEF DaemonInv
    <2>2. (\E i \in DOMAIN jobs' : IsDeactivate(i, MyDoc(w))') => buf'[w] = NoContent
      BY <1>1, <1>2 DEF DaemonInv, IsDeactivate
    <2> QED
      BY <1>1, <2>1, <2>2 DEF DaemonInv
  <1> QED
    BY <1>5 DEF Calm

LEMMA CalmUpsertChunks ==
    ASSUME Calm, IndexInv, CalmInv, NEW w \in Workers, UpsertChunks(w)
    PROVE  CalmInv'
  <1>1. PICK d \in Docs, n \in Nat : d = MyDoc(w) /\ n = MyVersion(w)
    BY MyJob DEF UpsertChunks, MyVersion, Job
  <1>2. /\ pc[w] = "loaded" /\ MyKind(w) = "index" /\ GoesOn(w, "cleaning")
        /\ UNCHANGED <<provider, versions, active, jobs, cur, buf, docLock>>
        /\ points' = IF versions[d][n] \in Blank THEN points
                     ELSE {p \in points : p.external # ExternalId[d] \/ p.n # n} \cup {PointOf(d, n)}
        /\ todo' = [todo EXCEPT ![w] = Superseded(d, n)]
    BY <1>1 DEF UpsertChunks, GoesOn
  <1>3. n \in 1 .. Len(versions[d])
    BY <1>1, <1>2, MyJob DEF IndexInv, JobsInv, MyDoc, MyKind, MyVersion
  <1>4. ASSUME NEW e \in Docs \ {d} PROVE Indexed(e)' = Indexed(e)
    <2>1. ASSUME NEW m PROVE PointOf(e, m) \in points' <=> PointOf(e, m) \in points
      <3>1. PointOf(e, m).external # ExternalId[d] /\ PointOf(e, m) # PointOf(d, n)
        BY <1>4 DEF Calm, PointOf
      <3> QED
        BY <1>2, <3>1
    <2> QED
      BY <1>2, <2>1 DEF Indexed
  <1>5. ASSUME NEW m \in Indexed(d)' PROVE versions[d][m] \notin Blank
    <2>1. CASE m = n
      <3>1. CASE versions[d][n] \in Blank
        <4>1. m \in Indexed(d)
          BY <1>2, <1>5, <3>1 DEF Indexed
        <4> QED
          BY <4>1 DEF CalmInv, InPlace
      <3> QED
        BY <2>1, <3>1
    <2>2. CASE m # n
      <3>1. PointOf(d, m) \in points
        BY <1>2, <1>5, <2>2, OnePoint DEF Indexed
      <3>2. m \in Indexed(d)
        BY <1>2, <1>5, <3>1 DEF Indexed
      <3> QED
        BY <3>2 DEF CalmInv, InPlace
    <2> QED
      BY <2>1, <2>2
  <1>6. active[d] /\ n \notin todo'[w]
    BY <1>1, <1>2 DEF IndexInv, TypeOK, PhaseInv, WorkerInv, Superseded
  <1>7. versions[d][n] \notin Blank => n \in Indexed(d)'
    BY <1>2, <1>3 DEF Indexed
  <1>8. Indexed(MyDoc(w))' = Indexed(d)'
    BY <1>1, <1>2 DEF MyDoc
  <1>9. \A v \in Workers : DaemonInv(v)'
    <2>1. MyKind(w) = "index" =>
             /\ active[MyDoc(w)] /\ MyVersion(w) \notin todo'[w]
             /\ versions[MyDoc(w)][MyVersion(w)] \notin Blank =>
                   MyVersion(w) \in Indexed(MyDoc(w))'
      BY <1>1, <1>6, <1>7, <1>8, Zenon
    <2>2. MyKind(w) = "deactivate" => Indexed(MyDoc(w))' = {}
      BY <1>2
    <2> QED
      BY <1>2, <2>1, <2>2, CalmCleaning
  <1> QED
    BY <1>1, <1>2, <1>4, <1>5, <1>8, <1>9, CalmPoints

LEMMA CalmDeleteOld ==
    ASSUME Calm, IndexInv, CalmInv, NEW w \in Workers, DeleteOld(w)
    PROVE  CalmInv'
  <1>1. PICK d \in Docs, n \in Nat : d = MyDoc(w) /\ n = MyVersion(w)
    BY MyJob DEF DeleteOld, MyVersion, Job
  <1>2. PICK k \in todo[w] : points' = Without(d, k) /\ todo' = [todo EXCEPT ![w] = @ \ {k}]
    BY <1>1 DEF DeleteOld
  <1>3. /\ pc[w] = "cleaning" /\ MyKind(w) \in {"index", "deactivate"}
        /\ UNCHANGED <<provider, versions, active, jobs, pc, cur, buf, docLock>>
    BY DEF DeleteOld, IndexInv, PhaseInv, WorkerInv
  <1>4. GoesOn(w, "cleaning")
    BY <1>3 DEF GoesOn, IndexInv, TypeOK
  <1>5. ASSUME NEW e \in Docs \ {d} PROVE Indexed(e)' = Indexed(e)
    BY <1>2, <1>3, <1>5, OnePoint DEF Indexed, Without
  <1>6. Indexed(d)' = Indexed(d) \ {k}
    BY <1>2, <1>3, OnePoint DEF Indexed, Without
  <1>7. DaemonInv(w) /\ InPlace(d)
    BY DEF CalmInv
  <1>8. Indexed(MyDoc(w))' = Indexed(d)'
    BY <1>1, <1>3 DEF MyDoc
  <1>9. MyKind(w) = "index" =>
           /\ active[MyDoc(w)] /\ MyVersion(w) \notin todo'[w]
           /\ versions[MyDoc(w)][MyVersion(w)] \notin Blank =>
                 MyVersion(w) \in Indexed(MyDoc(w))'
    <2> SUFFICES ASSUME MyKind(w) = "index"
                 PROVE  /\ active[d] /\ n \notin todo'[w]
                        /\ versions[d][n] \notin Blank => n \in Indexed(d)'
      BY <1>1, <1>8, Zenon
    <2>1. /\ active[d] /\ n \notin todo[w]
          /\ versions[d][n] \notin Blank => n \in Indexed(d)
      BY <1>1, <1>3, <1>7 DEF DaemonInv
    <2> QED
      BY <1>2, <1>6, <2>1 DEF IndexInv, TypeOK
  <1>10. MyKind(w) = "deactivate" => Indexed(MyDoc(w))' = {}
    BY <1>1, <1>3, <1>6, <1>7, <1>8 DEF DaemonInv
  <1>11. \A v \in Workers : DaemonInv(v)'
    BY <1>3, <1>4, <1>9, <1>10, CalmCleaning
  <1>12. \A m \in Indexed(d)' : versions[d][m] \notin Blank
    BY <1>6, <1>7 DEF InPlace
  <1> QED
    BY <1>1, <1>3, <1>5, <1>6, <1>8, <1>11, <1>12, CalmPoints

LEMMA CalmDeleteLatest ==
    ASSUME Calm, IndexInv, CalmInv, NEW w \in Workers, DeleteLatest(w)
    PROVE  CalmInv'
  <1>1. PICK d \in Docs : d = MyDoc(w)
    BY MyJob DEF DeleteLatest
  <1>2. /\ pc[w] = "held" /\ MyKind(w) = "deactivate" /\ GoesOn(w, "cleaning")
        /\ UNCHANGED <<provider, versions, active, jobs, cur, buf, todo, docLock>>
        /\ points' = Without(d, Len(versions[d]))
    BY <1>1 DEF DeleteLatest, GoesOn
  <1>3. DaemonInv(w) /\ InPlace(d) /\ JobOrder(d)
    BY DEF CalmInv
  <1>4. IsDeactivate(cur[w], d) /\ cur[w] \in DOMAIN jobs
    BY <1>1, <1>2, MyJob DEF IsDeactivate, MyDoc, MyKind
  <1>5. \A i \in DOMAIN jobs : IsIndex(i, d) => jobs[i].done
    BY <1>2, <1>3, <1>4 DEF DaemonInv, JobOrder
  <1>6. Indexed(d) \subseteq {Len(versions[d])}
    BY <1>3, <1>5 DEF InPlace
  <1>7. Indexed(d)' = Indexed(d) \ {Len(versions[d])}
    BY <1>2, OnePoint DEF Indexed, Without
  <1>8. ASSUME NEW e \in Docs \ {d} PROVE Indexed(e)' = Indexed(e)
    BY <1>2, <1>8, OnePoint DEF Indexed, Without
  <1>9. Indexed(d)' = {} /\ Indexed(MyDoc(w))' = Indexed(d)'
    BY <1>1, <1>2, <1>6, <1>7 DEF MyDoc
  <1>10. \A v \in Workers : DaemonInv(v)'
    BY <1>2, <1>9, CalmCleaning
  <1> QED
    BY <1>1, <1>2, <1>8, <1>9, <1>10, CalmPoints

----------------------------------------------------------------------------
(* The commits *)

\* The jobs after the commit of w, which enqueued at most one.
JobsAfter(w, enqueued) ==
    /\ \A i \in DOMAIN jobs :
          /\ i \in DOMAIN jobs'
          /\ jobs'[i].kind = jobs[i].kind /\ jobs'[i].doc = jobs[i].doc /\ jobs'[i].n = jobs[i].n
          /\ i # cur[w] => jobs'[i] = jobs[i]
    /\ jobs'[cur[w]].done
    /\ \A i \in DOMAIN jobs' \ DOMAIN jobs :
          /\ enqueued # <<>> /\ jobs'[i] = enqueued[1]
          /\ \A k \in DOMAIN jobs : k < i
          /\ \A k \in DOMAIN jobs' \ DOMAIN jobs : k = i
    /\ enqueued # <<>> => \E i \in DOMAIN jobs' \ DOMAIN jobs : jobs'[i] = enqueued[1]

LEMMA CommitJobs ==
    ASSUME IndexInv, NEW w \in Workers, pc[w] # "idle",
           NEW enqueued \in {<<>>} \cup {<<j>> : j \in Job}, Commit(w, enqueued)
    PROVE  JobsAfter(w, enqueued) /\ enqueued \in Seq(Job)
  <1>1. enqueued \in Seq(Job) /\ Len(enqueued) \in {0, 1} /\ (enqueued # <<>> <=> Len(enqueued) = 1)
    <2>1. CASE enqueued = <<>>
      BY <2>1
    <2>2. CASE \E j \in Job : enqueued = <<j>>
      BY <2>2
    <2> QED
      BY <2>1, <2>2
  <1>2. /\ jobs' \in Seq(Job) /\ Len(jobs') = Len(jobs) + Len(enqueued)
        /\ \A i \in DOMAIN jobs :
              /\ i \in DOMAIN jobs'
              /\ jobs'[i] = IF i = cur[w] THEN [jobs[i] EXCEPT !.done = TRUE] ELSE jobs[i]
        /\ \A i \in DOMAIN jobs' :
              i \notin DOMAIN jobs =>
                 i - Len(jobs) \in DOMAIN enqueued /\ jobs'[i] = enqueued[i - Len(jobs)]
    BY <1>1, Committed
  <1>3. jobs \in Seq(Job) /\ cur[w] \in DOMAIN jobs
    BY MyJob DEF IndexInv, TypeOK
  <1>4. /\ DOMAIN jobs = 1 .. Len(jobs) /\ Len(jobs) \in Nat
        /\ DOMAIN jobs' = 1 .. Len(jobs) + Len(enqueued)
        /\ DOMAIN enqueued = 1 .. Len(enqueued)
    BY <1>1, <1>2, <1>3
  <1>5. ASSUME NEW i \in DOMAIN jobs
        PROVE  /\ i \in DOMAIN jobs'
               /\ jobs'[i].kind = jobs[i].kind /\ jobs'[i].doc = jobs[i].doc /\ jobs'[i].n = jobs[i].n
               /\ i # cur[w] => jobs'[i] = jobs[i]
               /\ i = cur[w] => jobs'[i].done
    <2>1. jobs[i] \in Job
      BY <1>3
    <2>2. i \in DOMAIN jobs' /\ jobs'[i] = IF i = cur[w] THEN [jobs[i] EXCEPT !.done = TRUE] ELSE jobs[i]
      BY <1>2
    <2> QED
      BY <2>1, <2>2 DEF Job
  <1>6. ASSUME NEW i \in DOMAIN jobs' \ DOMAIN jobs
        PROVE  /\ enqueued # <<>> /\ jobs'[i] = enqueued[1] /\ i = Len(jobs) + 1
               /\ \A k \in DOMAIN jobs : k < i
    <2>1. i = Len(jobs) + 1 /\ Len(enqueued) = 1
      <3>1. i \in 1 .. Len(jobs) + Len(enqueued) /\ i \notin 1 .. Len(jobs)
        BY <1>4
      <3>2. Len(enqueued) = 0 \/ Len(enqueued) = 1
        BY <1>1
      <3> QED
        BY <1>4, <3>1, <3>2
    <2>2. i - Len(jobs) = 1
      BY <1>4, <2>1
    <2> QED
      BY <1>1, <1>2, <1>4, <2>1, <2>2
  <1>7. enqueued # <<>> => Len(jobs) + 1 \in DOMAIN jobs' \ DOMAIN jobs
    BY <1>1, <1>4
  <1> QED
    BY <1>1, <1>3, <1>5, <1>6, <1>7 DEF JobsAfter

\* What every commit leaves as it is, if the job it enqueued is not done, no index job and
\* only for a document that is gone, or else an index job of the version it wrote.
LEMMA CalmCommit ==
    ASSUME Calm, IndexInv, CalmInv, NEW w \in Workers, pc[w] # "idle",
           NEW enqueued \in {<<>>} \cup {<<j>> : j \in Job}, Commit(w, enqueued),
           enqueued # <<>> => ~enqueued[1].done,
           UNCHANGED <<provider, points>>,
           \A d \in Docs : JobOrder(d)' /\ InPlace(d)'
    PROVE  CalmInv'
  <1>1. JobsAfter(w, enqueued)
    BY CommitJobs
  <1>2. cur[w] \in DOMAIN jobs /\ jobs \in Seq(Job)
    BY MyJob DEF IndexInv, TypeOK
  <1>3. InOrder'
    <2> SUFFICES ASSUME NEW i \in DOMAIN jobs', NEW k \in DOMAIN jobs', i < k, jobs'[k].done
                 PROVE  jobs'[i].done
      BY DEF InOrder
    <2>1. k \in DOMAIN jobs
      BY <1>1 DEF JobsAfter
    <2>2. i \in DOMAIN jobs
      <3>1. i \notin DOMAIN jobs => k < i
        BY <1>1, <2>1 DEF JobsAfter
      <3>2. k \in Nat
        BY <1>2, <2>1
      <3>3. i \in DOMAIN jobs \/ i \notin DOMAIN jobs
        OBVIOUS
      <3>4. jobs' \in Seq(Job)
        BY CommitJobs, Committed
      <3>5. i \in Nat
        BY <3>4
      <3> QED
        BY <3>1, <3>2, <3>5
    <2>3. CASE i = cur[w]
      BY <1>1, <2>3 DEF JobsAfter
    <2>4. CASE i # cur[w] /\ k = cur[w]
      <3>1. jobs[i].done
        BY <2>2, <2>4 DEF CalmInv, DaemonInv
      <3> QED
        BY <1>1, <2>2, <2>4, <3>1 DEF JobsAfter
    <2>5. CASE i # cur[w] /\ k # cur[w]
      <3>1. jobs[k].done
        BY <1>1, <2>1, <2>5 DEF JobsAfter
      <3>2. jobs[i].done
        BY <2>1, <2>2, <3>1 DEF CalmInv, InOrder
      <3> QED
        BY <1>1, <2>2, <2>5, <3>2 DEF JobsAfter
    <2> QED
      BY <2>3, <2>4, <2>5
  <1>4. pc'[w] = "idle" /\ buf'[w] = NoContent
    BY Released DEF Commit, IndexInv, TypeOK
  <1>5. \A v \in Workers : DaemonInv(v)'
    BY <1>4 DEF Calm, DaemonInv
  <1> QED
    BY <1>3, <1>5 DEF CalmInv

\* A document keeps its jobs in order unless one is enqueued for it.
LEMMA SameOrder ==
    ASSUME IndexInv, CalmInv, NEW w \in Workers, pc[w] # "idle",
           NEW enqueued \in {<<>>} \cup {<<j>> : j \in Job}, Commit(w, enqueued),
           UNCHANGED provider, NEW d \in Docs, versions'[d] = versions[d],
           enqueued # <<>> => enqueued[1].doc # d
    PROVE  /\ JobOrder(d)'
           /\ \A i \in DOMAIN jobs' : IsIndex(i, d)' => i \in DOMAIN jobs /\ IsIndex(i, d)
           /\ \A i \in DOMAIN jobs : IsIndex(i, d) => i \in DOMAIN jobs' /\ IsIndex(i, d)'
  <1>1. JobsAfter(w, enqueued)
    BY CommitJobs
  <1>2. /\ \A i \in DOMAIN jobs' : IsIndex(i, d)' => i \in DOMAIN jobs /\ IsIndex(i, d)
        /\ \A i \in DOMAIN jobs' : IsDeactivate(i, d)' => i \in DOMAIN jobs /\ IsDeactivate(i, d)
        /\ \A i \in DOMAIN jobs : IsIndex(i, d) => i \in DOMAIN jobs' /\ IsIndex(i, d)'
        /\ \A i \in DOMAIN jobs : i \in DOMAIN jobs' /\ jobs'[i].n = jobs[i].n
    BY <1>1 DEF JobsAfter, IsIndex, IsDeactivate
  <1>3. JobOrder(d)
    BY DEF CalmInv
  <1>4. \A i, k \in DOMAIN jobs' : IsIndex(i, d)' /\ IsIndex(k, d)' /\ i < k => jobs'[i].n < jobs'[k].n
    BY <1>2, <1>3 DEF JobOrder
  <1>5. versions'[d] # <<>> =>
           \E i \in DOMAIN jobs' : IsIndex(i, d)' /\ jobs'[i].n = Len(versions'[d])
    BY <1>2, <1>3 DEF JobOrder
  <1>6. \A i, k \in DOMAIN jobs' : IsDeactivate(i, d)' /\ IsIndex(k, d)' => k < i
    BY <1>2, <1>3 DEF JobOrder
  <1>7. (\E i \in DOMAIN jobs' : IsDeactivate(i, d)') => provider'[d] = NoContent
    BY <1>2, <1>3 DEF JobOrder
  <1> QED
    BY <1>2, <1>4, <1>5, <1>6, <1>7 DEF JobOrder

\* ... and its place in the index if the job was not one of its own.
LEMMA SamePlace ==
    ASSUME IndexInv, CalmInv, NEW w \in Workers, pc[w] # "idle",
           NEW enqueued \in {<<>>} \cup {<<j>> : j \in Job}, Commit(w, enqueued),
           NEW d \in Docs, versions'[d] = versions[d], active'[d] = active[d],
           UNCHANGED points, MyKind(w) \in {"scan", "sync"} \/ MyDoc(w) # d
    PROVE  InPlace(d)'
  <1>1. JobsAfter(w, enqueued) /\ enqueued \in Seq(Job)
    BY CommitJobs
  <1>2. InPlace(d) /\ Indexed(d)' = Indexed(d) /\ Wanted(d)' = Wanted(d)
    BY DEF CalmInv, Indexed, Wanted
  <1>3. Settled(d)' => Settled(d)
    BY <1>1, SettledBefore
  <1>4. ASSUME \A i \in DOMAIN jobs' : IsIndex(i, d)' => jobs'[i].done,
               NEW i \in DOMAIN jobs, IsIndex(i, d)
        PROVE  jobs[i].done
    <2>1. i # cur[w]
      BY <1>4 DEF IsIndex, MyKind, MyDoc
    <2>2. i \in DOMAIN jobs' /\ jobs'[i] = jobs[i]
      BY <1>1, <2>1 DEF JobsAfter
    <2>3. IsIndex(i, d)'
      BY <1>4, <2>2 DEF IsIndex
    <2> QED
      BY <1>4, <2>2, <2>3
  <1> QED
    BY <1>2, <1>3, <1>4 DEF InPlace

LEMMA CalmScanNothing ==
    ASSUME Calm, IndexInv, CalmInv, NEW w \in Workers, ScanNothing(w)
    PROVE  CalmInv'
  <1>1. /\ pc[w] = "fetched" /\ MyKind(w) = "scan" /\ Commit(w, <<>>)
        /\ UNCHANGED <<provider, versions, active, points>>
    BY DEF ScanNothing
  <1>2. \A d \in Docs : JobOrder(d)' /\ InPlace(d)'
    BY <1>1, SameOrder, SamePlace
  <1> QED
    BY <1>1, <1>2, CalmCommit

LEMMA CalmSync ==
    ASSUME Calm, IndexInv, CalmInv, NEW w \in Workers, Sync(w)
    PROVE  CalmInv'
  <1>1. PICK d \in Docs : d = MyDoc(w)
    BY MyJob DEF Sync
  <1> DEFINE job == NewJob("deactivate", d, 0)
             deleted == buf[w] = NoContent /\ versions[d] # <<>> /\ active[d]
  <1>2. job \in Job /\ job.kind = "deactivate" /\ job.doc = d /\ ~job.done
    BY DEF NewJob, Job
  <1>3. PICK enqueued \in {<<>>, <<job>>} :
           Commit(w, enqueued) /\ (enqueued # <<>> => deleted)
    BY <1>1 DEF Sync
  <1>4. pc[w] = "fetched" /\ MyKind(w) = "sync" /\ UNCHANGED <<provider, versions, active, points>>
    BY DEF Sync
  <1>5. /\ enqueued \in {<<>>} \cup {<<j>> : j \in Job}
        /\ enqueued # <<>> => enqueued[1] = job
    BY <1>2, <1>3
  <1>6. enqueued # <<>> => provider[d] = NoContent
    BY <1>1, <1>3, <1>4 DEF CalmInv, DaemonInv
  <1> HIDE DEF job, deleted
  <1>7. JobsAfter(w, enqueued)
    BY <1>3, <1>4, <1>5, CommitJobs
  <1>8. ASSUME NEW e \in Docs PROVE JobOrder(e)'
    <2>1. CASE enqueued = <<>> \/ e # d
      BY <1>2, <1>3, <1>4, <1>5, <2>1, SameOrder
    <2>2. CASE enqueued # <<>> /\ e = d
      <3>1. JobOrder(d)
        BY DEF CalmInv
      <3>2. /\ \A i \in DOMAIN jobs' : IsIndex(i, d)' => i \in DOMAIN jobs /\ IsIndex(i, d)
            /\ \A i \in DOMAIN jobs : IsIndex(i, d) => i \in DOMAIN jobs' /\ IsIndex(i, d)'
            /\ \A i \in DOMAIN jobs : jobs'[i].n = jobs[i].n
            /\ \A i \in DOMAIN jobs' : IsDeactivate(i, d)' =>
                  i \notin DOMAIN jobs \/ IsDeactivate(i, d)
            /\ \A i \in DOMAIN jobs' \ DOMAIN jobs, k \in DOMAIN jobs : k < i
        BY <1>2, <1>5, <1>7 DEF JobsAfter, IsIndex, IsDeactivate
      <3>3. \A i, k \in DOMAIN jobs' : IsIndex(i, d)' /\ IsIndex(k, d)' /\ i < k => jobs'[i].n < jobs'[k].n
        BY <3>1, <3>2 DEF JobOrder
      <3>4. versions'[d] # <<>> =>
               \E i \in DOMAIN jobs' : IsIndex(i, d)' /\ jobs'[i].n = Len(versions'[d])
        BY <1>4, <3>1, <3>2 DEF JobOrder
      <3>5. ASSUME NEW i \in DOMAIN jobs', NEW k \in DOMAIN jobs', IsDeactivate(i, d)', IsIndex(k, d)'
            PROVE  k < i
        <4>1. k \in DOMAIN jobs /\ IsIndex(k, d)
          BY <3>2, <3>5
        <4>2. CASE i \in DOMAIN jobs
          BY <3>1, <3>2, <3>5, <4>1, <4>2 DEF JobOrder
        <4>3. CASE i \notin DOMAIN jobs
          BY <3>2, <4>1, <4>3
        <4> QED
          BY <4>2, <4>3
      <3> QED
        BY <1>4, <1>6, <2>2, <3>3, <3>4, <3>5 DEF JobOrder
    <2> QED
      BY <2>1, <2>2
  <1>9. \A e \in Docs : InPlace(e)'
    BY <1>3, <1>4, <1>5, SamePlace
  <1> QED
    BY <1>2, <1>3, <1>4, <1>5, <1>8, <1>9, CalmCommit
\* A new version, with an index job that is still open, for a document that is not gone
LEMMA CalmUpsert ==
    ASSUME Calm, IndexInv, CalmInv, NEW w \in Workers, Upsert(w)
    PROVE  CalmInv'
  <1>1. /\ pc[w] = "loaded" /\ MyKind(w) = "scan"
        /\ UNCHANGED <<provider, active, points>>
    BY DEF Upsert
  <1>2. CASE todo[w] = {}
    <2>1. Commit(w, <<>>) /\ UNCHANGED versions
      BY <1>2 DEF Upsert
    <2>2. \A d \in Docs : JobOrder(d)' /\ InPlace(d)'
      BY <1>1, <2>1, SameOrder, SamePlace
    <2> QED
      BY <1>1, <2>1, <2>2, CalmCommit
  <1>3. CASE todo[w] # {}
    <2>1. PICK d \in Docs : d = MyDoc(w)
      BY <1>1, MyJob
    <2> DEFINE job == NewJob("index", d, Len(versions[d]) + 1)
    <2>2. /\ versions' = [versions EXCEPT ![d] = Append(versions[d], buf[w])]
          /\ Commit(w, <<job>>)
      BY <1>3, <2>1 DEF Upsert
    <2>3. /\ versions \in [Docs -> Seq(Contents)] /\ versions[d] \in Seq(Contents)
          /\ Len(versions[d]) \in Nat
      BY DEF IndexInv, TypeOK
    <2>4. buf[w] \in Contents
      BY <1>1 DEF IndexInv, TypeOK, PhaseInv, WorkerInv
    <2>5. /\ job \in Job /\ job.kind = "index" /\ job.doc = d /\ ~job.done
          /\ job.n = Len(versions[d]) + 1
      BY <2>3 DEF NewJob, Job
    <2>6. /\ versions'[d] = Append(versions[d], buf[w])
          /\ \A e \in Docs \ {d} : versions'[e] = versions[e]
      BY <2>2, <2>3
    <2>7. /\ Len(versions'[d]) = Len(versions[d]) + 1
          /\ \A n \in 1 .. Len(versions[d]) : versions'[d][n] = versions[d][n]
      BY <2>3, <2>4, <2>6
    <2> HIDE DEF job
    <2>8. PICK enqueued \in {<<>>} \cup {<<j>> : j \in Job} :
             Commit(w, enqueued) /\ enqueued # <<>> /\ enqueued[1] = job
      BY <2>2, <2>5
    <2>9. JobsAfter(w, enqueued)
      BY <1>1, <2>8, CommitJobs
    <2>10. PICK new \in DOMAIN jobs' \ DOMAIN jobs : jobs'[new] = job
      BY <2>8, <2>9 DEF JobsAfter
    <2>11. /\ IsIndex(new, d)' /\ ~jobs'[new].done /\ jobs'[new].n = Len(versions'[d])
           /\ \A k \in DOMAIN jobs : k < new
           /\ \A i \in DOMAIN jobs' : i \in DOMAIN jobs \/ i = new
      BY <2>5, <2>7, <2>9, <2>10 DEF JobsAfter, IsIndex
    <2>12. ~\E i \in DOMAIN jobs : IsDeactivate(i, d)
      <3>1. buf[w] # NoContent
        BY <2>4, ContentAssumption
      <3> QED
        BY <1>1, <2>1, <3>1 DEF CalmInv, DaemonInv
    <2>13. JobOrder(d)'
      <3>1. JobOrder(d)
        BY DEF CalmInv
      <3>2. /\ \A i \in DOMAIN jobs : IsIndex(i, d)' => IsIndex(i, d) /\ jobs'[i].n = jobs[i].n
            /\ ~\E i \in DOMAIN jobs' : IsDeactivate(i, d)'
        BY <2>5, <2>9, <2>10, <2>11, <2>12 DEF JobsAfter, IsIndex, IsDeactivate
      <3>3. \A i \in DOMAIN jobs : IsIndex(i, d) => jobs[i].n < Len(versions'[d])
        <4>1. \A i \in DOMAIN jobs : IsIndex(i, d) => jobs[i].n \in 1 .. Len(versions[d])
          BY DEF IndexInv, JobsInv, IsIndex
        <4> QED
          BY <2>3, <2>7, <4>1
      <3>4. ASSUME NEW i \in DOMAIN jobs', NEW k \in DOMAIN jobs', IsIndex(i, d)', IsIndex(k, d)', i < k
            PROVE  jobs'[i].n < jobs'[k].n
        <4>1. i \in DOMAIN jobs
          <5>1. i = new => (k \in DOMAIN jobs /\ k < new) \/ k = new
            BY <2>11
          <5>2. i \in Nat /\ k \in Nat
            <6>1. jobs' \in Seq(Job)
              BY <1>1, <2>8, CommitJobs, Committed
            <6> QED
              BY <6>1
          <5> QED
            BY <2>11, <3>4, <5>1, <5>2
        <4>2. CASE k \in DOMAIN jobs
          BY <3>1, <3>2, <3>4, <4>1, <4>2 DEF JobOrder
        <4>3. CASE k = new
          BY <2>11, <3>2, <3>3, <3>4, <4>1, <4>3
        <4> QED
          BY <2>11, <4>2, <4>3
      <3> QED
        BY <2>10, <2>11, <3>2, <3>4 DEF JobOrder
    <2>14. InPlace(d)'
      <3>1. Indexed(d)' \subseteq Indexed(d)
        <4> SUFFICES ASSUME NEW n, PointOf(d, n) \in points PROVE n \in 1 .. Len(versions[d])
          BY <1>1 DEF Indexed, PointOf
        <4> QED
          BY DEF IndexInv, PointsInv, PointOf
      <3>2. \A n \in Indexed(d) : n \in 1 .. Len(versions[d]) /\ versions[d][n] \notin Blank
        BY DEF CalmInv, InPlace, Indexed
      <3>3. \A n \in Indexed(d)' : versions'[d][n] \notin Blank
        BY <2>7, <3>1, <3>2
      <3>4. ~Settled(d)'
        BY <2>10, <2>11 DEF Settled, IsIndex
      <3>5. ~\A i \in DOMAIN jobs' : IsIndex(i, d)' => jobs'[i].done
        BY <2>10, <2>11
      <3> QED
        BY <3>3, <3>4, <3>5 DEF InPlace
    <2>15. \A e \in Docs : JobOrder(e)' /\ InPlace(e)'
      <3> SUFFICES ASSUME NEW e \in Docs \ {d} PROVE JobOrder(e)' /\ InPlace(e)'
        BY <2>13, <2>14
      <3>1. versions'[e] = versions[e] /\ enqueued[1].doc # e
        BY <2>5, <2>6, <2>8
      <3>2. JobOrder(e)'
        BY <1>1, <2>8, <3>1, SameOrder
      <3>3. InPlace(e)'
        BY <1>1, <2>8, <3>1, SamePlace
      <3> QED
        BY <3>2, <3>3
    <2> QED
      BY <1>1, <2>5, <2>8, <2>15, CalmCommit
  <1> QED
    BY <1>2, <1>3

\* An index job that leaves nothing but its own version.  If all index jobs of the
\* document are done now, that is the latest one.
LEMMA CalmCommitIndex ==
    ASSUME Calm, IndexInv, CalmInv, NEW w \in Workers, CommitIndex(w)
    PROVE  CalmInv'
  <1>1. /\ pc[w] = "cleaning" /\ MyKind(w) = "index" /\ todo[w] = {} /\ Commit(w, <<>>)
        /\ UNCHANGED <<provider, versions, active, points>>
    BY DEF CommitIndex
  <1>2. PICK d \in Docs : d = MyDoc(w)
    BY <1>1, MyJob
  <1>3. JobsAfter(w, <<>>)
    BY <1>1, CommitJobs
  <1>4. cur[w] \in DOMAIN jobs /\ IsIndex(cur[w], d) /\ jobs[cur[w]].n = MyVersion(w)
    BY <1>1, <1>2, MyJob DEF IsIndex, MyKind, MyDoc, MyVersion
  <1>5. MyVersion(w) \in 1 .. Len(versions[d])
    BY <1>2, <1>4 DEF IndexInv, JobsInv, IsIndex
  <1>6. Indexed(d) \subseteq {MyVersion(w)}
    BY <1>1, <1>2 DEF IndexInv, PhaseInv, WorkerInv
  <1>7. /\ active[d]
        /\ versions[d][MyVersion(w)] \notin Blank => MyVersion(w) \in Indexed(d)
    BY <1>1, <1>2 DEF CalmInv, DaemonInv
  <1>8. \A e \in Docs : JobOrder(e)'
    BY <1>1, SameOrder
  <1>9. Indexed(d)' = Indexed(d) /\ Wanted(d)' = Wanted(d)
    BY <1>1 DEF Indexed, Wanted
  <1>10. ASSUME \A i \in DOMAIN jobs' : IsIndex(i, d)' => jobs'[i].done
         PROVE  MyVersion(w) = Len(versions[d])
    <2>1. Len(versions[d]) \in Nat /\ versions[d] # <<>>
      <3>1. versions[d] \in Seq(Contents)
        BY DEF IndexInv, TypeOK
      <3> QED
        BY <1>5, <3>1
    <2>2. PICK i \in DOMAIN jobs : IsIndex(i, d) /\ jobs[i].n = Len(versions[d])
      BY <2>1 DEF CalmInv, JobOrder
    <2>3. i \in DOMAIN jobs' /\ IsIndex(i, d)' /\ jobs'[i].done
      BY <1>3, <1>10, <2>2 DEF JobsAfter, IsIndex
    <2>4. CASE i = cur[w]
      BY <1>4, <2>2, <2>4
    <2>5. CASE i < cur[w]
      <3>1. jobs[i].n < MyVersion(w)
        BY <1>4, <2>2, <2>5 DEF CalmInv, JobOrder
      <3> QED
        BY <1>5, <2>1, <2>2, <3>1
    <2>6. CASE cur[w] < i
      <3>1. jobs[i].done
        BY <1>3, <1>4, <2>2, <2>3, <2>6 DEF JobsAfter
      <3>2. jobs[cur[w]].done
        BY <1>4, <2>6, <3>1 DEF CalmInv, InOrder
      <3> QED
        BY <1>1, <3>2, MyJob
    <2>7. i \in Nat /\ cur[w] \in Nat
      <3>1. jobs \in Seq(Job)
        BY DEF IndexInv, TypeOK
      <3> QED
        BY <1>4, <3>1
    <2> QED
      BY <2>4, <2>5, <2>6, <2>7
  <1>11. InPlace(d)'
    <2>1. \A n \in Indexed(d) : versions[d][n] \notin Blank
      BY DEF CalmInv, InPlace
    <2>2. Settled(d)' => \A i \in DOMAIN jobs' : IsIndex(i, d)' => jobs'[i].done
      BY DEF Settled, IsIndex
    <2>3. ASSUME MyVersion(w) = Len(versions[d]) PROVE Indexed(d) = Wanted(d)
      <3>1. Indexed(d) = {n \in {MyVersion(w)} : versions[d][n] \notin Blank}
        BY <1>6, <1>7, <2>1
      <3>2. Len(versions[d]) > 0
        <4>1. versions[d] \in Seq(Contents)
          BY DEF IndexInv, TypeOK
        <4> QED
          BY <1>5, <2>3, <4>1
      <3> QED
        BY <1>7, <2>3, <3>1, <3>2 DEF Wanted
    <2> QED
      BY <1>1, <1>6, <1>9, <1>10, <2>1, <2>2, <2>3 DEF InPlace
  <1>12. \A e \in Docs : InPlace(e)'
    <2>1. ASSUME NEW e \in Docs \ {d} PROVE InPlace(e)'
      BY <1>1, <1>2, SamePlace
    <2> QED
      BY <1>11, <2>1
  <1> QED
    BY <1>1, <1>8, <1>12, CalmCommit

LEMMA CalmCommitDeactivate ==
    ASSUME Calm, IndexInv, CalmInv, NEW w \in Workers, CommitDeactivate(w)
    PROVE  CalmInv'
  <1>1. /\ pc[w] = "cleaning" /\ MyKind(w) = "deactivate" /\ Commit(w, <<>>)
        /\ active' = [active EXCEPT ![MyDoc(w)] = FALSE]
        /\ UNCHANGED <<provider, versions, points>>
    BY DEF CommitDeactivate
  <1>2. PICK d \in Docs : d = MyDoc(w)
    BY <1>1, MyJob
  <1>3. ~active'[d] /\ \A e \in Docs \ {d} : active'[e] = active[e]
    BY <1>1, <1>2 DEF IndexInv, TypeOK
  <1>4. \A e \in Docs : JobOrder(e)'
    BY <1>1, SameOrder
  <1>5. Indexed(d)' = {} /\ Wanted(d)' = {}
    <2>1. Indexed(d) = {}
      BY <1>1, <1>2 DEF CalmInv, DaemonInv
    <2> QED
      BY <1>1, <1>3, <2>1 DEF Indexed, Wanted
  <1>6. InPlace(d)'
    BY <1>5 DEF InPlace
  <1>7. \A e \in Docs : InPlace(e)'
    <2>1. ASSUME NEW e \in Docs \ {d} PROVE InPlace(e)'
      BY <1>1, <1>2, <1>3, SamePlace
    <2> QED
      BY <1>6, <2>1
  <1> QED
    BY <1>1, <1>4, <1>7, CalmCommit

LEMMA CalmStutter ==
    ASSUME Calm, CalmInv, UNCHANGED vars
    PROVE  CalmInv'
  <1>1. \A w \in Workers : DaemonInv(w)'
    BY DEF vars, CalmInv, DaemonInv, IsDeactivate, Indexed, MyDoc, MyKind, MyVersion
  <1> QED
    BY <1>1, CalmTables DEF vars

LEMMA CalmStep ==
    ASSUME Calm, IndexInv, CalmInv, [Next]_vars
    PROVE  CalmInv'
  <1>1. ASSUME NEW d \in Docs, Environment(d) PROVE CalmInv'
    BY <1>1, CalmEdit, CalmRequest DEF Environment
  <1>2. ASSUME NEW w \in Workers, Handle(w) PROVE CalmInv'
    <2>1. ASSUME InsertConflict(w) \/ IndexRefused(w) PROVE CalmInv'
      BY <2>1, CalmRollback DEF InsertConflict, IndexRefused
    <2> QED
      BY <1>2, <2>1, CalmFetch, CalmSync, CalmScanNothing, CalmQuiet, CalmUpsert,
         CalmUpsertChunks, CalmDeleteOld, CalmCommitIndex, CalmDeleteLatest,
         CalmCommitDeactivate DEF Handle
  <1>3. ASSUME NEW w \in Workers, Claim(w) \/ Abort(w) PROVE CalmInv'
    BY <1>3, CalmClaim, CalmRollback DEF Abort
  <1>4. ~Rebuild
    BY DEF Calm, Rebuild
  <1> QED
    BY <1>1, <1>2, <1>3, <1>4, CalmStutter DEF Next

\* One daemon: after any sequence of edits, scans, syncs, half-done index jobs and crashes,
\* a document whose index and deactivate jobs are through has in the index exactly its
\* latest version, if it is active and has text, and nothing otherwise.
THEOREM IndexConverges ==
    ASSUME Calm
    PROVE  Spec => []Converged
  <1>1. IndexInv /\ CalmInv /\ [Next]_vars => CalmInv'
    BY CalmStep
  <1>2. CalmInv => Converged
    BY DEF CalmInv, InPlace, Converged
  <1> QED
    BY <1>1, <1>2, CalmInitially, IndexInvariance, PTL DEF Spec

=============================================================================
