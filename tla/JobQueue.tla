------------------------------ MODULE JobQueue ------------------------------
(***************************************************************************)
(* The durable job queue: the table processing_jobs, the producers that    *)
(* enqueue into it and the worker daemons that claim, run, complete and    *)
(* fail its rows (rekanvault/storage/jobs.py, apps/worker/main.py).        *)
(*                                                                         *)
(* row[j] is what a new transaction reads of job j, that is, its committed *)
(* columns.  A worker runs claim, handler and completion in ONE            *)
(* transaction, so what it does to the row before the commit is in its     *)
(* session only (sess[w]); others see that the row is locked, nothing      *)
(* else.  A raised handler rolls that transaction back and goes on to      *)
(* record the failure in a second one, which neither locks the row it      *)
(* reads nor asks who owns it.                                             *)
(*                                                                         *)
(* Whether it gets that far is up to the library: SQLAlchemy expires every *)
(* loaded object on rollback, and an AsyncSession cannot reload job.id     *)
(* outside an await, so with the version uv.lock pins the argument         *)
(* job_id=job.id raises (MissingGreenlet) and fail_job is never called.    *)
(* IdSurvives = FALSE is that program; IdSurvives = TRUE is the one that   *)
(* _process_one is written to be.                                          *)
(***************************************************************************)
EXTENDS Integers, FiniteSets

CONSTANTS
    Workers,        \* the worker daemons
    Jobs,           \* the enqueue calls; a number is the rank of created_at
    Kind,           \* what the handler of a job does, see Kinds
    Key,            \* the idempotency_key of an enqueue call, or NoKey
    NoKey,
    NoJob,
    MaxAttempts,    \* max_attempts of every row (8 unless the caller says)
    LostAcks,       \* may a commit take place and its answer get lost?
    IdSurvives      \* can job.id be read after the rollback? (see above)

\* "fine": the handler may raise, but not each time (a provider that is down,
\* a rate limit); "poison": it always raises (the version it names does not
\* exist, the document is deactivated); "unknown": JOB_HANDLERS has no entry.
Kinds == {"fine", "poison", "unknown"}

ASSUME JobsAssumption == Jobs \subseteq Nat
ASSUME KindAssumption == Kind \in [Jobs -> Kinds]
ASSUME NoJobAssumption == NoJob \notin Jobs
ASSUME MaxAttemptsAssumption == MaxAttempts \in Nat \ {0}
ASSUME LostAcksAssumption == LostAcks \in BOOLEAN
ASSUME IdSurvivesAssumption == IdSurvives \in BOOLEAN

VARIABLES
    enq,            \* enq[j]: how far the enqueue call j has come
    row,            \* row[j]: the committed columns of job j
    pc,             \* pc[w]: where worker w is in its dispatch loop
    cur,            \* cur[w]: the job w works on, or NoJob
    sess,           \* sess[w]: the row in w's session: as read, and as changed
    effects,        \* effects[j]: committed runs of the handler of j
    deadLetters     \* deadLetters[j]: rows of dead_letters that name j

vars == <<enq, row, pc, cur, sess, effects, deadLetters>>

Statuses == {"absent", "pending", "leased", "completed", "failed"}
Row == [status : Statuses, attempts : Nat]
Session == [loaded : Row, row : Row]

Absent == [status |-> "absent", attempts |-> 0]
NoSession == [loaded |-> Absent, row |-> Absent]

TypeOK ==
    /\ enq \in [Jobs -> {"new", "staged", "inserted", "existing", "rejected"}]
    /\ row \in [Jobs -> Row]
    /\ pc \in [Workers -> {"idle", "running", "raised", "failing", "down"}]
    /\ cur \in [Workers -> Jobs \cup {NoJob}]
    /\ sess \in [Workers -> Session]
    /\ effects \in [Jobs -> Nat]
    /\ deadLetters \in [Jobs -> Nat]

Init ==
    /\ enq = [j \in Jobs |-> "new"]
    /\ row = [j \in Jobs |-> Absent]
    /\ pc = [w \in Workers |-> "idle"]
    /\ cur = [w \in Workers |-> NoJob]
    /\ sess = [w \in Workers |-> NoSession]
    /\ effects = [j \in Jobs |-> 0]
    /\ deadLetters = [j \in Jobs |-> 0]

----------------------------------------------------------------------------
(* Producers *)

\* Mutant of KeyTaken: only jobs that are still open count as taking a key.
KeyTakenByOpenJob(j) ==
    /\ Key[j] # NoKey
    /\ \E k \in Jobs : Key[k] = Key[j] /\ row[k].status = "pending"

\* Some committed row carries the idempotency key of call j.
KeyTaken(j) ==
    /\ Key[j] # NoKey
    /\ \E k \in Jobs : Key[k] = Key[j] /\ row[k].status # "absent"

\* enqueue_job: SELECT by key; a row that is found is the answer, otherwise
\* a new row is added to the caller's session.
EnqueueLookup(j) ==
    /\ enq[j] = "new"
    /\ enq' = [enq EXCEPT ![j] = IF KeyTaken(j) THEN "existing" ELSE "staged"]
    /\ UNCHANGED <<row, pc, cur, sess, effects, deadLetters>>

\* The caller commits.  The UNIQUE constraint on idempotency_key refuses the
\* row, and with it the caller's whole transaction, if another call was faster.
EnqueueCommit(j) ==
    /\ enq[j] = "staged"
    /\ \/ /\ KeyTaken(j)
          /\ enq' = [enq EXCEPT ![j] = "rejected"]
          /\ UNCHANGED row
       \/ /\ ~KeyTaken(j)
          /\ enq' = [enq EXCEPT ![j] = "inserted"]
          /\ row' = [row EXCEPT ![j].status = "pending"]
    /\ UNCHANGED <<pc, cur, sess, effects, deadLetters>>

\* The caller's transaction fails for a reason of its own.
EnqueueRollback(j) ==
    /\ enq[j] = "staged"
    /\ enq' = [enq EXCEPT ![j] = "rejected"]
    /\ UNCHANGED <<row, pc, cur, sess, effects, deadLetters>>

----------------------------------------------------------------------------
(* Workers *)

\* Mutant of Locked: the claim does not lock (FOR UPDATE is missing).
Unlocked(j) == FALSE

\* The transaction of a running worker holds the lock of its row.
Locked(j) == \E w \in Workers : pc[w] = "running" /\ cur[w] = j

\* Mutant of Claimable: the last attempt is never granted.
ClaimableButLast(j) ==
    row[j].status \in {"pending", "leased"} /\ row[j].attempts + 1 < MaxAttempts

\* The WHERE clause of claim_next_job; a lease that is seen may have expired.
Claimable(j) ==
    /\ row[j].status \in {"pending", "leased"}
    /\ row[j].attempts < MaxAttempts

\* ORDER BY created_at LIMIT 1 FOR UPDATE SKIP LOCKED
IsNext(j) ==
    /\ Claimable(j) /\ ~Locked(j)
    /\ \A k \in Jobs : Claimable(k) /\ ~Locked(k) => j <= k

\* claim_next_job: the lease and the attempt are in the session, uncommitted.
Leased(r) == [status |-> "leased", attempts |-> r.attempts + 1]

Claim(w) ==
    /\ pc[w] = "idle"
    /\ \E j \in Jobs :
          /\ IsNext(j)
          /\ cur' = [cur EXCEPT ![w] = j]
          /\ sess' = [sess EXCEPT ![w] = [loaded |-> row[j], row |-> Leased(row[j])]]
    /\ pc' = [pc EXCEPT ![w] = "running"]
    /\ UNCHANGED <<enq, row, effects, deadLetters>>

\* Mutants of FailedRow: the failed attempt is given back; it counts twice; the
\* limit may be passed by one.
FailedRowRefunded(r) == [status |-> "pending", attempts |-> r.attempts - 1]
FailedRowEarly(r) ==
    [r EXCEPT !.status = IF r.attempts + 1 >= MaxAttempts THEN "failed" ELSE "pending"]
FailedRowLate(r) ==
    [r EXCEPT !.status = IF r.attempts > MaxAttempts THEN "failed" ELSE "pending"]

\* fail_job on a row as the session has it
FailedRow(r) ==
    [r EXCEPT !.status = IF r.attempts >= MaxAttempts THEN "failed" ELSE "pending"]

\* Mutant of Written: the commit writes every column of the row it read.
WrittenWhole(s, r) == s.row

\* A commit writes the columns the session changed, over whatever is there.
Written(s, r) ==
    [status   |-> IF s.row.status = s.loaded.status THEN r.status ELSE s.row.status,
     attempts |-> IF s.row.attempts = s.loaded.attempts THEN r.attempts
                                                        ELSE s.row.attempts]

\* fail_job adds a dead letter when it gives the status "failed".
DeadLettersAfter(j, failed) ==
    IF failed.status = "failed" THEN [deadLetters EXCEPT ![j] = @ + 1] ELSE deadLetters

\* The session ends and the worker returns to (next = "idle"), goes on to
\* record a failure (next = "raised") or is gone (next = "down").
EndSession(w, next) ==
    /\ pc' = [pc EXCEPT ![w] = next]
    /\ cur' = IF next = "raised" THEN cur ELSE [cur EXCEPT ![w] = NoJob]
    /\ sess' = [sess EXCEPT ![w] = NoSession]

\* Mutant of CompletedRow: the effects commit, the mark does not.
CompletedRowUnmarked(r) == [r EXCEPT !.status = "pending"]

\* complete_job on a row as the session has it
CompletedRow(r) == [r EXCEPT !.status = "completed"]

\* The handler returns, complete_job marks the row, and all of it commits.
\* If the answer to the commit is lost, _process_one takes it for a failure.
Succeed(w, next) ==
    /\ pc[w] = "running"
    /\ Kind[cur[w]] = "fine"
    /\ LET j == cur[w]
           s == [sess[w] EXCEPT !.row = CompletedRow(sess[w].row)]
       IN  /\ row' = [row EXCEPT ![j] = Written(s, row[j])]
           /\ effects' = [effects EXCEPT ![j] = @ + 1]
    /\ EndSession(w, next)
    /\ UNCHANGED <<enq, deadLetters>>

Complete(w) == Succeed(w, "idle")
CompleteUnacknowledged(w) == LostAcks /\ Succeed(w, "raised")

\* No entry in JOB_HANDLERS: fail_job in the claiming session, then commit.
FailUnknown(w) ==
    /\ pc[w] = "running"
    /\ Kind[cur[w]] = "unknown"
    /\ LET j == cur[w]
           s == [sess[w] EXCEPT !.row = FailedRow(sess[w].row)]
       IN  /\ row' = [row EXCEPT ![j] = Written(s, row[j])]
           /\ deadLetters' = DeadLettersAfter(j, s.row)
    /\ EndSession(w, "idle")
    /\ UNCHANGED <<enq, effects>>

\* The handler raises: the rollback undoes the lease and the attempt.
Raise(w) ==
    /\ pc[w] = "running"
    /\ Kind[cur[w]] # "unknown"
    /\ EndSession(w, "raised")
    /\ UNCHANGED <<enq, row, effects, deadLetters>>

\* fail_job in a session of its own: a SELECT that locks nothing ...
FailRead(w) ==
    /\ pc[w] = "raised"
    /\ IdSurvives
    /\ LET r == row[cur[w]]
       IN  sess' = [sess EXCEPT ![w] = [loaded |-> r, row |-> FailedRow(r)]]
    /\ pc' = [pc EXCEPT ![w] = "failing"]
    /\ UNCHANGED <<enq, row, cur, effects, deadLetters>>

\* ... and the commit, whose UPDATE waits for the lock of the row.
FailWrite(w) ==
    /\ pc[w] = "failing"
    /\ ~Locked(cur[w])
    /\ LET j == cur[w]
       IN  /\ row' = [row EXCEPT ![j] = Written(sess[w], row[j])]
           /\ deadLetters' = DeadLettersAfter(j, sess[w].row)
    /\ EndSession(w, "idle")
    /\ UNCHANGED <<enq, effects>>

\* The failure is not recorded: job.id cannot be read, or that session fails
\* too.  _dispatch_loop catches the exception and carries on.
FailLost(w) ==
    /\ pc[w] \in {"raised", "failing"}
    /\ EndSession(w, "idle")
    /\ UNCHANGED <<enq, row, effects, deadLetters>>

\* The process dies and PostgreSQL rolls its transaction back.  An idle worker
\* that is told to stop (handle_signal) goes the same way.
Crash(w) ==
    /\ pc[w] # "down"
    /\ EndSession(w, "down")
    /\ UNCHANGED <<enq, row, effects, deadLetters>>

Restart(w) ==
    /\ pc[w] = "down"
    /\ pc' = [pc EXCEPT ![w] = "idle"]
    /\ UNCHANGED <<enq, row, cur, sess, effects, deadLetters>>

Produce(j) == EnqueueLookup(j) \/ EnqueueCommit(j) \/ EnqueueRollback(j)

\* What a worker does of itself when nothing goes wrong around it
Dispatch(w) ==
    \/ Claim(w) \/ Complete(w) \/ FailUnknown(w) \/ Raise(w)
    \/ FailRead(w) \/ FailWrite(w) \/ (~IdSurvives /\ FailLost(w))

Work(w) ==
    \/ Dispatch(w)
    \/ CompleteUnacknowledged(w) \/ FailLost(w)
    \/ Crash(w) \/ Restart(w)

Next == (\E j \in Jobs : Produce(j)) \/ (\E w \in Workers : Work(w))

Spec == Init /\ [][Next]_vars

\* A run that ends the way its kind says it must end at last
HandlerEnds(w) == Complete(w) \/ FailUnknown(w) \/ (Kind[cur[w]] = "poison" /\ Raise(w))

\* The dispatch loop always goes on and a worker that is down is started
\* again (WF).  Crashes, lost connections and the exceptions of a "fine"
\* handler are faults that do not strike each time a step is tried (SF).
Fairness ==
    \A w \in Workers :
       /\ WF_vars(Dispatch(w)) /\ WF_vars(Restart(w))
       /\ SF_vars(Claim(w)) /\ SF_vars(FailRead(w)) /\ SF_vars(FailWrite(w))
       /\ \A j \in Jobs : SF_vars(cur[w] = j /\ HandlerEnds(w))

FairSpec == Spec /\ Fairness

----------------------------------------------------------------------------
(* Properties *)

HasHandler(j) == Kind[j] # "unknown"

\* claim_next_job and SKIP LOCKED: two workers never run the same job at once,
\* although the lease of the first is not visible to the second.
ExclusiveExecution ==
    \A v, w \in Workers :
       pc[v] = "running" /\ pc[w] = "running" /\ cur[v] = cur[w] => v = w

\* A job that is marked completed has had its effects committed, whatever
\* stale failure was written over its row, and no job has them more often
\* than max_attempts (complete_job, fail_job: neither asks who owns the row).
CompletedHasEffects ==
    \A j \in Jobs :
       /\ row[j].status = "completed" => effects[j] > 0
       /\ effects[j] <= MaxAttempts

\* fail_job gives up on a job only when its attempts are used up: no row is
\* failed, and no dead letter written, before that.
BuriedOnlyWhenExhausted ==
    \A j \in Jobs :
       row[j].status = "failed" \/ deadLetters[j] > 0 => row[j].attempts = MaxAttempts

\* A job type without a handler is counted and buried in the transaction that
\* claimed it: failed, exhausted and one dead letter come together, once.
UnknownBuriedOnce ==
    \A j \in Jobs : ~HasHandler(j) =>
       /\ row[j].status = "failed" <=> row[j].attempts = MaxAttempts
       /\ deadLetters[j] = IF row[j].status = "failed" THEN 1 ELSE 0
       /\ effects[j] = 0

\* enqueue_job with a key: at most one row per key, and a call that was
\* answered with an existing job is answered with one that is in the table.
OneRowPerKey ==
    \A j \in Jobs : Key[j] # NoKey =>
       /\ \A k \in Jobs :
             Key[k] = Key[j] /\ row[j].status # "absent" /\ row[k].status # "absent" => k = j
       /\ enq[j] = "existing" => KeyTaken(j)

\* What keeps PoisonBuriedAtLast from coming true: the rollback in _process_one
\* undoes the attempt that fail_job is about to look at, so a job whose handler
\* always raises has none on record and stays open.
PoisonStaysOpen ==
    \A j \in Jobs : Kind[j] = "poison" =>
       row[j].status \in {"absent", "pending"} /\ row[j].attempts = 0 /\ deadLetters[j] = 0

Safety ==
    /\ ExclusiveExecution
    /\ CompletedHasEffects
    /\ BuriedOnlyWhenExhausted
    /\ UnknownBuriedOnce
    /\ PoisonStaysOpen
    /\ OneRowPerKey

\* The inductive strengthening of Safety: what the row, the session and the
\* counters of each job and worker have to do with each other.
WorkerInv(w) ==
    /\ cur[w] = NoJob <=> pc[w] \in {"idle", "down"}
    /\ pc[w] = "running" =>
          /\ row[cur[w]].status = "pending" /\ row[cur[w]].attempts < MaxAttempts
          /\ sess[w] = [loaded |-> row[cur[w]], row |-> Leased(row[cur[w]])]
    /\ pc[w] \in {"raised", "failing"} =>
          HasHandler(cur[w]) /\ row[cur[w]].status # "absent"
    /\ pc[w] = "failing" =>
          /\ sess[w].loaded.status \in {"pending", "completed", "failed"}
          /\ sess[w].loaded.attempts <= row[cur[w]].attempts
          /\ sess[w].row = FailedRow(sess[w].loaded)
          /\ Kind[cur[w]] = "poison" => sess[w].loaded = [status |-> "pending", attempts |-> 0]

JobInv(j) ==
    /\ row[j].status # "leased"
    /\ row[j].status = "absent" <=> enq[j] # "inserted"
    /\ row[j].status = "absent" => row[j].attempts = 0
    /\ row[j].attempts <= MaxAttempts
    /\ HasHandler(j) => effects[j] = row[j].attempts

IInv ==
    /\ TypeOK
    /\ \A w \in Workers : WorkerInv(w)
    /\ \A j \in Jobs : JobInv(j)
    /\ Safety

\* The queue as its callers see it, for the refinement of JobLedger.
Standing(r) ==
    CASE r.status = "absent"    -> "absent"
      [] r.status = "completed" -> "done"
      [] r.status = "failed"    -> "dead"
      [] OTHER                  -> "queued"

LedgerState == [j \in Jobs |-> Standing(row[j])]

Ledger == INSTANCE JobLedger WITH state <- LedgerState, runs <- effects

\* Where no failure is recorded (IdSurvives = FALSE), and for one daemon with
\* acknowledged commits, the queue is the ledger: each job has its effects at
\* most once, and a job that is completed or failed stays so.
ImplementsLedger == Ledger!LedgerSpec

\* What a job's producer waits for: a job whose handler exists and does not
\* raise for ever, or whose type is unknown, is completed or failed at last,
\* if no older job is poison (claim_next_job takes the oldest claimable row).
OlderJobsSettle ==
    \A j \in Jobs :
       (\A k \in Jobs : k <= j => Kind[k] # "poison") =>
          (row[j].status = "pending" ~> row[j].status \in {"completed", "failed"})

\* "On raised exception, fail_job (auto dead-letters at max_attempts via
\* JobQueueManager.fail_job)" (the comment on JobHandler in the worker's main.py):
\* once the daemons no longer crash, a job whose handler always raises is failed.
PoisonBuriedAtLast ==
    <>[][\A w \in Workers : ~Crash(w)]_vars =>
       \A j \in Jobs : Kind[j] = "poison" =>
          (row[j].status = "pending" ~> row[j].status = "failed")
============================================================================
