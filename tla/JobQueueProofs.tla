--------------------------- MODULE JobQueueProofs ---------------------------
(***************************************************************************)
(* Proofs about JobQueue, for any number of workers and jobs.  IInv is the *)
(* inductive invariant; each safety property follows from it.              *)
(***************************************************************************)
EXTENDS JobQueue, TLAPS

(* Facts about the operators on rows *)

\* fail_job changes the status only, and never to "completed".
LEMMA FailedRowType ==
    ASSUME NEW r \in Row
    PROVE  /\ FailedRow(r) \in Row
           /\ FailedRow(r).attempts = r.attempts
           /\ FailedRow(r).status \in {"failed", "pending"}
           /\ FailedRow(r).status = "failed" <=> r.attempts >= MaxAttempts
  BY MaxAttemptsAssumption DEF FailedRow, Row, Statuses

LEMMA WrittenType ==
    ASSUME NEW s \in Session, NEW r \in Row
    PROVE  Written(s, r) \in Row
  BY DEF Written, Session, Row

\* What a committed failure does to a row that was read earlier: the attempts
\* stay, and the status stays or becomes what fail_job made of the old row.
LEMMA StaleFailure ==
    ASSUME NEW s \in Session, NEW r \in Row, s.row = FailedRow(s.loaded)
    PROVE  /\ Written(s, r) \in Row
           /\ Written(s, r).attempts = r.attempts
           /\ \/ Written(s, r).status = r.status
              \/ Written(s, r).status = s.row.status
           /\ s.row.status = s.loaded.status => Written(s, r).status = r.status
           /\ s.row.status \in {"failed", "pending"}
           /\ s.row.status = "failed" <=> s.loaded.attempts >= MaxAttempts
  <1>1. s.loaded \in Row
    BY DEF Session
  <1>2. /\ s.row.attempts = s.loaded.attempts
        /\ s.row.status \in {"failed", "pending"}
        /\ s.row.status = "failed" <=> s.loaded.attempts >= MaxAttempts
    BY <1>1, FailedRowType
  <1>3. Written(s, r) \in Row
    BY WrittenType
  <1> QED
    BY <1>2, <1>3 DEF Written

(* Type correctness *)

LEMMA InitType == Init => TypeOK
  BY DEF Init, TypeOK, Row, Session, Statuses, Absent, NoSession

LEMMA EndSessionType ==
    ASSUME TypeOK, NEW w \in Workers, NEW next \in {"idle", "raised", "down"},
           EndSession(w, next)
    PROVE  /\ pc' \in [Workers -> {"idle", "running", "raised", "failing", "down"}]
           /\ cur' \in [Workers -> Jobs \cup {NoJob}]
           /\ sess' \in [Workers -> Session]
  <1>1. NoSession \in Session
    BY DEF NoSession, Session, Row, Statuses, Absent
  <1> QED
    BY <1>1 DEF EndSession, TypeOK

(* Steps of the producers *)

LEMMA LookupStep ==
    ASSUME IInv, NEW j \in Jobs, EnqueueLookup(j)
    PROVE  IInv'
  <1> USE DEF EnqueueLookup
  <1>1. TypeOK'
    BY DEF IInv, TypeOK
  <1>2. \A w \in Workers : WorkerInv(w)'
    BY DEF IInv, TypeOK, WorkerInv, HasHandler
  <1>3. \A k \in Jobs : JobInv(k)'
    BY DEF IInv, TypeOK, JobInv, HasHandler
  <1>4. OneRowPerKey'
    BY DEF IInv, TypeOK, Safety, OneRowPerKey, KeyTaken
  <1>5. (ExclusiveExecution /\ CompletedHasEffects /\ BuriedOnlyWhenExhausted
            /\ UnknownBuriedOnce /\ PoisonStaysOpen)'
    BY DEF IInv, Safety, ExclusiveExecution, CompletedHasEffects,
           BuriedOnlyWhenExhausted, UnknownBuriedOnce, PoisonStaysOpen, HasHandler
  <1> QED
    BY <1>1, <1>2, <1>3, <1>4, <1>5 DEF IInv, Safety

LEMMA RollbackStep ==
    ASSUME IInv, NEW j \in Jobs, EnqueueRollback(j)
    PROVE  IInv'
  <1> USE DEF EnqueueRollback
  <1>1. TypeOK'
    BY DEF IInv, TypeOK
  <1>2. \A w \in Workers : WorkerInv(w)'
    BY DEF IInv, TypeOK, WorkerInv, HasHandler
  <1>3. \A k \in Jobs : JobInv(k)'
    BY DEF IInv, TypeOK, JobInv, HasHandler
  <1>4. OneRowPerKey'
    BY DEF IInv, TypeOK, Safety, OneRowPerKey, KeyTaken
  <1>5. (ExclusiveExecution /\ CompletedHasEffects /\ BuriedOnlyWhenExhausted
            /\ UnknownBuriedOnce /\ PoisonStaysOpen)'
    BY DEF IInv, Safety, ExclusiveExecution, CompletedHasEffects,
           BuriedOnlyWhenExhausted, UnknownBuriedOnce, PoisonStaysOpen, HasHandler
  <1> QED
    BY <1>1, <1>2, <1>3, <1>4, <1>5 DEF IInv, Safety

\* The row that appears was absent, so no worker has it in its hands.
LEMMA CommitStep ==
    ASSUME IInv, NEW j \in Jobs, EnqueueCommit(j)
    PROVE  IInv'
  <1> USE MaxAttemptsAssumption DEF EnqueueCommit
  <1>a. row[j].status = "absent" /\ row[j].attempts = 0 /\ enq[j] = "staged"
    BY DEF IInv, TypeOK, JobInv
  <1>b. /\ row' \in [Jobs -> Row]
        /\ \A k \in Jobs : k # j => row'[k] = row[k]
        /\ row'[j] = row[j] \/ row'[j] = [status |-> "pending", attempts |-> 0]
        /\ row'[j] # row[j] => enq'[j] = "inserted" /\ ~KeyTaken(j)
        /\ row'[j] = row[j] => enq'[j] = "rejected"
        /\ \A k \in Jobs : k # j => enq'[k] = enq[k]
    BY <1>a DEF IInv, TypeOK, Row, Statuses
  <1>1. TypeOK'
    BY <1>b DEF IInv, TypeOK
  <1>2. ASSUME NEW w \in Workers
        PROVE  WorkerInv(w)'
    <2>1. pc[w] \notin {"idle", "down"} => cur[w] \in Jobs /\ cur[w] # j
      BY <1>a DEF IInv, TypeOK, WorkerInv
    <2>2. pc[w] \notin {"idle", "down"} => row'[cur[w]] = row[cur[w]]
      BY <2>1, <1>b
    <2> QED
      BY <2>1, <2>2 DEF IInv, TypeOK, WorkerInv, HasHandler
  <1>3. \A k \in Jobs : JobInv(k)'
    BY <1>a, <1>b DEF IInv, TypeOK, JobInv, HasHandler
  <1>4. OneRowPerKey'
    BY <1>a, <1>b DEF IInv, TypeOK, Safety, OneRowPerKey, KeyTaken
  <1>5. (ExclusiveExecution /\ CompletedHasEffects /\ BuriedOnlyWhenExhausted)'
    BY <1>a, <1>b DEF IInv, Safety, ExclusiveExecution, CompletedHasEffects,
           BuriedOnlyWhenExhausted
  <1>6. (UnknownBuriedOnce /\ PoisonStaysOpen)'
    BY <1>a, <1>b DEF IInv, Safety, UnknownBuriedOnce, PoisonStaysOpen, HasHandler
  <1> QED
    BY <1>1, <1>2, <1>3, <1>4, <1>5, <1>6 DEF IInv, Safety

(* Steps of the workers *)

\* A step that changes neither the table nor the counters leaves what IInv
\* says of them as it was.
LEMMA TableUntouched ==
    ASSUME IInv, UNCHANGED <<enq, row, effects, deadLetters>>
    PROVE  /\ \A j \in Jobs : JobInv(j)'
           /\ (CompletedHasEffects /\ BuriedOnlyWhenExhausted /\ UnknownBuriedOnce
                  /\ PoisonStaysOpen /\ OneRowPerKey)'
  <1>1. \A j \in Jobs : JobInv(j)'
    BY DEF IInv, JobInv, HasHandler
  <1>2. (CompletedHasEffects /\ BuriedOnlyWhenExhausted)'
    BY DEF IInv, Safety, CompletedHasEffects, BuriedOnlyWhenExhausted
  <1>3. (UnknownBuriedOnce /\ PoisonStaysOpen)'
    BY DEF IInv, Safety, UnknownBuriedOnce, PoisonStaysOpen, HasHandler
  <1>4. OneRowPerKey'
    BY DEF IInv, Safety, OneRowPerKey, KeyTaken
  <1> QED
    BY <1>1, <1>2, <1>3, <1>4

\* A worker that is busy works on a job of the table.
LEMMA BusyWorker ==
    ASSUME IInv, NEW w \in Workers, pc[w] \in {"running", "raised", "failing"}
    PROVE  cur[w] \in Jobs /\ row[cur[w]] \in Row /\ sess[w] \in Session
  BY DEF IInv, TypeOK, WorkerInv

\* A worker that ends its session without a write disturbs nobody else.
LEMMA EndSessionStep ==
    ASSUME IInv, NEW w \in Workers, NEW next \in {"idle", "raised", "down"},
           EndSession(w, next), next = "raised" => pc[w] = "running" /\ HasHandler(cur[w]),
           UNCHANGED <<enq, row, effects, deadLetters>>
    PROVE  IInv'
  <1>1. TypeOK'
    BY EndSessionType DEF IInv, TypeOK
  <1>2. ASSUME NEW v \in Workers
        PROVE  WorkerInv(v)'
    <2>1. CASE v = w
      BY <2>1, BusyWorker DEF IInv, TypeOK, EndSession, WorkerInv, HasHandler
    <2>2. CASE v # w
      BY <2>2 DEF IInv, TypeOK, EndSession, WorkerInv, HasHandler
    <2> QED
      BY <2>1, <2>2
  <1>3. ExclusiveExecution'
    BY DEF IInv, TypeOK, Safety, ExclusiveExecution, EndSession
  <1> QED
    BY <1>1, <1>2, <1>3, TableUntouched DEF IInv, Safety

LEMMA ClaimStep ==
    ASSUME IInv, NEW w \in Workers, Claim(w)
    PROVE  IInv'
  <1>1. PICK j \in Jobs :
          /\ IsNext(j)
          /\ cur' = [cur EXCEPT ![w] = j]
          /\ sess' = [sess EXCEPT ![w] = [loaded |-> row[j], row |-> Leased(row[j])]]
    BY DEF Claim
  <1>2. row[j].status = "pending" /\ row[j].attempts < MaxAttempts
    BY <1>1 DEF IsNext, Claimable, IInv, JobInv
  <1>3. TypeOK'
    BY <1>1 DEF Claim, IInv, TypeOK, Session, Row, Statuses, Leased
  <1>4. ASSUME NEW v \in Workers
        PROVE  WorkerInv(v)'
    <2>1. CASE v = w
      BY <2>1, <1>1, <1>2, NoJobAssumption DEF Claim, IInv, TypeOK, WorkerInv, HasHandler, Leased
    <2>2. CASE v # w
      BY <2>2, <1>1 DEF Claim, IInv, TypeOK, WorkerInv, HasHandler
    <2> QED
      BY <2>1, <2>2
  <1>5. ExclusiveExecution'
    BY <1>1 DEF Claim, IInv, TypeOK, Safety, ExclusiveExecution, IsNext, Locked
  <1>6. UNCHANGED <<enq, row, effects, deadLetters>>
    BY DEF Claim
  <1> QED
    BY <1>3, <1>4, <1>5, <1>6, TableUntouched DEF IInv, Safety

LEMMA RaiseStep ==
    ASSUME IInv, NEW w \in Workers, Raise(w)
    PROVE  IInv'
  BY EndSessionStep DEF Raise, HasHandler

LEMMA FailLostStep ==
    ASSUME IInv, NEW w \in Workers, FailLost(w)
    PROVE  IInv'
  BY EndSessionStep DEF FailLost

LEMMA CrashStep ==
    ASSUME IInv, NEW w \in Workers, Crash(w)
    PROVE  IInv'
  BY EndSessionStep DEF Crash

LEMMA RestartStep ==
    ASSUME IInv, NEW w \in Workers, Restart(w)
    PROVE  IInv'
  <1> USE DEF Restart
  <1>1. TypeOK'
    BY DEF IInv, TypeOK
  <1>2. ASSUME NEW v \in Workers
        PROVE  WorkerInv(v)'
    BY DEF IInv, TypeOK, WorkerInv, HasHandler
  <1>3. ExclusiveExecution'
    BY DEF IInv, TypeOK, Safety, ExclusiveExecution
  <1> QED
    BY <1>1, <1>2, <1>3, TableUntouched DEF IInv, Safety

LEMMA FailReadStep ==
    ASSUME IInv, NEW w \in Workers, FailRead(w)
    PROVE  IInv'
  <1> USE DEF FailRead
  <1>1. /\ cur[w] \in Jobs /\ row[cur[w]] \in Row
        /\ row[cur[w]].status \in {"pending", "completed", "failed"}
        /\ HasHandler(cur[w])
        /\ Kind[cur[w]] = "poison" => row[cur[w]] = [status |-> "pending", attempts |-> 0]
    BY BusyWorker DEF IInv, WorkerInv, JobInv, Row, Statuses, Safety, PoisonStaysOpen
  <1>2. FailedRow(row[cur[w]]) \in Row
    BY <1>1, FailedRowType
  <1>3. TypeOK'
    BY <1>1, <1>2 DEF IInv, TypeOK, Session
  <1>4. ASSUME NEW v \in Workers
        PROVE  WorkerInv(v)'
    <2>1. CASE v = w
      <3>1. /\ sess'[w] = [loaded |-> row[cur[w]], row |-> FailedRow(row[cur[w]])]
            /\ pc'[w] = "failing"
        BY DEF IInv, TypeOK
      <3>2. row[cur[w]].attempts <= row[cur[w]].attempts
        BY <1>1 DEF Row
      <3> QED
        BY <2>1, <1>1, <3>1, <3>2, NoJobAssumption DEF WorkerInv, HasHandler
    <2>2. CASE v # w
      BY <2>2 DEF IInv, TypeOK, WorkerInv, HasHandler
    <2> QED
      BY <2>1, <2>2
  <1>5. ExclusiveExecution'
    BY DEF IInv, TypeOK, Safety, ExclusiveExecution
  <1> QED
    BY <1>3, <1>4, <1>5, TableUntouched DEF IInv, Safety

\* A commit that writes row j while no other worker runs it, never takes
\* attempts away and never removes a row or shows a lease, leaves the other
\* workers and the keys as they should be.
LEMMA RowWritten ==
    ASSUME IInv, NEW w \in Workers, NEW j \in Jobs, NEW r \in Row,
           NEW next \in {"idle", "raised"},
           j = cur[w], pc[w] \in {"running", "raised", "failing"},
           \A v \in Workers : v # w => ~(pc[v] = "running" /\ cur[v] = j),
           row' \in [Jobs -> Row], row'[j] = r,
           \A k \in Jobs : k # j => row'[k] = row[k],
           row[j].status # "absent", r.status # "absent",
           row[j].attempts <= r.attempts,
           next = "raised" => HasHandler(j),
           EndSession(w, next), enq' = enq
    PROVE  /\ pc' \in [Workers -> {"idle", "running", "raised", "failing", "down"}]
           /\ cur' \in [Workers -> Jobs \cup {NoJob}]
           /\ sess' \in [Workers -> Session]
           /\ \A v \in Workers : WorkerInv(v)'
           /\ ExclusiveExecution'
           /\ OneRowPerKey'
  <1>1. row' \in [Jobs -> Row] /\ row'[j] = r /\ \A k \in Jobs : k # j => row'[k] = row[k]
    OBVIOUS
  <1>2. /\ pc' \in [Workers -> {"idle", "running", "raised", "failing", "down"}]
        /\ cur' \in [Workers -> Jobs \cup {NoJob}]
        /\ sess' \in [Workers -> Session]
    BY EndSessionType DEF IInv
  <1>3. ASSUME NEW v \in Workers
        PROVE  WorkerInv(v)'
    <2>1. CASE v = w
      BY <2>1, <1>1, NoJobAssumption DEF IInv, TypeOK, EndSession, WorkerInv, HasHandler
    <2>2. CASE v # w
      <3>1. pc'[v] = pc[v] /\ cur'[v] = cur[v] /\ sess'[v] = sess[v]
        BY <2>2 DEF EndSession, IInv, TypeOK
      <3>2. WorkerInv(v)
        BY DEF IInv
      <3>3. CASE pc[v] \in {"idle", "down"}
        BY <3>1, <3>2, <3>3 DEF WorkerInv
      <3>4. CASE pc[v] = "running"
        <4>1. cur[v] \in Jobs /\ cur[v] # j
          BY <3>4, <2>2, BusyWorker
        <4>2. row'[cur[v]] = row[cur[v]]
          BY <4>1, <1>1
        <4> QED
          BY <3>1, <3>2, <3>4, <4>2 DEF WorkerInv
      <3>5. CASE pc[v] \in {"raised", "failing"}
        <4>1. cur[v] \in Jobs /\ row[cur[v]] \in Row /\ sess[v] \in Session
          BY <3>5, BusyWorker
        <4>2. /\ row'[cur[v]].status # "absent"
              /\ row[cur[v]].attempts <= row'[cur[v]].attempts
              /\ row'[cur[v]] \in Row
          BY <4>1, <3>2, <3>5, <1>1 DEF WorkerInv, Row
        <4>3. pc[v] = "failing" => sess[v].loaded.attempts <= row'[cur[v]].attempts
          BY <4>1, <4>2, <3>2 DEF WorkerInv, Row, Session
        <4> QED
          BY <3>1, <3>2, <3>5, <4>2, <4>3 DEF WorkerInv, HasHandler
      <3> QED
        BY <3>3, <3>4, <3>5 DEF IInv, TypeOK
    <2> QED
      BY <2>1, <2>2
  <1>4. ExclusiveExecution'
    BY DEF IInv, TypeOK, Safety, ExclusiveExecution, EndSession
  <1>5. \A k \in Jobs : row'[k].status = "absent" <=> row[k].status = "absent"
    BY <1>1
  <1>6. OneRowPerKey'
    BY <1>5 DEF IInv, Safety, OneRowPerKey, KeyTaken
  <1> QED
    BY <1>1, <1>2, <1>3, <1>4, <1>6

\* The handler returned: the row is completed and one attempt richer.
LEMMA SucceedStep ==
    ASSUME IInv, NEW w \in Workers, NEW next \in {"idle", "raised"}, Succeed(w, next)
    PROVE  IInv'
  <1>a. PICK j \in Jobs : j = cur[w]
    BY BusyWorker DEF Succeed
  <1>b. /\ row[j] \in Row /\ sess[w] \in Session
        /\ pc[w] = "running" /\ Kind[j] = "fine" /\ HasHandler(j)
        /\ row[j].status = "pending" /\ row[j].attempts < MaxAttempts
        /\ sess[w] = [loaded |-> row[j], row |-> Leased(row[j])]
        /\ EndSession(w, next) /\ UNCHANGED <<enq, deadLetters>>
        /\ effects' = [effects EXCEPT ![j] = @ + 1]
        /\ effects[j] = row[j].attempts
        /\ row[j].attempts \in Nat
    BY <1>a, BusyWorker DEF Succeed, IInv, WorkerInv, JobInv, HasHandler, Row
  <1>c. PICK r \in Row : r = [status |-> "completed", attempts |-> row[j].attempts + 1]
    <2>1. [status |-> "completed", attempts |-> row[j].attempts + 1] \in Row
      BY <1>b DEF Row, Statuses
    <2> QED
      BY <2>1
  <1>1. j = cur[w] /\ r.status = "completed" /\ r.attempts = row[j].attempts + 1
    BY <1>a, <1>c
  <1>2. Written([sess[w] EXCEPT !.row = CompletedRow(sess[w].row)], row[j]) = r
    BY <1>b, <1>c DEF Written, CompletedRow, Leased, Session, Row
  <1>3. /\ row' \in [Jobs -> Row] /\ row'[j] = r
        /\ \A k \in Jobs : k # j => row'[k] = row[k]
    BY <1>1, <1>2 DEF Succeed, IInv, TypeOK
  <1>4. row[j].attempts <= r.attempts
    BY <1>1, <1>b
  <1>5. \A v \in Workers : v # w => ~(pc[v] = "running" /\ cur[v] = j)
    BY <1>1, <1>b DEF IInv, Safety, ExclusiveExecution
  <1>6. /\ pc' \in [Workers -> {"idle", "running", "raised", "failing", "down"}]
        /\ cur' \in [Workers -> Jobs \cup {NoJob}]
        /\ sess' \in [Workers -> Session]
        /\ \A v \in Workers : WorkerInv(v)'
        /\ ExclusiveExecution'
        /\ OneRowPerKey'
    <2>1. /\ pc[w] \in {"running", "raised", "failing"}
          /\ row[j].status # "absent" /\ r.status # "absent"
          /\ HasHandler(j) /\ EndSession(w, next) /\ enq' = enq
      BY <1>1, <1>b
    <2> QED
      BY <1>1, <1>3, <1>4, <1>5, <2>1, RowWritten
  <1>7. TypeOK'
    <2>1. effects' \in [Jobs -> Nat] /\ deadLetters' \in [Jobs -> Nat] /\ enq' = enq
      BY <1>b DEF IInv, TypeOK
    <2> QED
      BY <2>1, <1>3, <1>6 DEF IInv, TypeOK
  <1>8. \A k \in Jobs : k = j \/ (row'[k] = row[k] /\ effects'[k] = effects[k])
    BY <1>b, <1>3 DEF IInv, TypeOK
  <1>9. row'[j] = r /\ effects'[j] = effects[j] + 1
    BY <1>b, <1>3 DEF IInv, TypeOK
  <1>10. \A k \in Jobs : JobInv(k)'
    BY <1>b, <1>1, <1>8, <1>9, MaxAttemptsAssumption DEF IInv, JobInv, HasHandler
  <1>11. (CompletedHasEffects /\ BuriedOnlyWhenExhausted)'
    <2>1. deadLetters[j] = 0
      BY <1>b, MaxAttemptsAssumption DEF IInv, TypeOK, Safety, BuriedOnlyWhenExhausted
    <2> QED
      BY <1>b, <1>1, <1>8, <1>9, <2>1, MaxAttemptsAssumption
         DEF IInv, Safety, CompletedHasEffects, BuriedOnlyWhenExhausted
  <1>12. (UnknownBuriedOnce /\ PoisonStaysOpen)'
    BY <1>b, <1>1, <1>8, <1>9 DEF IInv, Safety, UnknownBuriedOnce, PoisonStaysOpen, HasHandler
  <1> QED
    BY <1>6, <1>7, <1>10, <1>11, <1>12 DEF IInv, Safety

\* A commit of fail_job on row j: status failed or as it was or pending, the
\* attempts as given, a dead letter with "failed".  What it takes for the
\* counters of j to stay in step is the caller's to show.
LEMMA FailureRecorded ==
    ASSUME IInv, NEW j \in Jobs, NEW r \in Row,
           row' \in [Jobs -> Row], row'[j] = r,
           \A k \in Jobs : k # j => row'[k] = row[k],
           UNCHANGED <<enq, effects>>,
           deadLetters' \in [Jobs -> Nat],
           \A k \in Jobs : k # j => deadLetters'[k] = deadLetters[k],
           row[j].status # "absent", r.status \in {"pending", "completed", "failed"},
           r.attempts <= MaxAttempts, HasHandler(j) => r.attempts = row[j].attempts,
           r.status = "completed" => row[j].status = "completed",
           r.status = "failed" \/ deadLetters'[j] > 0 => r.attempts = MaxAttempts,
           ~HasHandler(j) =>
              /\ r.status = "failed" <=> r.attempts = MaxAttempts
              /\ deadLetters'[j] = IF r.status = "failed" THEN 1 ELSE 0,
           Kind[j] = "poison" => r = row[j] /\ deadLetters'[j] = 0
    PROVE  /\ \A k \in Jobs : JobInv(k)'
           /\ (CompletedHasEffects /\ BuriedOnlyWhenExhausted /\ UnknownBuriedOnce
                  /\ PoisonStaysOpen)'
  <1>1. \A k \in Jobs : JobInv(k)'
    BY MaxAttemptsAssumption DEF IInv, JobInv, HasHandler
  <1>2. (CompletedHasEffects /\ BuriedOnlyWhenExhausted)'
    BY DEF IInv, Safety, CompletedHasEffects, BuriedOnlyWhenExhausted
  <1>3. UnknownBuriedOnce'
    BY DEF IInv, Safety, UnknownBuriedOnce, HasHandler
  <1>4. PoisonStaysOpen'
    BY DEF IInv, Safety, PoisonStaysOpen
  <1> QED
    BY <1>1, <1>2, <1>3, <1>4

\* A job type without handler: the attempt counts, and the last one buries.
LEMMA FailUnknownStep ==
    ASSUME IInv, NEW w \in Workers, FailUnknown(w)
    PROVE  IInv'
  <1>a. PICK j \in Jobs : j = cur[w]
    BY BusyWorker DEF FailUnknown
  <1>b. /\ row[j] \in Row /\ sess[w] \in Session /\ row[j].attempts \in Nat
        /\ pc[w] = "running" /\ Kind[j] = "unknown" /\ ~HasHandler(j)
        /\ row[j].status = "pending" /\ row[j].attempts < MaxAttempts
        /\ sess[w] = [loaded |-> row[j], row |-> Leased(row[j])]
        /\ EndSession(w, "idle") /\ enq' = enq /\ effects' = effects
        /\ deadLetters[j] = 0
    BY <1>a, BusyWorker
       DEF FailUnknown, IInv, WorkerInv, HasHandler, Row, Safety, UnknownBuriedOnce
  <1>c. PICK r \in Row :
           /\ r.attempts = row[j].attempts + 1
           /\ r.status = IF r.attempts >= MaxAttempts THEN "failed" ELSE "pending"
    <2>1. [status |-> IF row[j].attempts + 1 >= MaxAttempts THEN "failed" ELSE "pending",
           attempts |-> row[j].attempts + 1] \in Row
      BY <1>b, MaxAttemptsAssumption DEF Row, Statuses
    <2> QED
      BY <2>1
  <1>1. FailedRow(sess[w].row) = r
    BY <1>b, <1>c DEF FailedRow, Leased, Row
  <1>2. Written([sess[w] EXCEPT !.row = FailedRow(sess[w].row)], row[j])
           = [status |-> IF r.status = "pending" THEN row[j].status ELSE r.status,
              attempts |-> r.attempts]
    BY <1>b, <1>c, <1>1 DEF Written, Session, Row
  <1>3. Written([sess[w] EXCEPT !.row = FailedRow(sess[w].row)], row[j]) = r
    BY <1>b, <1>c, <1>2 DEF Row
  <1>4. /\ row' \in [Jobs -> Row] /\ row'[j] = r
        /\ \A k \in Jobs : k # j => row'[k] = row[k]
    BY <1>a, <1>3 DEF FailUnknown, IInv, TypeOK
  <1>5. /\ deadLetters' \in [Jobs -> Nat]
        /\ \A k \in Jobs : k # j => deadLetters'[k] = deadLetters[k]
        /\ deadLetters'[j] = IF r.status = "failed" THEN 1 ELSE 0
    <2>1. deadLetters' = DeadLettersAfter(j, r)
      BY <1>a, <1>1, <1>b DEF FailUnknown
    <2> QED
      BY <2>1, <1>b DEF DeadLettersAfter, IInv, TypeOK
  <1>6. \A v \in Workers : v # w => ~(pc[v] = "running" /\ cur[v] = j)
    BY <1>a, <1>b DEF IInv, Safety, ExclusiveExecution
  <1>7. /\ pc' \in [Workers -> {"idle", "running", "raised", "failing", "down"}]
        /\ cur' \in [Workers -> Jobs \cup {NoJob}]
        /\ sess' \in [Workers -> Session]
        /\ \A v \in Workers : WorkerInv(v)'
        /\ ExclusiveExecution'
        /\ OneRowPerKey'
    <2>1. /\ row[j].status # "absent" /\ r.status # "absent"
          /\ row[j].attempts <= r.attempts
      BY <1>b, <1>c
    <2> QED
      BY <1>a, <1>b, <1>4, <1>6, <2>1, RowWritten
  <1>8. TypeOK'
    BY <1>b, <1>4, <1>5, <1>7 DEF IInv, TypeOK
  <1>9. /\ r.attempts <= MaxAttempts
        /\ r.status = "failed" <=> r.attempts = MaxAttempts
        /\ r.status \in {"pending", "failed"}
    BY <1>b, <1>c, MaxAttemptsAssumption DEF Row
  <1>10. /\ \A k \in Jobs : JobInv(k)'
         /\ (CompletedHasEffects /\ BuriedOnlyWhenExhausted /\ UnknownBuriedOnce
                /\ PoisonStaysOpen)'
    BY <1>b, <1>4, <1>5, <1>9, FailureRecorded
  <1> QED
    BY <1>7, <1>8, <1>10 DEF IInv, Safety

\* The failure of a raised handler is recorded, maybe long after it was read:
\* the row may have been completed, failed or claimed again in between.
LEMMA FailWriteStep ==
    ASSUME IInv, NEW w \in Workers, FailWrite(w)
    PROVE  IInv'
  <1>a. PICK j \in Jobs : j = cur[w]
    BY BusyWorker DEF FailWrite
  <1>b. PICK s \in Session : s = sess[w]
    BY BusyWorker DEF FailWrite
  <1>c. /\ row[j] \in Row /\ row[j].attempts \in Nat
        /\ row[j].status \in {"pending", "completed", "failed"}
        /\ row[j].attempts <= MaxAttempts
        /\ pc[w] = "failing" /\ HasHandler(j) /\ ~Locked(j)
        /\ s.loaded \in Row /\ s.loaded.attempts \in Nat
        /\ s.loaded.attempts <= row[j].attempts
        /\ s.row = FailedRow(s.loaded)
        /\ Kind[j] = "poison" => s.loaded = [status |-> "pending", attempts |-> 0]
        /\ EndSession(w, "idle") /\ enq' = enq /\ effects' = effects
    BY <1>a, <1>b, BusyWorker
       DEF FailWrite, IInv, WorkerInv, JobInv, Row, Session, Statuses
  <1>d. /\ row[j].status = "failed" \/ deadLetters[j] > 0 => row[j].attempts = MaxAttempts
        /\ Kind[j] = "poison" => deadLetters[j] = 0
        /\ deadLetters \in [Jobs -> Nat]
    BY DEF IInv, TypeOK, Safety, BuriedOnlyWhenExhausted, PoisonStaysOpen
  <1>e. PICK r \in Row : r = Written(s, row[j])
    BY <1>c, WrittenType
  <1>1. /\ r.attempts = row[j].attempts
        /\ r.status = row[j].status \/ r.status = s.row.status
        /\ s.row.status = s.loaded.status => r.status = row[j].status
        /\ s.row.status \in {"failed", "pending"}
        /\ s.row.status = "failed" <=> s.loaded.attempts >= MaxAttempts
    BY <1>c, <1>e, StaleFailure
  <1>2. /\ row' \in [Jobs -> Row] /\ row'[j] = r
        /\ \A k \in Jobs : k # j => row'[k] = row[k]
    BY <1>a, <1>b, <1>e DEF FailWrite, IInv, TypeOK
  <1>3. /\ deadLetters' \in [Jobs -> Nat]
        /\ \A k \in Jobs : k # j => deadLetters'[k] = deadLetters[k]
        /\ s.row.status # "failed" => deadLetters'[j] = deadLetters[j]
    <2>1. deadLetters' = DeadLettersAfter(j, s.row)
      BY <1>a, <1>b DEF FailWrite
    <2> QED
      BY <2>1, <1>d DEF DeadLettersAfter
  <1>4. s.row.status = "failed" => r.attempts = MaxAttempts
    BY <1>1, <1>c, MaxAttemptsAssumption
  <1>5. r.status = "failed" \/ deadLetters'[j] > 0 => r.attempts = MaxAttempts
    BY <1>1, <1>3, <1>4, <1>d
  <1>6. Kind[j] = "poison" => r = row[j] /\ deadLetters'[j] = 0
    BY <1>1, <1>3, <1>c, <1>d, MaxAttemptsAssumption DEF Row
  <1>7. \A v \in Workers : v # w => ~(pc[v] = "running" /\ cur[v] = j)
    BY <1>c DEF Locked
  <1>8. /\ pc' \in [Workers -> {"idle", "running", "raised", "failing", "down"}]
        /\ cur' \in [Workers -> Jobs \cup {NoJob}]
        /\ sess' \in [Workers -> Session]
        /\ \A v \in Workers : WorkerInv(v)'
        /\ ExclusiveExecution'
        /\ OneRowPerKey'
    <2>1. row[j].status # "absent" /\ r.status # "absent" /\ row[j].attempts <= r.attempts
      BY <1>1, <1>c
    <2> QED
      BY <1>a, <1>c, <1>2, <1>7, <2>1, RowWritten
  <1>9. TypeOK'
    BY <1>c, <1>2, <1>3, <1>8 DEF IInv, TypeOK
  <1>10. /\ r.status \in {"pending", "completed", "failed"}
         /\ r.status = "completed" => row[j].status = "completed"
         /\ r.attempts <= MaxAttempts
    BY <1>1, <1>c
  <1>11. /\ \A k \in Jobs : JobInv(k)'
         /\ (CompletedHasEffects /\ BuriedOnlyWhenExhausted /\ UnknownBuriedOnce
                /\ PoisonStaysOpen)'
    BY <1>c, <1>1, <1>2, <1>3, <1>5, <1>6, <1>10, FailureRecorded
  <1> QED
    BY <1>8, <1>9, <1>11 DEF IInv, Safety

(* The invariant *)

LEMMA InitInvariant == Init => IInv
  <1> SUFFICES ASSUME Init PROVE IInv
    OBVIOUS
  <1>1. TypeOK
    BY InitType
  <1>2. \A w \in Workers : WorkerInv(w)
    BY DEF Init, WorkerInv
  <1>3. \A j \in Jobs : JobInv(j)
    BY MaxAttemptsAssumption DEF Init, JobInv, Absent
  <1>4. Safety
    BY MaxAttemptsAssumption DEF Init, Absent, Safety, ExclusiveExecution,
       CompletedHasEffects, BuriedOnlyWhenExhausted, UnknownBuriedOnce,
       PoisonStaysOpen, OneRowPerKey
  <1> QED
    BY <1>1, <1>2, <1>3, <1>4 DEF IInv

LEMMA StutterInvariant ==
    ASSUME IInv, UNCHANGED vars
    PROVE  IInv'
  <1>1. TypeOK' /\ ExclusiveExecution'
    BY DEF vars, IInv, TypeOK, Safety, ExclusiveExecution
  <1>2. \A w \in Workers : WorkerInv(w)'
    BY DEF vars, IInv, WorkerInv, HasHandler
  <1> QED
    BY <1>1, <1>2, TableUntouched DEF vars, IInv, Safety

LEMMA NextInvariant ==
    ASSUME IInv, [Next]_vars
    PROVE  IInv'
  <1>1. ASSUME NEW j \in Jobs, Produce(j)
        PROVE  IInv'
    BY <1>1, LookupStep, CommitStep, RollbackStep DEF Produce
  <1>2. ASSUME NEW w \in Workers, Work(w)
        PROVE  IInv'
    <2>1. CASE Claim(w)
      BY <2>1, ClaimStep
    <2>2. CASE Complete(w) \/ CompleteUnacknowledged(w)
      BY <2>2, SucceedStep DEF Complete, CompleteUnacknowledged
    <2>3. CASE FailUnknown(w)
      BY <2>3, FailUnknownStep
    <2>4. CASE Raise(w) \/ FailLost(w) \/ Crash(w) \/ Restart(w)
      BY <2>4, RaiseStep, FailLostStep, CrashStep, RestartStep
    <2>5. CASE FailRead(w) \/ FailWrite(w)
      BY <2>5, FailReadStep, FailWriteStep
    <2> QED
      BY <1>2, <2>1, <2>2, <2>3, <2>4, <2>5 DEF Work, Dispatch
  <1>3. CASE UNCHANGED vars
    BY <1>3, StutterInvariant
  <1> QED
    BY <1>1, <1>2, <1>3 DEF Next

\* IInv holds in every reachable state, for any workers, jobs and limits.
THEOREM Invariance == Spec => []IInv
  <1>1. Init => IInv
    BY InitInvariant
  <1>2. IInv /\ [Next]_vars => IInv'
    BY NextInvariant
  <1> QED
    BY <1>1, <1>2, PTL DEF Spec

\* Every variable keeps its type.
THEOREM TypeCorrectness == Spec => []TypeOK
  <1>1. IInv => TypeOK
    BY DEF IInv
  <1> QED
    BY <1>1, Invariance, PTL

\* SKIP LOCKED keeps any number of daemons off each other's jobs.
THEOREM NoSharedRuns == Spec => []ExclusiveExecution
  <1>1. IInv => ExclusiveExecution
    BY DEF IInv, Safety
  <1> QED
    BY <1>1, Invariance, PTL

\* A row marked completed was run, and no row is run more than MaxAttempts
\* times, however many stale failures are written over it.
THEOREM HonestCompletion == Spec => []CompletedHasEffects
  <1>1. IInv => CompletedHasEffects
    BY DEF IInv, Safety
  <1> QED
    BY <1>1, Invariance, PTL

\* Dead letters come with the last attempt only.
THEOREM NoEarlyBurial == Spec => []BuriedOnlyWhenExhausted
  <1>1. IInv => BuriedOnlyWhenExhausted
    BY DEF IInv, Safety
  <1> QED
    BY <1>1, Invariance, PTL

\* A job of an unknown type is buried exactly once, with its last attempt.
THEOREM UnknownBurial == Spec => []UnknownBuriedOnce
  <1>1. IInv => UnknownBuriedOnce
    BY DEF IInv, Safety
  <1> QED
    BY <1>1, Invariance, PTL

\* The documented dead-lettering of jobs whose handler always raises fails for
\* every max_attempts and any number of daemons, and not only because a failure
\* goes unrecorded: no such job has an attempt on record when fail_job looks.
THEOREM PoisonStaysPending == Spec => []PoisonStaysOpen
  <1>1. IInv => PoisonStaysOpen
    BY DEF IInv, Safety
  <1> QED
    BY <1>1, Invariance, PTL

\* An idempotency key names one row, and a call answered by it is not stranded.
THEOREM KeysAreUnique == Spec => []OneRowPerKey
  <1>1. IInv => OneRowPerKey
    BY DEF IInv, Safety
  <1> QED
    BY <1>1, Invariance, PTL

----------------------------------------------------------------------------
(* The queue implements the ledger *)

\* No failure is recorded, or there is but one daemon and its commits are
\* acknowledged.
Deployment ==
    \/ ~IdSurvives
    \/ ~LostAcks /\ \A v, w \in Workers : v = w

\* Then nobody else can touch the row between the rollback and the record of a
\* failure, so what the failing session reads is still true when it writes.
AloneInv ==
    /\ Deployment
    /\ \A w \in Workers :
          /\ IdSurvives /\ pc[w] \in {"raised", "failing"} =>
                row[cur[w]].status = "pending" /\ row[cur[w]].attempts < MaxAttempts
          /\ pc[w] = "failing" => IdSurvives /\ sess[w].loaded = row[cur[w]]

\* How the abstract state follows from a change of one row.
LEMMA LedgerWritten ==
    ASSUME NEW j \in Jobs, row \in [Jobs -> Row], row' \in [Jobs -> Row],
           \A k \in Jobs : k # j => row'[k] = row[k]
    PROVE  LedgerState' = [LedgerState EXCEPT ![j] = Standing(row'[j])]
  BY DEF LedgerState

LEMMA LedgerUntouched ==
    ASSUME UNCHANGED <<row, effects>>
    PROVE  UNCHANGED Ledger!ledgerVars
  BY DEF LedgerState, Ledger!ledgerVars

LEMMA AloneInit == Deployment /\ Init => AloneInv
  BY DEF Init, AloneInv

\* A failure that is recorded leaves the row as it was.
LEMMA AloneFailWrite ==
    ASSUME IInv, AloneInv, NEW d \in Workers, FailWrite(d)
    PROVE  row' = row
  <1>a. PICK j \in Jobs : j = cur[d]
    BY BusyWorker DEF FailWrite
  <1>b. PICK s \in Session : s = sess[d]
    BY BusyWorker DEF FailWrite
  <1>1. /\ row[j] \in Row /\ s.loaded = row[j] /\ s.row = FailedRow(row[j])
        /\ row[j].status = "pending" /\ row[j].attempts < MaxAttempts
        /\ row' = [row EXCEPT ![j] = Written(s, row[j])]
    BY <1>a, <1>b, BusyWorker DEF FailWrite, AloneInv, IInv, WorkerInv
  <1>2. FailedRow(row[j]) = row[j]
    BY <1>1, FailedRowType, MaxAttemptsAssumption DEF Row
  <1>3. Written(s, row[j]) = row[j]
    BY <1>1, <1>2 DEF Written, Row
  <1> QED
    BY <1>1, <1>3 DEF IInv, TypeOK

LEMMA AloneNext ==
    ASSUME IInv, AloneInv, [Next]_vars
    PROVE  AloneInv'
  <1>0. Deployment
    BY DEF AloneInv
  <1>1. ASSUME NEW j \in Jobs, Produce(j)
        PROVE  AloneInv'
    <2>1. CASE EnqueueLookup(j) \/ EnqueueRollback(j)
      BY <2>1 DEF EnqueueLookup, EnqueueRollback, AloneInv, Deployment
    <2>2. CASE EnqueueCommit(j)
      <3>1. row[j].status = "absent"
        BY <2>2 DEF EnqueueCommit, IInv, TypeOK, JobInv
      <3>2. \A d \in Workers : pc[d] \in {"raised", "failing"} => row'[cur[d]] = row[cur[d]]
        BY <2>2, <3>1, BusyWorker DEF EnqueueCommit, IInv, TypeOK, WorkerInv
      <3> QED
        BY <2>2, <3>2 DEF EnqueueCommit, AloneInv, Deployment
    <2> QED
      BY <1>1, <2>1, <2>2 DEF Produce
  <1>2. ASSUME NEW d \in Workers,
               Claim(d) \/ Crash(d) \/ Restart(d) \/ FailLost(d)
        PROVE  AloneInv'
    BY <1>2 DEF Claim, Crash, Restart, FailLost, EndSession, AloneInv, Deployment, IInv, TypeOK
  <1>3. ASSUME NEW d \in Workers, Raise(d)
        PROVE  AloneInv'
    BY <1>3 DEF Raise, EndSession, AloneInv, Deployment, IInv, TypeOK, WorkerInv
  <1>4. ASSUME NEW d \in Workers, FailRead(d)
        PROVE  AloneInv'
    BY <1>4 DEF FailRead, AloneInv, Deployment, IInv, TypeOK
  <1>5. ASSUME NEW d \in Workers,
               FailWrite(d) \/ FailUnknown(d) \/ Complete(d) \/ CompleteUnacknowledged(d)
        PROVE  AloneInv'
    <2>1. CASE ~IdSurvives
      BY <1>5, <2>1 DEF FailWrite, FailUnknown, Complete, CompleteUnacknowledged, Succeed,
                        EndSession, AloneInv, Deployment, IInv, TypeOK
    <2>2. CASE ~LostAcks /\ \A v, w \in Workers : v = w
      BY <1>5, <2>2 DEF FailWrite, FailUnknown, Complete, CompleteUnacknowledged, Succeed,
                        EndSession, AloneInv, Deployment, IInv, TypeOK
    <2> QED
      BY <1>0, <2>1, <2>2 DEF Deployment
  <1>6. CASE UNCHANGED vars
    BY <1>6 DEF vars, AloneInv, Deployment
  <1> QED
    BY <1>1, <1>2, <1>3, <1>4, <1>5, <1>6 DEF Next, Work, Dispatch

\* Each step of the queue is a step of the ledger or leaves it alone.
LEMMA SubmitMaps ==
    ASSUME IInv, NEW j \in Jobs, EnqueueCommit(j)
    PROVE  [Ledger!LedgerNext]_(Ledger!ledgerVars)
  <1>1. CASE UNCHANGED row
    BY <1>1, LedgerUntouched DEF EnqueueCommit
  <1>2. CASE row' = [row EXCEPT ![j].status = "pending"]
    <2>1. /\ row \in [Jobs -> Row] /\ row' \in [Jobs -> Row]
          /\ row[j].status = "absent" /\ row'[j].status = "pending"
          /\ \A k \in Jobs : k # j => row'[k] = row[k]
      BY <1>2 DEF EnqueueCommit, IInv, TypeOK, JobInv, Row, Statuses
    <2>2. LedgerState' = [LedgerState EXCEPT ![j] = "queued"]
      BY <2>1, LedgerWritten DEF Standing
    <2>3. LedgerState[j] = "absent"
      BY <2>1 DEF LedgerState, Standing
    <2>4. Ledger!Submit(j)
      BY <2>2, <2>3 DEF Ledger!Submit, EnqueueCommit
    <2> QED
      BY <2>4 DEF Ledger!LedgerNext
  <1> QED
    BY <1>1, <1>2 DEF EnqueueCommit

LEMMA SucceedMaps ==
    ASSUME IInv, NEW w \in Workers, NEW next \in {"idle", "raised"}, Succeed(w, next)
    PROVE  [Ledger!LedgerNext]_(Ledger!ledgerVars)
  <1>a. PICK j \in Jobs : j = cur[w]
    BY BusyWorker DEF Succeed
  <1>1. /\ row \in [Jobs -> Row] /\ row[j] \in Row /\ row[j].status = "pending"
        /\ sess[w] = [loaded |-> row[j], row |-> Leased(row[j])]
    BY <1>a, BusyWorker DEF Succeed, IInv, TypeOK, WorkerInv
  <1>2. PICK r : r = Written([sess[w] EXCEPT !.row = CompletedRow(sess[w].row)], row[j])
    OBVIOUS
  <1>3. r \in Row /\ r.status = "completed"
    BY <1>1, <1>2 DEF Written, CompletedRow, Leased, Row, Statuses
  <1>4. row' = [row EXCEPT ![j] = r] /\ effects' = [effects EXCEPT ![j] = @ + 1]
    BY <1>a, <1>2 DEF Succeed
  <1>5. /\ row' \in [Jobs -> Row] /\ row'[j].status = "completed"
        /\ \A k \in Jobs : k # j => row'[k] = row[k]
    BY <1>1, <1>3, <1>4
  <1>6. LedgerState' = [LedgerState EXCEPT ![j] = "done"]
    BY <1>1, <1>5, LedgerWritten DEF Standing
  <1>7. LedgerState[j] = "queued"
    BY <1>1 DEF LedgerState, Standing
  <1> QED
    BY <1>4, <1>6, <1>7 DEF Ledger!Perform, Ledger!LedgerNext

LEMMA FailUnknownMaps ==
    ASSUME IInv, NEW w \in Workers, FailUnknown(w)
    PROVE  [Ledger!LedgerNext]_(Ledger!ledgerVars)
  <1>a. PICK j \in Jobs : j = cur[w]
    BY BusyWorker DEF FailUnknown
  <1>1. /\ row \in [Jobs -> Row] /\ row[j] \in Row /\ row[j].status = "pending"
        /\ sess[w] = [loaded |-> row[j], row |-> Leased(row[j])]
    BY <1>a, BusyWorker DEF FailUnknown, IInv, TypeOK, WorkerInv
  <1>2. PICK r : r = Written([sess[w] EXCEPT !.row = FailedRow(sess[w].row)], row[j])
    OBVIOUS
  <1>3. r \in Row /\ r.status \in {"pending", "failed"}
    BY <1>1, <1>2, MaxAttemptsAssumption DEF Written, FailedRow, Leased, Row, Statuses
  <1>4. row' = [row EXCEPT ![j] = r] /\ UNCHANGED effects
    BY <1>a, <1>2 DEF FailUnknown
  <1>5. /\ row' \in [Jobs -> Row] /\ row'[j] = r
        /\ \A k \in Jobs : k # j => row'[k] = row[k]
    BY <1>1, <1>3, <1>4
  <1>6. LedgerState' = [LedgerState EXCEPT ![j] = Standing(r)]
    BY <1>1, <1>5, LedgerWritten
  <1>7. LedgerState[j] = "queued"
    BY <1>1 DEF LedgerState, Standing
  <1>8. CASE r.status = "pending"
    <2>1. LedgerState' = LedgerState
      BY <1>6, <1>7, <1>8 DEF Standing, LedgerState
    <2> QED
      BY <1>4, <2>1 DEF Ledger!ledgerVars
  <1>9. CASE r.status = "failed"
    <2>1. LedgerState' = [LedgerState EXCEPT ![j] = "dead"]
      BY <1>6, <1>9 DEF Standing
    <2> QED
      BY <1>4, <1>7, <2>1 DEF Ledger!Bury, Ledger!LedgerNext
  <1> QED
    BY <1>3, <1>8, <1>9

LEMMA AloneNextMaps ==
    ASSUME IInv, AloneInv, [Next]_vars
    PROVE  [Ledger!LedgerNext]_(Ledger!ledgerVars)
  <1>1. ASSUME NEW j \in Jobs, Produce(j)
        PROVE  [Ledger!LedgerNext]_(Ledger!ledgerVars)
    <2>1. CASE EnqueueLookup(j) \/ EnqueueRollback(j)
      BY <2>1, LedgerUntouched DEF EnqueueLookup, EnqueueRollback
    <2> QED
      BY <1>1, <2>1, SubmitMaps DEF Produce
  <1>2. ASSUME NEW d \in Workers,
               \/ Claim(d) \/ Raise(d) \/ FailRead(d)
               \/ FailLost(d) \/ Crash(d) \/ Restart(d)
        PROVE  [Ledger!LedgerNext]_(Ledger!ledgerVars)
    BY <1>2, LedgerUntouched DEF Claim, Raise, FailRead, FailLost, Crash, Restart
  <1>3. ASSUME NEW d \in Workers, FailWrite(d)
        PROVE  [Ledger!LedgerNext]_(Ledger!ledgerVars)
    BY <1>3, AloneFailWrite, LedgerUntouched DEF FailWrite
  <1>4. ASSUME NEW d \in Workers,
               Complete(d) \/ CompleteUnacknowledged(d) \/ FailUnknown(d)
        PROVE  [Ledger!LedgerNext]_(Ledger!ledgerVars)
    BY <1>4, SucceedMaps, FailUnknownMaps DEF Complete, CompleteUnacknowledged
  <1>5. CASE UNCHANGED vars
    BY <1>5, LedgerUntouched DEF vars
  <1> QED
    BY <1>1, <1>2, <1>3, <1>4, <1>5 DEF Next, Work, Dispatch

LEMMA InitMaps == Init => Ledger!LedgerInit
  BY DEF Init, Ledger!LedgerInit, LedgerState, Standing, Absent

\* Where no failure is recorded, as deployed (any number of daemons, lost
\* acknowledgements), and for a single daemon whose commits are acknowledged,
\* the queue implements the ledger: no job has its effects twice, and a job
\* that is completed or failed stays so, through crashes and rollbacks.
THEOREM QueueImplementsLedger == Deployment => (Spec => ImplementsLedger)
  <1>1. Deployment /\ Init => AloneInv /\ Ledger!LedgerInit
    BY AloneInit, InitMaps
  <1>2. IInv /\ AloneInv /\ [Next]_vars => AloneInv'
    BY AloneNext
  <1>3. IInv /\ AloneInv /\ [Next]_vars => [Ledger!LedgerNext]_(Ledger!ledgerVars)
    BY AloneNextMaps
  <1> QED
    BY <1>1, <1>2, <1>3, Invariance, PTL DEF Spec, ImplementsLedger, Ledger!LedgerSpec
=============================================================================
