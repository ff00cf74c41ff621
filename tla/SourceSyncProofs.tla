-------------------------- MODULE SourceSyncProofs --------------------------
(***************************************************************************)
(* Proofs about SourceSync, for any number of daemons, files and changes.  *)
(* IInv is the inductive invariant: what a sync has read and not yet       *)
(* committed is in its hands, so that the cursor may move past it.         *)
(***************************************************************************)
EXTENDS SourceSync, TLAPS

USE DEF feed, store, session

LEMMA InitInv == Init => IInv
  BY NoCursorAssumption, MaxChangesAssumption, NoJobAssumption
  DEF Init, IInv, TypeOK, FeedInv, WatchInv, NoRemovalSkipped, Handled, Deactivation,
      PhaseInv, ReadInv, Syncing, Cursor, Job

(* What does not concern the jobs leaves it handled what is handled. *)

LEMMA HandledSame ==
    ASSUME UNCHANGED <<deactivated, open, cur>>, NEW f
    PROVE  Handled(f)' <=> Handled(f)
  BY DEF Handled, Deactivation

\* When a transaction ends, a deactivation is still handled if its job waits
\* again or its document is deactivated, and handled are those it leaves waiting.
LEMMA HandledAtEnd ==
    ASSUME TypeOK, NEW w \in Workers, NEW waiting, End(w, waiting),
           deactivated \subseteq deactivated',
           cur[w] \in waiting \/ \A g \in Files : cur[w] = Deactivation(g) => g \in deactivated',
           NEW f \in Files
    PROVE  /\ Handled(f) => Handled(f)'
           /\ Deactivation(f) \in waiting => Handled(f)'
           /\ Handled(f)' => \/ Handled(f) \/ f \in deactivated'
                             \/ Deactivation(f) \in waiting
  <1>0. /\ open' = open \cup waiting
        /\ cur' = [cur EXCEPT ![w] = NoJob]
        /\ cur \in [Workers -> Job \cup {NoJob}]
        /\ Deactivation(f) # NoJob
    BY NoJobAssumption DEF End, TypeOK, Deactivation, Job
  <1>1. Handled(f) => Handled(f)'
    BY <1>0 DEF Handled, Deactivation
  <1>2. Deactivation(f) \in waiting => Handled(f)'
    BY <1>0 DEF Handled, Deactivation
  <1>3. ASSUME Handled(f)'
        PROVE  Handled(f) \/ f \in deactivated' \/ Deactivation(f) \in waiting
    BY <1>0, <1>3 DEF Handled, Deactivation
  <1> QED
    BY <1>1, <1>2, <1>3

LEMMA EndType ==
    ASSUME TypeOK, NEW w \in Workers, NEW waiting \in SUBSET Job, End(w, waiting)
    PROVE  /\ open' \subseteq Job
           /\ pc' \in [Workers -> {"idle", "claimed", "fetching", "fetched", "saving",
                                   "saved", "ready"}]
           /\ cur' \in [Workers -> Job \cup {NoJob}]
           /\ loaded' \in [Workers -> Cursor]
           /\ token' \in [Workers -> Cursor]
           /\ buf' \in [Workers -> SUBSET Files]
  BY DEF TypeOK, End, Cursor

\* A worker whose transaction has ended syncs nothing; the others are as before.
LEMMA SessionsAtEnd ==
    ASSUME TypeOK, NEW w \in Workers, NEW waiting, End(w, waiting), NEW v \in Workers
    PROVE  /\ v = w => pc'[v] = "idle" /\ cur'[v] = NoJob /\ token'[v] = NoCursor
           /\ v # w => /\ pc'[v] = pc[v] /\ cur'[v] = cur[v] /\ loaded'[v] = loaded[v]
                       /\ token'[v] = token[v] /\ buf'[v] = buf[v]
  BY DEF TypeOK, End

----------------------------------------------------------------------------
(* The environment *)

\* A file that becomes watched has a position that no token and no cursor has
\* passed.
LEMMA ChangeStep ==
    ASSUME IInv, NEW f \in Files, Change(f)
    PROVE  IInv'
  <1> USE NoCursorAssumption, MaxChangesAssumption
  <1>0. /\ now' = now + 1 /\ now \in Nat /\ now < MaxChanges
        /\ changed' = [changed EXCEPT ![f] = now + 1]
        /\ there' \in {there \cup {f}, there \ {f}}
        /\ watched' = (watched \cup (Watched \cap there \cap {f})) \ there'
        /\ changed \in [Files -> Nat]
        /\ UNCHANGED <<store, open, session>>
    BY DEF Change, IInv, TypeOK
  <1>1. TypeOK'
    BY <1>0 DEF IInv, TypeOK, Watched
  <1>2. \A g : Handled(g)' <=> Handled(g)
    BY <1>0, HandledSame
  <1>3. FeedInv'
    <2>1. cursor # NoCursor => cursor \in Nat
      BY DEF IInv, TypeOK, Cursor
    <2>2. \A w \in Workers : token[w] # NoCursor => token[w] \in Nat
      BY DEF IInv, TypeOK, Cursor
    <2> QED
      BY <1>0, <1>2, <2>1, <2>2 DEF IInv, FeedInv
  <1>4. \A g \in watched' : (g \in watched /\ changed'[g] = changed[g]) \/ changed'[g] = now + 1
    BY <1>0 DEF IInv, WatchInv, Watched, TypeOK
  <1>5. WatchInv'
    <2>1. (watched \subseteq known \ there)'
      BY <1>0 DEF IInv, WatchInv, Watched
    <2>2. (watched # {} =>
             cursor # NoCursor /\ \A w \in Workers : pc[w] = "fetching" => token[w] # NoCursor)'
      BY <1>0 DEF IInv, WatchInv, Watched
    <2>3. NoRemovalSkipped'
      <3> SUFFICES ASSUME NEW g \in watched', changed'[g] < cursor'
                   PROVE  Handled(g)'
        BY DEF NoRemovalSkipped
      <3>1. cursor # NoCursor /\ cursor' = cursor /\ cursor \in Nat /\ cursor <= now + 1
        BY <1>0, <2>2 DEF IInv, FeedInv, TypeOK, Cursor
      <3>2. g \in watched /\ changed'[g] = changed[g]
        BY <1>0, <1>4, <3>1
      <3> QED
        BY <1>2, <3>1, <3>2 DEF IInv, WatchInv, NoRemovalSkipped
    <2> QED
      BY <2>1, <2>2, <2>3 DEF WatchInv
  <1>6. ASSUME NEW w \in Workers
        PROVE  PhaseInv(w)' /\ ReadInv(w)'
    <2>1. PhaseInv(w)'
      BY <1>0 DEF IInv, PhaseInv, Syncing
    <2>2. ReadInv(w)'
      <3> SUFFICES ASSUME Syncing(w), token[w] # NoCursor,
                          NEW g \in watched', changed'[g] < token[w]
                   PROVE  g \in buf[w] \/ Handled(g)'
        BY <1>0 DEF ReadInv, Syncing
      <3>1. token[w] \in Nat /\ token[w] <= now + 1
        BY DEF IInv, FeedInv, TypeOK, Cursor
      <3>2. g \in watched /\ changed'[g] = changed[g]
        BY <1>0, <1>4, <3>1
      <3> QED
        BY <1>2, <3>2 DEF IInv, ReadInv
    <2> QED
      BY <2>1, <2>2
  <1> QED
    BY <1>0, <1>1, <1>3, <1>5, <1>6 DEF IInv

LEMMA RequestStep ==
    ASSUME IInv, NEW kind \in {"scan", "sync"}, Request(kind)
    PROVE  IInv'
  <1>0. /\ open' = open \cup {Asked(kind)}
        /\ UNCHANGED <<feed, store, watched, session>>
    BY DEF Request
  <1>1. TypeOK'
    BY <1>0 DEF IInv, TypeOK, Asked, Job
  <1>2. \A f : Handled(f)' <=> Handled(f)
    BY <1>0 DEF Handled, Deactivation, Asked
  <1>3. FeedInv'
    BY <1>0, <1>2 DEF IInv, FeedInv
  <1>4. WatchInv'
    BY <1>0, <1>2 DEF IInv, WatchInv, NoRemovalSkipped
  <1>5. \A w \in Workers : PhaseInv(w)' /\ ReadInv(w)'
    BY <1>0, <1>2 DEF IInv, PhaseInv, ReadInv, Syncing
  <1> QED
    BY <1>0, <1>1, <1>3, <1>4, <1>5 DEF IInv

----------------------------------------------------------------------------
(* The worker daemons: steps inside a transaction *)

\* Such a step changes the session of one worker only.
LEMMA SessionStep ==
    ASSUME IInv, TypeOK', NEW w \in Workers,
           UNCHANGED <<feed, store, watched, open, cur>>,
           \A v \in Workers \ {w} :
              /\ pc'[v] = pc[v] /\ loaded'[v] = loaded[v]
              /\ token'[v] = token[v] /\ buf'[v] = buf[v],
           PhaseInv(w)', ReadInv(w)',
           token'[w] # NoCursor => token'[w] <= now + 1,
           watched # {} /\ pc'[w] = "fetching" => token'[w] # NoCursor
    PROVE  IInv'
  <1>1. \A f : Handled(f)' <=> Handled(f)
    BY HandledSame
  <1>2. FeedInv'
    BY <1>1 DEF IInv, FeedInv
  <1>3. WatchInv'
    BY <1>1 DEF IInv, WatchInv, NoRemovalSkipped
  <1>4. \A v \in Workers : PhaseInv(v)' /\ ReadInv(v)'
    BY <1>1 DEF IInv, PhaseInv, ReadInv, Syncing
  <1> QED
    BY <1>2, <1>3, <1>4 DEF IInv

LEMMA ScanStep ==
    ASSUME IInv, NEW w \in Workers, Scan(w)
    PROVE  IInv'
  <1> USE DEF Scan
  <1>1. TypeOK'
    BY DEF IInv, TypeOK
  <1>2. PhaseInv(w)' /\ ReadInv(w)'
    BY NoJobAssumption DEF IInv, TypeOK, PhaseInv, ReadInv, Syncing, Job
  <1> QED
    BY <1>1, <1>2, SessionStep DEF IInv, TypeOK, FeedInv

\* The cursor has nothing behind it that is not handled.
LEMMA ReadCursorStep ==
    ASSUME IInv, NEW w \in Workers, ReadCursor(w)
    PROVE  IInv'
  <1> USE DEF ReadCursor
  <1>1. TypeOK'
    BY DEF IInv, TypeOK
  <1>2. \A f : Handled(f)' <=> Handled(f)
    BY HandledSame
  <1>3. PhaseInv(w)'
    BY NoJobAssumption DEF IInv, TypeOK, PhaseInv, Syncing, Job
  <1>4. ReadInv(w)'
    BY <1>2 DEF IInv, TypeOK, ReadInv, Syncing, WatchInv, NoRemovalSkipped
  <1>5. /\ token'[w] # NoCursor => token'[w] <= now + 1
        /\ watched # {} /\ pc'[w] = "fetching" => token'[w] # NoCursor
    BY DEF IInv, TypeOK, FeedInv, WatchInv
  <1> QED
    BY <1>1, <1>3, <1>4, <1>5, SessionStep DEF IInv, TypeOK

\* Nothing is watched while a sync is about to take its start token.
LEMMA StartTokenStep ==
    ASSUME IInv, NEW w \in Workers, StartToken(w)
    PROVE  IInv'
  <1> USE NoCursorAssumption, MaxChangesAssumption DEF StartToken, NextStart
  <1>1. TypeOK'
    BY DEF IInv, TypeOK, Cursor
  <1>2. watched = {}
    BY DEF IInv, WatchInv
  <1>3. PhaseInv(w)' /\ ReadInv(w)'
    BY <1>2 DEF IInv, TypeOK, PhaseInv, ReadInv, Syncing
  <1>4. token'[w] = now + 1 /\ now \in Nat
    BY DEF IInv, TypeOK
  <1> QED
    BY <1>1, <1>2, <1>3, <1>4, SessionStep DEF IInv, TypeOK

\* The page takes up all that lies between the old token and the new one.
LEMMA FetchPageStep ==
    ASSUME IInv, NEW w \in Workers, FetchPage(w)
    PROVE  IInv'
  <1> USE NoCursorAssumption, MaxChangesAssumption
  <1> DEFINE rest == {f \in Files : changed[f] >= token[w]}
             page == {f \in rest : \A g \in rest : changed[f] <= changed[g]}
  <1>0. /\ pc[w] = "fetching" /\ token[w] # NoCursor
        /\ buf' = [buf EXCEPT ![w] = buf[w] \cup (page \ there)]
        /\ \/ /\ \E f \in page : token' = [token EXCEPT ![w] = changed[f] + 1]
              /\ pc' = pc
           \/ /\ rest = page
              /\ token' = [token EXCEPT ![w] = now + 1]
              /\ pc' = [pc EXCEPT ![w] = "fetched"]
        /\ UNCHANGED <<feed, store, watched, open, cur, loaded>>
    BY DEF FetchPage, Gathered, Removals, NextStart
  <1>1. /\ pc \in [Workers -> {"idle", "claimed", "fetching", "fetched", "saving",
                              "saved", "ready"}]
        /\ token \in [Workers -> Cursor] /\ buf \in [Workers -> SUBSET Files]
        /\ cur[w].kind = "sync"
        /\ now \in Nat /\ now <= MaxChanges
        /\ changed \in [Files -> Nat] /\ \A f \in Files : changed[f] <= now
        /\ token[w] \in Nat /\ token[w] >= 1
    BY <1>0 DEF IInv, TypeOK, PhaseInv, Cursor
  <1>2. \A f : Handled(f)' <=> Handled(f)
    BY <1>0, HandledSame
  <1>3. /\ token'[w] \in Nat /\ 1 <= token'[w] /\ token'[w] <= now + 1
        /\ buf'[w] = buf[w] \cup (page \ there)
        /\ pc'[w] \in {"fetching", "fetched"}
        /\ \A f \in Files : changed[f] < token'[w] /\ changed[f] >= token[w] => f \in page
    <2> HIDE DEF page, rest
    <2>1. page \subseteq Files
      BY DEF page, rest
    <2>2. /\ token'[w] \in Nat /\ 1 <= token'[w] /\ token'[w] <= now + 1
          /\ buf'[w] = buf[w] \cup (page \ there)
          /\ pc'[w] \in {"fetching", "fetched"}
      BY <1>0, <1>1, <2>1
    <2>3. CASE rest = page
      BY <1>1, <2>2, <2>3 DEF rest
    <2>4. CASE \E f \in page : token' = [token EXCEPT ![w] = changed[f] + 1]
      <3>1. PICK f \in page : token' = [token EXCEPT ![w] = changed[f] + 1]
        BY <2>4
      <3>2. token'[w] = changed[f] + 1 /\ changed[f] \in Nat
        BY <1>1, <2>1, <3>1
      <3>3. \A g \in rest : changed[f] <= changed[g]
        BY <3>1 DEF page
      <3> QED
        BY <1>1, <2>2, <3>2, <3>3 DEF page, rest
    <2> QED
      BY <1>0, <2>2, <2>3, <2>4
  <1>4. TypeOK'
    <2>1. token'[w] \in Cursor /\ token' \in [Workers -> Cursor]
      BY <1>0, <1>1, <1>3 DEF Cursor
    <2> QED
      BY <1>0, <1>1, <2>1 DEF IInv, TypeOK
  <1>5. PhaseInv(w)'
    BY <1>0, <1>1, <1>3 DEF IInv, PhaseInv, Syncing
  <1>6. ReadInv(w)'
    <2> SUFFICES ASSUME NEW f \in watched, changed[f] < token'[w]
                 PROVE  f \in buf'[w] \/ Handled(f)
      BY <1>0, <1>2 DEF ReadInv, Syncing
    <2>1. f \in Files /\ f \notin there
      BY DEF IInv, TypeOK, WatchInv
    <2>2. CASE changed[f] < token[w]
      BY <1>0, <1>1, <1>3, <2>2 DEF IInv, ReadInv, Syncing
    <2>3. CASE changed[f] >= token[w]
      BY <1>3, <2>1, <2>3
    <2> QED
      BY <1>1, <2>1, <2>2, <2>3
  <1>7. \A v \in Workers \ {w} :
           /\ pc'[v] = pc[v] /\ loaded'[v] = loaded[v]
           /\ token'[v] = token[v] /\ buf'[v] = buf[v]
    BY <1>0, <1>1
  <1>8. token'[w] # NoCursor
    BY <1>3
  <1> HIDE DEF page, rest
  <1> QED
    BY <1>0, <1>3, <1>4, <1>5, <1>6, <1>7, <1>8, SessionStep

LEMMA RereadStep ==
    ASSUME IInv, NEW w \in Workers, RereadCursor(w)
    PROVE  IInv'
  <1> USE DEF RereadCursor
  <1>1. TypeOK'
    BY DEF IInv, TypeOK
  <1>2. \A f : Handled(f)' <=> Handled(f)
    BY HandledSame
  <1>3. PhaseInv(w)' /\ ReadInv(w)'
    BY <1>2 DEF IInv, TypeOK, PhaseInv, ReadInv, Syncing
  <1> QED
    BY <1>1, <1>3, SessionStep DEF IInv, TypeOK, FeedInv

LEMMA FlushStep ==
    ASSUME IInv, NEW w \in Workers, FlushCursor(w)
    PROVE  IInv'
  <1> USE DEF FlushCursor
  <1>1. TypeOK'
    BY DEF IInv, TypeOK
  <1>2. \A f : Handled(f)' <=> Handled(f)
    BY HandledSame
  <1>3. PhaseInv(w)' /\ ReadInv(w)'
    BY <1>2 DEF IInv, TypeOK, PhaseInv, ReadInv, Syncing
  <1> QED
    BY <1>1, <1>3, SessionStep DEF IInv, TypeOK, FeedInv

\* What ReadDocuments drops is deactivated, since what is watched is known.
LEMMA ReadDocumentsStep ==
    ASSUME IInv, NEW w \in Workers, ReadDocuments(w)
    PROVE  IInv'
  <1> USE DEF ReadDocuments
  <1>1. TypeOK'
    BY DEF IInv, TypeOK
  <1>2. \A f : Handled(f)' <=> Handled(f)
    BY HandledSame
  <1>3. PhaseInv(w)'
    BY DEF IInv, TypeOK, PhaseInv, Syncing
  <1>4. ReadInv(w)'
    BY <1>2 DEF IInv, TypeOK, ReadInv, Syncing, PhaseInv, WatchInv, Handled
  <1> QED
    BY <1>1, <1>3, <1>4, SessionStep DEF IInv, TypeOK, FeedInv

----------------------------------------------------------------------------
(* The worker daemons: the beginning and the end of a transaction *)

LEMMA ClaimStep ==
    ASSUME IInv, NEW w \in Workers, NEW j \in Job, Claim(w, j)
    PROVE  IInv'
  <1>0. /\ pc[w] = "idle" /\ cur[w] = NoJob /\ j \in open /\ j # NoJob
        /\ open' = open \ {j}
        /\ cur' = [cur EXCEPT ![w] = j]
        /\ pc' = [pc EXCEPT ![w] = "claimed"]
        /\ UNCHANGED <<feed, store, watched, loaded, token, buf>>
        /\ cur \in [Workers -> Job \cup {NoJob}]
    BY NoJobAssumption DEF Claim, IInv, TypeOK, PhaseInv
  <1>1. TypeOK'
    BY <1>0 DEF IInv, TypeOK
  <1>2. \A f \in Files : Handled(f)' <=> Handled(f)
    <2> TAKE f \in Files
    <2>1. Deactivation(f) # NoJob
      BY NoJobAssumption DEF Deactivation, Job
    <2>2. Handled(f) => Handled(f)'
      BY <1>0, <2>1 DEF Handled, Deactivation
    <2>3. Handled(f)' => Handled(f)
      BY <1>0, <2>1 DEF Handled, Deactivation
    <2> QED
      BY <2>2, <2>3
  <1>3. FeedInv'
    BY <1>0, <1>2 DEF IInv, FeedInv
  <1>4. WatchInv'
    BY <1>0, <1>2 DEF IInv, TypeOK, WatchInv, NoRemovalSkipped
  <1>5. \A v \in Workers : PhaseInv(v)' /\ ReadInv(v)'
    BY <1>0, <1>2 DEF IInv, TypeOK, PhaseInv, ReadInv, Syncing
  <1> QED
    BY <1>0, <1>1, <1>3, <1>4, <1>5 DEF IInv

\* The end of a transaction keeps IInv if it has done or left waiting the
\* deactivation it was for, and has handled what it moves the cursor past.
LEMMA EndStep ==
    ASSUME IInv, NEW w \in Workers, NEW waiting \in SUBSET Job, End(w, waiting),
           UNCHANGED <<feed, watched>>,
           known \subseteq known', known' \subseteq Files,
           deactivated \subseteq deactivated', deactivated' \subseteq known',
           cursor' \in Cursor,
           cursor # NoCursor => cursor' # NoCursor,
           cursor' # NoCursor => cursor' <= now + 1,
           cur[w] \in waiting \/ \A g \in Files : cur[w] = Deactivation(g) => g \in deactivated',
           \A f \in Files : Deactivation(f) \in waiting => f \in known',
           \A f \in watched : changed[f] < cursor' =>
              Handled(f) \/ Deactivation(f) \in waiting
    PROVE  IInv'
  <1>0. TypeOK
    BY DEF IInv
  <1>1. \A f \in Files : /\ Handled(f) => Handled(f)'
                         /\ Deactivation(f) \in waiting => Handled(f)'
                         /\ Handled(f)' => \/ Handled(f) \/ f \in deactivated'
                                           \/ Deactivation(f) \in waiting
    BY <1>0, HandledAtEnd
  <1>2. \A v \in Workers :
           /\ v = w => pc'[v] = "idle" /\ cur'[v] = NoJob /\ token'[v] = NoCursor
           /\ v # w => /\ pc'[v] = pc[v] /\ cur'[v] = cur[v] /\ loaded'[v] = loaded[v]
                       /\ token'[v] = token[v] /\ buf'[v] = buf[v]
    BY <1>0, SessionsAtEnd
  <1>3. TypeOK'
    BY <1>0, EndType DEF TypeOK
  <1>4. FeedInv'
    <2>1. ASSUME NEW f \in Files, Handled(f)'
          PROVE  f \in known'
      <3>1. Handled(f) \/ f \in deactivated' \/ Deactivation(f) \in waiting
        BY <1>1, <2>1
      <3>2. Handled(f) => f \in known
        BY DEF IInv, FeedInv
      <3> QED
        BY <3>1, <3>2
    <2>2. \A v \in Workers : token'[v] # NoCursor => token'[v] <= now + 1
      BY <1>2 DEF IInv, FeedInv
    <2> QED
      BY <2>1, <2>2 DEF FeedInv
  <1>5. WatchInv'
    <2>1. watched \subseteq Files
      BY <1>0 DEF TypeOK
    <2>2. NoRemovalSkipped'
      <3> SUFFICES ASSUME NEW f \in watched, changed[f] < cursor'
                   PROVE  Handled(f)'
        BY DEF NoRemovalSkipped
      <3>1. Handled(f) \/ Deactivation(f) \in waiting
        OBVIOUS
      <3>2. f \in Files
        BY <2>1
      <3> QED
        BY <1>1, <3>1, <3>2
    <2> QED
      BY <1>2, <2>2 DEF IInv, WatchInv
  <1>6. ASSUME NEW v \in Workers
        PROVE  PhaseInv(v)' /\ ReadInv(v)'
    <2>1. CASE v = w
      BY <1>2, <2>1 DEF PhaseInv, ReadInv, Syncing
    <2>2. CASE v # w
      <3>1. PhaseInv(v)'
        BY <1>2, <2>2 DEF IInv, PhaseInv, Syncing
      <3>2. ReadInv(v)'
        BY <1>0, <1>1, <1>2, <2>2 DEF IInv, TypeOK, ReadInv, Syncing
      <3> QED
        BY <3>1, <3>2
    <2> QED
      BY <2>1, <2>2
  <1> QED
    BY <1>3, <1>4, <1>5, <1>6 DEF IInv

\* A rollback leaves the job waiting again and nothing else changed.
LEMMA RollbackStep ==
    ASSUME IInv, NEW w \in Workers, pc[w] # "idle", End(w, {cur[w]}),
           UNCHANGED <<feed, store, watched>>
    PROVE  IInv'
  <1>1. cur[w] \in Job
    BY DEF IInv, TypeOK, PhaseInv
  <1>2. \A f \in Files : Deactivation(f) \in {cur[w]} => f \in known
    BY DEF IInv, FeedInv, Handled
  <1>3. \A f \in watched : changed[f] < cursor' => Handled(f)
    BY DEF IInv, WatchInv, NoRemovalSkipped
  <1> QED
    BY <1>1, <1>2, <1>3, EndStep DEF IInv, TypeOK, FeedInv

LEMMA FaultStep ==
    ASSUME IInv, NEW w \in Workers, Abort(w) \/ CursorConflict(w)
    PROVE  IInv'
  <1>1. pc[w] # "idle" /\ End(w, {cur[w]}) /\ UNCHANGED <<feed, store, watched>>
    BY DEF Abort, CursorConflict, Rollback
  <1> QED
    BY <1>1, RollbackStep

LEMMA CommitScanStep ==
    ASSUME IInv, NEW w \in Workers, CommitScan(w)
    PROVE  IInv'
  <1> USE DEF CommitScan, Persisted, Succeed
  <1>1. \A f \in watched : changed[f] < cursor' => Handled(f)
    BY DEF IInv, WatchInv, NoRemovalSkipped
  <1>2. \A g \in Files : cur[w] # Deactivation(g)
    BY DEF Deactivation
  <1>3. /\ known \subseteq known' /\ known' \subseteq Files
        /\ deactivated' = deactivated /\ deactivated \subseteq known
        /\ cursor' = cursor /\ cursor \in Cursor
        /\ cursor # NoCursor => cursor <= now + 1
    BY DEF IInv, TypeOK, FeedInv
  <1> QED
    BY <1>1, <1>2, <1>3, EndStep

\* The cursor moves past what is handled, and what the new jobs will handle.
LEMMA CommitSyncStep ==
    ASSUME IInv, NEW w \in Workers, CommitSync(w)
    PROVE  IInv'
  <1> USE DEF CommitSync, Succeed
  <1>1. Syncing(w) /\ token[w] # NoCursor /\ buf[w] \subseteq known
    BY DEF IInv, PhaseInv, Syncing
  <1>2. Deactivations(w) \subseteq Job
    BY DEF IInv, TypeOK, Deactivations, Job
  <1>3. /\ cursor' \in {token[w], cursor}
        /\ cursor' \in Cursor
        /\ cursor # NoCursor => cursor' # NoCursor
        /\ cursor' # NoCursor => cursor' <= now + 1
    BY <1>1 DEF IInv, TypeOK, FeedInv, Written
  <1>4. \A f \in watched : changed[f] < cursor' => Handled(f) \/ Deactivation(f) \in Deactivations(w)
    <2> SUFFICES ASSUME NEW f \in watched, changed[f] < cursor', ~Handled(f)
                 PROVE  f \in buf[w]
      BY DEF Deactivations, Deactivation
    <2>1. cursor' = token[w]
      BY <1>3 DEF IInv, WatchInv, NoRemovalSkipped
    <2> QED
      BY <1>1, <2>1 DEF IInv, ReadInv
  <1>5. \A f \in Files : Deactivation(f) \in Deactivations(w) => f \in known
    BY <1>1 DEF Deactivations, Deactivation
  <1>6. \A g \in Files : cur[w] # Deactivation(g)
    BY DEF Deactivation
  <1>7. /\ known' = known /\ known \subseteq Files
        /\ deactivated' = deactivated /\ deactivated \subseteq known
    BY DEF IInv, TypeOK
  <1> QED
    BY <1>2, <1>3, <1>4, <1>5, <1>6, <1>7, EndStep

LEMMA DeactivateStep ==
    ASSUME IInv, NEW w \in Workers, Deactivate(w)
    PROVE  IInv'
  <1> USE DEF Deactivate
  <1>1. cur[w] \in Job
    BY DEF IInv, TypeOK, PhaseInv
  <1>2. cur[w].file \in Files /\ cur[w] = Deactivation(cur[w].file)
    BY <1>1 DEF Job, Deactivation
  <1>3. cur[w].file \in known
    BY <1>2 DEF IInv, FeedInv, Handled
  <1>4. \A g \in Files : cur[w] = Deactivation(g) => g \in deactivated'
    BY DEF Deactivation
  <1>5. \A f \in watched : changed[f] < cursor' => Handled(f)
    BY DEF IInv, WatchInv, NoRemovalSkipped
  <1>6. /\ known' = known /\ known \subseteq Files
        /\ deactivated \subseteq deactivated' /\ deactivated' \subseteq known
        /\ cursor' = cursor /\ cursor \in Cursor
        /\ cursor # NoCursor => cursor <= now + 1
    BY <1>3 DEF IInv, TypeOK, FeedInv
  <1> QED
    BY <1>4, <1>5, <1>6, EndStep

----------------------------------------------------------------------------
(* The theorems *)

LEMMA HandleStep ==
    ASSUME IInv, NEW w \in Workers, Handle(w)
    PROVE  IInv'
  BY ScanStep, CommitScanStep, ReadCursorStep, StartTokenStep, FetchPageStep, RereadStep,
     FlushStep, FaultStep, ReadDocumentsStep, CommitSyncStep, DeactivateStep
  DEF Handle

LEMMA NextInv == IInv /\ [Next]_vars => IInv'
  <1> SUFFICES ASSUME IInv, [Next]_vars
               PROVE  IInv'
    OBVIOUS
  <1>1. ASSUME NEW f \in Files, Change(f)
        PROVE  IInv'
    BY <1>1, ChangeStep
  <1>2. ASSUME NEW kind \in {"scan", "sync"}, Request(kind)
        PROVE  IInv'
    BY <1>2, RequestStep
  <1>3. ASSUME NEW w \in Workers, NEW j \in Job, Claim(w, j)
        PROVE  IInv'
    BY <1>3, ClaimStep
  <1>4. ASSUME NEW w \in Workers, Handle(w) \/ Abort(w)
        PROVE  IInv'
    BY <1>4, HandleStep, FaultStep
  <1>5. CASE UNCHANGED vars
    <2> USE <1>5 DEF vars
    <2>1. \A f : Handled(f)' <=> Handled(f)
      BY HandledSame
    <2>2. TypeOK' /\ FeedInv' /\ WatchInv'
      BY <2>1 DEF IInv, TypeOK, FeedInv, WatchInv, NoRemovalSkipped
    <2>3. \A w \in Workers : PhaseInv(w)' /\ ReadInv(w)'
      BY <2>1 DEF IInv, PhaseInv, ReadInv, Syncing
    <2> QED
      BY <2>2, <2>3 DEF IInv
  <1> QED
    BY <1>1, <1>2, <1>3, <1>4, <1>5 DEF Next

\* run_scan, run_sync, save_provider_cursor under any interleaving, rollback
\* and crash: the inductive invariant.
THEOREM SyncInvariance == Spec => []IInv
  <1>1. Init => IInv
    BY InitInv
  <1>2. IInv /\ [Next]_vars => IInv'
    BY NextInv
  <1> QED
    BY <1>1, <1>2, PTL DEF Spec

\* Every variable keeps its type.
THEOREM SyncTypes == Spec => []TypeOK
  <1>1. IInv => TypeOK
    BY DEF IInv
  <1> QED
    BY <1>1, SyncInvariance, PTL

\* run_sync and save_provider_cursor: the cursor never stands behind the
\* removal of a watched file that is not handled, for any number of daemons.
THEOREM NoRemovalLost == Spec => []NoRemovalSkipped
  <1>1. IInv => NoRemovalSkipped
    BY DEF IInv, WatchInv
  <1> QED
    BY <1>1, SyncInvariance, PTL
=============================================================================
