---------------------------- MODULE MemoryReview ----------------------------
(***************************************************************************)
(* The typed memories and their review (rekanvault/storage/memory_repo.py, *)
(* rekanvault/memory/lifecycle.py, and the routers direct_write.py and     *)
(* memory_review.py).                                                      *)
(*                                                                         *)
(* A memory is a row with a review status, bindings to the chunks it is    *)
(* evidenced by, and a trail of review entries.  Requests and the          *)
(* reconciler of evidence run in sessions of their own: a session reads    *)
(* what is committed (READ COMMITTED), decides on what it has read, holds  *)
(* the rows it has changed until it ends, and publishes its changes when   *)
(* it commits.  No read takes a lock.                                      *)
(***************************************************************************)
EXTENDS Naturals, Sequences, FiniteSets

CONSTANTS
    Memories,       \* the rows there may ever be
    Chunks,         \* the chunks of the document that evidence them
    Reviewers,      \* the sessions of API requests
    Evictors,       \* the sessions of the evidence reconciler
    Classes,        \* what memories may be, see Class
    Unborn,         \* there is no such row
    MaxRequests     \* bound: requests and evictions that are started

Class == [type : {"Decision", "Idea"}, impact : {"HIGH", "LOW"}, sure : BOOLEAN]
Statuses == {"pending_review", "approved", "disputed", "rejected", "deferred", "unsupported"}

ASSUME ClassAssumption == Classes \subseteq Class
ASSUME UnbornAssumption ==
    Unborn \notin [class : Classes, status : Statuses, anchored : BOOLEAN]
ASSUME SessionAssumption == Reviewers \cap Evictors = {}
ASSUME RequestAssumption == MaxRequests \in Nat

VARIABLES
    memory,         \* memory[m]: the committed row of m, or Unborn
    evidence,       \* evidence[m]: the chunks m has a binding to
    trail,          \* trail[m]: the actions of the review entries of m
    sess,           \* sess[s]: the transaction session s has open
    requests        \* how many requests and evictions have been started

reviewVars == <<memory, evidence, trail, sess, requests>>

Sessions == Reviewers \cup Evictors
Bindings == Memories \X Chunks
Actions == {"approve", "reject", "dispute", "defer", "correct", "bulk_invalidate",
            "unsupported"}
Entries == Actions \cup {"submit"}
Row == [class : Classes, status : Statuses, anchored : BOOLEAN]
Write == [m : Memories, seen : Statuses, to : Statuses]

\* The change of status a session has flushed for memory m (seen is what it had read),
\* the memories it has still to do, the bindings it has still to delete, and the ones
\* it has deleted.
Idle == [phase |-> "idle", action |-> "approve", todo |-> <<>>, seen |-> "approved",
         writes |-> <<>>, left |-> {}, dels |-> {}]
Session == [phase : {"idle", "evict", "load", "write"}, action : Actions,
            todo : Seq(Memories), seen : Statuses, writes : Seq(Write),
            left : SUBSET Bindings, dels : SUBSET Bindings]

TypeOK ==
    /\ memory \in [Memories -> Row \cup {Unborn}]
    /\ evidence \in [Memories -> SUBSET Chunks]
    /\ trail \in [Memories -> Seq(Entries)]
    /\ sess \in [Sessions -> Session]
    /\ requests \in 0 .. MaxRequests

Init ==
    /\ memory = [m \in Memories |-> Unborn]
    /\ evidence = [m \in Memories |-> {}]
    /\ trail = [m \in Memories |-> <<>>]
    /\ sess = [s \in Sessions |-> Idle]
    /\ requests = 0

----------------------------------------------------------------------------
(* How memories come to be *)

\* Mutant of DetermineReviewStatus: the confidence is not looked at.
DetermineWithoutConfidence(c) ==
    IF c.type = "Decision" \/ c.impact = "HIGH" THEN "pending_review" ELSE "approved"

DetermineReviewStatus(c) ==
    IF c.type = "Decision" \/ c.impact = "HIGH" \/ ~c.sure
    THEN "pending_review" ELSE "approved"

NewRow(c, ev) ==
    [class |-> c, status |-> DetermineReviewStatus(c), anchored |-> ev # {}]

FirstEntries(c) == IF DetermineReviewStatus(c) = "pending_review" THEN <<"submit">> ELSE <<>>

\* create_memory for the memories of a transaction that commits: born[m] is the class of
\* the new memory m and from[m] are the chunks it names.
Create(born, from) ==
    /\ memory' = [m \in Memories |->
                    IF m \in DOMAIN born THEN NewRow(born[m], from[m]) ELSE memory[m]]
    /\ evidence' = [m \in Memories |-> IF m \in DOMAIN born THEN from[m] ELSE evidence[m]]
    /\ trail' = [m \in Memories |->
                    IF m \in DOMAIN born THEN FirstEntries(born[m]) ELSE trail[m]]

\* The six endpoints of direct_write: confidence 1.0, and no evidence.
DirectWrite(m, c) ==
    /\ requests < MaxRequests
    /\ memory[m] = Unborn
    /\ c.sure
    /\ Create([x \in {m} |-> c], [x \in {m} |-> {}])
    /\ requests' = requests + 1
    /\ UNCHANGED sess

----------------------------------------------------------------------------
(* What a session sees, holds and does to the tables *)

Overrides == {"correct", "bulk_invalidate", "unsupported"}
Terminal == {"approved", "rejected", "deferred", "unsupported"}

\* Mutant of NewStatus: the name of the action is stored as the status.
NewStatusByName(a) == a

NewStatus(a) == CASE a = "approve" -> "approved"
                  [] a = "correct" -> "approved"
                  [] a = "reject" -> "rejected"
                  [] a = "dispute" -> "disputed"
                  [] a = "defer" -> "deferred"
                  [] OTHER -> "unsupported"

\* Mutant of Refused: a memory may be disputed whatever its status.
RefusedUnlessDisputed(status, a) ==
    status \in Terminal /\ a \notin Overrides \cup {"dispute"}

Refused(status, a) == status \in Terminal /\ a \notin Overrides

LastOf(S) == CHOOSE i \in S : \A j \in S : j <= i

\* The places of the writes to m among those of session s.
WritesTo(s, m) == {i \in DOMAIN sess[s].writes : sess[s].writes[i].m = m}

\* The status of m as session s reads it: its own flushed change, or the committed row.
StatusFor(s, m) ==
    LET own == WritesTo(s, m)
    IN  IF own = {} THEN memory[m].status ELSE sess[s].writes[LastOf(own)].to

RowFree(s, m) == \A t \in Sessions \ {s} : WritesTo(t, m) = {}
BindingFree(s, b) == \A t \in Sessions \ {s} : b \notin sess[t].dels

Begin(s, tx) ==
    /\ sess[s].phase = "idle"
    /\ requests < MaxRequests
    /\ requests' = requests + 1
    /\ sess' = [sess EXCEPT ![s] = tx]
    /\ UNCHANGED <<memory, evidence, trail>>

Step(s, tx) ==
    /\ sess' = [sess EXCEPT ![s] = tx]
    /\ UNCHANGED <<memory, evidence, trail, requests>>

\* Mutant of Changes: a status that has changed meanwhile is kept, but the entry is made.
ChangesIfFresh(s, m) ==
    {i \in WritesTo(s, m) : /\ sess[s].writes[i].to # sess[s].writes[i].seen
                            /\ sess[s].writes[i].seen = memory[m].status}

\* An UPDATE has only the columns that differ from what the session had read.
Changes(s, m) == {i \in WritesTo(s, m) : sess[s].writes[i].to # sess[s].writes[i].seen}

StatusAfter(s, m) ==
    LET c == Changes(s, m)
    IN  IF c = {} THEN memory[m].status ELSE sess[s].writes[LastOf(c)].to

----------------------------------------------------------------------------
(* The review endpoints *)

\* POST /memories/{id}/review, up to the lock: 404 for a row that is not there, and for
\* one whose status is terminal unless the action overrides it.
Review(s, m, a) ==
    /\ memory[m] # Unborn
    /\ ~Refused(memory[m].status, a)
    /\ Begin(s, [Idle EXCEPT !.phase = "write", !.action = a, !.todo = <<m>>,
                             !.seen = memory[m].status])

\* POST /memories/bulk-invalidate
BulkInvalidate(s, list) ==
    Begin(s, [Idle EXCEPT !.phase = "load", !.action = "bulk_invalidate", !.todo = list])

Skipped(s, m) ==
    /\ sess[s].action = "bulk_invalidate"
    /\ memory[m] = Unborn \/ StatusFor(s, m) = "unsupported"

LoadMemory(s) ==
    /\ sess[s].phase = "load"
    /\ sess[s].todo # <<>>
    /\ LET m == Head(sess[s].todo)
       IN  Step(s, IF Skipped(s, m) THEN [sess[s] EXCEPT !.todo = Tail(@)]
                   ELSE [sess[s] EXCEPT !.phase = "write", !.seen = StatusFor(s, m)])

\* The flush of update_review_status: it waits for the row, not for a fresh status.
UpdateReviewStatus(s) ==
    /\ sess[s].phase = "write"
    /\ LET m == Head(sess[s].todo)
           w == [m |-> m, seen |-> sess[s].seen, to |-> NewStatus(sess[s].action)]
       IN  /\ RowFree(s, m)
           /\ Step(s, [sess[s] EXCEPT !.phase = "load", !.todo = Tail(@),
                                      !.writes = Append(@, w)])

----------------------------------------------------------------------------
(* The reconciler of evidence: handle_source_update, and handle_source_deletion when
   all chunks of the document are gone *)

FindBindings(gone) == {b \in Bindings : b[2] \in gone /\ b[2] \in evidence[b[1]]}

SourceChanged(s, gone) ==
    /\ FindBindings(gone) # {}
    /\ Begin(s, [Idle EXCEPT !.phase = "evict", !.action = "unsupported",
                             !.left = FindBindings(gone)])

Remaining(m, dels) == {c \in evidence[m] : <<m, c>> \notin dels}

\* Mutants of Orphaned: the last but one binding is taken for the last; the count does
\* not see the deletions of its own session.
OrphanedEarly(m, dels) == Cardinality(Remaining(m, dels)) <= 1
OrphanedUnflushed(m, dels) == evidence[m] = {}

Orphaned(m, dels) == Remaining(m, dels) = {}

EvictBinding(s, b) ==
    /\ sess[s].phase = "evict"
    /\ b \in sess[s].left
    /\ BindingFree(s, b)
    /\ LET m == b[1]
           dels == sess[s].dels \cup {b}
       IN  Step(s, [sess[s] EXCEPT
                       !.left = @ \ {b},
                       !.dels = dels,
                       !.todo = IF Orphaned(m, dels) THEN Append(@, m) ELSE @,
                       !.phase = IF sess[s].left = {b} THEN "load" ELSE "evict"])

----------------------------------------------------------------------------
(* The end of a session *)

Commit(s) ==
    /\ sess[s].phase = "load"
    /\ sess[s].todo = <<>>
    /\ memory' = [m \in Memories |->
                    IF WritesTo(s, m) = {} THEN memory[m]
                    ELSE [memory[m] EXCEPT !.status = StatusAfter(s, m)]]
    /\ evidence' = [m \in Memories |-> Remaining(m, sess[s].dels)]
    /\ trail' = [m \in Memories |->
                    trail[m] \o [i \in 1 .. Cardinality(WritesTo(s, m)) |-> sess[s].action]]
    /\ sess' = [sess EXCEPT ![s] = Idle]
    /\ UNCHANGED requests

\* Mutant of Closed: the rows it has changed stay locked.
ClosedLocked(s) == [Idle EXCEPT !.writes = sess[s].writes]

Closed(s) == Idle

\* A lost connection, a crash, or PostgreSQL breaking a deadlock.
Rollback(s) ==
    /\ sess[s].phase # "idle"
    /\ Step(s, Closed(s))

\* Which session waits for which: rows are locked by bulk requests in the order of their
\* lists, and by evictions in the order in which bindings are found.
WaitsFor(s, t) ==
    /\ t # s
    /\ \/ /\ sess[s].phase = "write"
          /\ WritesTo(t, Head(sess[s].todo)) # {}
       \/ /\ sess[s].phase = "evict"
          /\ sess[s].left \subseteq sess[t].dels

Deadlocked(s) ==
    \E D \in SUBSET Sessions : s \in D /\ \A t \in D : \E u \in D : WaitsFor(t, u)

BreakDeadlock(s) == Deadlocked(s) /\ Rollback(s)

Proceed(s) ==
    \/ LoadMemory(s) \/ UpdateReviewStatus(s) \/ Commit(s)
    \/ \E b \in Bindings : EvictBinding(s, b)

Lists == {<<m>> : m \in Memories} \cup {<<m, n>> : m, n \in Memories}

ReviewNext ==
    \/ \E m \in Memories, c \in Classes : DirectWrite(m, c)
    \/ \E s \in Reviewers, m \in Memories :
          \E a \in {"approve", "reject", "dispute", "defer", "correct"} : Review(s, m, a)
    \/ \E s \in Reviewers, list \in Lists : BulkInvalidate(s, list)
    \/ \E s \in Evictors, gone \in SUBSET Chunks : SourceChanged(s, gone)
    \/ \E s \in Sessions : LoadMemory(s) \/ UpdateReviewStatus(s) \/ Commit(s) \/ Rollback(s)
    \/ \E s \in Evictors, b \in Bindings : EvictBinding(s, b)

ReviewFairness ==
    \A s \in Sessions : WF_reviewVars(Proceed(s)) /\ WF_reviewVars(BreakDeadlock(s))
----------------------------------------------------------------------------
(* What the review of memories guarantees *)

Told(m, actions) == \E i \in DOMAIN trail[m] : trail[m][i] \in actions

\* P5-T7: a memory of a high-impact type, of high impact or of low confidence is approved
\* only if somebody approved or corrected it, whichever way it was written and whatever
\* transactions overlapped.
MustReview(c) == c.type = "Decision" \/ c.impact = "HIGH" \/ ~c.sure

NoUnreviewedApproval ==
    \A m \in Memories :
       memory[m] # Unborn /\ memory[m].status = "approved" /\ MustReview(memory[m].class)
          => Told(m, {"approve", "correct"})

\* The reconciler reports a memory as unsupported only when its last binding is gone, also
\* when several reconcilers delete its bindings at once (_evict_and_reconcile).
UnsupportedMeansOrphaned ==
    \A m \in Memories : Told(m, {"unsupported"}) => evidence[m] = {}

\* P5-T6: a memory that has lost its last binding has been reported.  It takes a single
\* reconciler: two that delete the last two bindings at once each see the other's.
OrphansAreReported ==
    \A m \in Memories :
       memory[m] # Unborn /\ memory[m].anchored /\ evidence[m] = {}
          => Told(m, {"unsupported"})

\* update_review_status writes a status only where it differs from the one it had read,
\* which another transaction may have changed by then: a correction, a dispute or a report
\* of the reconciler may be on record without effect.  An approval, a rejection, a
\* deferral or a bulk invalidation never is: if it is the last entry, it has its way.
LastEntryDecides ==
    \A m \in Memories :
       LET n == Len(trail[m])
       IN  n > 0 /\ trail[m][n] \in {"approve", "reject", "defer", "bulk_invalidate"}
              => memory[m].status = NewStatus(trail[m][n])

\* "cannot move out of a terminal status without an explicit override"
\* (update_review_status): a memory leaves one only by an override, or by a review that
\* had read it before it got there.
TerminalLeftOnlyByOverride ==
    [][\A m \in Memories :
          memory[m] # Unborn /\ memory[m].status \in Terminal /\ memory'[m] # memory[m]
             => \E s \in Sessions :
                   /\ WritesTo(s, m) # {}
                   /\ sess[s].action \in Overrides
                          \/ \A i \in WritesTo(s, m) : sess[s].writes[i].seen \notin Terminal]_reviewVars

\* Every request is answered: no two of them wait for each other for ever, given that
\* PostgreSQL breaks deadlocks.
EveryRequestEnds == \A s \in Sessions : sess[s].phase # "idle" ~> sess[s].phase = "idle"
=============================================================================
