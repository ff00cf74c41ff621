---------------------------- MODULE MemoryProofs ----------------------------
(***************************************************************************)
(* Proofs about MemoryReview and MemoryExtraction, for any memories,       *)
(* sessions, requests and replies of the model.                            *)
(*                                                                         *)
(* No read takes a lock, so what a session knows of a memory may be stale  *)
(* when it writes.  SessionInv says what stays true all the same: every    *)
(* memory it works on exists, its write goes to the status of its action,  *)
(* from a status that this action may start from, and a reconciler has     *)
(* queued only memories of which nothing remains but what it has deleted.  *)
(* StagedInv counts what a run of the job holds: for each chunk it has     *)
(* been through, the rows it has staged and the items it has still to      *)
(* store are as many as extract returned.                                  *)
(***************************************************************************)
EXTENDS MemoryExtraction, ProofLemmas

Born(m) == memory[m] # Unborn
Queued(x) == Elements(x.todo) \cup {x.writes[i].m : i \in DOMAIN x.writes}

\* The actions whose write is always a change, and what their sessions may have read.
Deciding == {"approve", "reject", "defer", "bulk_invalidate"}
Sound(a, seen) ==
    /\ a \in Deciding => seen # NewStatus(a)
    /\ a \notin Overrides => seen \notin Terminal

WriteInv(x, w) == Born(w.m) /\ w.to = NewStatus(x.action) /\ Sound(x.action, w.seen)

\* A review has one memory; a reconciler has come to the end of each memory it has queued.
SessionInv(x) ==
    /\ x.action # "bulk_invalidate" => \A m \in Elements(x.todo) : Born(m)
    /\ \A b \in x.left \cup x.dels : Born(b[1])
    /\ x.phase = "write" => x.todo # <<>> /\ Born(Head(x.todo)) /\ Sound(x.action, x.seen)
    /\ \A i \in DOMAIN x.writes : WriteInv(x, x.writes[i])
    /\ x.action \notin {"bulk_invalidate", "unsupported"} =>
          /\ x.phase = "load" => x.todo = <<>>
          /\ x.phase = "write" => Tail(x.todo) = <<>>
    /\ x.phase = "evict" => x.action = "unsupported"
    /\ x.action # "unsupported" => x.dels = {}
    /\ x.action = "unsupported" => \A m \in Queued(x) : Remaining(m, x.dels) = {}

RowInv(m) ==
    /\ ~Born(m) => trail[m] = <<>> /\ evidence[m] = {}
    /\ Born(m) /\ memory[m].status = "approved" /\ MustReview(memory[m].class)
          => Told(m, {"approve", "correct"})
    /\ Told(m, {"unsupported"}) => evidence[m] = {}
    /\ Len(trail[m]) > 0 /\ trail[m][Len(trail[m])] \in Deciding
          => memory[m].status = NewStatus(trail[m][Len(trail[m])])

ReviewInv ==
    /\ TypeOK
    /\ \A s \in Sessions : SessionInv(sess[s])
    /\ \A m \in Memories : RowInv(m)

\* With a single reconciler: a memory that it has taken the last binding of is queued.
Mindful(s, x) ==
    /\ x.action = "unsupported" => s \in Evictors
    /\ \A b \in x.dels : Remaining(b[1], x.dels) = {} => b[1] \in Queued(x)

OrphanInv ==
    /\ \A s \in Sessions : Mindful(s, sess[s])
    /\ OrphansAreReported

StagedOf(c) == {r \in staged : r.chunk = c}
ItemsOf(c) == {n \in items : n.chunk = c}

ChunkInv(c) ==
    IF c \in Elements(todo) \/ c \in failed
    THEN StagedOf(c) = {} /\ ItemsOf(c) = {} /\ ~(c \in Elements(todo) /\ c \in failed)
    ELSE Cardinality(StagedOf(c)) + Cardinality(ItemsOf(c)) = owed[c]

StagedInv ==
    /\ \A r \in staged : ~Born(r.m)
    /\ \A q, r \in staged : q.m = r.m => q = r
    /\ IsFiniteSet(staged) /\ IsFiniteSet(items)
    /\ \A i, j \in DOMAIN todo : todo[i] = todo[j] => i = j
    /\ job # "running" => todo = <<>> /\ staged = {} /\ items = {} /\ failed = {}
    /\ job # "done" => failures = {} /\ \A m \in Memories : origin[m] = NoChunk
    /\ job = "running" => \A c \in Elements(ChunkList) : ChunkInv(c)
    /\ ChunksSettled

\* A step of session s that leaves the tables alone.
SessionStep(s) ==
    \E tx \in Session :
       /\ SessionInv(tx)
       /\ Mindful(s, sess[s]) => Mindful(s, tx)
       /\ sess' = [sess EXCEPT ![s] = tx]
       /\ UNCHANGED <<memory, evidence, trail>>
       /\ requests' \in 0 .. MaxRequests

\* No row is lost, and no binding is made to a row that is there.
Grown ==
    \A m \in Memories : Born(m) => memory'[m] # Unborn /\ evidence'[m] \subseteq evidence[m]

----------------------------------------------------------------------------
(* Rows, statuses and sessions *)

LEMMA NewStatusIs ==
  ASSUME NEW a \in Actions
  PROVE  NewStatus(a) \in Statuses
  BY DEF NewStatus, Actions, Statuses

LEMMA BornIsRow ==
  ASSUME TypeOK, NEW m \in Memories, Born(m)
  PROVE  memory[m] \in Row /\ memory[m].status \in Statuses /\ memory[m].class \in Classes
  BY DEF TypeOK, Born, Row

LEMMA IdleIs == Idle \in Session
  <1>1. <<>> \in Seq(Memories) /\ <<>> \in Seq(Write)
    OBVIOUS
  <1> QED
    BY <1>1 DEF Idle, Session, Actions, Statuses

LEMMA IdleInv ==
  /\ SessionInv(Idle)
  /\ \A s \in Sessions : Mindful(s, Idle)
  BY DEF SessionInv, Mindful, Idle, Elements, Queued, Born

\* The last of a session's writes to a memory is one of them.
LEMMA LastWrite ==
  ASSUME TypeOK, NEW s \in Sessions, NEW W \in SUBSET DOMAIN sess[s].writes, W # {}
  PROVE  LastOf(W) \in W /\ sess[s].writes[LastOf(W)] \in Write
  <1>1. sess[s].writes \in Seq(Write)
    BY DEF TypeOK, Session
  <1>2. Len(sess[s].writes) \in Nat /\ DOMAIN sess[s].writes = 1 .. Len(sess[s].writes)
    BY <1>1
  <1>3. \E i \in W : \A j \in W : j <= i
    BY <1>2, LastExists
  <1>4. LastOf(W) \in W
    BY <1>3 DEF LastOf
  <1> QED
    BY <1>1, <1>2, <1>4

LEMMA StatusForIs ==
  ASSUME TypeOK, NEW s \in Sessions, NEW m \in Memories, Born(m)
  PROVE  StatusFor(s, m) \in Statuses
  <1>1. CASE WritesTo(s, m) = {}
    BY <1>1, BornIsRow DEF StatusFor
  <1>2. CASE WritesTo(s, m) # {}
    <2>1. WritesTo(s, m) \in SUBSET DOMAIN sess[s].writes
      BY DEF WritesTo
    <2>2. sess[s].writes[LastOf(WritesTo(s, m))] \in Write
      BY <1>2, <2>1, LastWrite
    <2> QED
      BY <1>2, <2>2 DEF StatusFor, Write
  <1> QED
    BY <1>1, <1>2

----------------------------------------------------------------------------
(* The steps of the sessions *)

LEMMA BeginIs ==
  ASSUME TypeOK, NEW s, NEW tx \in Session, SessionInv(tx), Mindful(s, tx), Begin(s, tx)
  PROVE  SessionStep(s)
  <1>1. requests' \in 0 .. MaxRequests
    BY RequestAssumption DEF Begin, TypeOK
  <1>2. sess' = [sess EXCEPT ![s] = tx] /\ UNCHANGED <<memory, evidence, trail>>
    BY DEF Begin
  <1> QED
    BY <1>1, <1>2, Zenon DEF SessionStep

LEMMA ReviewIs ==
  ASSUME ReviewInv, NEW s \in Reviewers, NEW m \in Memories,
         NEW a \in {"approve", "reject", "dispute", "defer", "correct"}, Review(s, m, a)
  PROVE  SessionStep(s)
  <1> DEFINE tx == [Idle EXCEPT !.phase = "write", !.action = a, !.todo = <<m>>,
                                !.seen = memory[m].status]
  <1>1. Born(m) /\ ~Refused(memory[m].status, a) /\ Begin(s, tx)
    BY DEF Review, Born
  <1>2. memory[m].status \in Statuses
    BY <1>1, BornIsRow DEF ReviewInv
  <1>3. <<m>> \in Seq(Memories) /\ Elements(<<m>>) = {m} /\ Head(<<m>>) = m /\ Tail(<<m>>) = <<>>
    BY DEF Elements
  <1>4. tx \in Session
    BY <1>2, <1>3, IdleIs DEF Session, Idle, Actions
  <1>5. Sound(a, memory[m].status)
    BY <1>1 DEF Sound, Refused, Deciding, NewStatus, Terminal, Overrides
  <1>6. SessionInv(tx)
    BY <1>1, <1>3, <1>5 DEF SessionInv, Idle
  <1>7. Mindful(s, tx)
    BY DEF Mindful, Idle
  <1> HIDE DEF tx
  <1> QED
    BY <1>1, <1>4, <1>6, <1>7, BeginIs DEF ReviewInv

LEMMA BulkInvalidateIs ==
  ASSUME ReviewInv, NEW s \in Reviewers, NEW list \in Lists, BulkInvalidate(s, list)
  PROVE  SessionStep(s)
  <1> DEFINE tx == [Idle EXCEPT !.phase = "load", !.action = "bulk_invalidate", !.todo = list]
  <1>1. Begin(s, tx)
    BY DEF BulkInvalidate
  <1>2. list \in Seq(Memories)
    <2>1. CASE \E m \in Memories : list = <<m>>
      BY <2>1
    <2>2. CASE \E m, n \in Memories : list = <<m, n>>
      BY <2>2
    <2> QED
      BY <2>1, <2>2 DEF Lists
  <1>3. tx \in Session
    BY <1>2, IdleIs DEF Session, Idle, Actions
  <1>4. SessionInv(tx) /\ Mindful(s, tx)
    BY DEF SessionInv, Mindful, Idle
  <1> HIDE DEF tx
  <1> QED
    BY <1>1, <1>3, <1>4, BeginIs DEF ReviewInv

LEMMA SourceChangedIs ==
  ASSUME ReviewInv, NEW s \in Evictors, NEW gone \in SUBSET Chunks, SourceChanged(s, gone)
  PROVE  SessionStep(s)
  <1> DEFINE found == FindBindings(gone)
             tx == [Idle EXCEPT !.phase = "evict", !.action = "unsupported", !.left = found]
  <1>1. Begin(s, tx)
    BY DEF SourceChanged
  <1>2. found \in SUBSET Bindings
    BY DEF FindBindings
  <1>3. \A b \in found : Born(b[1])
    <2> SUFFICES ASSUME NEW b \in found PROVE Born(b[1])
      OBVIOUS
    <2>1. b[1] \in Memories /\ evidence[b[1]] # {}
      BY DEF FindBindings, Bindings
    <2> QED
      BY <2>1 DEF ReviewInv, RowInv
  <1> HIDE DEF found
  <1>4. tx \in Session
    BY <1>2, IdleIs DEF Session, Idle, Actions
  <1>5. SessionInv(tx)
    BY <1>3 DEF SessionInv, Idle, Queued, Elements
  <1>6. Mindful(s, tx)
    BY DEF Mindful, Idle
  <1> HIDE DEF tx
  <1> QED
    BY <1>1, <1>4, <1>5, <1>6, BeginIs DEF ReviewInv

LEMMA RollbackIs ==
  ASSUME ReviewInv, NEW s \in Sessions, Rollback(s)
  PROVE  SessionStep(s)
  BY IdleIs, IdleInv DEF Rollback, Step, Closed, SessionStep, ReviewInv, TypeOK

LEMMA StepIs ==
  ASSUME TypeOK, NEW s, NEW tx \in Session, SessionInv(tx),
         Mindful(s, sess[s]) => Mindful(s, tx), Step(s, tx)
  PROVE  SessionStep(s)
  <1>1. requests' \in 0 .. MaxRequests
    BY DEF Step, TypeOK
  <1>2. sess' = [sess EXCEPT ![s] = tx] /\ UNCHANGED <<memory, evidence, trail>>
    BY DEF Step
  <1> QED
    BY <1>1, <1>2, Zenon DEF SessionStep

LEMMA LoadMemoryIs ==
  ASSUME ReviewInv, NEW s \in Sessions, LoadMemory(s)
  PROVE  SessionStep(s)
  <1> DEFINE x == sess[s]
             m == Head(x.todo)
  <1>1. TypeOK /\ x \in Session /\ SessionInv(x) /\ x.phase = "load" /\ x.todo # <<>>
    BY DEF ReviewInv, TypeOK, LoadMemory
  <1>2. x.todo \in Seq(Memories)
    BY <1>1 DEF Session
  <1>3. /\ m \in Memories /\ Tail(x.todo) \in Seq(Memories)
        /\ Elements(x.todo) = {m} \cup Elements(Tail(x.todo))
    BY <1>1, <1>2, ElementsOfTail
  <1>4. x.action \in {"bulk_invalidate", "unsupported"}
    BY <1>1 DEF SessionInv
  <1>5. CASE Skipped(s, m)
    <2> DEFINE tx == [x EXCEPT !.todo = Tail(@)]
    <2>1. Step(s, tx)
      BY <1>5 DEF LoadMemory
    <2>2. x.action = "bulk_invalidate"
      BY <1>5 DEF Skipped
    <2>3. tx \in Session
      BY <1>1, <1>3 DEF Session
    <2>4. SessionInv(tx)
      BY <1>1, <2>2, <2>3 DEF SessionInv, Session, WriteInv
    <2>5. Mindful(s, tx)
      BY <1>1, <2>2 DEF Mindful, SessionInv, Session
    <2> HIDE DEF tx
    <2> QED
      BY <1>1, <2>1, <2>3, <2>4, <2>5, StepIs
  <1>6. CASE ~Skipped(s, m)
    <2> DEFINE tx == [x EXCEPT !.phase = "write", !.seen = StatusFor(s, m)]
    <2>1. Step(s, tx)
      BY <1>6 DEF LoadMemory
    <2>2. Born(m)
      BY <1>1, <1>3, <1>4, <1>6 DEF Skipped, SessionInv, Born
    <2>3. StatusFor(s, m) \in Statuses
      BY <1>1, <1>3, <2>2, StatusForIs
    <2>4. Sound(x.action, StatusFor(s, m))
      BY <1>4, <1>6 DEF Skipped, Sound, Overrides, NewStatus, Deciding
    <2>5. tx \in Session
      BY <1>1, <2>3 DEF Session
    <2>6. /\ tx.todo = x.todo /\ tx.writes = x.writes /\ tx.dels = x.dels /\ tx.left = x.left
          /\ tx.action = x.action /\ tx.phase = "write" /\ tx.seen = StatusFor(s, m)
      BY <1>1 DEF Session
    <2> HIDE DEF tx
    <2>7. SessionInv(tx)
      BY <1>1, <1>4, <2>2, <2>4, <2>6 DEF SessionInv, WriteInv, Queued
    <2>8. Mindful(s, x) => Mindful(s, tx)
      BY <2>6 DEF Mindful, Queued
    <2> QED
      BY <1>1, <2>1, <2>5, <2>7, <2>8, StepIs
  <1> QED
    BY <1>5, <1>6

LEMMA UpdateReviewStatusIs ==
  ASSUME ReviewInv, NEW s \in Sessions, UpdateReviewStatus(s)
  PROVE  SessionStep(s)
  <1> DEFINE x == sess[s]
             m == Head(x.todo)
             w == [m |-> m, seen |-> x.seen, to |-> NewStatus(x.action)]
             tx == [x EXCEPT !.phase = "load", !.todo = Tail(@), !.writes = Append(@, w)]
  <1>1. /\ TypeOK /\ x \in Session /\ SessionInv(x) /\ x.phase = "write"
        /\ Step(s, tx)
    BY DEF ReviewInv, TypeOK, UpdateReviewStatus
  <1>2. x.todo \in Seq(Memories) /\ x.todo # <<>> /\ x.writes \in Seq(Write)
    BY <1>1 DEF Session, SessionInv
  <1>3. /\ m \in Memories /\ Tail(x.todo) \in Seq(Memories)
        /\ Elements(x.todo) = {m} \cup Elements(Tail(x.todo))
    BY <1>2, ElementsOfTail
  <1>4. w \in Write
    BY <1>1, <1>3, NewStatusIs DEF Session, Write
  <1>5. /\ Append(x.writes, w) \in Seq(Write)
        /\ Elements(Append(x.writes, w)) = Elements(x.writes) \cup {w}
    BY <1>2, <1>4, ElementsOfAppend
  <1>6. WriteInv(x, w)
    BY <1>1 DEF WriteInv, SessionInv
  <1>7. w.m = m
    OBVIOUS
  <1>8. tx \in Session
    BY <1>1, <1>3, <1>5 DEF Session
  <1>9. /\ tx.todo = Tail(x.todo) /\ tx.writes = Append(x.writes, w) /\ tx.dels = x.dels
        /\ tx.left = x.left /\ tx.action = x.action /\ tx.phase = "load"
    BY <1>1 DEF Session
  <1> HIDE DEF tx, w
  <1>10. Queued(tx) = Queued(x)
    <2>1. \A y : Queued(y) = Elements(y.todo) \cup {v.m : v \in Elements(y.writes)}
      BY DEF Queued, Elements
    <2> HIDE DEF x, m
    <2>2. Queued(x) = Elements(x.todo) \cup {v.m : v \in Elements(x.writes)}
      BY <2>1
    <2>3. Queued(tx) = Elements(tx.todo) \cup {v.m : v \in Elements(tx.writes)}
      BY <2>1
    <2> QED
      BY <1>3, <1>5, <1>7, <1>9, <2>2, <2>3
  <1>11. \A i \in DOMAIN tx.writes : WriteInv(tx, tx.writes[i])
    <2> SUFFICES ASSUME NEW i \in DOMAIN tx.writes PROVE WriteInv(tx, tx.writes[i])
      OBVIOUS
    <2>1. tx.writes[i] \in Elements(x.writes) \cup {w}
      BY <1>5, <1>9 DEF Elements
    <2>2. WriteInv(x, tx.writes[i])
      BY <1>1, <1>6, <2>1 DEF Elements, SessionInv
    <2> QED
      BY <1>9, <2>2 DEF WriteInv
  <1>12. SessionInv(tx)
    BY <1>1, <1>3, <1>9, <1>10, <1>11 DEF SessionInv
  <1>13. Mindful(s, x) => Mindful(s, tx)
    BY <1>9, <1>10 DEF Mindful
  <1> QED
    BY <1>1, <1>8, <1>12, <1>13, StepIs

LEMMA EvictBindingIs ==
  ASSUME ReviewInv, NEW s \in Sessions, NEW b \in Bindings, EvictBinding(s, b)
  PROVE  SessionStep(s)
  <1> DEFINE x == sess[s]
             m == b[1]
             dels == x.dels \cup {b}
             queue == IF Orphaned(m, dels) THEN Append(x.todo, m) ELSE x.todo
             tx == [x EXCEPT !.left = @ \ {b}, !.dels = dels, !.todo = queue,
                             !.phase = IF x.left = {b} THEN "load" ELSE "evict"]
  <1>1. /\ TypeOK /\ x \in Session /\ SessionInv(x) /\ x.phase = "evict" /\ b \in x.left
    BY DEF ReviewInv, TypeOK, EvictBinding
  <1>2. Step(s, tx)
    BY DEF EvictBinding
  <1>3. x.todo \in Seq(Memories) /\ m \in Memories
    BY <1>1 DEF Session, Bindings
  <1>4. /\ queue \in Seq(Memories)
        /\ Elements(queue) = Elements(x.todo) \cup (IF Orphaned(m, dels) THEN {m} ELSE {})
    <2>1. /\ Append(x.todo, m) \in Seq(Memories)
          /\ Elements(Append(x.todo, m)) = Elements(x.todo) \cup {m}
      BY <1>3, ElementsOfAppend
    <2> QED
      BY <1>3, <2>1
  <1> HIDE DEF queue
  <1>5. tx \in Session
    BY <1>1, <1>4 DEF Session, Bindings
  <1>6. /\ tx.todo = queue /\ tx.writes = x.writes /\ tx.dels = dels
        /\ tx.left = x.left \ {b} /\ tx.action = x.action /\ tx.phase \in {"load", "evict"}
    BY <1>1 DEF Session
  <1> HIDE DEF tx
  <1>7. x.action = "unsupported" /\ Born(m)
    BY <1>1 DEF SessionInv
  <1>8. Queued(tx) = Queued(x) \cup (IF Orphaned(m, dels) THEN {m} ELSE {})
    BY <1>4, <1>6 DEF Queued
  <1>9. \A k \in Queued(tx) : Remaining(k, dels) = {}
    BY <1>1, <1>7, <1>8 DEF SessionInv, Remaining, Orphaned
  <1>10. SessionInv(tx)
    BY <1>1, <1>4, <1>6, <1>7, <1>9 DEF SessionInv, WriteInv
  <1>11. ASSUME Mindful(s, x) PROVE Mindful(s, tx)
    <2> SUFFICES ASSUME NEW d \in dels, Remaining(d[1], dels) = {} PROVE d[1] \in Queued(tx)
      BY <1>6, <1>7, <1>11 DEF Mindful
    <2>1. CASE d[1] = m
      BY <1>8, <2>1 DEF Orphaned
    <2>2. CASE d[1] # m
      <3>1. d \in x.dels
        BY <2>2
      <3>2. Remaining(d[1], dels) = Remaining(d[1], x.dels)
        BY <2>2 DEF Remaining
      <3> QED
        BY <1>8, <1>11, <3>1, <3>2 DEF Mindful
    <2> QED
      BY <2>1, <2>2
  <1> QED
    BY <1>1, <1>2, <1>5, <1>10, <1>11, StepIs

----------------------------------------------------------------------------
(* What the steps of others leave of what a session knows *)

LEMMA GrownKeeps ==
  ASSUME NEW x \in Session, SessionInv(x), Grown
  PROVE  SessionInv(x)'
  <1>1. x.todo \in Seq(Memories) /\ x.writes \in Seq(Write) /\ x.left \subseteq Bindings
          /\ x.dels \subseteq Bindings
    BY DEF Session
  <1>2. /\ \A m \in Elements(x.todo) : m \in Memories
        /\ \A i \in DOMAIN x.writes : x.writes[i].m \in Memories
        /\ \A b \in x.left \cup x.dels : b[1] \in Memories
        /\ x.todo # <<>> => Head(x.todo) \in Memories
    <2>1. \A i \in DOMAIN x.writes : x.writes[i] \in Write
      BY <1>1
    <2>2. x.todo # <<>> => Head(x.todo) \in Memories
      BY <1>1
    <2> QED
      BY <1>1, <2>1, <2>2 DEF Elements, Write, Bindings
  <1>3. \A m \in Memories : Born(m) => Born(m)'
    BY DEF Grown, Born
  <1>4. x.action # "bulk_invalidate" => \A m \in Elements(x.todo) : Born(m)'
    BY <1>2, <1>3 DEF SessionInv
  <1>5. \A b \in x.left \cup x.dels : Born(b[1])'
    BY <1>2, <1>3 DEF SessionInv
  <1>6. x.phase = "write" => x.todo # <<>> /\ Born(Head(x.todo))' /\ Sound(x.action, x.seen)
    BY <1>2, <1>3 DEF SessionInv
  <1>7. \A i \in DOMAIN x.writes : WriteInv(x, x.writes[i])'
    <2> SUFFICES ASSUME NEW i \in DOMAIN x.writes PROVE WriteInv(x, x.writes[i])'
      OBVIOUS
    <2>1. WriteInv(x, x.writes[i]) /\ x.writes[i].m \in Memories
      BY <1>2 DEF SessionInv
    <2> QED
      BY <1>3, <2>1 DEF WriteInv
  <1>8. ASSUME x.action = "unsupported", NEW m \in Queued(x)
        PROVE  (Remaining(m, x.dels) = {})'
    <2>1. m \in Memories /\ Born(m) /\ Remaining(m, x.dels) = {}
      BY <1>2, <1>8 DEF Queued, SessionInv, WriteInv
    <2>2. evidence'[m] \subseteq evidence[m]
      BY <2>1 DEF Grown
    <2> QED
      BY <2>1, <2>2 DEF Remaining
  <1> QED
    BY <1>4, <1>5, <1>6, <1>7, <1>8 DEF SessionInv, Sound

LEMMA SessionTypes ==
  ASSUME TypeOK, NEW s \in Sessions, SessionStep(s)
  PROVE  TypeOK'
  <1>1. PICK tx \in Session :
           /\ sess' = [sess EXCEPT ![s] = tx]
           /\ UNCHANGED <<memory, evidence, trail>>
           /\ requests' \in 0 .. MaxRequests
    BY Zenon DEF SessionStep
  <1> QED
    BY <1>1 DEF TypeOK

LEMMA SessionStepKeeps ==
  ASSUME ReviewInv, NEW s \in Sessions, SessionStep(s)
  PROVE  ReviewInv'
  <1>1. PICK tx \in Session :
           /\ SessionInv(tx) /\ sess' = [sess EXCEPT ![s] = tx]
           /\ UNCHANGED <<memory, evidence, trail>>
    BY Zenon DEF SessionStep
  <1>2. TypeOK'
    BY SessionTypes DEF ReviewInv
  <1>3. Grown
    BY <1>1 DEF Grown, Born
  <1>4. ASSUME NEW t \in Sessions PROVE SessionInv(sess[t])'
    <2>1. PICK x : x = sess'[t]
      OBVIOUS
    <2>2. x \in Session /\ SessionInv(x)
      BY <1>1, <2>1 DEF ReviewInv, TypeOK
    <2>3. SessionInv(x)'
      BY <1>3, <2>2, GrownKeeps
    <2> QED
      BY <2>1, <2>3
  <1>5. ASSUME NEW m \in Memories PROVE RowInv(m)'
    BY <1>1 DEF ReviewInv, RowInv, Born, Told
  <1> QED
    BY <1>2, <1>4, <1>5 DEF ReviewInv

\* Nobody's rows are created anew, and nobody has a binding to the new ones yet.
CreateStep(B) ==
    \E born \in [B -> Classes], from \in [B -> SUBSET Chunks] :
       /\ Create(born, from)
       /\ \A m \in B : ~Born(m)
       /\ UNCHANGED sess
       /\ requests' \in 0 .. MaxRequests

LEMMA NewRowIs ==
  ASSUME NEW c \in Classes, NEW ev
  PROVE  /\ NewRow(c, ev) \in Row /\ NewRow(c, ev) # Unborn
         /\ NewRow(c, ev).class = c /\ NewRow(c, ev).anchored = (ev # {})
         /\ NewRow(c, ev).status = DetermineReviewStatus(c)
         /\ FirstEntries(c) \in {<<"submit">>, <<>>}
         /\ DetermineReviewStatus(c) = "approved" => ~MustReview(c)
  <1>1. DetermineReviewStatus(c) \in Statuses
    BY DEF DetermineReviewStatus, Statuses
  <1>2. NewRow(c, ev) \in Row
    BY <1>1 DEF NewRow, Row
  <1> QED
    BY <1>2, UnbornAssumption DEF NewRow, Row, FirstEntries, DetermineReviewStatus, MustReview

LEMMA CreateKeeps ==
  ASSUME ReviewInv, NEW B \in SUBSET Memories, CreateStep(B)
  PROVE  ReviewInv' /\ Grown
  <1>1. PICK born \in [B -> Classes], from \in [B -> SUBSET Chunks] :
           /\ Create(born, from)
           /\ \A m \in B : ~Born(m)
           /\ UNCHANGED sess
           /\ requests' \in 0 .. MaxRequests
    BY DEF CreateStep
  <1>2. ASSUME NEW m \in Memories
        PROVE  /\ m \in B => /\ memory'[m] = NewRow(born[m], from[m])
                             /\ evidence'[m] = from[m]
                             /\ trail'[m] = FirstEntries(born[m])
               /\ m \notin B => /\ memory'[m] = memory[m] /\ evidence'[m] = evidence[m]
                                /\ trail'[m] = trail[m]
    BY <1>1 DEF Create
  <1>3. TypeOK'
    <2>1. \A m \in Memories : memory'[m] \in Row \cup {Unborn}
      BY <1>1, <1>2, NewRowIs DEF ReviewInv, TypeOK
    <2>2. \A m \in Memories : evidence'[m] \in SUBSET Chunks
      BY <1>1, <1>2 DEF ReviewInv, TypeOK
    <2>3. \A m \in Memories : trail'[m] \in Seq(Entries)
      <3>1. <<>> \in Seq(Entries) /\ <<"submit">> \in Seq(Entries)
        BY DEF Entries
      <3> QED
        <4> SUFFICES ASSUME NEW m \in Memories PROVE trail'[m] \in Seq(Entries)
          OBVIOUS
        <4>1. CASE m \in B
          <5>1. FirstEntries(born[m]) \in {<<"submit">>, <<>>}
            BY <1>1, <4>1, NewRowIs
          <5> QED
            BY <1>2, <3>1, <4>1, <5>1
        <4>2. CASE m \notin B
          BY <1>2, <4>2 DEF ReviewInv, TypeOK
        <4> QED
          BY <4>1, <4>2
    <2> QED
      BY <1>1, <2>1, <2>2, <2>3 DEF ReviewInv, TypeOK, Create
  <1>4. Grown
    BY <1>1, <1>2 DEF Grown, Born
  <1>5. ASSUME NEW t \in Sessions PROVE SessionInv(sess[t])'
    <2>1. PICK x : x = sess[t]
      OBVIOUS
    <2>2. x \in Session /\ SessionInv(x) /\ x = sess'[t]
      BY <1>1, <2>1 DEF ReviewInv, TypeOK
    <2>3. SessionInv(x)'
      BY <1>4, <2>2, GrownKeeps
    <2> QED
      BY <2>2, <2>3
  <1>6. ASSUME NEW m \in Memories PROVE RowInv(m)'
    <2>1. CASE m \notin B
      BY <1>2, <2>1 DEF ReviewInv, RowInv, Born, Told
    <2>2. CASE m \in B
      <3>1. trail'[m] \in {<<"submit">>, <<>>} /\ memory'[m] # Unborn
              /\ (memory'[m].status = "approved" => ~MustReview(memory'[m].class))
        BY <1>1, <1>2, <2>2, NewRowIs
      <3>2. \A S \in SUBSET Actions : ~ Told(m, S)'
        BY <3>1 DEF Told, Actions
      <3>3. {"unsupported"} \in SUBSET Actions
        BY DEF Actions
      <3>4. Len(trail'[m]) > 0 => trail'[m][Len(trail'[m])] \notin Deciding
        BY <3>1 DEF Deciding
      <3>5. ~ Told(m, {"unsupported"})'
        BY <3>2, <3>3
      <3> QED
        BY <3>1, <3>4, <3>5 DEF RowInv, Born, MustReview
    <2> QED
      BY <2>1, <2>2
  <1> QED
    BY <1>3, <1>4, <1>5, <1>6 DEF ReviewInv

----------------------------------------------------------------------------
(* The commit of a session *)

\* What a commit does to a memory that the session has written.
LEMMA CommitWritten ==
  ASSUME ReviewInv, NEW s \in Sessions, NEW m \in Memories, Commit(s), WritesTo(s, m) # {}
  PROVE  /\ Born(m) /\ m \in Queued(sess[s])
         /\ memory'[m] = [memory[m] EXCEPT !.status = StatusAfter(s, m)]
         /\ StatusAfter(s, m) \in {memory[m].status, NewStatus(sess[s].action)}
         /\ sess[s].action \in Deciding => StatusAfter(s, m) = NewStatus(sess[s].action)
         /\ \A i \in WritesTo(s, m) : WriteInv(sess[s], sess[s].writes[i])
  <1> DEFINE x == sess[s]
             W == WritesTo(s, m)
             C == Changes(s, m)
  <1>1. /\ TypeOK /\ x \in Session /\ SessionInv(x)
        /\ W \in SUBSET DOMAIN x.writes /\ C \in SUBSET W
    BY DEF ReviewInv, TypeOK, WritesTo, Changes
  <1>2. \A i \in W : WriteInv(x, x.writes[i]) /\ x.writes[i].m = m
    BY <1>1 DEF SessionInv, WritesTo
  <1>3. Born(m) /\ m \in Queued(x)
    <2>1. PICK i \in W : TRUE
      OBVIOUS
    <2> QED
      BY <1>1, <1>2, <2>1 DEF WriteInv, Queued
  <1>4. memory'[m] = [memory[m] EXCEPT !.status = StatusAfter(s, m)]
    BY DEF Commit
  <1>5. C # {} => StatusAfter(s, m) = NewStatus(x.action)
    <2> SUFFICES ASSUME C # {} PROVE StatusAfter(s, m) = NewStatus(x.action)
      OBVIOUS
    <2>1. LastOf(C) \in C
      BY <1>1, LastWrite
    <2> QED
      BY <1>1, <1>2, <2>1 DEF StatusAfter, WriteInv
  <1>6. C = {} => StatusAfter(s, m) = memory[m].status
    BY DEF StatusAfter
  <1>7. x.action \in Deciding => C # {}
    <2>1. PICK i \in W : TRUE
      OBVIOUS
    <2> QED
      BY <1>1, <1>2, <2>1 DEF Changes, WriteInv, Sound
  <1> QED
    BY <1>2, <1>3, <1>4, <1>5, <1>6, <1>7

\* What it does to the trail: one entry for each write.
LEMMA CommitTrail ==
  ASSUME TypeOK, NEW s \in Sessions, NEW m \in Memories, Commit(s)
  PROVE  /\ trail'[m] \in Seq(Entries)
         /\ WritesTo(s, m) = {} => trail'[m] = trail[m]
         /\ WritesTo(s, m) # {} =>
               /\ Len(trail'[m]) > 0 /\ trail'[m][Len(trail'[m])] = sess[s].action
               /\ \A A : Told(m, A)' <=> Told(m, A) \/ sess[s].action \in A
  <1> DEFINE a == sess[s].action
             q == trail[m]
             W == WritesTo(s, m)
             n == Cardinality(W)
             new == [i \in 1 .. n |-> a]
             t == q \o new
  <1>1. trail'[m] = t
    BY DEF Commit
  <1>2. q \in Seq(Entries) /\ a \in Entries /\ sess[s].writes \in Seq(Write)
    BY DEF TypeOK, Session, Entries
  <1>3. IsFiniteSet(W)
    <2>1. Len(sess[s].writes) \in Nat /\ DOMAIN sess[s].writes = 1 .. Len(sess[s].writes)
      BY <1>2
    <2>2. IsFiniteSet(DOMAIN sess[s].writes)
      BY <2>1, FS_Interval
    <2> QED
      BY <2>2, FS_Subset DEF WritesTo
  <1>4. n \in Nat /\ (n = 0 <=> W = {})
    BY <1>3, FS_CardinalityType, FS_EmptySet
  <1> HIDE DEF n
  <1>5. new \in Seq(Entries) /\ Len(new) = n
    BY <1>2, <1>4
  <1>6. \A i \in 1 .. n : new[i] = a
    OBVIOUS
  <1> HIDE DEF new, a, q, W
  <1>7. /\ t \in Seq(Entries) /\ Len(t) = Len(q) + Len(new)
        /\ \A i \in 1 .. Len(q) + Len(new) :
              t[i] = IF i <= Len(q) THEN q[i] ELSE new[i - Len(q)]
    BY <1>2, <1>5, ConcatProperties
  <1> HIDE DEF t
  <1>8. PICK k \in Nat : Len(q) = k /\ DOMAIN q = 1 .. k
    BY <1>2
  <1>9. Len(t) = k + n /\ DOMAIN t = 1 .. k + n
    BY <1>5, <1>7, <1>8
  <1>10. /\ \A i \in 1 .. k : t[i] = q[i]
         /\ \A i \in k + 1 .. k + n : t[i] = a
    <2>1. ASSUME NEW i \in 1 .. k PROVE t[i] = q[i]
      BY <1>4, <1>5, <1>7, <1>8
    <2>2. ASSUME NEW i \in k + 1 .. k + n PROVE t[i] = a
      <3>1. i \in 1 .. k + n /\ ~(i <= k) /\ i - k \in 1 .. n
        BY <1>4, <1>8
      <3> QED
        BY <1>5, <1>6, <1>7, <1>8, <3>1
    <2> QED
      BY <2>1, <2>2
  <1>11. W = {} => t = q
    <2> SUFFICES ASSUME W = {} PROVE t = q
      OBVIOUS
    <2>1. n = 0 /\ DOMAIN t = DOMAIN q
      BY <1>4, <1>8, <1>9
    <2>2. \A i \in DOMAIN q : t[i] = q[i]
      BY <1>8, <1>10
    <2> QED
      BY <1>2, <1>7, <2>1, <2>2
  <1>12. W # {} => Len(t) > 0 /\ t[Len(t)] = a
    BY <1>4, <1>8, <1>9, <1>10
  <1>13. ASSUME W # {}, NEW A
         PROVE  (\E i \in DOMAIN t : t[i] \in A) <=> (\E i \in DOMAIN q : q[i] \in A) \/ a \in A
    <2>1. ASSUME NEW i \in DOMAIN t, t[i] \in A
          PROVE  (\E j \in DOMAIN q : q[j] \in A) \/ a \in A
      <3>1. i \in 1 .. k \/ i \in k + 1 .. k + n
        BY <1>4, <1>8, <1>9
      <3> QED
        BY <1>8, <1>10, <2>1, <3>1
    <2>2. ASSUME NEW j \in DOMAIN q, q[j] \in A
          PROVE  \E i \in DOMAIN t : t[i] \in A
      <3>1. j \in DOMAIN t /\ t[j] = q[j]
        BY <1>4, <1>8, <1>9, <1>10
      <3> QED
        BY <2>2, <3>1
    <2>3. ASSUME a \in A
          PROVE  \E i \in DOMAIN t : t[i] \in A
      <3>1. k + n \in DOMAIN t /\ t[k + n] = a
        BY <1>4, <1>8, <1>9, <1>10, <1>13
      <3> QED
        BY <2>3, <3>1
    <2> QED
      BY <2>1, <2>2, <2>3
  <1>14. W # {} => \A A : Told(m, A)' <=> Told(m, A) \/ a \in A
    BY <1>1, <1>13, Zenon DEF Told, q
  <1> QED
    BY <1>1, <1>7, <1>11, <1>12, <1>14 DEF a, q, W

LEMMA CommitRow ==
  ASSUME ReviewInv, NEW s \in Sessions, NEW m \in Memories, Commit(s)
  PROVE  RowInv(m)'
  <1> DEFINE x == sess[s]
  <1>1. TypeOK /\ x \in Session /\ SessionInv(x) /\ RowInv(m)
    BY DEF ReviewInv, TypeOK
  <1>2. evidence'[m] = Remaining(m, x.dels) /\ evidence'[m] \subseteq evidence[m]
    BY DEF Commit, Remaining
  <1>3. CASE WritesTo(s, m) = {}
    <2>1. memory'[m] = memory[m] /\ trail'[m] = trail[m]
      BY <1>1, <1>3, CommitTrail DEF Commit
    <2> QED
      BY <1>1, <1>2, <2>1 DEF RowInv, Born, Told
  <1>4. CASE WritesTo(s, m) # {}
    <2> DEFINE a == x.action
    <2>1. /\ Born(m) /\ m \in Queued(x)
          /\ memory'[m] = [memory[m] EXCEPT !.status = StatusAfter(s, m)]
          /\ StatusAfter(s, m) \in {memory[m].status, NewStatus(a)}
          /\ a \in Deciding => StatusAfter(s, m) = NewStatus(a)
      BY <1>4, CommitWritten
    <2>2. /\ Len(trail'[m]) > 0 /\ trail'[m][Len(trail'[m])] = a
          /\ \A A : Told(m, A)' <=> Told(m, A) \/ a \in A
      BY <1>1, <1>4, CommitTrail, Zenon
    <2>3. memory[m] \in Row
      BY <1>1, <2>1, BornIsRow
    <2>4. /\ memory'[m].status = StatusAfter(s, m) /\ memory'[m].class = memory[m].class
          /\ StatusAfter(s, m) \in Statuses
      BY <1>1, <2>1, <2>3, NewStatusIs DEF Row, Session
    <2>5. memory'[m] \in Row
      BY <2>1, <2>3, <2>4 DEF Row
    <2>6. Born(m)'
      BY <2>5, UnbornAssumption DEF Born, Row
    <2>7. ASSUME memory'[m].status = "approved", MustReview(memory'[m].class)
          PROVE  Told(m, {"approve", "correct"})'
      <3>1. CASE memory[m].status = "approved"
        BY <1>1, <2>1, <2>2, <2>4, <2>7, <3>1 DEF RowInv
      <3>2. CASE memory[m].status # "approved"
        <4>1. NewStatus(a) = "approved" /\ a \in Actions
          BY <1>1, <2>1, <2>4, <2>7, <3>2 DEF Session
        <4>2. a \in {"approve", "correct"}
          BY <4>1 DEF NewStatus, Actions
        <4> QED
          BY <2>2, <4>2
      <3> QED
        BY <3>1, <3>2
    <2>8. ASSUME Told(m, {"unsupported"})'
          PROVE  evidence'[m] = {}
      <3>1. CASE Told(m, {"unsupported"})
        BY <1>1, <1>2, <3>1 DEF RowInv
      <3>2. CASE a \in {"unsupported"}
        BY <1>1, <1>2, <2>1, <3>2 DEF SessionInv
      <3> QED
        BY <2>2, <2>8, <3>1, <3>2
    <2> QED
      BY <2>1, <2>2, <2>4, <2>6, <2>7, <2>8 DEF RowInv
  <1> QED
    BY <1>3, <1>4

LEMMA CommitKeeps ==
  ASSUME ReviewInv, NEW s \in Sessions, Commit(s)
  PROVE  ReviewInv' /\ Grown
  <1>1. ASSUME NEW m \in Memories
        PROVE  /\ memory'[m] \in Row \cup {Unborn}
               /\ Born(m) => memory'[m] # Unborn
               /\ evidence'[m] \in SUBSET Chunks /\ evidence'[m] \subseteq evidence[m]
               /\ trail'[m] \in Seq(Entries)
    <2>1. TypeOK
      BY DEF ReviewInv
    <2>2. trail'[m] \in Seq(Entries)
      BY <2>1, CommitTrail
    <2>3. evidence'[m] \in SUBSET Chunks /\ evidence'[m] \subseteq evidence[m]
      BY <2>1 DEF TypeOK, Commit, Remaining
    <2>4. CASE WritesTo(s, m) = {}
      BY <2>1, <2>2, <2>3, <2>4 DEF Commit, TypeOK, Born
    <2>5. CASE WritesTo(s, m) # {}
      <3>1. /\ Born(m) /\ memory'[m] = [memory[m] EXCEPT !.status = StatusAfter(s, m)]
            /\ StatusAfter(s, m) \in {memory[m].status, NewStatus(sess[s].action)}
        BY <2>5, CommitWritten
      <3>2. memory[m] \in Row /\ sess[s].action \in Actions
        BY <2>1, <3>1, BornIsRow DEF TypeOK, Session
      <3>3. StatusAfter(s, m) \in Statuses
        BY <3>1, <3>2, NewStatusIs DEF Row
      <3>4. memory'[m] \in Row
        BY <3>1, <3>2, <3>3 DEF Row
      <3> QED
        BY <2>2, <2>3, <3>4, UnbornAssumption DEF Row
    <2> QED
      BY <2>4, <2>5
  <1>2. /\ DOMAIN memory' = Memories /\ DOMAIN evidence' = Memories /\ DOMAIN trail' = Memories
        /\ memory' = [m \in Memories |-> memory'[m]]
        /\ evidence' = [m \in Memories |-> evidence'[m]]
        /\ trail' = [m \in Memories |-> trail'[m]]
        /\ sess' = [sess EXCEPT ![s] = Idle] /\ requests' = requests
    BY DEF Commit
  <1>3. TypeOK'
    <2>1. memory' \in [Memories -> Row \cup {Unborn}]
      BY <1>1, <1>2
    <2>2. evidence' \in [Memories -> SUBSET Chunks] /\ trail' \in [Memories -> Seq(Entries)]
      BY <1>1, <1>2
    <2>3. sess' \in [Sessions -> Session] /\ requests' \in 0 .. MaxRequests
      BY <1>2, IdleIs DEF ReviewInv, TypeOK
    <2> QED
      BY <2>1, <2>2, <2>3 DEF TypeOK
  <1>4. Grown
    BY <1>1 DEF Grown
  <1>5. ASSUME NEW t \in Sessions PROVE SessionInv(sess[t])'
    <2>1. PICK x : x = sess'[t]
      OBVIOUS
    <2>2. x \in Session /\ SessionInv(x)
      BY <1>2, <2>1, IdleIs, IdleInv DEF ReviewInv, TypeOK
    <2>3. SessionInv(x)'
      BY <1>4, <2>2, GrownKeeps
    <2> QED
      BY <2>1, <2>3
  <1> QED
    BY <1>3, <1>4, <1>5, CommitRow DEF ReviewInv

LEMMA DirectWriteIs ==
  ASSUME TypeOK, NEW m \in Memories, NEW c \in Classes, DirectWrite(m, c)
  PROVE  CreateStep({m})
  <1>1. requests' \in 0 .. MaxRequests
    BY RequestAssumption DEF DirectWrite, TypeOK
  <1>2. [x \in {m} |-> c] \in [{m} -> Classes] /\ [x \in {m} |-> {}] \in [{m} -> SUBSET Chunks]
    OBVIOUS
  <1>3. /\ Create([x \in {m} |-> c], [x \in {m} |-> {}])
        /\ \A k \in {m} : ~Born(k)
        /\ UNCHANGED sess
    BY DEF DirectWrite, Born
  <1> QED
    BY <1>1, <1>2, <1>3, Zenon DEF CreateStep

\* What a review step is: one of a session, a creation, or a commit.
LEMMA ReviewStepIs ==
  ASSUME ReviewInv, ReviewNext
  PROVE  \/ \E s \in Sessions : SessionStep(s)
         \/ \E m \in Memories : CreateStep({m})
         \/ \E s \in Sessions : Commit(s)
  <1>1. ASSUME NEW m \in Memories, NEW c \in Classes, DirectWrite(m, c) PROVE CreateStep({m})
    BY <1>1, DirectWriteIs DEF ReviewInv
  <1>2. ASSUME NEW s \in Reviewers, NEW m \in Memories,
               NEW a \in {"approve", "reject", "dispute", "defer", "correct"}, Review(s, m, a)
        PROVE  s \in Sessions /\ SessionStep(s)
    BY <1>2, ReviewIs DEF Sessions
  <1>3. ASSUME NEW s \in Reviewers, NEW list \in Lists, BulkInvalidate(s, list)
        PROVE  s \in Sessions /\ SessionStep(s)
    BY <1>3, BulkInvalidateIs DEF Sessions
  <1>4. ASSUME NEW s \in Evictors, NEW gone \in SUBSET Chunks, SourceChanged(s, gone)
        PROVE  s \in Sessions /\ SessionStep(s)
    BY <1>4, SourceChangedIs DEF Sessions
  <1>5. ASSUME NEW s \in Sessions, LoadMemory(s) \/ UpdateReviewStatus(s) \/ Rollback(s)
        PROVE  SessionStep(s)
    BY <1>5, LoadMemoryIs, UpdateReviewStatusIs, RollbackIs
  <1>6. ASSUME NEW s \in Evictors, NEW b \in Bindings, EvictBinding(s, b)
        PROVE  s \in Sessions /\ SessionStep(s)
    BY <1>6, EvictBindingIs DEF Sessions
  <1> QED
    BY <1>1, <1>2, <1>3, <1>4, <1>5, <1>6 DEF ReviewNext

LEMMA ReviewKeeps ==
  ASSUME ReviewInv, ReviewNext
  PROVE  ReviewInv'
  <1>1. ASSUME NEW m \in Memories, CreateStep({m}) PROVE ReviewInv'
    <2>1. {m} \in SUBSET Memories
      OBVIOUS
    <2> QED
      BY <1>1, <2>1, CreateKeeps
  <1> QED
    BY <1>1, ReviewStepIs, SessionStepKeeps, CommitKeeps

----------------------------------------------------------------------------
(* What extract returns *)

LEMMA WellShapedIs ==
  ASSUME NEW list \in Seq(Item)
  PROVE  WellShaped(list) \subseteq Numbered /\ IsFiniteSet(WellShaped(list))
  <1> DEFINE D == {i \in DOMAIN list : list[i].fate # "misshapen"}
             f == [i \in DOMAIN list |-> [at |-> i, item |-> list[i]]]
  <1>1. Len(list) \in Nat /\ DOMAIN list = 1 .. Len(list)
    OBVIOUS
  <1>2. IsFiniteSet(DOMAIN list)
    BY <1>1, FS_Interval
  <1>3. IsFiniteSet(D)
    BY <1>2, FS_Subset
  <1>4. WellShaped(list) = ImageOf(f, D)
    BY DEF WellShaped, ImageOf
  <1>5. IsFiniteSet(ImageOf(f, D))
    <2> HIDE DEF f, D
    <2> QED
      BY <1>3, ImageIsFinite
  <1>6. WellShaped(list) \subseteq Numbered
    BY <1>1 DEF WellShaped, Numbered
  <1> QED
    BY <1>4, <1>5, <1>6

LEMMA OutcomeIs ==
  ASSUME NEW o \in Outcomes, o # Raises
  PROVE  o[1] \subseteq Numbered /\ IsFiniteSet(o[1])
  <1>1. PICK r \in [1 .. MaxParseAttempts + 1 -> Replies] : o = ExtractStructured(r)
    BY DEF Outcomes
  <1>2. \A i \in 1 .. 4 : r[i].items \in Seq(Item)
    <2> SUFFICES ASSUME NEW i \in 1 .. 4 PROVE r[i].items \in Seq(Item)
      OBVIOUS
    <2>1. r[i] \in Reply
      BY RepliesAssumption DEF MaxParseAttempts
    <2>2. <<>> \in Seq(Item)
      OBVIOUS
    <2>3. CASE r[i] \in [kind : {"list"}, items : Seq(Item)]
      BY <2>3
    <2>4. CASE r[i] \in [kind : {"object", "text", "none"}, items : {<<>>}]
      BY <2>2, <2>4
    <2> QED
      BY <2>1, <2>3, <2>4 DEF Reply
  <1>3. \A i \in 1 .. 4 : /\ WellShaped(r[i].items) \subseteq Numbered
                          /\ IsFiniteSet(WellShaped(r[i].items))
    BY <1>2, WellShapedIs
  <1> DEFINE tries == 1 .. 3
             ends == {i \in tries : r[i].kind = "none" \/ Valid(r[i])}
             parsed == {i \in tries : r[i].kind \in {"list", "object"}}
  <1>4. ends # {} => FirstOf(ends) \in 1 .. 4
    <2> SUFFICES ASSUME ends # {} PROVE FirstOf(ends) \in 1 .. 4
      OBVIOUS
    <2>1. ends \in SUBSET Nat
      OBVIOUS
    <2>2. \E i \in ends : \A j \in ends : i <= j
      <3> HIDE DEF ends
      <3> QED
        BY <2>1, FirstExists
    <2>3. FirstOf(ends) \in ends
      BY <2>2 DEF FirstOf
    <2> QED
      BY <2>3
  <1>5. parsed # {} => LastOf(parsed) \in 1 .. 4
    <2> SUFFICES ASSUME parsed # {} PROVE LastOf(parsed) \in 1 .. 4
      OBVIOUS
    <2>1. parsed \in SUBSET (1 .. 3)
      OBVIOUS
    <2>2. \E i \in parsed : \A j \in parsed : j <= i
      <3> HIDE DEF parsed
      <3> QED
        BY <2>1, LastExists
    <2>3. LastOf(parsed) \in parsed
      BY <2>2 DEF LastOf
    <2> QED
      BY <2>3
  <1>6. o = IF ends # {}
            THEN IF Valid(r[FirstOf(ends)]) THEN Returns(WellShaped(r[FirstOf(ends)].items))
                 ELSE Raises
            ELSE IF parsed # {} /\ r[LastOf(parsed)].kind = "list"
            THEN Returns(WellShaped(r[LastOf(parsed)].items))
            ELSE IF ~ThinkingDisabled /\ Valid(r[4]) THEN Returns(WellShaped(r[4].items))
            ELSE Raises
    BY <1>1 DEF ExtractStructured, MaxParseAttempts
  <1> HIDE DEF ends, parsed
  <1>7. \E i \in 1 .. 4 : o = Returns(WellShaped(r[i].items))
    <2>1. CASE ends # {}
      BY <1>4, <1>6, <2>1
    <2>2. CASE ends = {} /\ parsed # {} /\ r[LastOf(parsed)].kind = "list"
      BY <1>5, <1>6, <2>2
    <2>3. CASE ends = {} /\ ~(parsed # {} /\ r[LastOf(parsed)].kind = "list")
      <3>1. o = Returns(WellShaped(r[4].items))
        BY <1>6, <2>3
      <3> QED
        BY <3>1
    <2> QED
      BY <2>1, <2>2, <2>3
  <1> QED
    BY <1>3, <1>7 DEF Returns

\* The items that are left to store of chunk c when extract has returned found.
ItemsFor(c, found) == {[at |-> n.at, item |-> n.item, chunk |-> c] : n \in found}

LEMMA ItemsForIs ==
  ASSUME NEW c \in Chunks, NEW found, found \subseteq Numbered, IsFiniteSet(found)
  PROVE  /\ ItemsFor(c, found) \subseteq [at : Nat, item : Item, chunk : Chunks]
         /\ IsFiniteSet(ItemsFor(c, found))
         /\ Cardinality(ItemsFor(c, found)) = Cardinality(found)
         /\ \A n \in ItemsFor(c, found) : n.chunk = c
  <1> DEFINE f == [n \in found |-> [at |-> n.at, item |-> n.item, chunk |-> c]]
  <1>1. ItemsFor(c, found) = ImageOf(f, found)
    BY DEF ItemsFor, ImageOf
  <1>2. \A n, k \in found : f[n] = f[k] => n = k
    <2> SUFFICES ASSUME NEW n \in found, NEW k \in found, f[n] = f[k] PROVE n = k
      OBVIOUS
    <2>1. n \in [at : Nat, item : Item] /\ k \in [at : Nat, item : Item]
      BY DEF Numbered
    <2>2. n.at = k.at /\ n.item = k.item
      OBVIOUS
    <2> QED
      BY <2>1, <2>2
  <1>3. IsFiniteSet(ImageOf(f, found)) /\ Cardinality(ImageOf(f, found)) = Cardinality(found)
    <2> HIDE DEF f
    <2> QED
      BY <1>2, ImageIsFinite
  <1>4. \A n \in ItemsFor(c, found) : /\ n \in [at : Nat, item : Item, chunk : Chunks]
                                      /\ n.chunk = c
    BY DEF ItemsFor, Numbered
  <1> QED
    BY <1>1, <1>3, <1>4

----------------------------------------------------------------------------
(* The steps of the job *)

ExtractionInv == ExtractionTypeOK /\ ReviewInv /\ StagedInv

LEMMA ReviewUnchanged ==
  ASSUME ReviewInv, UNCHANGED reviewVars
  PROVE  ReviewInv'
  <1>1. /\ memory' = memory /\ evidence' = evidence /\ trail' = trail
        /\ sess' = sess /\ requests' = requests
    BY DEF reviewVars
  <1>2. TypeOK'
    BY <1>1 DEF ReviewInv, TypeOK
  <1>3. Grown
    BY <1>1 DEF Grown, Born
  <1>4. ASSUME NEW t \in Sessions PROVE SessionInv(sess[t])'
    <2>1. PICK x : x = sess[t]
      OBVIOUS
    <2>2. x \in Session /\ SessionInv(x)
      BY <2>1 DEF ReviewInv, TypeOK
    <2>3. SessionInv(x)'
      BY <1>3, <2>2, GrownKeeps
    <2> QED
      BY <1>1, <2>1, <2>3
  <1>5. ASSUME NEW m \in Memories PROVE RowInv(m)'
    BY <1>1 DEF ReviewInv, RowInv, Born, Told
  <1> QED
    BY <1>2, <1>4, <1>5 DEF ReviewInv

\* As long as the job is not done there is no trace of it.
Untraced == job # "done" /\ failures = {} /\ \A m \in Memories : origin[m] = NoChunk

LEMMA UntracedSettled == Untraced' => ChunksSettled'
  <1> SUFFICES ASSUME Untraced', NEW c \in {ChunkList[i] : i \in DOMAIN ChunkList}
               PROVE  From(c)' = {} /\ c \notin failures'
    BY DEF ChunksSettled, Untraced
  <1>1. c \in Chunks
    BY ChunkListAssumption
  <1> QED
    BY <1>1, NoChunkAssumption DEF Untraced, From

LEMMA Running ==
  ASSUME StagedInv, items # {} \/ job = "running"
  PROVE  job = "running" /\ Untraced
  BY DEF StagedInv, Untraced

LEMMA ElementsAreChunks == \A c \in Elements(ChunkList) : c \in Chunks
  BY ChunkListAssumption DEF Elements

LEMMA StartKeeps ==
  ASSUME ExtractionInv, StartExtraction
  PROVE  ExtractionTypeOK' /\ StagedInv'
  <1>1. /\ job = "pending" /\ job' = "running" /\ todo' = ChunkList
        /\ owed' = [c \in Chunks |-> 0]
        /\ UNCHANGED <<memory, evidence, trail, sess, requests, items, staged, failed,
                       failures, origin>>
    BY DEF StartExtraction, reviewVars
  <1>2. ExtractionTypeOK'
    BY <1>1, ChunkListAssumption DEF ExtractionInv, ExtractionTypeOK, TypeOK
  <1>3. staged = {} /\ items = {} /\ failed = {} /\ Untraced
    BY <1>1 DEF ExtractionInv, StagedInv, Untraced
  <1>4. Untraced'
    BY <1>1, <1>3 DEF Untraced
  <1>5. \A c \in Elements(ChunkList) : ChunkInv(c)'
    BY <1>1, <1>3 DEF ChunkInv, StagedOf, ItemsOf
  <1>6. \A i, j \in DOMAIN todo' : todo'[i] = todo'[j] => i = j
    BY <1>1, ChunkListAssumption
  <1>7. IsFiniteSet(staged') /\ IsFiniteSet(items')
    BY <1>1, <1>3, FS_EmptySet
  <1> QED
    BY <1>1, <1>2, <1>3, <1>4, <1>5, <1>6, <1>7, UntracedSettled DEF StagedInv, Untraced

LEMMA ExtractKeeps ==
  ASSUME ExtractionInv, ExtractChunk
  PROVE  ExtractionTypeOK' /\ StagedInv'
  <1> DEFINE c == Head(todo)
  <1>1. /\ job = "running" /\ items = {} /\ todo # <<>> /\ todo' = Tail(todo)
        /\ UNCHANGED <<memory, evidence, trail, sess, requests, job, staged, failures, origin>>
    BY DEF ExtractChunk, reviewVars
  <1>2. ExtractionTypeOK /\ StagedInv /\ todo \in Seq(Chunks) /\ owed \in [Chunks -> Nat]
    BY DEF ExtractionInv, ExtractionTypeOK
  <1>3. /\ c \in Chunks /\ todo' \in Seq(Chunks)
        /\ Elements(todo) = {c} \cup Elements(todo')
    BY <1>1, <1>2, ElementsOfTail
  <1>4. /\ c \notin Elements(todo')
        /\ \A i, j \in DOMAIN todo' : todo'[i] = todo'[j] => i = j
    BY <1>1, <1>2, DistinctTail DEF StagedInv
  <1>5. PICK o \in Outcomes :
           IF o = Raises THEN RecordFailure(c)
           ELSE /\ items' = ItemsFor(c, Materialised(o[1]))
                /\ owed' = [owed EXCEPT ![c] = Cardinality(Materialised(o[1]))]
                /\ UNCHANGED failed
    BY DEF ExtractChunk, ItemsFor
  <1> HIDE DEF c
  <1>6. /\ items' \subseteq [at : Nat, item : Item, chunk : Chunks] /\ IsFiniteSet(items')
        /\ owed' \in [Chunks -> Nat]
        /\ \A n \in items' : n.chunk = c
        /\ \A d \in Chunks : d # c => owed'[d] = owed[d]
        /\ \/ failed' = failed \cup {c} /\ items' = {}
           \/ failed' = failed /\ owed'[c] = Cardinality(items')
    <2>1. CASE o = Raises
      BY <1>1, <1>2, <1>5, <2>1, FS_EmptySet DEF RecordFailure
    <2>2. CASE o # Raises
      <3> DEFINE found == Materialised(o[1])
      <3>1. o[1] \subseteq Numbered /\ IsFiniteSet(o[1])
        BY <2>2, OutcomeIs
      <3>2. found \subseteq Numbered /\ IsFiniteSet(found)
        BY <3>1, FS_Subset DEF Materialised
      <3>3. Cardinality(found) \in Nat
        BY <3>2, FS_CardinalityType
      <3> HIDE DEF found
      <3>4. /\ ItemsFor(c, found) \subseteq [at : Nat, item : Item, chunk : Chunks]
            /\ IsFiniteSet(ItemsFor(c, found))
            /\ Cardinality(ItemsFor(c, found)) = Cardinality(found)
            /\ \A n \in ItemsFor(c, found) : n.chunk = c
        BY <1>3, <3>2, ItemsForIs
      <3>5. /\ items' = ItemsFor(c, found)
            /\ owed' = [owed EXCEPT ![c] = Cardinality(found)]
            /\ failed' = failed
        BY <1>5, <2>2 DEF found
      <3> QED
        BY <1>2, <1>3, <3>3, <3>4, <3>5
    <2> QED
      BY <2>1, <2>2
  <1>7. ExtractionTypeOK'
    BY <1>1, <1>2, <1>3, <1>6 DEF ExtractionTypeOK, TypeOK
  <1>8. ASSUME NEW d \in Elements(ChunkList) PROVE ChunkInv(d)'
    <2>1. ChunkInv(d) /\ d \in Chunks
      BY <1>1, <1>2, ElementsAreChunks DEF StagedInv
    <2>2. StagedOf(d)' = StagedOf(d) /\ ItemsOf(d) = {}
      BY <1>1 DEF StagedOf, ItemsOf
    <2>3. CASE d = c
      <3>1. StagedOf(d) = {} /\ d \notin failed
        BY <1>3, <2>1, <2>3 DEF ChunkInv
      <3>2. CASE failed' = failed \cup {c} /\ items' = {}
        BY <1>4, <2>2, <2>3, <3>1, <3>2 DEF ChunkInv, ItemsOf
      <3>3. CASE failed' = failed /\ owed'[c] = Cardinality(items')
        <4>1. ItemsOf(d)' = items'
          BY <1>6, <2>3 DEF ItemsOf
        <4>2. Cardinality(StagedOf(d)') = 0 /\ owed'[c] \in Nat
          BY <1>3, <1>6, <2>2, <3>1, FS_EmptySet
        <4>3. Cardinality(StagedOf(d)') + Cardinality(ItemsOf(d)') = owed'[d]
          BY <2>3, <3>3, <4>1, <4>2
        <4> QED
          BY <1>4, <2>3, <3>1, <3>3, <4>3 DEF ChunkInv
      <3> QED
        BY <1>6, <3>2, <3>3
    <2>4. CASE d # c
      <3>1. ItemsOf(d)' = {}
        BY <1>6, <2>4 DEF ItemsOf
      <3>2. /\ d \in Elements(todo') <=> d \in Elements(todo)
            /\ d \in failed' <=> d \in failed
            /\ owed'[d] = owed[d]
        BY <1>3, <1>6, <2>1, <2>4
      <3> QED
        BY <2>1, <2>2, <3>1, <3>2 DEF ChunkInv
    <2> QED
      BY <2>3, <2>4
  <1>9. Untraced'
    BY <1>1, <1>2, Running DEF Untraced
  <1>10. /\ \A r \in staged' : ~Born(r.m)'
         /\ \A q, r \in staged' : q.m = r.m => q = r
         /\ IsFiniteSet(staged')
    BY <1>1, <1>2 DEF StagedInv, Born
  <1>11. StagedInv'
    BY <1>1, <1>4, <1>6, <1>8, <1>9, <1>10, UntracedSettled DEF StagedInv, Untraced
  <1> QED
    BY <1>7, <1>11

LEMMA CreateMemoryKeeps ==
  ASSUME ExtractionInv, CreateMemory
  PROVE  ExtractionTypeOK' /\ StagedInv'
  <1>1. PICK n \in items, m \in Fresh :
           /\ staged' = staged \cup
                 {[m |-> m, class |-> n.item.class, chunk |-> n.chunk,
                   names |-> IF n.item.naming THEN n.item.names ELSE {n.chunk}]}
           /\ items' = items \ {n}
    BY DEF CreateMemory
  <1>2. UNCHANGED <<memory, evidence, trail, sess, requests, job, todo, failed, owed,
                    failures, origin>>
    BY DEF CreateMemory, reviewVars
  <1>3. ExtractionTypeOK /\ StagedInv /\ job = "running" /\ Untraced
    BY Running DEF ExtractionInv
  <1>4. n \in [at : Nat, item : Item, chunk : Chunks]
    BY <1>3 DEF ExtractionTypeOK
  <1> DEFINE r == [m |-> m, class |-> n.item.class, chunk |-> n.chunk,
                   names |-> IF n.item.naming THEN n.item.names ELSE {n.chunk}]
  <1>5. r \in Staged /\ r.m = m /\ r.chunk = n.chunk /\ n.chunk \in Chunks
    BY <1>4 DEF Staged, Item, Fresh
  <1>6. staged' = staged \cup {r}
    BY <1>1
  <1> HIDE DEF r
  <1>7. ~Born(m) /\ \A q \in staged : q.m # m
    BY DEF Fresh, Born
  <1>8. r \notin staged
    BY <1>5, <1>7
  <1>9. ExtractionTypeOK'
    BY <1>1, <1>2, <1>3, <1>5, <1>6 DEF ExtractionTypeOK, TypeOK
  <1>10. IsFiniteSet(staged') /\ IsFiniteSet(items')
    BY <1>1, <1>3, <1>6, FS_AddElement, FS_RemoveElement DEF StagedInv
  <1>11. ASSUME NEW d \in Elements(ChunkList) PROVE ChunkInv(d)'
    <2>1. ChunkInv(d)
      BY <1>3, <1>11 DEF StagedInv
    <2>2. CASE d # n.chunk
      <3>1. StagedOf(d)' = StagedOf(d) /\ ItemsOf(d)' = ItemsOf(d)
        BY <1>1, <1>5, <1>6, <2>2 DEF StagedOf, ItemsOf
      <3> QED
        BY <1>2, <2>1, <3>1 DEF ChunkInv
    <2>3. CASE d = n.chunk
      <3>1. n \in ItemsOf(d)
        BY <2>3 DEF ItemsOf
      <3>2. /\ d \notin Elements(todo) /\ d \notin failed
            /\ Cardinality(StagedOf(d)) + Cardinality(ItemsOf(d)) = owed[d]
        BY <2>1, <3>1 DEF ChunkInv
      <3>3. /\ StagedOf(d)' = StagedOf(d) \cup {r} /\ r \notin StagedOf(d)
            /\ ItemsOf(d)' = ItemsOf(d) \ {n}
        BY <1>1, <1>5, <1>6, <1>8, <2>3 DEF StagedOf, ItemsOf
      <3>4. IsFiniteSet(StagedOf(d)) /\ IsFiniteSet(ItemsOf(d))
        BY <1>3, FS_Subset DEF StagedInv, StagedOf, ItemsOf
      <3>5. /\ Cardinality(StagedOf(d)) \in Nat /\ Cardinality(ItemsOf(d)) \in Nat
            /\ Cardinality(StagedOf(d) \cup {r}) = Cardinality(StagedOf(d)) + 1
            /\ Cardinality(ItemsOf(d) \ {n}) = Cardinality(ItemsOf(d)) - 1
        BY <3>1, <3>3, <3>4, FS_CardinalityType, FS_AddElement, FS_RemoveElement
      <3>6. Cardinality(StagedOf(d)') + Cardinality(ItemsOf(d)') = owed[d]
        BY <3>2, <3>3, <3>5
      <3> QED
        BY <1>2, <3>2, <3>6 DEF ChunkInv
    <2> QED
      BY <2>2, <2>3
  <1>12. Untraced'
    BY <1>2, <1>3 DEF Untraced
  <1>13. /\ \A q \in staged' : ~Born(q.m)'
         /\ \A p, q \in staged' : p.m = q.m => p = q
    BY <1>2, <1>3, <1>5, <1>6, <1>7 DEF StagedInv, Born
  <1>14. StagedInv'
    BY <1>2, <1>3, <1>10, <1>11, <1>12, <1>13, UntracedSettled DEF StagedInv, Untraced
  <1> QED
    BY <1>9, <1>14

\* A refused row and a crash alike: everything that was flushed is gone.
LEMMA UndoKeeps ==
  ASSUME ExtractionInv, CreateRefused \/ ExtractionCrash
  PROVE  ExtractionTypeOK' /\ StagedInv'
  <1>1. /\ Undo
        /\ UNCHANGED <<memory, evidence, trail, sess, requests, owed, failures, origin>>
        /\ items # {} \/ job = "running"
    BY DEF CreateRefused, ExtractionCrash, reviewVars
  <1>2. ExtractionTypeOK /\ StagedInv /\ Untraced
    BY <1>1, Running DEF ExtractionInv
  <1>3. ExtractionTypeOK'
    BY <1>1, <1>2 DEF ExtractionTypeOK, TypeOK, Undo
  <1>4. Untraced'
    BY <1>1, <1>2 DEF Untraced, Undo
  <1> QED
    BY <1>1, <1>3, <1>4, FS_EmptySet, UntracedSettled DEF StagedInv, Undo, Untraced

\* Each staged row is the only one for its id.
LEMMA StagedRowIs ==
  ASSUME ExtractionTypeOK, StagedInv
  PROVE  /\ \A m \in NewMemories : StagedRow(m) \in staged /\ StagedRow(m).m = m
         /\ \A r \in staged : r.m \in NewMemories /\ StagedRow(r.m) = r
         /\ NewMemories \in SUBSET Memories
  <1>1. \A m \in NewMemories : StagedRow(m) \in staged /\ StagedRow(m).m = m
    <2> SUFFICES ASSUME NEW m \in NewMemories
                 PROVE  StagedRow(m) \in staged /\ StagedRow(m).m = m
      OBVIOUS
    <2>1. \E r \in staged : r.m = m
      BY DEF NewMemories
    <2> QED
      BY <2>1 DEF StagedRow
  <1>2. \A r \in staged : r.m \in NewMemories
    BY DEF NewMemories
  <1>3. \A r \in staged : StagedRow(r.m) = r
    BY <1>1, <1>2 DEF StagedInv
  <1>4. NewMemories \in SUBSET Memories
    BY DEF NewMemories, ExtractionTypeOK, Staged
  <1> QED
    BY <1>1, <1>2, <1>3, <1>4

LEMMA CommitExtractionIs ==
  ASSUME ExtractionInv, CommitExtraction
  PROVE  CreateStep(NewMemories) /\ NewMemories \in SUBSET Memories
  <1>1. ExtractionTypeOK /\ StagedInv /\ TypeOK
    BY DEF ExtractionInv, ExtractionTypeOK
  <1>2. /\ \A m \in NewMemories : StagedRow(m) \in staged /\ StagedRow(m).m = m
        /\ NewMemories \in SUBSET Memories
    BY <1>1, StagedRowIs
  <1>3. \A r \in staged : r.class \in Classes /\ r.names \in SUBSET Chunks
    BY <1>1 DEF ExtractionTypeOK, Staged
  <1>4. /\ [m \in NewMemories |-> StagedRow(m).class] \in [NewMemories -> Classes]
        /\ [m \in NewMemories |-> StagedRow(m).names] \in [NewMemories -> SUBSET Chunks]
    BY <1>2, <1>3
  <1>5. \A m \in NewMemories : ~Born(m)
    BY <1>1, <1>2 DEF StagedInv
  <1>6. /\ Create([m \in NewMemories |-> StagedRow(m).class],
                  [m \in NewMemories |-> StagedRow(m).names])
        /\ UNCHANGED sess /\ requests' \in 0 .. MaxRequests
    BY <1>1 DEF CommitExtraction, TypeOK
  <1> QED
    BY <1>2, <1>4, <1>5, <1>6, Zenon DEF CreateStep

LEMMA CommitExtractionKeeps ==
  ASSUME ExtractionInv, CommitExtraction
  PROVE  ExtractionTypeOK' /\ StagedInv'
  <1>1. /\ job = "running" /\ todo = <<>> /\ items = {}
        /\ failures' = failed /\ job' = "done" /\ staged' = {} /\ failed' = {}
        /\ UNCHANGED <<todo, items, owed>>
        /\ origin' = [m \in Memories |->
                        IF m \in NewMemories THEN StagedRow(m).chunk ELSE origin[m]]
    BY DEF CommitExtraction
  <1>2. ExtractionTypeOK /\ StagedInv /\ ReviewInv /\ Untraced
    BY <1>1, Running DEF ExtractionInv
  <1>3. /\ \A m \in NewMemories : StagedRow(m) \in staged /\ StagedRow(m).m = m
        /\ \A r \in staged : r.m \in NewMemories /\ StagedRow(r.m) = r
        /\ NewMemories \in SUBSET Memories
    BY <1>2, StagedRowIs
  <1>4. TypeOK'
    BY <1>2, CommitExtractionIs, CreateKeeps DEF ExtractionInv, ReviewInv
  <1>5. \A r \in staged : r.chunk \in Chunks
    BY <1>2 DEF ExtractionTypeOK, Staged
  <1>6. origin' \in [Memories -> Chunks \cup {NoChunk}]
    BY <1>1, <1>2, <1>3, <1>5 DEF ExtractionTypeOK
  <1>7. ExtractionTypeOK'
    BY <1>1, <1>2, <1>4, <1>6 DEF ExtractionTypeOK
  <1>8. ASSUME NEW c \in Elements(ChunkList)
        PROVE  IF c \in failed THEN From(c)' = {} ELSE Cardinality(From(c)') = owed[c]
    <2>1. c \in Chunks /\ ChunkInv(c) /\ c \notin Elements(todo) /\ ItemsOf(c) = {}
      BY <1>1, <1>2, <1>8, ElementsAreChunks DEF StagedInv, Elements, ItemsOf
    <2> DEFINE f == [r \in staged |-> r.m]
    <2>2. From(c)' = ImageOf(f, StagedOf(c))
      <3>1. ASSUME NEW m \in From(c)' PROVE m \in ImageOf(f, StagedOf(c))
        <4>1. m \in Memories /\ origin'[m] = c
          BY DEF From
        <4>2. m \in NewMemories /\ StagedRow(m).chunk = c
          BY <1>1, <1>2, <2>1, <4>1, NoChunkAssumption DEF Untraced
        <4>3. StagedRow(m) \in StagedOf(c) /\ f[StagedRow(m)] = m
          BY <1>3, <4>2 DEF StagedOf
        <4> QED
          BY <4>3 DEF ImageOf
      <3>2. ASSUME NEW m \in ImageOf(f, StagedOf(c)) PROVE m \in From(c)'
        <4>1. PICK r \in staged : r.chunk = c /\ r.m = m
          BY DEF ImageOf, StagedOf
        <4>2. m \in NewMemories /\ StagedRow(m) = r /\ m \in Memories
          BY <1>3, <4>1
        <4> QED
          BY <1>1, <4>1, <4>2 DEF From
      <3> QED
        BY <3>1, <3>2
    <2>3. CASE c \in failed
      <3>1. StagedOf(c) = {}
        BY <2>1, <2>3 DEF ChunkInv
      <3> QED
        BY <2>2, <2>3, <3>1 DEF ImageOf
    <2>4. CASE c \notin failed
      <3>1. Cardinality(StagedOf(c)) + Cardinality(ItemsOf(c)) = owed[c]
        BY <2>1, <2>4 DEF ChunkInv
      <3>2. IsFiniteSet(StagedOf(c))
        BY <1>2, FS_Subset DEF StagedInv, StagedOf
      <3>3. Cardinality(StagedOf(c)) \in Nat /\ Cardinality(ItemsOf(c)) = 0
        BY <2>1, <3>2, FS_CardinalityType, FS_EmptySet
      <3>4. \A q, r \in StagedOf(c) : f[q] = f[r] => q = r
        BY <1>2 DEF StagedInv, StagedOf
      <3> HIDE DEF f
      <3>5. Cardinality(ImageOf(f, StagedOf(c))) = Cardinality(StagedOf(c))
        BY <3>2, <3>4, ImageIsFinite
      <3> QED
        BY <2>2, <2>4, <3>1, <3>3, <3>5
    <2> QED
      BY <2>3, <2>4
  <1>9. ChunksSettled'
    BY <1>1, <1>8 DEF ChunksSettled, Elements
  <1> QED
    BY <1>1, <1>2, <1>7, <1>9, FS_EmptySet DEF StagedInv

\* The steps of the reviews leave the job alone, and its ids.
LEMMA ReviewLeaves ==
  ASSUME ExtractionInv, TypeOK', UNCHANGED extractionVars,
         \A r \in staged : memory'[r.m] = Unborn
  PROVE  ExtractionTypeOK' /\ StagedInv'
  <1>1. /\ job' = job /\ todo' = todo /\ items' = items /\ staged' = staged
        /\ failed' = failed /\ owed' = owed /\ failures' = failures /\ origin' = origin
    BY DEF extractionVars
  <1>2. ExtractionTypeOK /\ StagedInv
    BY DEF ExtractionInv
  <1>3. ExtractionTypeOK'
    BY <1>1, <1>2 DEF ExtractionTypeOK
  <1>4. ChunksSettled'
    BY <1>1, <1>2 DEF StagedInv, ChunksSettled, From
  <1>5. ASSUME NEW d \in Elements(ChunkList), job = "running" PROVE ChunkInv(d)'
    BY <1>1, <1>2, <1>5 DEF StagedInv, ChunkInv, StagedOf, ItemsOf
  <1> QED
    BY <1>1, <1>2, <1>3, <1>4, <1>5 DEF StagedInv, Born

----------------------------------------------------------------------------
(* The theorems *)

LEMMA ExtractionInitial == ExtractionInit => ExtractionInv
  <1> SUFFICES ASSUME ExtractionInit PROVE ExtractionInv
    OBVIOUS
  <1>1. <<>> \in Seq(Entries) /\ <<>> \in Seq(Chunks)
    OBVIOUS
  <1>2. TypeOK
    BY <1>1, IdleIs, RequestAssumption DEF ExtractionInit, Init, TypeOK
  <1>3. ReviewInv
    BY <1>2, IdleInv DEF ReviewInv, ExtractionInit, Init, RowInv, Born, Told
  <1>4. ExtractionTypeOK
    BY <1>1, <1>2, NoChunkAssumption DEF ExtractionInit, ExtractionTypeOK
  <1>5. ChunksSettled
    BY NoChunkAssumption, ChunkListAssumption DEF ExtractionInit, ChunksSettled, From
  <1>6. StagedInv
    BY <1>5, FS_EmptySet DEF ExtractionInit, StagedInv
  <1> QED
    BY <1>3, <1>4, <1>6 DEF ExtractionInv

\* What a step is to the tables and the sessions.
LEMMA StepOfTables ==
  ASSUME ExtractionInv, [Next]_vars
  PROVE  \/ \E s \in Sessions : SessionStep(s)
         \/ \E B \in SUBSET Memories : CreateStep(B)
         \/ \E s \in Sessions : Commit(s)
         \/ UNCHANGED reviewVars
  <1>1. CASE CommitExtraction
    BY <1>1, CommitExtractionIs
  <1>2. CASE ReviewNext
    <2>1. ASSUME NEW m \in Memories, CreateStep({m})
          PROVE  \E B \in SUBSET Memories : CreateStep(B)
      <3>1. {m} \in SUBSET Memories
        OBVIOUS
      <3> QED
        BY <2>1, <3>1
    <2> QED
      BY <1>2, <2>1, ReviewStepIs DEF ExtractionInv
  <1>3. CASE StartExtraction \/ ExtractChunk \/ CreateMemory \/ CreateRefused \/ ExtractionCrash
    BY <1>3 DEF StartExtraction, ExtractChunk, CreateMemory, CreateRefused, ExtractionCrash
  <1>4. CASE UNCHANGED vars
    BY <1>4 DEF vars
  <1> QED
    BY <1>1, <1>2, <1>3, <1>4 DEF Next, Extraction

LEMMA ExtractionStep ==
  ASSUME ExtractionInv, [Next]_vars
  PROVE  ExtractionInv'
  <1>1. ReviewInv'
    BY StepOfTables, SessionStepKeeps, CreateKeeps, CommitKeeps, ReviewUnchanged DEF ExtractionInv
  <1>2. TypeOK'
    BY <1>1 DEF ReviewInv
  <1>3. ExtractionTypeOK' /\ StagedInv'
    <2>1. CASE Extraction
      BY <2>1, StartKeeps, ExtractKeeps, CreateMemoryKeeps, UndoKeeps, CommitExtractionKeeps
         DEF Extraction
    <2>2. CASE ReviewNext /\ UNCHANGED extractionVars /\ \A r \in staged : memory'[r.m] = Unborn
      BY <1>2, <2>2, ReviewLeaves
    <2>3. CASE UNCHANGED vars
      <3>1. UNCHANGED extractionVars /\ memory' = memory
        BY <2>3 DEF vars, reviewVars
      <3>2. \A r \in staged : memory'[r.m] = Unborn
        BY <3>1 DEF ExtractionInv, StagedInv, Born
      <3> QED
        BY <1>2, <3>1, <3>2, ReviewLeaves
    <2> QED
      BY <2>1, <2>2, <2>3 DEF Next
  <1> QED
    BY <1>1, <1>3 DEF ExtractionInv

LEMMA ExtractionInvariance == Spec => []ExtractionInv
  <1> QED
    BY ExtractionInitial, ExtractionStep, PTL DEF Spec

\* The tables, the sessions and the job keep their types.
THEOREM MemoryTypes == Spec => []ExtractionTypeOK
  <1>1. ExtractionInv => ExtractionTypeOK
    BY DEF ExtractionInv
  <1> QED
    BY <1>1, ExtractionInvariance, PTL

\* P5-T7: whatever requests and reconcilers overlap, and whatever the model answers, a
\* memory that needs a review is approved only if somebody approved or corrected it.
THEOREM ReviewsAreNeeded == Spec => []NoUnreviewedApproval
  <1>1. ExtractionInv => NoUnreviewedApproval
    BY DEF ExtractionInv, ReviewInv, RowInv, Born, NoUnreviewedApproval
  <1> QED
    BY <1>1, ExtractionInvariance, PTL

\* _evict_and_reconcile: for any number of reconcilers, a memory that is reported as
\* unsupported has no binding left.
THEOREM ReportsAreTrue == Spec => []UnsupportedMeansOrphaned
  <1>1. ExtractionInv => UnsupportedMeansOrphaned
    BY DEF ExtractionInv, ReviewInv, RowInv, UnsupportedMeansOrphaned
  <1> QED
    BY <1>1, ExtractionInvariance, PTL

\* update_review_status: an approval, a rejection, a deferral or a bulk invalidation that
\* is the last entry of a memory has had its way, however stale what its session had read.
THEOREM DecisionsStand == Spec => []LastEntryDecides
  <1>1. ExtractionInv => LastEntryDecides
    BY DEF ExtractionInv, ReviewInv, RowInv, LastEntryDecides, Deciding
  <1> QED
    BY <1>1, ExtractionInvariance, PTL

\* _handle_extract_memory: for any document and any replies of the model, crashes and
\* refused rows included, the job leaves for each chunk a failure or all of its memories.
THEOREM ExtractionSettles == Spec => []ChunksSettled
  <1>1. ExtractionInv => ChunksSettled
    BY DEF ExtractionInv, StagedInv
  <1> QED
    BY <1>1, ExtractionInvariance, PTL

\* update_review_status: a memory leaves a terminal status only by an override, or by a
\* review that had read it before it got there.
THEOREM TerminalIsKept == Spec => TerminalLeftOnlyByOverride
  <1> DEFINE Kept(m) ==
         memory[m] # Unborn /\ memory[m].status \in Terminal /\ memory'[m] # memory[m]
            => \E s \in Sessions :
                  /\ WritesTo(s, m) # {}
                  /\ sess[s].action \in Overrides
                         \/ \A i \in WritesTo(s, m) : sess[s].writes[i].seen \notin Terminal
  <1>1. ASSUME ExtractionInv, [Next]_vars, NEW m \in Memories PROVE Kept(m)
    <2>1. CASE \E s \in Sessions : SessionStep(s)
      BY <2>1 DEF SessionStep
    <2>2. CASE \E B \in SUBSET Memories : CreateStep(B)
      BY <2>2 DEF CreateStep, Create, Born
    <2>3. CASE UNCHANGED reviewVars
      BY <2>3 DEF reviewVars
    <2>4. ASSUME NEW s \in Sessions, Commit(s), memory'[m] # memory[m]
          PROVE  /\ WritesTo(s, m) # {}
                 /\ sess[s].action \in Overrides
                        \/ \A i \in WritesTo(s, m) : sess[s].writes[i].seen \notin Terminal
      <3>1. WritesTo(s, m) # {}
        BY <2>4 DEF Commit
      <3>2. \A i \in WritesTo(s, m) : WriteInv(sess[s], sess[s].writes[i])
        BY <1>1, <2>4, <3>1, CommitWritten DEF ExtractionInv
      <3> QED
        BY <3>1, <3>2 DEF WriteInv, Sound
    <2> QED
      BY <1>1, <2>1, <2>2, <2>3, <2>4, StepOfTables
  <1>2. ExtractionInv /\ [Next]_vars => [\A m \in Memories : Kept(m)]_reviewVars
    BY <1>1
  <1> QED
    BY <1>2, ExtractionInvariance, PTL DEF Spec, TerminalLeftOnlyByOverride

----------------------------------------------------------------------------
(* With a single reconciler no orphan goes unreported *)

LEMMA OrphanStep ==
  ASSUME \A e, f \in Evictors : e = f, ExtractionInv, OrphanInv, [Next]_vars
  PROVE  OrphanInv'
  <1>1. ReviewInv /\ TypeOK
    BY DEF ExtractionInv, ReviewInv
  <1>2. CASE UNCHANGED reviewVars
    BY <1>2 DEF reviewVars, OrphanInv, Mindful, Remaining, OrphansAreReported, Told
  <1>3. ASSUME NEW s \in Sessions, SessionStep(s) PROVE OrphanInv'
    <2>1. PICK tx \in Session :
             /\ Mindful(s, sess[s]) => Mindful(s, tx)
             /\ sess' = [sess EXCEPT ![s] = tx]
             /\ UNCHANGED <<memory, evidence, trail>>
      BY <1>3, Zenon DEF SessionStep
    <2>2. ASSUME NEW t \in Sessions PROVE Mindful(t, sess[t])'
      <3>1. PICK x : x = sess'[t]
        OBVIOUS
      <3>2. Mindful(t, x)
        BY <1>1, <2>1, <3>1 DEF OrphanInv, TypeOK
      <3>3. Mindful(t, x)'
        BY <2>1, <3>2 DEF Mindful, Remaining
      <3> QED
        BY <3>1, <3>3
    <2> QED
      BY <2>1, <2>2 DEF OrphanInv, OrphansAreReported, Told
  <1>4. ASSUME NEW B \in SUBSET Memories, CreateStep(B) PROVE OrphanInv'
    <2>1. PICK born \in [B -> Classes], from \in [B -> SUBSET Chunks] :
             Create(born, from) /\ (\A m \in B : ~Born(m)) /\ UNCHANGED sess
      BY <1>4 DEF CreateStep
    <2>2. ASSUME NEW t \in Sessions PROVE Mindful(t, sess[t])'
      <3>1. PICK x : x = sess[t]
        OBVIOUS
      <3>2. Mindful(t, x) /\ SessionInv(x) /\ x.dels \subseteq Bindings /\ x = sess'[t]
        BY <1>1, <2>1, <3>1 DEF OrphanInv, ReviewInv, TypeOK, Session
      <3>3. ASSUME NEW b \in x.dels PROVE Remaining(b[1], x.dels)' = Remaining(b[1], x.dels)
        <4>1. b[1] \in Memories /\ Born(b[1])
          BY <3>2 DEF SessionInv, Bindings
        <4>2. evidence'[b[1]] = evidence[b[1]]
          BY <2>1, <4>1 DEF Create
        <4> QED
          BY <4>2 DEF Remaining
      <3>4. Mindful(t, x)'
        BY <3>2, <3>3 DEF Mindful
      <3> QED
        BY <3>2, <3>4
    <2>3. ASSUME NEW m \in Memories, memory'[m] # Unborn, memory'[m].anchored,
                 evidence'[m] = {}
          PROVE  Told(m, {"unsupported"})'
      <3>1. m \notin B
        <4> SUFFICES ASSUME m \in B PROVE FALSE
          OBVIOUS
        <4>1. memory'[m] = NewRow(born[m], from[m]) /\ evidence'[m] = from[m]
          BY <2>1 DEF Create
        <4>2. NewRow(born[m], from[m]).anchored = (from[m] # {})
          BY DEF NewRow
        <4>3. memory'[m].anchored = (from[m] # {})
          BY <4>1, <4>2, Zenon
        <4> QED
          BY <2>3, <4>1, <4>3, Zenon
      <3>2. memory'[m] = memory[m] /\ evidence'[m] = evidence[m] /\ trail'[m] = trail[m]
        BY <2>1, <3>1 DEF Create
      <3> QED
        BY <2>3, <3>2 DEF OrphanInv, OrphansAreReported, Told
    <2> QED
      BY <2>2, <2>3 DEF OrphanInv, OrphansAreReported
  <1>5. ASSUME NEW s \in Sessions, Commit(s) PROVE OrphanInv'
    <2> DEFINE x == sess[s]
    <2>1. /\ x \in Session /\ SessionInv(x) /\ Mindful(s, x)
          /\ x.phase = "load" /\ x.todo = <<>>
          /\ sess' = [sess EXCEPT ![s] = Idle]
      BY <1>1, <1>5 DEF ReviewInv, TypeOK, OrphanInv, Commit
    <2>2. \A m \in Memories : evidence'[m] = Remaining(m, x.dels)
      BY <1>5 DEF Commit
    <2>3. ASSUME NEW t \in Sessions PROVE Mindful(t, sess[t])'
      <3>1. PICK y : y = sess[t]
        OBVIOUS
      <3>2. y \in Session /\ SessionInv(y) /\ Mindful(t, y)
        BY <1>1, <3>1 DEF ReviewInv, TypeOK, OrphanInv
      <3>3. CASE t = s
        <4>1. sess'[t] = Idle
          BY <1>1, <2>1, <3>3 DEF TypeOK
        <4>2. Mindful(t, Idle)'
          BY DEF Mindful, Idle
        <4> QED
          BY <4>1, <4>2
      <3>4. CASE t # s
        <4>1. sess'[t] = y
          BY <1>1, <2>1, <3>1, <3>4 DEF TypeOK
        <4>2. CASE y.dels = {}
          <5>1. Mindful(t, y)'
            BY <3>2, <4>2 DEF Mindful
          <5> QED
            BY <4>1, <5>1
        <4>3. CASE y.dels # {}
          <5>1. t \in Evictors /\ s \notin Evictors
            BY <3>2, <3>4, <4>3 DEF SessionInv, Mindful
          <5>2. x.dels = {}
            BY <2>1, <5>1 DEF SessionInv, Mindful
          <5>3. \A m \in Memories : evidence'[m] = evidence[m]
            BY <1>1, <2>2, <5>2 DEF Remaining, TypeOK
          <5>4. \A b \in y.dels : b[1] \in Memories
            BY <3>2 DEF Session, Bindings
          <5>5. Mindful(t, y)'
            BY <3>2, <5>3, <5>4 DEF Mindful, Remaining
          <5> QED
            BY <4>1, <5>5
        <4> QED
          BY <4>2, <4>3
      <3> QED
        BY <3>3, <3>4
    <2>4. ASSUME NEW m \in Memories, memory'[m] # Unborn, memory'[m].anchored,
                 evidence'[m] = {}
          PROVE  Told(m, {"unsupported"})'
      <3>1. Born(m) /\ memory[m].anchored
        <4>1. CASE WritesTo(s, m) = {}
          BY <1>5, <2>4, <4>1 DEF Commit, Born
        <4>2. CASE WritesTo(s, m) # {}
          <5>1. Born(m) /\ memory'[m] = [memory[m] EXCEPT !.status = StatusAfter(s, m)]
            BY <1>1, <1>5, <4>2, CommitWritten
          <5>2. memory[m] \in Row
            BY <1>1, <5>1, BornIsRow
          <5> QED
            BY <2>4, <5>1, <5>2 DEF Row
        <4> QED
          BY <4>1, <4>2
      <3>2. CASE evidence[m] = {}
        <4>1. Told(m, {"unsupported"})
          BY <3>1, <3>2 DEF OrphanInv, OrphansAreReported, Born
        <4>2. CASE WritesTo(s, m) = {}
          BY <1>1, <1>5, <4>1, <4>2, CommitTrail DEF Told
        <4>3. CASE WritesTo(s, m) # {}
          <5>1. \A A : Told(m, A)' <=> Told(m, A) \/ x.action \in A
            BY <1>1, <1>5, <4>3, CommitTrail, Zenon
          <5> QED
            BY <4>1, <5>1
        <4> QED
          BY <4>2, <4>3
      <3>3. CASE evidence[m] # {}
        <4>1. PICK c \in evidence[m] : <<m, c>> \in x.dels
          BY <2>2, <2>4, <3>3 DEF Remaining
        <4>2. m \in Queued(x)
          <5>1. <<m, c>>[1] = m /\ Remaining(m, x.dels) = {}
            BY <2>2, <2>4
          <5> QED
            BY <2>1, <4>1, <5>1 DEF Mindful
        <4>3. WritesTo(s, m) # {}
          BY <2>1, <4>2 DEF Queued, Elements, WritesTo
        <4>4. x.action = "unsupported"
          BY <2>1, <4>1 DEF SessionInv
        <4>5. \A A : Told(m, A)' <=> Told(m, A) \/ x.action \in A
          BY <1>1, <1>5, <4>3, CommitTrail, Zenon
        <4> QED
          BY <4>4, <4>5
      <3> QED
        BY <3>2, <3>3
    <2> QED
      BY <2>3, <2>4 DEF OrphanInv, OrphansAreReported
  <1> QED
    BY <1>2, <1>3, <1>4, <1>5, StepOfTables

\* P5-T6: with one reconciler at a time, a memory that has lost its last binding has been
\* reported, whatever reviews and extractions run beside it.
THEOREM OneReconcilerReports ==
  ASSUME \A e, f \in Evictors : e = f
  PROVE  Spec => []OrphansAreReported
  <1>1. ExtractionInit => OrphanInv
    <2> SUFFICES ASSUME ExtractionInit PROVE OrphanInv
      OBVIOUS
    <2> QED
      BY IdleInv DEF ExtractionInit, Init, OrphanInv, OrphansAreReported
  <1>2. ExtractionInv /\ OrphanInv /\ [Next]_vars => OrphanInv'
    BY OrphanStep
  <1>3. OrphanInv => OrphansAreReported
    BY DEF OrphanInv
  <1> QED
    BY <1>1, <1>2, <1>3, ExtractionInvariance, PTL DEF Spec
=============================================================================
