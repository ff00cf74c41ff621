------------------------- MODULE CredentialsProofs -------------------------
(***************************************************************************)
(* Proofs about Credentials, for any number of services and credentials    *)
(* and any plan of rotations that keeps to PlanAssumption.                 *)
(*                                                                         *)
(* A row's key id changes only to the active key's, and only if the writer *)
(* read another one, so the argument is about what a writer holds.  The    *)
(* job holds every row that is not under the active key (JobInv): when it  *)
(* writes, none is left.  A service that read a row under the active key   *)
(* finds it there when it writes (ReadInv), so that the id it leaves alone *)
(* is the right one; this needs that no service is of another stage.       *)
(***************************************************************************)
EXTENDS Credentials, ProofLemmas

JobInv ==
    /\ cleared <= goal
    /\ cleared = goal \/ job # {} => \A p \in Services : stage[p] = goal
    /\ \A old \in job : old.key # ActiveId(Current)
    /\ job # {} =>
          \A n \in DOMAIN rows :
              rows[n].key # ActiveId(Current) => \E old \in job : old.id = rows[n].id
    /\ cleared = goal => \A n \in DOMAIN rows : rows[n].key = ActiveId(Current)

Storing == {p \in Services : pc[p] = "store"}
CountInv == Len(rows) + Cardinality(Storing) <= Cardinality(Services)

IdsInv == \A m, n \in DOMAIN rows : rows[m].id = rows[n].id => m = n
OpensInv == \A n \in DOMAIN rows : Opens(Current, rows[n])
ReadInv ==
    \A p \in Services : \A old \in loaded[p] : \A n \in DOMAIN rows :
        rows[n].id = old.id /\ old.key = ActiveId(Current) => rows[n].key = ActiveId(Current)

TogetherInv ==
    /\ \A p \in Services : stage[p] = goal
    /\ IdsInv /\ OpensInv /\ ReadInv

\* What both kinds of update do to the rows: some of those that olds names are sealed
\* again, all of them if All, and the others are carried over.
Carried(c, olds, All) ==
    /\ rows' \in Seq(Row) /\ Len(rows') = Len(rows)
    /\ \E o \in [DOMAIN rows -> DOMAIN rows] :
          /\ \A m, n \in DOMAIN rows : o[m] = o[n] => m = n
          /\ \A m \in DOMAIN rows :
                \/ /\ rows'[m] = rows[o[m]]
                   /\ All => \A old \in olds : old.id # rows[o[m]].id
                \/ \E old \in olds : /\ old.id = rows[o[m]].id
                                     /\ rows'[m] = Resealed(rows[o[m]], old, c)

----------------------------------------------------------------------------

\* A configuration that is deployed has its active key, and its bytes are of Bytes.
LEMMA KeysOf ==
  ASSUME NEW s \in Stages
  PROVE  /\ ActiveId(Plan[s]) \in KeyIds
         /\ ActiveBytes(Plan[s]) \in Bytes
         /\ ActiveId(Plan[s]) \in DOMAIN Custody(Plan[s])
         /\ Custody(Plan[s])[ActiveId(Plan[s])] = ActiveBytes(Plan[s])
  <1> DEFINE c == Plan[s]
             q == Listed(c)
             i == ActiveId(c)
  <1>1. c \in Configuration
    BY PlanAssumption DEF Stages
  <1>2. Has(c, c)
    BY PlanAssumption DEF Stages
  <1>3. c.active \in Seq(Key) /\ c.previous \in Seq(Key) /\ c.legacy \in Seq(Key) /\ c.name \in KeyIds
    BY <1>1 DEF Configuration
  <1>4. q \in Seq(Key)
    BY <1>3, ConcatProperties DEF Listed
  <1> HIDE DEF c
  <1>5. i \in KeyIds
    <2>1. CASE c.active # <<>>
      <3>1. c.active[1] \in Key
        BY <1>3, <2>1
      <3> QED
        BY <2>1, <3>1 DEF ActiveId, Key
    <2> QED
      BY <1>3, <2>1 DEF ActiveId
  <1> HIDE DEF q, i
  <1>6. i \in DOMAIN Custody(c) /\ Custody(c)[i] = ActiveBytes(c)
    BY <1>2 DEF Has, i
  <1>7. Custody(c) = [k \in {q[n].id : n \in DOMAIN q} |-> q[LastOf(q, k)].bytes]
    BY DEF Custody, q
  <1>8. PICK n \in DOMAIN q : q[n].id = i
    BY <1>6, <1>7
  <1> DEFINE T == {m \in DOMAIN q : q[m].id = i}
  <1>9. T \in SUBSET (1 .. Len(q)) /\ T # {} /\ Len(q) \in Nat
    BY <1>4, <1>8
  <1>10. \E l \in T : \A m \in T : m <= l
    BY <1>9, LastExists
  <1>11. LastOf(q, i) \in DOMAIN q
    BY <1>10 DEF LastOf
  <1>12. q[LastOf(q, i)] \in Key
    BY <1>4, <1>11
  <1>13. Custody(c)[i] = q[LastOf(q, i)].bytes
    BY <1>6, <1>7
  <1>14. Custody(c)[i] \in Bytes
    BY <1>12, <1>13 DEF Key
  <1> QED
    BY <1>5, <1>6, <1>14 DEF i, c

\* t is q without its n-th element and with e at the end.
IsMoved(t, S, q, n, e) ==
    /\ t \in Seq(S) /\ Len(t) = Len(q)
    /\ \A m \in 1 .. Len(q) :
          t[m] = IF m < n THEN q[m] ELSE IF m < Len(q) THEN q[m + 1] ELSE e

\* A row is taken out and another one is put at the end.
LEMMA Moved ==
  ASSUME NEW S, NEW q \in Seq(S), NEW n \in DOMAIN q, NEW e \in S
  PROVE  IsMoved(Append(SubSeq(q, 1, n - 1) \o SubSeq(q, n + 1, Len(q)), e), S, q, n, e)
  <1> DEFINE a == SubSeq(q, 1, n - 1)
             b == SubSeq(q, n + 1, Len(q))
             ab == a \o b
             t == Append(ab, e)
  <1>1. n \in 1 .. Len(q) /\ Len(q) \in Nat
    OBVIOUS
  <1>2. /\ a \in Seq(S) /\ Len(a) = n - 1
        /\ \A m \in 1 .. n - 1 : a[m] = q[m]
    <2>1. \A m \in 1 .. n - 1 : q[m] \in S
      BY <1>1
    <2>2. /\ a \in Seq(S) /\ Len(a) = IF 1 <= n - 1 THEN n - 1 - 1 + 1 ELSE 0
          /\ \A m \in 1 .. n - 1 - 1 + 1 : a[m] = q[1 + m - 1]
      BY <1>1, <2>1, SubSeqProperties
    <2> HIDE DEF a
    <2> QED
      BY <1>1, <2>2
  <1>3. /\ b \in Seq(S) /\ Len(b) = Len(q) - n
        /\ \A m \in 1 .. Len(q) - n : b[m] = q[n + m]
    <2>1. \A m \in n + 1 .. Len(q) : q[m] \in S
      BY <1>1
    <2>2. /\ b \in Seq(S) /\ Len(b) = IF n + 1 <= Len(q) THEN Len(q) - (n + 1) + 1 ELSE 0
          /\ \A m \in 1 .. Len(q) - (n + 1) + 1 : b[m] = q[n + 1 + m - 1]
      BY <1>1, <2>1, SubSeqProperties
    <2> HIDE DEF b
    <2> QED
      BY <1>1, <2>2
  <1> HIDE DEF a, b
  <1>4. /\ ab \in Seq(S) /\ Len(ab) = Len(q) - 1
        /\ \A m \in 1 .. Len(q) - 1 : ab[m] = IF m <= n - 1 THEN a[m] ELSE b[m - (n - 1)]
    <2>1. /\ ab \in Seq(S) /\ Len(ab) = Len(a) + Len(b)
          /\ \A m \in 1 .. Len(a) + Len(b) :
                ab[m] = IF m <= Len(a) THEN a[m] ELSE b[m - Len(a)]
      BY <1>2, <1>3, ConcatProperties
    <2> HIDE DEF ab
    <2>2. Len(a) = n - 1 /\ Len(a) + Len(b) = Len(q) - 1
      BY <1>1, <1>2, <1>3
    <2>3. Len(ab) = Len(q) - 1
      BY <2>1, <2>2
    <2>4. ASSUME NEW m \in 1 .. Len(q) - 1
          PROVE  ab[m] = IF m <= n - 1 THEN a[m] ELSE b[m - (n - 1)]
      <3>1. m \in 1 .. Len(a) + Len(b)
        BY <2>2
      <3>2. ab[m] = IF m <= Len(a) THEN a[m] ELSE b[m - Len(a)]
        BY <2>1, <3>1
      <3> QED
        BY <2>2, <3>2
    <2> QED
      BY <2>1, <2>3, <2>4
  <1> HIDE DEF ab
  <1>5. /\ t \in Seq(S) /\ Len(t) = Len(ab) + 1
        /\ \A m \in 1 .. Len(ab) : t[m] = ab[m]
        /\ t[Len(ab) + 1] = e
    BY <1>4, AppendProperties
  <1> HIDE DEF t
  <1>6. ASSUME NEW m \in 1 .. Len(q)
        PROVE  t[m] = IF m < n THEN q[m] ELSE IF m < Len(q) THEN q[m + 1] ELSE e
    <2>1. CASE m < n
      BY <1>1, <1>2, <1>4, <1>5, <2>1
    <2>2. CASE ~(m < n) /\ m < Len(q)
      <3>0. m \in 1 .. Len(q) - 1 /\ m \in 1 .. Len(ab) /\ ~(m <= n - 1)
        BY <1>1, <1>4, <2>2
      <3>1. t[m] = b[m - (n - 1)]
        BY <1>4, <1>5, <3>0
      <3>2. m - (n - 1) \in 1 .. Len(q) - n /\ n + (m - (n - 1)) = m + 1
        BY <1>1, <2>2
      <3> QED
        BY <1>3, <2>2, <3>1, <3>2
    <2>3. CASE ~(m < n) /\ ~(m < Len(q))
      BY <1>1, <1>4, <1>5, <2>3
    <2> QED
      BY <2>1, <2>2, <2>3
  <1>7. t \in Seq(S) /\ Len(t) = Len(q)
    BY <1>1, <1>4, <1>5
  <1> QED
    BY <1>6, <1>7 DEF IsMoved, t, ab, a, b

\* The last row is taken out.
LEMMA Shortened ==
  ASSUME NEW S, NEW q \in Seq(S), q # <<>>
  PROVE  LET t == SubSeq(q, 1, Len(q) - 1)
         IN  /\ t \in Seq(S) /\ Len(t) = Len(q) - 1
             /\ \A n \in 1 .. Len(q) - 1 : t[n] = q[n]
  <1> DEFINE t == SubSeq(q, 1, Len(q) - 1)
  <1>1. PICK k \in Nat : Len(q) = k /\ k > 0
    OBVIOUS
  <1>2. \A n \in 1 .. k - 1 : q[n] \in S
    BY <1>1
  <1>3. /\ t \in Seq(S) /\ Len(t) = IF 1 <= k - 1 THEN k - 1 - 1 + 1 ELSE 0
        /\ \A n \in 1 .. k - 1 - 1 + 1 : t[n] = q[1 + n - 1]
    BY <1>1, <1>2, SubSeqProperties
  <1> HIDE DEF t
  <1>4. Len(t) = k - 1
    BY <1>1, <1>3
  <1>5. ASSUME NEW n \in 1 .. k - 1 PROVE t[n] = q[n]
    <2>1. n \in 1 .. k - 1 - 1 + 1 /\ 1 + n - 1 = n
      BY <1>1
    <2> QED
      BY <1>3, <2>1
  <1> QED
    BY <1>1, <1>3, <1>4, <1>5 DEF t

LEMMA ResealedIs ==
  ASSUME NEW row \in Row, NEW old \in Row, NEW s \in Stages
  PROVE  LET r == Resealed(row, old, Plan[s])
         IN  /\ r \in Row /\ r.id = row.id /\ r.seal = ActiveBytes(Plan[s])
             /\ r.key = IF ActiveId(Plan[s]) # old.key THEN ActiveId(Plan[s]) ELSE row.key
  BY KeysOf DEF Resealed, Row

LEMMA SealedIs ==
  ASSUME NEW i \in RowIds, NEW s \in Stages
  PROVE  LET r == Sealed(i, Plan[s])
         IN  /\ r \in Row /\ r.id = i
             /\ r.key = ActiveId(Plan[s]) /\ r.seal = ActiveBytes(Plan[s])
  BY KeysOf DEF Sealed, Row

\* store_credential appends one row.
LEMMA StoreRows ==
  ASSUME TypeOK, NEW p \in Services, Store(p)
  PROVE  /\ rows' \in Seq(Row) /\ Len(rows') = Len(rows) + 1
         /\ \A n \in DOMAIN rows : rows'[n] = rows[n]
         /\ \E i \in Unused : rows'[Len(rows) + 1] = Sealed(i, Config(p))
  <1>1. PICK i \in Unused : rows' = Append(rows, Sealed(i, Config(p)))
    BY DEF Store
  <1>2. Sealed(i, Config(p)) \in Row
    BY SealedIs DEF TypeOK, Unused, Config
  <1>3. rows \in Seq(Row)
    BY DEF TypeOK
  <1>4. /\ rows' \in Seq(Row) /\ Len(rows') = Len(rows) + 1
        /\ \A n \in 1 .. Len(rows) : rows'[n] = rows[n]
        /\ rows'[Len(rows) + 1] = Sealed(i, Config(p))
    BY <1>1, <1>2, <1>3, AppendProperties
  <1>5. DOMAIN rows = 1 .. Len(rows)
    BY <1>3
  <1> QED
    BY <1>4, <1>5

\* delete_credential drops the last row.
LEMMA DeleteRows ==
  ASSUME TypeOK, NEW p \in Services, Delete(p)
  PROVE  /\ rows' \in Seq(Row) /\ Len(rows') = Len(rows) - 1
         /\ \A n \in DOMAIN rows' : n \in DOMAIN rows /\ rows'[n] = rows[n]
  <1>1. rows \in Seq(Row) /\ rows # <<>> /\ rows' = SubSeq(rows, 1, Len(rows) - 1)
    BY DEF TypeOK, Delete
  <1> DEFINE t == SubSeq(rows, 1, Len(rows) - 1)
  <1>2. /\ t \in Seq(Row) /\ Len(t) = Len(rows) - 1
        /\ \A n \in 1 .. Len(rows) - 1 : t[n] = rows[n]
    BY <1>1, Shortened
  <1>3. rows' = t
    BY <1>1
  <1> HIDE DEF t
  <1>4. DOMAIN t = 1 .. Len(rows) - 1 /\ DOMAIN rows = 1 .. Len(rows) /\ Len(rows) \in Nat
    BY <1>1, <1>2
  <1>5. ASSUME NEW n \in DOMAIN t
        PROVE  n \in DOMAIN rows /\ t[n] = rows[n]
    BY <1>2, <1>4
  <1> QED
    BY <1>2, <1>3, <1>5

\* update_credential seals the row again and moves it to the end.
LEMMA WriteRows ==
  ASSUME TypeOK, NEW p \in Services, Write(p)
  PROVE  Carried(Config(p), loaded[p], FALSE)
  <1>1. PICK old \in loaded[p], n \in DOMAIN rows :
           /\ old.id = rows[n].id
           /\ rows' = Append(Without(n), Resealed(rows[n], old, Config(p)))
    BY DEF Write, At
  <1> DEFINE e == Resealed(rows[n], old, Config(p))
  <1>2. rows \in Seq(Row) /\ old \in Row /\ DOMAIN rows = 1 .. Len(rows) /\ Len(rows) \in Nat
    BY DEF TypeOK
  <1>3. e \in Row
    BY <1>2, ResealedIs DEF TypeOK, Config
  <1> HIDE DEF e
  <1>4. rows' = Append(SubSeq(rows, 1, n - 1) \o SubSeq(rows, n + 1, Len(rows)), e)
    BY <1>1 DEF Without, e
  <1>5. /\ rows' \in Seq(Row) /\ Len(rows') = Len(rows)
        /\ \A m \in 1 .. Len(rows) :
              rows'[m] = IF m < n THEN rows[m] ELSE IF m < Len(rows) THEN rows[m + 1] ELSE e
    <2>1. n \in DOMAIN rows
      OBVIOUS
    <2>2. IsMoved(Append(SubSeq(rows, 1, n - 1) \o SubSeq(rows, n + 1, Len(rows)), e), Row, rows, n, e)
      BY <1>2, <1>3, <2>1, Moved, Zenon
    <2>3. IsMoved(rows', Row, rows, n, e)
      BY <1>4, <2>2, Zenon
    <2> QED
      BY <2>3 DEF IsMoved
  <1> DEFINE o == [m \in DOMAIN rows |-> IF m < n THEN m ELSE IF m < Len(rows) THEN m + 1 ELSE n]
  <1>6. o \in [DOMAIN rows -> DOMAIN rows]
    BY <1>2
  <1>7. \A m, k \in DOMAIN rows : o[m] = o[k] => m = k
    BY <1>2
  <1>8. ASSUME NEW m \in DOMAIN rows
        PROVE  \/ rows'[m] = rows[o[m]]
               \/ old.id = rows[o[m]].id /\ rows'[m] = Resealed(rows[o[m]], old, Config(p))
    <2>1. CASE m < n
      BY <1>2, <1>5, <2>1
    <2>2. CASE ~(m < n) /\ m < Len(rows)
      BY <1>2, <1>5, <2>2
    <2>3. CASE ~(m < n) /\ ~(m < Len(rows))
      <3>1. rows'[m] = e /\ o[m] = n
        BY <1>2, <1>5, <2>3
      <3> QED
        BY <1>1, <3>1 DEF e
    <2> QED
      BY <2>1, <2>2, <2>3
  <1> HIDE DEF o
  <1>9. \A m \in DOMAIN rows :
           \/ rows'[m] = rows[o[m]]
           \/ \E d \in loaded[p] : /\ d.id = rows[o[m]].id
                                   /\ rows'[m] = Resealed(rows[o[m]], d, Config(p))
    BY <1>8
  <1> QED
    BY <1>5, <1>6, <1>7, <1>9 DEF Carried

\* reencrypt_credentials seals every row again that it has read.
LEMMA JobRows ==
  ASSUME TypeOK, JobWrites
  PROVE  Carried(Current, job, TRUE)
  <1> DEFINE read(n) == \E old \in job : old.id = rows[n].id
             by(n) == CHOOSE old \in job : old.id = rows[n].id
  <1>1. PICK q \in [1 .. Len(rows) -> DOMAIN rows] :
           /\ \A m, n \in DOMAIN q : m < n => q[m] # q[n]
           /\ rows' = [m \in DOMAIN q |->
                          IF read(q[m]) THEN Resealed(rows[q[m]], by(q[m]), Current)
                          ELSE rows[q[m]]]
    BY DEF JobWrites
  <1>2. rows \in Seq(Row) /\ job \subseteq Row /\ goal \in Stages
        /\ DOMAIN rows = 1 .. Len(rows) /\ Len(rows) \in Nat
    BY DEF TypeOK
  <1>3. DOMAIN q = 1 .. Len(rows)
    OBVIOUS
  <1>4. ASSUME NEW m \in 1 .. Len(rows)
        PROVE  /\ rows'[m] \in Row
               /\ \/ /\ rows'[m] = rows[q[m]]
                     /\ \A old \in job : old.id # rows[q[m]].id
                  \/ \E old \in job : /\ old.id = rows[q[m]].id
                                      /\ rows'[m] = Resealed(rows[q[m]], old, Current)
    <2>1. rows[q[m]] \in Row
      BY <1>2
    <2>2. CASE read(q[m])
      <3>1. by(q[m]) \in job /\ by(q[m]).id = rows[q[m]].id
        BY <2>2
      <3> HIDE DEF by
      <3>2. rows'[m] = Resealed(rows[q[m]], by(q[m]), Current)
        BY <1>1, <1>3, <2>2
      <3>3. rows'[m] \in Row
        BY <1>2, <2>1, <3>1, <3>2, ResealedIs DEF Current
      <3> QED
        BY <3>1, <3>2, <3>3
    <2>3. CASE ~read(q[m])
      <3>1. rows'[m] = rows[q[m]]
        BY <1>1, <1>3, <2>3
      <3> QED
        BY <2>1, <2>3, <3>1
    <2> QED
      BY <2>2, <2>3
  <1>5. rows' \in Seq(Row) /\ Len(rows') = Len(rows)
    <2>1. DOMAIN rows' = 1 .. Len(rows)
      BY <1>1, <1>3
    <2>2. rows' = [m \in 1 .. Len(rows) |-> rows'[m]]
      BY <1>1, <1>3
    <2>3. rows' \in [1 .. Len(rows) -> Row]
      BY <1>4, <2>2
    <2> QED
      BY <1>2, <2>3
  <1>6. \A m, n \in DOMAIN rows : q[m] = q[n] => m = n
    BY <1>1, <1>2, <1>3
  <1> QED
    BY <1>2, <1>4, <1>5, <1>6 DEF Carried

----------------------------------------------------------------------------
(* Types *)

LEMMA TypesStep == TypeOK /\ [Next]_vars => TypeOK'
  <1> SUFFICES ASSUME TypeOK, [Next]_vars PROVE TypeOK'
    OBVIOUS
  <1> USE DEF TypeOK
  <1>1. ASSUME NEW p \in Services, Load(p) \/ StoreRefused(p) PROVE TypeOK'
    BY <1>1 DEF Load, StoreRefused, Goes, operator
  <1>2. ASSUME NEW p \in Services, Store(p) PROVE TypeOK'
    <2>1. rows' \in Seq(Row)
      BY <1>2, StoreRows
    <2> QED
      BY <1>2, <2>1 DEF Store, Goes, operator
  <1>3. ASSUME NEW p \in Services, GiveUp(p) PROVE TypeOK'
    BY <1>3 DEF GiveUp, Goes, operator
  <1>4. ASSUME NEW p \in Services, Refresh(p) PROVE TypeOK'
    <2>1. Latest \in Row
      BY <1>4 DEF Refresh, Latest
    <2>2. loaded' \in [Services -> SUBSET Row]
      BY <1>4, <2>1 DEF Refresh
    <2> QED
      BY <1>4, <2>2 DEF Refresh, Goes, operator
  <1>5. ASSUME NEW p \in Services, Write(p) PROVE TypeOK'
    <2>1. rows' \in Seq(Row)
      BY <1>5, WriteRows DEF Carried
    <2> QED
      BY <1>5, <2>1 DEF Write, Goes, operator
  <1>6. ASSUME NEW p \in Services, Delete(p) PROVE TypeOK'
    <2>1. rows' \in Seq(Row)
      BY <1>6, DeleteRows
    <2> QED
      BY <1>6, <2>1 DEF Delete, operator
  <1>7. ASSUME NEW p \in Services, Restart(p) PROVE TypeOK'
    BY <1>7 DEF Restart, Goes
  <1>8. CASE Deploy
    <2>1. goal' \in Stages
      BY <1>8 DEF Deploy
    <2>2. stage' \in [Services -> Stages]
      BY <1>8, <2>1 DEF Deploy
    <2>3. pc' \in [Services -> {"idle", "store", "refresh", "write"}]
      BY <1>8 DEF Deploy
    <2>4. loaded' \in [Services -> SUBSET Row]
      BY <1>8 DEF Deploy
    <2> QED
      BY <1>8, <2>1, <2>2, <2>3, <2>4 DEF Deploy
  <1>9. CASE JobReads
    <2>1. Outgoing \subseteq Row
      BY DEF Outgoing, RowSet
    <2>2. job' \subseteq Row /\ cleared' \in Stages \cup {0}
      BY <1>9, <2>1 DEF JobReads
    <2> QED
      BY <1>9, <2>2 DEF JobReads
  <1>10. CASE JobWrites
    <2>1. rows' \in Seq(Row)
      BY <1>10, JobRows DEF Carried
    <2> QED
      BY <1>10, <2>1 DEF JobWrites
  <1>11. CASE JobFails
    BY <1>11 DEF JobFails
  <1>12. CASE UNCHANGED vars
    BY <1>12 DEF vars
  <1> QED
    BY <1>1, <1>2, <1>3, <1>4, <1>5, <1>6, <1>7, <1>8, <1>9, <1>10, <1>11, <1>12 DEF Next

LEMMA Initially == Init => TypeOK /\ IdsInv /\ OpensInv /\ ReadInv
  <1> SUFFICES ASSUME Init PROVE TypeOK /\ IdsInv /\ OpensInv /\ ReadInv
    OBVIOUS
  <1>1. 1 \in Stages
    BY PlanAssumption DEF Stages
  <1>2. DOMAIN rows = {}
    BY DEF Init
  <1>3. TypeOK
    BY <1>1 DEF Init, TypeOK
  <1> QED
    BY <1>2, <1>3 DEF IdsInv, OpensInv, ReadInv

\* The rows, the deployed configuration, the services and the job keep their types.
THEOREM RotationTypes == Spec => []TypeOK
  <1> QED
    BY Initially, TypesStep, PTL DEF Spec

----------------------------------------------------------------------------
(* What an update leaves in a row *)

\* The n-th row is the k-th one as it was, or as the writer has sealed it.
UpdateOf(n, k, c, olds, All) ==
    /\ rows'[n].id = rows[k].id
    /\ \/ /\ rows'[n] = rows[k]
          /\ All => \A old \in olds : old.id # rows[k].id
       \/ \E old \in olds :
             /\ old.id = rows[k].id
             /\ rows'[n].seal = ActiveBytes(c)
             /\ rows'[n].key = IF ActiveId(c) # old.key THEN ActiveId(c) ELSE rows[k].key

\* Every row is the update of one that was there.
LEMMA CarriedIs ==
  ASSUME TypeOK, NEW s \in Stages, NEW olds \in SUBSET Row, NEW All \in BOOLEAN,
         Carried(Plan[s], olds, All), NEW n \in DOMAIN rows'
  PROVE  \E k \in DOMAIN rows : UpdateOf(n, k, Plan[s], olds, All)
  <1>1. rows \in Seq(Row) /\ rows' \in Seq(Row) /\ Len(rows') = Len(rows)
    BY DEF TypeOK, Carried
  <1>2. n \in DOMAIN rows
    BY <1>1
  <1>3. PICK o \in [DOMAIN rows -> DOMAIN rows] :
           \/ /\ rows'[n] = rows[o[n]]
              /\ All => \A old \in olds : old.id # rows[o[n]].id
           \/ \E old \in olds : /\ old.id = rows[o[n]].id
                                /\ rows'[n] = Resealed(rows[o[n]], old, Plan[s])
    BY <1>2 DEF Carried
  <1>4. o[n] \in DOMAIN rows /\ rows[o[n]] \in Row
    BY <1>1, <1>2
  <1>5. CASE /\ rows'[n] = rows[o[n]]
             /\ All => \A old \in olds : old.id # rows[o[n]].id
    BY <1>4, <1>5 DEF UpdateOf
  <1>6. CASE \E old \in olds : /\ old.id = rows[o[n]].id
                               /\ rows'[n] = Resealed(rows[o[n]], old, Plan[s])
    <2>1. PICK old \in olds : /\ old.id = rows[o[n]].id
                              /\ rows'[n] = Resealed(rows[o[n]], old, Plan[s])
      BY <1>6
    <2>2. /\ rows'[n].id = rows[o[n]].id
          /\ rows'[n].seal = ActiveBytes(Plan[s])
          /\ rows'[n].key = IF ActiveId(Plan[s]) # old.key THEN ActiveId(Plan[s])
                            ELSE rows[o[n]].key
      <3> DEFINE r == Resealed(rows[o[n]], old, Plan[s])
      <3>1. rows[o[n]] \in Row /\ old \in Row
        BY <1>4
      <3>2. /\ r.id = rows[o[n]].id /\ r.seal = ActiveBytes(Plan[s])
            /\ r.key = IF ActiveId(Plan[s]) # old.key THEN ActiveId(Plan[s])
                       ELSE rows[o[n]].key
        BY <3>1, ResealedIs
      <3>3. rows'[n] = r
        BY <2>1
      <3> HIDE DEF r
      <3> QED
        BY <3>2, <3>3
    <2> QED
      BY <1>4, <2>1, <2>2 DEF UpdateOf
  <1> QED
    BY <1>3, <1>5, <1>6

\* An update does not give two rows one id.
LEMMA CarriedIds ==
  ASSUME TypeOK, IdsInv, NEW s \in Stages, NEW olds \in SUBSET Row, NEW All \in BOOLEAN,
         Carried(Plan[s], olds, All)
  PROVE  IdsInv'
  <1>1. rows \in Seq(Row) /\ rows' \in Seq(Row) /\ DOMAIN rows' = DOMAIN rows
    BY DEF TypeOK, Carried
  <1>2. PICK o \in [DOMAIN rows -> DOMAIN rows] :
           /\ \A m, n \in DOMAIN rows : o[m] = o[n] => m = n
           /\ \A m \in DOMAIN rows :
                 \/ rows'[m] = rows[o[m]]
                 \/ \E old \in olds : rows'[m] = Resealed(rows[o[m]], old, Plan[s])
    BY DEF Carried
  <1>3. ASSUME NEW m \in DOMAIN rows
        PROVE  o[m] \in DOMAIN rows /\ rows'[m].id = rows[o[m]].id
    <2>1. o[m] \in DOMAIN rows /\ rows[o[m]] \in Row
      BY <1>1
    <2>2. ASSUME NEW old \in olds, rows'[m] = Resealed(rows[o[m]], old, Plan[s])
          PROVE  rows'[m].id = rows[o[m]].id
      <3>1. old \in Row
        OBVIOUS
      <3>2. Resealed(rows[o[m]], old, Plan[s]).id = rows[o[m]].id
        BY <2>1, <3>1, ResealedIs
      <3> QED
        BY <2>2, <3>2
    <2> QED
      BY <1>2, <2>1, <2>2
  <1> QED
    BY <1>1, <1>2, <1>3 DEF IdsInv

----------------------------------------------------------------------------
(* The re-encryption *)

\* A step that leaves the rotation alone, and after which a row that is not under the
\* active key was there before, keeps JobInv.
LEMMA JobKept ==
  ASSUME TypeOK, JobInv, UNCHANGED <<goal, cleared, job>>,
         \A p \in Services : stage'[p] = stage[p] \/ stage'[p] = goal,
         cleared = goal \/ job # {} =>
            \A n \in DOMAIN rows' :
                \/ rows'[n].key = ActiveId(Current)
                \/ \E k \in DOMAIN rows : rows[k].id = rows'[n].id /\ rows[k].key = rows'[n].key
  PROVE  JobInv'
  <1>1. Current' = Current
    BY DEF Current
  <1>2. /\ cleared' <= goal'
        /\ cleared' = goal' \/ job' # {} => \A p \in Services : stage'[p] = goal'
        /\ \A old \in job' : old.key # ActiveId(Current')
    BY <1>1 DEF JobInv
  <1>3. job' # {} =>
          \A n \in DOMAIN rows' :
              rows'[n].key # ActiveId(Current') => \E old \in job' : old.id = rows'[n].id
    BY <1>1 DEF JobInv
  <1>4. cleared' = goal' => \A n \in DOMAIN rows' : rows'[n].key = ActiveId(Current')
    BY <1>1 DEF JobInv
  <1> QED
    BY <1>2, <1>3, <1>4 DEF JobInv

LEMMA JobStep == TypeOK /\ JobInv /\ [Next]_vars => JobInv'
  <1> SUFFICES ASSUME TypeOK, JobInv, [Next]_vars PROVE JobInv'
    OBVIOUS
  <1>0. /\ goal \in Nat /\ goal \in Stages /\ cleared \in Nat
        /\ rows \in Seq(Row) /\ job \subseteq Row
    BY PlanAssumption DEF TypeOK, Stages
  <1>1. ASSUME NEW p \in Services, Load(p) \/ StoreRefused(p) \/ GiveUp(p) \/ Refresh(p)
        PROVE  JobInv'
    BY <1>1, JobKept DEF Load, StoreRefused, GiveUp, Refresh, operator
  <1>2. ASSUME NEW p \in Services, Store(p) PROVE JobInv'
    <2>1. PICK i \in Unused :
             /\ rows' \in Seq(Row) /\ Len(rows') = Len(rows) + 1
             /\ \A n \in DOMAIN rows : rows'[n] = rows[n]
             /\ rows'[Len(rows) + 1] = Sealed(i, Config(p))
      BY <1>2, StoreRows
    <2>2. Sealed(i, Config(p)).key = ActiveId(Config(p))
      BY DEF Sealed
    <2>3. cleared = goal \/ job # {} => Config(p) = Current
      BY DEF JobInv, Config, Current
    <2>4. ASSUME cleared = goal \/ job # {}, NEW n \in DOMAIN rows'
          PROVE  \/ rows'[n].key = ActiveId(Current)
                 \/ \E k \in DOMAIN rows : rows[k].id = rows'[n].id /\ rows[k].key = rows'[n].key
      <3>1. n \in DOMAIN rows \/ n = Len(rows) + 1
        BY <1>0, <2>1
      <3>2. CASE n \in DOMAIN rows
        BY <2>1, <3>2
      <3>3. CASE n = Len(rows) + 1
        BY <2>1, <2>2, <2>3, <2>4, <3>3
      <3> QED
        BY <3>1, <3>2, <3>3
    <2> QED
      BY <1>2, <2>4, JobKept DEF Store, operator
  <1>3. ASSUME NEW p \in Services, Write(p) PROVE JobInv'
    <2>1. Carried(Plan[stage[p]], loaded[p], FALSE)
      BY <1>3, WriteRows DEF Config
    <2>2. loaded[p] \in SUBSET Row /\ stage[p] \in Stages
      BY DEF TypeOK
    <2>3. ASSUME cleared = goal \/ job # {}, NEW n \in DOMAIN rows'
          PROVE  \/ rows'[n].key = ActiveId(Current)
                 \/ \E k \in DOMAIN rows : rows[k].id = rows'[n].id /\ rows[k].key = rows'[n].key
      <3>1. Plan[stage[p]] = Current
        BY <2>3 DEF JobInv, Current
      <3>2. PICK k \in DOMAIN rows : UpdateOf(n, k, Plan[stage[p]], loaded[p], FALSE)
        BY <2>1, <2>2, CarriedIs
      <3> QED
        BY <3>1, <3>2 DEF UpdateOf
    <2> QED
      BY <1>3, <2>3, JobKept DEF Write, operator
  <1>4. ASSUME NEW p \in Services, Delete(p) PROVE JobInv'
    <2>1. \A n \in DOMAIN rows' : n \in DOMAIN rows /\ rows'[n] = rows[n]
      BY <1>4, DeleteRows
    <2> QED
      BY <1>4, <2>1, JobKept DEF Delete, operator
  <1>5. ASSUME NEW p \in Services, Restart(p) PROVE JobInv'
    <2>1. \A v \in Services : stage'[v] = stage[v] \/ stage'[v] = goal
      BY <1>5 DEF Restart, TypeOK
    <2> QED
      BY <1>5, <2>1, JobKept DEF Restart
  <1>6. CASE Deploy
    <2>1. job' = {} /\ goal' = goal + 1 /\ cleared' = cleared
      BY <1>6 DEF Deploy
    <2>2. cleared' <= goal' /\ cleared' # goal'
      BY <1>0, <2>1 DEF JobInv
    <2> QED
      BY <2>1, <2>2 DEF JobInv
  <1>7. CASE JobReads
    <2>1. UNCHANGED <<rows, goal, stage>> /\ \A p \in Services : stage[p] = goal
      BY <1>7 DEF JobReads
    <2>2. CASE Outgoing = {}
      <3>1. cleared' = goal /\ job' = {}
        BY <1>7, <2>2 DEF JobReads
      <3>2. \A n \in DOMAIN rows : rows[n].key = ActiveId(Current)
        BY <2>2 DEF Outgoing, RowSet
      <3> QED
        BY <1>0, <2>1, <3>1, <3>2 DEF JobInv, Current
    <2>3. CASE Outgoing # {}
      <3>1. cleared' = cleared /\ job' = Outgoing
        BY <1>7, <2>3 DEF JobReads
      <3>2. \A old \in Outgoing : old.key # ActiveId(Current)
        BY DEF Outgoing
      <3>3. \A n \in DOMAIN rows :
               rows[n].key # ActiveId(Current) => \E old \in Outgoing : old.id = rows[n].id
        BY DEF Outgoing, RowSet
      <3> QED
        BY <2>1, <3>1, <3>2, <3>3 DEF JobInv, Current
    <2> QED
      BY <2>2, <2>3
  <1>8. CASE JobWrites
    <2>1. job' = {} /\ cleared' = goal /\ job # {} /\ UNCHANGED <<goal, stage>>
      BY <1>8 DEF JobWrites
    <2>2. Carried(Plan[goal], job, TRUE)
      BY <1>8, JobRows DEF Current
    <2>3. ASSUME NEW n \in DOMAIN rows' PROVE rows'[n].key = ActiveId(Plan[goal])
      <3>1. PICK k \in DOMAIN rows : UpdateOf(n, k, Plan[goal], job, TRUE)
        BY <1>0, <2>2, CarriedIs
      <3> QED
        BY <2>1, <3>1 DEF UpdateOf, JobInv, Current
    <2> QED
      BY <1>0, <2>1, <2>3 DEF JobInv, Current
  <1>9. CASE JobFails
    BY <1>9 DEF JobFails, JobInv, Current
  <1>10. CASE UNCHANGED vars
    BY <1>10 DEF vars, JobInv, Current
  <1> QED
    BY <1>1, <1>2, <1>3, <1>4, <1>5, <1>6, <1>7, <1>8, <1>9, <1>10 DEF Next

\* The invariant of the rotation holds throughout.
LEMMA RotationInvariance == Spec => [](TypeOK /\ JobInv)
  <1>1. Init => TypeOK /\ JobInv
    <2> SUFFICES ASSUME Init PROVE JobInv
      BY Initially
    <2> QED
      BY DEF Init, JobInv
  <1> QED
    BY <1>1, TypesStep, JobStep, PTL DEF Spec

\* reencrypt_credentials: for any services, restarted together or one by one, and any
\* updates under way, no row is under another key once the job has been through.
THEOREM RotationCompletes == Spec => []ClearedStaysCleared
  <1>1. TypeOK /\ JobInv => ClearedStaysCleared
    BY DEF JobInv, ClearedStaysCleared, RowSet
  <1> QED
    BY <1>1, RotationInvariance, PTL

----------------------------------------------------------------------------
(* Services that are restarted together *)

\* The active key opens what was sealed under it.
LEMMA OpensActive ==
  ASSUME NEW s \in Stages, NEW row, row.key = ActiveId(Plan[s]), row.seal = ActiveBytes(Plan[s])
  PROVE  Opens(Plan[s], row)
  BY KeysOf DEF Opens

\* An update by a writer that finds the rows it read under the active key still under it
\* leaves every row one that opens, and takes none off the active key.
LEMMA OpensCarried ==
  ASSUME TypeOK, OpensInv, NEW olds \in SUBSET Row, NEW All \in BOOLEAN,
         Carried(Plan[goal], olds, All),
         \A old \in olds : \A n \in DOMAIN rows :
             rows[n].id = old.id /\ old.key = ActiveId(Current) => rows[n].key = ActiveId(Current),
         NEW n \in DOMAIN rows'
  PROVE  /\ Opens(Current, rows'[n])
         /\ \E k \in DOMAIN rows :
               /\ rows'[n].id = rows[k].id
               /\ rows[k].key = ActiveId(Current) => rows'[n].key = ActiveId(Current)
  <1>1. goal \in Stages
    BY DEF TypeOK
  <1>2. PICK k \in DOMAIN rows : UpdateOf(n, k, Plan[goal], olds, All)
    BY <1>1, CarriedIs
  <1>3. CASE rows'[n] = rows[k]
    BY <1>3 DEF OpensInv
  <1>4. CASE rows'[n] # rows[k]
    <2>1. PICK old \in olds :
             /\ old.id = rows[k].id
             /\ rows'[n].id = rows[k].id
             /\ rows'[n].seal = ActiveBytes(Plan[goal])
             /\ rows'[n].key = IF ActiveId(Plan[goal]) # old.key THEN ActiveId(Plan[goal])
                               ELSE rows[k].key
      BY <1>2, <1>4 DEF UpdateOf
    <2>2. rows'[n].key = ActiveId(Plan[goal])
      BY <2>1 DEF Current
    <2>3. Opens(Plan[goal], rows'[n])
      BY <1>1, <2>1, <2>2, OpensActive
    <2> QED
      BY <2>1, <2>2, <2>3 DEF Current
  <1> QED
    BY <1>3, <1>4

\* A step that keeps the rotation and does not read, and after which every row opens and
\* is one that was there, keeps TogetherInv.
LEMMA TogetherKept ==
  ASSUME TypeOK, TogetherInv, IdsInv', UNCHANGED <<goal, stage>>,
         \A p \in Services : loaded'[p] \subseteq loaded[p],
         \A n \in DOMAIN rows' :
             /\ Opens(Current, rows'[n])
             /\ \/ rows'[n].key = ActiveId(Current)
                \/ \E k \in DOMAIN rows :
                      /\ rows'[n].id = rows[k].id
                      /\ rows[k].key = ActiveId(Current) => rows'[n].key = ActiveId(Current)
  PROVE  TogetherInv'
  <1>1. Current' = Current
    BY DEF Current
  <1>2. OpensInv'
    BY <1>1 DEF OpensInv
  <1>3. ReadInv'
    <2> SUFFICES ASSUME NEW p \in Services, NEW old \in loaded'[p], NEW n \in DOMAIN rows',
                        rows'[n].id = old.id, old.key = ActiveId(Current)
                 PROVE  rows'[n].key = ActiveId(Current)
      BY <1>1 DEF ReadInv
    <2>1. old \in loaded[p]
      OBVIOUS
    <2>2. ASSUME NEW k \in DOMAIN rows, rows'[n].id = rows[k].id
          PROVE  rows[k].key = ActiveId(Current)
      BY <2>1, <2>2 DEF TogetherInv, ReadInv
    <2> QED
      BY <2>2
  <1> QED
    BY <1>2, <1>3 DEF TogetherInv

LEMMA TogetherStep ==
  ASSUME ~Rolling
  PROVE  TypeOK /\ JobInv /\ TogetherInv /\ [Next]_vars => TogetherInv'
  <1> SUFFICES ASSUME TypeOK, JobInv, TogetherInv, [Next]_vars PROVE TogetherInv'
    OBVIOUS
  <1>0. /\ goal \in Stages /\ rows \in Seq(Row) /\ job \subseteq Row
        /\ IdsInv /\ OpensInv /\ ReadInv /\ \A p \in Services : Config(p) = Current
    BY DEF TypeOK, TogetherInv, Config, Current
  <1>a. ASSUME UNCHANGED <<rows, goal, stage>>,
               \A p \in Services : loaded'[p] \subseteq loaded[p]
        PROVE  TogetherInv'
    <2>1. IdsInv'
      BY <1>0, <1>a DEF IdsInv
    <2> QED
      BY <1>0, <1>a, <2>1, TogetherKept DEF OpensInv
  <1>1. ASSUME NEW p \in Services, Load(p) \/ StoreRefused(p) PROVE TogetherInv'
    BY <1>1, <1>a DEF Load, StoreRefused, operator
  <1>2. ASSUME NEW p \in Services, Store(p) PROVE TogetherInv'
    <2>1. PICK i \in Unused :
             /\ rows' \in Seq(Row) /\ Len(rows') = Len(rows) + 1
             /\ \A n \in DOMAIN rows : rows'[n] = rows[n]
             /\ rows'[Len(rows) + 1] = Sealed(i, Config(p))
      BY <1>2, StoreRows
    <2> DEFINE r == Sealed(i, Config(p))
    <2>2. r.id = i /\ r.key = ActiveId(Plan[goal]) /\ r.seal = ActiveBytes(Plan[goal])
      BY <1>0 DEF Sealed, Current
    <2> HIDE DEF r
    <2>3. Opens(Current, r)
      BY <1>0, <2>2, OpensActive DEF Current
    <2>4. \A n \in DOMAIN rows : rows[n].id # i
      BY DEF Unused, RowSet
    <2>5. \A n \in DOMAIN rows' : n \in DOMAIN rows \/ (n = Len(rows) + 1 /\ rows'[n] = r)
      BY <1>0, <2>1 DEF r
    <2>6. IdsInv'
      BY <1>0, <2>1, <2>2, <2>4, <2>5 DEF IdsInv
    <2>7. \A n \in DOMAIN rows' :
             /\ Opens(Current, rows'[n])
             /\ \/ rows'[n].key = ActiveId(Current)
                \/ \E k \in DOMAIN rows :
                      /\ rows'[n].id = rows[k].id
                      /\ rows[k].key = ActiveId(Current) => rows'[n].key = ActiveId(Current)
      BY <1>0, <2>1, <2>2, <2>3, <2>5 DEF OpensInv, Current
    <2> QED
      BY <1>2, <2>6, <2>7, TogetherKept DEF Store, operator
  <1>3. ASSUME NEW p \in Services, GiveUp(p) PROVE TogetherInv'
    BY <1>3, <1>a DEF GiveUp, operator, TypeOK
  <1>4. ASSUME NEW p \in Services, Refresh(p) PROVE TogetherInv'
    <2>1. UNCHANGED <<rows, goal, stage>> /\ rows # <<>>
      BY <1>4 DEF Refresh, operator
    <2>2. IdsInv' /\ OpensInv'
      BY <1>0, <2>1 DEF IdsInv, OpensInv, Current
    <2>3. \A v \in Services : loaded'[v] = loaded[v] \/ loaded'[v] = {Latest}
      BY <1>4 DEF Refresh, TypeOK
    <2>4. \A n \in DOMAIN rows : rows[n].id = Latest.id => rows[n] = Latest
      <3>1. Len(rows) \in DOMAIN rows
        BY <1>0, <2>1
      <3> QED
        BY <1>0, <3>1 DEF IdsInv, Latest
    <2>5. ReadInv'
      <3> SUFFICES ASSUME NEW v \in Services, NEW old \in loaded'[v], NEW n \in DOMAIN rows,
                          rows[n].id = old.id, old.key = ActiveId(Current)
                   PROVE  rows[n].key = ActiveId(Current)
        BY <2>1 DEF ReadInv, Current
      <3>1. CASE old \in loaded[v]
        BY <1>0, <3>1 DEF ReadInv
      <3>2. CASE old = Latest
        BY <2>4, <3>2
      <3> QED
        BY <2>3, <3>1, <3>2
    <2> QED
      BY <2>1, <2>2, <2>5 DEF TogetherInv
  <1>5. ASSUME NEW p \in Services, Write(p) PROVE TogetherInv'
    <2>1. Carried(Plan[goal], loaded[p], FALSE) /\ loaded[p] \in SUBSET Row
      BY <1>0, <1>5, WriteRows DEF Current, TypeOK
    <2>2. IdsInv'
      BY <1>0, <2>1, CarriedIds
    <2>3. \A old \in loaded[p] : \A n \in DOMAIN rows :
             rows[n].id = old.id /\ old.key = ActiveId(Current) => rows[n].key = ActiveId(Current)
      BY <1>0 DEF ReadInv
    <2>4. \A n \in DOMAIN rows' :
             /\ Opens(Current, rows'[n])
             /\ \E k \in DOMAIN rows :
                   /\ rows'[n].id = rows[k].id
                   /\ rows[k].key = ActiveId(Current) => rows'[n].key = ActiveId(Current)
      BY <1>0, <2>1, <2>3, OpensCarried
    <2>5. \A v \in Services : loaded'[v] \subseteq loaded[v]
      BY <1>5 DEF Write, TypeOK
    <2> QED
      BY <1>5, <2>2, <2>4, <2>5, TogetherKept DEF Write, operator
  <1>6. ASSUME NEW p \in Services, Delete(p) PROVE TogetherInv'
    <2>1. \A n \in DOMAIN rows' : n \in DOMAIN rows /\ rows'[n] = rows[n]
      BY <1>6, DeleteRows
    <2>2. IdsInv'
      BY <1>0, <2>1 DEF IdsInv
    <2> QED
      BY <1>0, <1>6, <2>1, <2>2, TogetherKept DEF Delete, operator, OpensInv
  <1>7. ASSUME NEW p \in Services, Restart(p) PROVE TogetherInv'
    <2>1. stage' = stage
      BY <1>7 DEF Restart, TogetherInv, TypeOK
    <2>2. \A v \in Services : loaded'[v] \subseteq loaded[v]
      BY <1>7 DEF Restart, TypeOK
    <2> QED
      BY <1>7, <1>a, <2>1, <2>2 DEF Restart
  <1>8. CASE Deploy
    <2>1. /\ goal + 1 \in Stages /\ goal' = goal + 1 /\ rows' = rows
          /\ stage' = [p \in Services |-> goal'] /\ loaded' = [p \in Services |-> {}]
          /\ Keeps(Current, Plan[goal + 1]) \/ cleared = goal
      BY <1>8 DEF Deploy, MayDrop
    <2>2. Has(Plan[goal], Plan[goal + 1])
      BY <1>0, <2>1, PlanAssumption DEF Stages
    <2>3. ASSUME NEW n \in DOMAIN rows PROVE Opens(Plan[goal + 1], rows[n])
      <3>1. Opens(Current, rows[n])
        BY <1>0 DEF OpensInv
      <3>2. CASE Keeps(Current, Plan[goal + 1])
        BY <3>1, <3>2 DEF Keeps, Opens
      <3>3. CASE cleared = goal
        <4>1. rows[n].key = ActiveId(Plan[goal])
          BY <3>3 DEF JobInv, Current
        <4>2. rows[n].seal = ActiveBytes(Plan[goal])
          BY <1>0, <3>1, <4>1, KeysOf DEF Opens, Current
        <4> QED
          BY <2>2, <4>1, <4>2 DEF Has, Opens
      <3> QED
        BY <2>1, <3>2, <3>3
    <2>4. OpensInv'
      BY <2>1, <2>3 DEF OpensInv, Current
    <2>5. IdsInv' /\ ReadInv' /\ \A p \in Services : stage'[p] = goal'
      BY <1>0, <2>1 DEF IdsInv, ReadInv
    <2> QED
      BY <2>4, <2>5 DEF TogetherInv
  <1>9. CASE JobReads
    BY <1>9, <1>a DEF JobReads
  <1>10. CASE JobWrites
    <2>1. Carried(Plan[goal], job, TRUE)
      BY <1>10, JobRows DEF Current
    <2>2. IdsInv'
      BY <1>0, <2>1, CarriedIds
    <2>3. \A old \in job : old.key # ActiveId(Current)
      BY DEF JobInv
    <2>4. \A n \in DOMAIN rows' :
             /\ Opens(Current, rows'[n])
             /\ \E k \in DOMAIN rows :
                   /\ rows'[n].id = rows[k].id
                   /\ rows[k].key = ActiveId(Current) => rows'[n].key = ActiveId(Current)
      BY <1>0, <2>1, <2>3, OpensCarried
    <2> QED
      BY <1>10, <2>2, <2>4, TogetherKept DEF JobWrites
  <1>11. CASE JobFails
    BY <1>11, <1>a DEF JobFails
  <1>12. CASE UNCHANGED vars
    BY <1>12, <1>a DEF vars
  <1> QED
    BY <1>1, <1>2, <1>3, <1>4, <1>5, <1>6, <1>7, <1>8, <1>9, <1>10, <1>11, <1>12 DEF Next

\* EncryptionService.decrypt: where the services are restarted together, and for any plan
\* in which a key is active only once it is in custody, every service opens every row.
THEOREM NoLoadFails ==
  ASSUME ~Rolling
  PROVE  Spec => []RowsOpen
  <1>1. Init => TogetherInv
    <2> SUFFICES ASSUME Init PROVE TogetherInv
      OBVIOUS
    <2>1. \A p \in Services : stage[p] = goal
      BY DEF Init
    <2> QED
      BY <2>1, Initially DEF TogetherInv
  <1>2. TogetherInv => RowsOpen
    BY DEF TogetherInv, OpensInv, RowsOpen, RowSet, Config, Current
  <1>3. TypeOK /\ JobInv /\ TogetherInv /\ [Next]_vars => TogetherInv'
    BY TogetherStep
  <1> QED
    BY <1>1, <1>2, <1>3, RotationInvariance, PTL DEF Spec

----------------------------------------------------------------------------
(* How many rows there are *)

\* Fewer services about to store, or as many and fewer rows.
LEMMA CountKept ==
  ASSUME TypeOK, CountInv, Len(rows') \in Nat, Len(rows') <= Len(rows), Storing' \subseteq Storing
  PROVE  CountInv'
  <1>1. Storing \subseteq Services
    BY DEF Storing
  <1>2. IsFiniteSet(Storing) /\ Cardinality(Storing) \in Nat
    BY <1>1, ServicesAssumption, FS_Subset, FS_CardinalityType
  <1>3. Cardinality(Storing') \in Nat /\ Cardinality(Storing') <= Cardinality(Storing)
    BY <1>2, FS_Subset, FS_CardinalityType
  <1>4. Len(rows) \in Nat /\ Cardinality(Services) \in Nat
    BY ServicesAssumption, FS_CardinalityType DEF TypeOK
  <1> QED
    BY <1>2, <1>3, <1>4 DEF CountInv

LEMMA CountStep == TypeOK /\ CountInv /\ [Next]_vars => CountInv'
  <1> SUFFICES ASSUME TypeOK, CountInv, [Next]_vars PROVE CountInv'
    OBVIOUS
  <1>0. rows \in Seq(Row) /\ Len(rows) \in Nat /\ Cardinality(Services) \in Nat
    BY ServicesAssumption, FS_CardinalityType DEF TypeOK
  <1>1. ASSUME NEW p \in Services, Load(p) PROVE CountInv'
    <2>1. CASE rows = <<>>
      <3>1. Len(rows') = 0
        BY <1>1, <2>1 DEF Load
      <3>2. Storing' \subseteq Services
        BY DEF Storing
      <3>3. Cardinality(Storing') \in Nat /\ Cardinality(Storing') <= Cardinality(Services)
        BY <3>2, ServicesAssumption, FS_Subset, FS_CardinalityType
      <3> QED
        BY <3>1, <3>3 DEF CountInv
    <2>2. CASE rows # <<>>
      <3>1. Storing' \subseteq Storing /\ rows' = rows
        BY <1>1, <2>2 DEF Load, Missing, Goes, Storing, TypeOK
      <3> QED
        BY <1>0, <3>1, CountKept
    <2> QED
      BY <2>1, <2>2
  <1>2. ASSUME NEW p \in Services, Store(p) PROVE CountInv'
    <2>1. Len(rows') = Len(rows) + 1
      BY <1>2, StoreRows
    <2>2. p \in Storing /\ Storing' = Storing \ {p}
      BY <1>2 DEF Store, Goes, Storing, TypeOK
    <2>3. IsFiniteSet(Storing) /\ Cardinality(Storing) \in Nat
      <3>1. Storing \subseteq Services
        BY DEF Storing
      <3> QED
        BY <3>1, ServicesAssumption, FS_Subset, FS_CardinalityType
    <2>4. Cardinality(Storing') = Cardinality(Storing) - 1
      BY <2>2, <2>3, FS_RemoveElement
    <2> QED
      BY <1>0, <2>1, <2>3, <2>4 DEF CountInv
  <1>3. ASSUME NEW p \in Services, StoreRefused(p) \/ GiveUp(p) \/ Refresh(p) \/ Restart(p)
        PROVE  CountInv'
    <2>1. Storing' \subseteq Storing /\ rows' = rows
      BY <1>3 DEF StoreRefused, GiveUp, Refresh, Restart, Goes, Storing, TypeOK
    <2> QED
      BY <1>0, <2>1, CountKept
  <1>4. ASSUME NEW p \in Services, Write(p) PROVE CountInv'
    <2>1. Len(rows') = Len(rows)
      BY <1>4, WriteRows DEF Carried
    <2>2. Storing' \subseteq Storing
      BY <1>4 DEF Write, Goes, Storing, TypeOK
    <2> QED
      BY <1>0, <2>1, <2>2, CountKept
  <1>5. ASSUME NEW p \in Services, Delete(p) PROVE CountInv'
    <2>1. rows' \in Seq(Row) /\ Len(rows') = Len(rows) - 1
      BY <1>5, DeleteRows
    <2>2. Storing' = Storing
      BY <1>5 DEF Delete, Storing
    <2> QED
      BY <1>0, <2>1, <2>2, CountKept
  <1>6. CASE Deploy
    <2>1. Storing' \subseteq Storing /\ rows' = rows
      BY <1>6 DEF Deploy, Storing
    <2> QED
      BY <1>0, <2>1, CountKept
  <1>7. CASE JobReads \/ JobFails \/ UNCHANGED vars
    <2>1. Storing' = Storing /\ rows' = rows
      BY <1>7 DEF JobReads, JobFails, vars, Storing
    <2> QED
      BY <1>0, <2>1, CountKept
  <1>8. CASE JobWrites
    <2>1. Len(rows') = Len(rows)
      BY <1>8, JobRows DEF Carried
    <2>2. Storing' = Storing
      BY <1>8 DEF JobWrites, Storing
    <2> QED
      BY <1>0, <2>1, <2>2, CountKept
  <1> QED
    BY <1>1, <1>2, <1>3, <1>4, <1>5, <1>6, <1>7, <1>8 DEF Next

\* GoogleDriveConnector._load_credentials: however many services find no credential at
\* once, and whatever is deleted and stored again, there are never more rows than services.
THEOREM RowsBounded == Spec => []NoMoreRowsThanServices
  <1>1. Init => CountInv
    <2> SUFFICES ASSUME Init PROVE CountInv
      OBVIOUS
    <2>1. Storing = {} /\ Len(rows) = 0
      BY DEF Init, Storing
    <2> QED
      BY <2>1, ServicesAssumption, FS_EmptySet, FS_CardinalityType DEF CountInv
  <1>2. TypeOK /\ CountInv => NoMoreRowsThanServices
    <2> SUFFICES ASSUME TypeOK, CountInv PROVE NoMoreRowsThanServices
      OBVIOUS
    <2>1. Storing \subseteq Services
      BY DEF Storing
    <2>2. Cardinality(Storing) \in Nat /\ Len(rows) \in Nat /\ Cardinality(Services) \in Nat
      BY <2>1, ServicesAssumption, FS_Subset, FS_CardinalityType DEF TypeOK
    <2> QED
      BY <2>2 DEF CountInv, NoMoreRowsThanServices
  <1> QED
    BY <1>1, <1>2, CountStep, RotationTypes, PTL DEF Spec
=============================================================================
