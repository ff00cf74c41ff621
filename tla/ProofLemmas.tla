---------------------------- MODULE ProofLemmas ----------------------------
(***************************************************************************)
(* Lemmas that the proofs of several modules need: about the ends of sets  *)
(* of natural numbers, and about sequences and finite sets.                *)
(***************************************************************************)
EXTENDS Naturals, Sequences, FiniteSets, FiniteSetTheorems, SequenceTheorems,
        WellFoundedInduction, TLAPS

\* A nonempty set of natural numbers has a first one.
LEMMA FirstExists ==
  ASSUME NEW T \in SUBSET Nat, T # {}
  PROVE  \E n \in T : \A m \in T : n <= m
  <1> DEFINE R == {ss \in Nat \X Nat : ss[1] < ss[2]}
  <1>1. IsWellFoundedOn(R, Nat)
    BY NatLessThanWellFounded DEF OpToRel
  <1> HIDE DEF R
  <1>2. PICK n \in T : \A m \in T : <<m, n>> \notin R
    BY <1>1, WFMin
  <1>3. ASSUME NEW m \in T PROVE n <= m
    <2>1. ~ (m < n)
      BY <1>2 DEF R
    <2> QED
      BY <2>1
  <1> QED
    BY <1>3

\* A nonempty set of natural numbers up to some bound has a last one.
LEMMA LastExists ==
  ASSUME NEW N \in Nat, NEW T \in SUBSET (1 .. N), T # {}
  PROVE  \E n \in T : \A m \in T : m <= n
  <1> DEFINE D == {N - n : n \in T}
  <1>1. D \subseteq Nat
    <2> SUFFICES ASSUME NEW n \in T PROVE N - n \in Nat
      OBVIOUS
    <2> QED
      OBVIOUS
  <1>2. D # {}
    OBVIOUS
  <1>3. PICK x \in D : \A y \in D : x <= y
    <2> HIDE DEF D
    <2> QED
      BY <1>1, <1>2, FirstExists
  <1>4. PICK n \in T : x = N - n
    OBVIOUS
  <1>5. ASSUME NEW m \in T PROVE m <= n
    <2>1. m \in Nat /\ n \in Nat /\ N - m \in D
      OBVIOUS
    <2>2. N - n <= N - m
      BY <1>3, <1>4, <2>1
    <2> QED
      BY <2>1, <2>2
  <1> QED
    BY <1>5

\* The elements of a sequence.
Elements(q) == {q[i] : i \in DOMAIN q}

LEMMA ElementsOfAppend ==
  ASSUME NEW S, NEW q \in Seq(S), NEW e \in S
  PROVE  Append(q, e) \in Seq(S) /\ Elements(Append(q, e)) = Elements(q) \cup {e}
  <1> DEFINE t == Append(q, e)
  <1>1. /\ t \in Seq(S) /\ Len(t) = Len(q) + 1
        /\ \A i \in 1 .. Len(q) : t[i] = q[i]
        /\ t[Len(q) + 1] = e
    BY AppendProperties
  <1> HIDE DEF t
  <1>2. DOMAIN t = 1 .. Len(q) + 1 /\ DOMAIN q = 1 .. Len(q) /\ Len(q) \in Nat
    BY <1>1
  <1>3. ASSUME NEW x \in Elements(t) PROVE x \in Elements(q) \cup {e}
    <2>1. PICK i \in 1 .. Len(q) + 1 : x = t[i]
      BY <1>2 DEF Elements
    <2>2. i \in 1 .. Len(q) \/ i = Len(q) + 1
      BY <1>2
    <2> QED
      BY <1>1, <1>2, <2>1, <2>2 DEF Elements
  <1>4. ASSUME NEW x \in Elements(q) \cup {e} PROVE x \in Elements(t)
    <2>1. CASE x = e
      <3>1. Len(q) + 1 \in DOMAIN t
        BY <1>2
      <3> QED
        BY <1>1, <2>1, <3>1 DEF Elements
    <2>2. CASE x # e
      <3>1. PICK i \in 1 .. Len(q) : x = q[i]
        BY <1>2, <2>2 DEF Elements
      <3>2. i \in DOMAIN t /\ t[i] = x
        BY <1>1, <1>2, <3>1
      <3> QED
        BY <3>2 DEF Elements
    <2> QED
      BY <2>1, <2>2
  <1>5. Elements(t) = Elements(q) \cup {e}
    BY <1>3, <1>4
  <1> QED
    BY <1>1, <1>5 DEF t

LEMMA ElementsOfTail ==
  ASSUME NEW S, NEW q \in Seq(S), q # <<>>
  PROVE  /\ Head(q) \in S /\ Tail(q) \in Seq(S)
         /\ Elements(q) = {Head(q)} \cup Elements(Tail(q))
  <1> DEFINE t == Tail(q)
  <1>1. PICK k \in Nat : Len(q) = k /\ k > 0 /\ DOMAIN q = 1 .. k
    OBVIOUS
  <1>2. /\ t \in Seq(S) /\ Len(t) = k - 1 /\ DOMAIN t = 1 .. k - 1
        /\ \A i \in 1 .. k - 1 : t[i] = q[i + 1]
    BY <1>1
  <1>3. Head(q) = q[1] /\ q[1] \in S
    BY <1>1
  <1> HIDE DEF t
  <1>4. ASSUME NEW x \in Elements(q) PROVE x \in {Head(q)} \cup Elements(t)
    <2>1. PICK i \in 1 .. k : x = q[i]
      BY <1>1 DEF Elements
    <2>2. CASE i = 1
      BY <1>3, <2>1, <2>2
    <2>3. CASE i # 1
      <3>1. i - 1 \in 1 .. k - 1 /\ (i - 1) + 1 = i
        BY <1>1, <2>3
      <3>2. t[i - 1] = x
        BY <1>2, <2>1, <3>1
      <3> QED
        BY <1>2, <3>1, <3>2 DEF Elements
    <2> QED
      BY <2>2, <2>3
  <1>5. ASSUME NEW x \in {Head(q)} \cup Elements(t) PROVE x \in Elements(q)
    <2>1. CASE x = Head(q)
      <3>1. 1 \in DOMAIN q
        BY <1>1
      <3> QED
        BY <1>3, <2>1, <3>1 DEF Elements
    <2>2. CASE x \in Elements(t)
      <3>1. PICK i \in 1 .. k - 1 : x = t[i]
        BY <1>2, <2>2 DEF Elements
      <3>2. i + 1 \in DOMAIN q /\ q[i + 1] = x
        BY <1>1, <1>2, <3>1
      <3> QED
        BY <3>2 DEF Elements
    <2> QED
      BY <2>1, <2>2
  <1>6. Elements(q) = {Head(q)} \cup Elements(t)
    BY <1>4, <1>5
  <1> QED
    BY <1>2, <1>3, <1>6 DEF t

\* What is no longer in a sequence without repetition once its head is taken.
LEMMA DistinctTail ==
  ASSUME NEW S, NEW q \in Seq(S), q # <<>>,
         \A i, j \in DOMAIN q : q[i] = q[j] => i = j
  PROVE  /\ Head(q) \notin Elements(Tail(q))
         /\ \A i, j \in DOMAIN Tail(q) : Tail(q)[i] = Tail(q)[j] => i = j
  <1> DEFINE t == Tail(q)
  <1>1. PICK k \in Nat : Len(q) = k /\ k > 0 /\ DOMAIN q = 1 .. k
    OBVIOUS
  <1>2. /\ t \in Seq(S) /\ Len(t) = k - 1 /\ DOMAIN t = 1 .. k - 1
        /\ \A i \in 1 .. k - 1 : t[i] = q[i + 1]
    BY <1>1
  <1>3. Head(q) = q[1]
    BY <1>1
  <1> HIDE DEF t
  <1>4. ASSUME NEW i \in DOMAIN t, NEW j \in DOMAIN t, t[i] = t[j] PROVE i = j
    <2>1. i \in 1 .. k - 1 /\ j \in 1 .. k - 1 /\ i + 1 \in DOMAIN q /\ j + 1 \in DOMAIN q
      BY <1>1, <1>2
    <2>2. q[i + 1] = q[j + 1]
      BY <1>2, <1>4, <2>1
    <2>3. i + 1 = j + 1
      BY <2>1, <2>2
    <2> QED
      BY <2>1, <2>3
  <1>5. Head(q) \notin Elements(t)
    <2> SUFFICES ASSUME Head(q) \in Elements(t) PROVE FALSE
      OBVIOUS
    <2>1. PICK i \in 1 .. k - 1 : q[1] = t[i]
      BY <1>2, <1>3 DEF Elements
    <2>2. i + 1 \in DOMAIN q /\ 1 \in DOMAIN q /\ q[1] = q[i + 1]
      BY <1>1, <1>2, <2>1
    <2>3. 1 = i + 1
      BY <2>2
    <2> QED
      BY <2>3
  <1> QED
    BY <1>4, <1>5 DEF t

ImageOf(f, D) == {f[x] : x \in D}

\* The image of a finite set is finite, and as large if no two elements share theirs.
LEMMA ImageIsFinite ==
  ASSUME NEW D, IsFiniteSet(D), NEW f
  PROVE  /\ IsFiniteSet(ImageOf(f, D))
         /\ (\A x, y \in D : f[x] = f[y] => x = y) => Cardinality(ImageOf(f, D)) = Cardinality(D)
  <1> DEFINE T == ImageOf(f, D)
             g == [x \in D |-> f[x]]
  <1>1. g \in Surjection(D, T)
    BY DEF Surjection, ImageOf
  <1> HIDE DEF T
  <1>2. IsFiniteSet(T) /\ (Cardinality(T) = Cardinality(D) <=> g \in Injection(D, T))
    BY <1>1, FS_Surjection
  <1>3. (\A x, y \in D : f[x] = f[y] => x = y) => g \in Injection(D, T)
    BY <1>1 DEF Injection, IsInjective, Surjection
  <1> QED
    BY <1>2, <1>3 DEF T
\* The last element of a sequence is the only one that its front lacks.
LEMMA ElementsOfFront ==
  ASSUME NEW S, NEW q \in Seq(S), q # <<>>
  PROVE  Elements(q) \subseteq Elements(SubSeq(q, 1, Len(q) - 1)) \cup {q[Len(q)]}
  <1> DEFINE front == SubSeq(q, 1, Len(q) - 1)
  <1>1. /\ Len(q) \in Nat /\ DOMAIN q = 1 .. Len(q)
        /\ DOMAIN front = 1 .. Len(q) - 1
        /\ \A i \in 1 .. Len(q) - 1 : front[i] = q[i]
    OBVIOUS
  <1> HIDE DEF front
  <1>2. ASSUME NEW i \in DOMAIN q, i # Len(q) PROVE q[i] \in Elements(front)
    <2>1. i \in DOMAIN front /\ front[i] = q[i]
      BY <1>1, <1>2
    <2> QED
      BY <2>1 DEF Elements
  <1>3. Elements(q) \subseteq Elements(front) \cup {q[Len(q)]}
    BY <1>2 DEF Elements
  <1> QED
    BY <1>3 DEF front

\* A concatenation has the elements of both sequences, and no others.
LEMMA ElementsOfConcat ==
  ASSUME NEW S, NEW p \in Seq(S), NEW q \in Seq(S)
  PROVE  Elements(p \o q) = Elements(p) \cup Elements(q)
  <1> DEFINE t == p \o q
  <1>1. /\ t \in Seq(S) /\ Len(t) = Len(p) + Len(q)
        /\ \A i \in 1 .. Len(p) : t[i] = p[i]
        /\ \A i \in 1 .. Len(q) : t[Len(p) + i] = q[i]
    OBVIOUS
  <1>2. /\ DOMAIN t = 1 .. Len(p) + Len(q) /\ DOMAIN p = 1 .. Len(p) /\ DOMAIN q = 1 .. Len(q)
        /\ Len(p) \in Nat /\ Len(q) \in Nat
    BY <1>1
  <1> HIDE DEF t
  <1>3. ASSUME NEW i \in DOMAIN p PROVE p[i] \in Elements(t)
    <2>1. i \in DOMAIN t /\ t[i] = p[i]
      BY <1>1, <1>2
    <2> QED
      BY <2>1 DEF Elements
  <1>4. ASSUME NEW i \in DOMAIN q PROVE q[i] \in Elements(t)
    <2>1. Len(p) + i \in DOMAIN t /\ t[Len(p) + i] = q[i]
      BY <1>1, <1>2
    <2> QED
      BY <2>1 DEF Elements
  <1>5. ASSUME NEW k \in DOMAIN t PROVE t[k] \in Elements(p) \cup Elements(q)
    <2>1. CASE k \in DOMAIN p
      BY <1>1, <1>2, <2>1 DEF Elements
    <2>2. CASE k \notin DOMAIN p
      <3>1. k - Len(p) \in DOMAIN q /\ Len(p) + (k - Len(p)) = k
        BY <1>2, <2>2
      <3>2. t[k] = q[k - Len(p)]
        BY <1>1, <1>2, <3>1
      <3> QED
        BY <3>1, <3>2 DEF Elements
    <2> QED
      BY <2>1, <2>2
  <1>6. Elements(t) = Elements(p) \cup Elements(q)
    BY <1>3, <1>4, <1>5 DEF Elements
  <1> QED
    BY <1>6 DEF t

=============================================================================
