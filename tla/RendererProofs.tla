---------------------------- MODULE RendererProofs ----------------------------
(* Theorems about Renderer, for every number of buffers and every budget.    *)
EXTENDS Renderer, Integers, FiniteSetTheorems, SequenceTheorems, WellFoundedInduction, TLAPS

-----------------------------------------------------------------------------
(* Queues, whatever they hold: what is kept of one, and how often.         *)

\* Induction up to n, with a set of numbers for the predicate.  Of two intervals
\* 1..k and 1..m the shorter is a strict subset of the other, and strict inclusion
\* of finite sets is well-founded: there is a least number that is not in the set.
LEMMA UpTo ==
    ASSUME NEW n \in Nat, NEW A, 0 \in A, \A k \in 0 .. n - 1 : k \in A => k + 1 \in A
    PROVE  n \in A
<1> DEFINE B == {k \in 0 .. n : k \notin A}
           T == {1 .. k : k \in B}
<1>1. SUFFICES ASSUME n \notin A
               PROVE  FALSE
  OBVIOUS
<1>2. T \subseteq FiniteSubsetsOf(Nat) /\ T # {}
  <2>1. \A k \in B : IsFiniteSet(1 .. k) /\ 1 .. k \subseteq Nat
    BY FS_Interval
  <2>2. n \in B
    BY <1>1
  <2> QED BY <2>1, <2>2 DEF FiniteSubsetsOf
<1>3. \E x \in T : \A y \in T : ~(<<y, x>> \in StrictSubsetOrdering(Nat))
  <2> HIDE DEF T
  <2> QED BY <1>2, FS_StrictSubsetOrderingWellFounded, WFMin
<1>4. PICK m \in B : \A y \in T : ~(<<y, 1 .. m>> \in StrictSubsetOrdering(Nat))
  BY <1>3
<1>5. m \in 1 .. n /\ m - 1 \in 0 .. n - 1 /\ (m - 1) + 1 = m /\ m - 1 \in 0 .. n
  OBVIOUS
<1>6. 1 .. m - 1 \in T
  BY <1>5
<1>7. 1 .. m - 1 \subseteq 1 .. m /\ m \in 1 .. m /\ m \notin 1 .. m - 1 /\ 1 .. m \subseteq Nat
  BY <1>5
<1>8. <<1 .. m - 1, 1 .. m>> \in StrictSubsetOrdering(Nat)
  BY <1>7 DEF StrictSubsetOrdering
<1> QED BY <1>4, <1>6, <1>8

\* Kept is what its recursion says.
Step(q, S, f, n) == IF q[n] \in S THEN Append(f[n - 1], q[n]) ELSE f[n - 1]
Keeps(q, S, f, n) == f[0] = <<>> /\ \A k \in 1 .. n : f[k] = Step(q, S, f, k)

LEMMA KeepsExists ==
    ASSUME NEW T, NEW q \in Seq(T), NEW S
    PROVE  \E f \in [0 .. Len(q) -> Seq(T)] : Keeps(q, S, f, Len(q))
<1> DEFINE A == {n \in 0 .. Len(q) : \E f \in [0 .. n -> Seq(T)] : Keeps(q, S, f, n)}
<1>1. Len(q) \in Nat /\ \A n \in 1 .. Len(q) : q[n] \in T
  OBVIOUS
<1>2. 0 \in A
  <2> DEFINE none == [n \in 0 .. 0 |-> <<>>]
  <2>1. none \in [0 .. 0 -> Seq(T)] /\ Keeps(q, S, none, 0) /\ 0 \in 0 .. Len(q)
    BY <1>1 DEF Keeps
  <2> HIDE DEF none
  <2> QED BY <2>1
<1>3. ASSUME NEW n \in 0 .. Len(q) - 1, n \in A
      PROVE  n + 1 \in A
  <2>1. PICK f \in [0 .. n -> Seq(T)] : Keeps(q, S, f, n)
    BY <1>3
  <2> DEFINE last == IF q[n + 1] \in S THEN Append(f[n], q[n + 1]) ELSE f[n]
             g == [k \in 0 .. n + 1 |-> IF k = n + 1 THEN last ELSE f[k]]
  <2>2. last \in Seq(T) /\ n + 1 \in 0 .. Len(q) /\ (n + 1) - 1 = n
    BY <1>1, f[n] \in Seq(T), q[n + 1] \in T
  <2> HIDE DEF last
  <2>3. g \in [0 .. n + 1 -> Seq(T)] /\ g[n + 1] = last /\ \A k \in 0 .. n : g[k] = f[k]
    BY <2>2
  <2> HIDE DEF g
  <2>4. ASSUME NEW k \in 1 .. n + 1
        PROVE  g[k] = Step(q, S, g, k)
    <3>1. CASE k = n + 1
      BY <2>2, <2>3, <3>1 DEF Step, last
    <3>2. CASE k \in 1 .. n
      <4>1. k \in 0 .. n /\ k - 1 \in 0 .. n
        BY <3>2
      <4>2. g[k] = f[k] /\ g[k - 1] = f[k - 1]
        BY <2>3, <4>1
      <4>3. f[k] = Step(q, S, f, k)
        BY <2>1, <3>2 DEF Keeps
      <4> QED BY <4>2, <4>3 DEF Step
    <3> QED BY <3>1, <3>2
  <2>5. Keeps(q, S, g, n + 1)
    BY <2>1, <2>3, <2>4 DEF Keeps
  <2> QED BY <2>2, <2>3, <2>5
<1>4. \A n \in 0 .. Len(q) - 1 : n \in A => n + 1 \in A
  BY <1>3
<1> HIDE DEF A
<1>5. Len(q) \in A
  BY <1>1, <1>2, <1>4, UpTo
<1> QED BY <1>5 DEF A

LEMMA KeptRecursion ==
    ASSUME NEW T, NEW q \in Seq(T), NEW S
    PROVE  \E f : Keeps(q, S, f, Len(q)) /\ Kept(q, S) = f[Len(q)]
<1> DEFINE Body(f) == [n \in 0 .. Len(q) |->
                          IF n = 0 THEN <<>>
                          ELSE IF q[n] \in S THEN Append(f[n - 1], q[n]) ELSE f[n - 1]]
           kept == CHOOSE f : f = Body(f)
<1>1. Kept(q, S) = kept[Len(q)] /\ Len(q) \in Nat
  BY DEF Kept
<1>2. PICK f \in [0 .. Len(q) -> Seq(T)] : Keeps(q, S, f, Len(q))
  BY KeepsExists
<1>3. \A n \in 0 .. Len(q) : f[n] = Body(f)[n]
  BY <1>2, \A n \in 0 .. Len(q) : n = 0 \/ n \in 1 .. Len(q) DEF Keeps, Step
<1>4. f = Body(f)
  BY <1>3
<1>5. kept = Body(kept)
  <2> HIDE DEF Body
  <2> QED BY <1>4
<1> HIDE DEF kept
<1>6. \A n \in 0 .. Len(q) : kept[n] = Body(kept)[n]
  BY <1>5
<1> QED BY <1>1, <1>6 DEF Keeps, Step

\* What is kept is of the queue and of the set.
LEMMA KeptType ==
    ASSUME NEW T, NEW q \in Seq(T), NEW S
    PROVE  Kept(q, S) \in Seq(T \cap S)
<1>1. PICK f : Keeps(q, S, f, Len(q)) /\ Kept(q, S) = f[Len(q)]
  BY KeptRecursion
<1> DEFINE A == {n \in 0 .. Len(q) : f[n] \in Seq(T \cap S)}
<1>2. Len(q) \in Nat /\ \A n \in 1 .. Len(q) : q[n] \in T
  OBVIOUS
<1>3. 0 \in A
  BY <1>1, <1>2, 0 \in 0 .. Len(q), <<>> \in Seq(T \cap S) DEF Keeps
<1>4. ASSUME NEW n \in 0 .. Len(q) - 1, n \in A
      PROVE  n + 1 \in A
  <2>1. n + 1 \in 1 .. Len(q) /\ (n + 1) - 1 = n
    BY <1>2
  <2>2. f[n + 1] = IF q[n + 1] \in S THEN Append(f[n], q[n + 1]) ELSE f[n]
    BY <1>1, <2>1 DEF Keeps, Step
  <2>3. f[n + 1] \in Seq(T \cap S)
    BY <1>2, <1>4, <2>1, <2>2
  <2> QED BY <2>1, <2>3
<1>5. \A n \in 0 .. Len(q) - 1 : n \in A => n + 1 \in A
  BY <1>4
<1> HIDE DEF A
<1>6. Len(q) \in A
  BY <1>2, <1>3, <1>5, UpTo
<1> QED BY <1>1, <1>6 DEF A

LEMMA PlacesAreFinite ==
    ASSUME NEW n \in Nat, NEW P \in SUBSET (1 .. n)
    PROVE  IsFiniteSet(P) /\ Cardinality(P) \in Nat
<1>1. IsFiniteSet(1 .. n)
  BY FS_Interval
<1>2. IsFiniteSet(P)
  BY <1>1, FS_Subset
<1> QED BY <1>2, FS_CardinalityType

LEMMA ShiftedPlaces ==
    ASSUME NEW m \in Nat, NEW n \in Nat, NEW P \in SUBSET (1 .. n)
    PROVE  /\ IsFiniteSet({m + k : k \in P})
           /\ Cardinality({m + k : k \in P}) = Cardinality(P)
<1> DEFINE Q == {m + k : k \in P}
           f == [k \in P |-> m + k]
<1>1. f \in [P -> Q] /\ (\A a, b \in P : f[a] = f[b] => a = b) /\ \A t \in Q : \E a \in P : f[a] = t
  OBVIOUS
<1>2. f \in Bijection(P, Q)
  BY <1>1 DEF Bijection, Injection, Surjection, IsInjective
<1> QED BY <1>2, PlacesAreFinite, FS_Bijection DEF ExistsBijection

LEMMA OccurrencesType ==
    ASSUME NEW T, NEW q \in Seq(T), NEW x
    PROVE  /\ Occurrences(q, x) \in Nat
           /\ Occurrences(q, x) = 0 <=> \A i \in DOMAIN q : q[i] # x
<1> DEFINE P == {i \in DOMAIN q : q[i] = x}
<1>1. Len(q) \in Nat /\ P \in SUBSET (1 .. Len(q))
  OBVIOUS
<1>2. IsFiniteSet(P) /\ Cardinality(P) \in Nat
  <2> HIDE DEF P
  <2> QED BY <1>1, PlacesAreFinite
<1>3. Cardinality(P) = 0 <=> P = {}
  BY <1>2, FS_EmptySet
<1> QED BY <1>2, <1>3 DEF Occurrences

LEMMA OccurrencesConcat ==
    ASSUME NEW T, NEW p \in Seq(T), NEW q \in Seq(T), NEW x
    PROVE  /\ p \o q \in Seq(T)
           /\ Occurrences(p \o q, x) = Occurrences(p, x) + Occurrences(q, x)
<1> DEFINE m == Len(p)
           n == Len(q)
           P == {i \in 1 .. m : p[i] = x}
           Q == {i \in 1 .. n : q[i] = x}
           Moved == {m + i : i \in Q}
           R == {i \in 1 .. m + n : (p \o q)[i] = x}
<1>1. /\ p \o q \in Seq(T) /\ m \in Nat /\ n \in Nat
      /\ DOMAIN p = 1 .. m /\ DOMAIN q = 1 .. n /\ DOMAIN (p \o q) = 1 .. m + n
      /\ \A i \in 1 .. m : (p \o q)[i] = p[i]
      /\ \A i \in m + 1 .. m + n : (p \o q)[i] = q[i - m]
  OBVIOUS
<1>2. P \in SUBSET (1 .. m) /\ Q \in SUBSET (1 .. n)
  OBVIOUS
<1> DEFINE r == p \o q
<1> HIDE DEF m, n, r
<1>3. R = P \cup Moved /\ P \cap Moved = {}
  <2>1. /\ \A i \in m + 1 .. m + n : q[i - m] = x => i \in Moved
        /\ \A i \in Moved : i \in m + 1 .. m + n /\ q[i - m] = x
    <3>1. \A i \in m + 1 .. m + n : i - m \in 1 .. n /\ m + (i - m) = i
      BY <1>1
    <3>2. \A k \in 1 .. n : m + k \in m + 1 .. m + n /\ (m + k) - m = k
      BY <1>1
    <3> QED BY <3>1, <3>2
  <2>2. \A i : i \in R <=> i \in 1 .. m + n /\ r[i] = x
    BY DEF r
  <2>3. \A i : i \in P <=> i \in 1 .. m /\ r[i] = x
    BY <1>1 DEF r
  <2>4. \A i \in m + 1 .. m + n : r[i] = q[i - m]
    BY <1>1 DEF r
  <2>5. \A i : /\ i \in 1 .. m + n <=> i \in 1 .. m \/ i \in m + 1 .. m + n
               /\ ~(i \in 1 .. m /\ i \in m + 1 .. m + n)
    BY <1>1
  <2> HIDE DEF P, R, Moved
  <2> QED BY <2>1, <2>2, <2>3, <2>4, <2>5
<1>4. /\ IsFiniteSet(P) /\ Cardinality(P) \in Nat /\ Cardinality(Q) \in Nat
      /\ IsFiniteSet(Moved) /\ Cardinality(Moved) = Cardinality(Q)
  <2> HIDE DEF P, Q
  <2> QED BY <1>1, <1>2, PlacesAreFinite, ShiftedPlaces
<1>5. Cardinality(R) = Cardinality(P) + Cardinality(Q)
  <2> HIDE DEF P, Q, R, Moved
  <2>1. Cardinality(P \cup Moved) = Cardinality(P) + Cardinality(Moved) - Cardinality(P \cap Moved)
    BY <1>4, FS_Union
  <2>2. Cardinality(P \cap Moved) = 0
    BY <1>3, FS_EmptySet
  <2> QED BY <1>3, <1>4, <2>1, <2>2
<1>6. /\ Occurrences(p, x) = Cardinality(P) /\ Occurrences(q, x) = Cardinality(Q)
      /\ Occurrences(p \o q, x) = Cardinality(R)
  BY <1>1 DEF Occurrences
<1> QED BY <1>1, <1>5, <1>6

LEMMA OccurrencesOne ==
    ASSUME NEW a, NEW x
    PROVE  /\ Occurrences(<<>>, x) = 0
           /\ Occurrences(<<a>>, x) = IF a = x THEN 1 ELSE 0
<1>1. {i \in DOMAIN <<>> : <<>>[i] = x} = {}
  OBVIOUS
<1>2. {i \in DOMAIN <<a>> : <<a>>[i] = x} = IF a = x THEN {1} ELSE {}
  OBVIOUS
<1> QED BY <1>1, <1>2, FS_EmptySet, FS_Singleton DEF Occurrences

LEMMA OccurrencesAppend ==
    ASSUME NEW T, NEW q \in Seq(T), NEW a \in T, NEW x
    PROVE  /\ Append(q, a) \in Seq(T)
           /\ Occurrences(Append(q, a), x) = Occurrences(q, x) + (IF a = x THEN 1 ELSE 0)
<1> DEFINE one == <<a>>
<1>1. Append(q, a) = q \o one /\ one \in Seq(T)
  OBVIOUS
<1>2. Occurrences(one, x) = IF a = x THEN 1 ELSE 0
  BY OccurrencesOne
<1> HIDE DEF one
<1>3. q \o one \in Seq(T) /\ Occurrences(q \o one, x) = Occurrences(q, x) + Occurrences(one, x)
  BY <1>1, OccurrencesConcat
<1> QED BY <1>1, <1>2, <1>3

LEMMA OccurrencesAppendTwo ==
    ASSUME NEW T, NEW q \in Seq(T), NEW a \in T, NEW b \in T, NEW x
    PROVE  /\ q \o <<a, b>> \in Seq(T)
           /\ Occurrences(q \o <<a, b>>, x)
                = Occurrences(q, x) + (IF a = x THEN 1 ELSE 0) + (IF b = x THEN 1 ELSE 0)
<1> DEFINE r == Append(q, a)
<1>1. q \o <<a, b>> = Append(r, b) /\ r \in Seq(T)
  OBVIOUS
<1>2. Occurrences(r, x) = Occurrences(q, x) + (IF a = x THEN 1 ELSE 0)
  BY OccurrencesAppend
<1> HIDE DEF r
<1>3. /\ Append(r, b) \in Seq(T)
      /\ Occurrences(Append(r, b), x) = Occurrences(r, x) + (IF b = x THEN 1 ELSE 0)
  BY <1>1, OccurrencesAppend
<1> QED BY <1>1, <1>2, <1>3

LEMMA HeadAndRest ==
    ASSUME NEW T, NEW q \in Seq(T), q # <<>>
    PROVE  /\ q = <<Head(q)>> \o Tail(q)
           /\ <<Head(q)>> \in Seq(T) /\ Tail(q) \in Seq(T) /\ Head(q) \in T
<1> DEFINE one == <<Head(q)>>
           rest == Tail(q)
<1>1. one \in Seq(T) /\ rest \in Seq(T) /\ Head(q) \in T /\ Len(one \o rest) = Len(q)
  OBVIOUS
<1>2. \A i \in 1 .. Len(q) : (one \o rest)[i] = q[i]
  OBVIOUS
<1>3. one \o rest \in Seq(T)
  OBVIOUS
<1> HIDE DEF one, rest
<1>4. q = one \o rest
  BY <1>1, <1>2, <1>3, SeqEqual
<1> QED BY <1>1, <1>4 DEF one, rest

LEMMA OccurrencesTail ==
    ASSUME NEW T, NEW q \in Seq(T), q # <<>>, NEW x
    PROVE  /\ Tail(q) \in Seq(T) /\ Head(q) \in T
           /\ Occurrences(q, x) = Occurrences(Tail(q), x) + (IF Head(q) = x THEN 1 ELSE 0)
<1> DEFINE one == <<Head(q)>>
           rest == Tail(q)
<1>1. q = one \o rest /\ one \in Seq(T) /\ rest \in Seq(T) /\ Head(q) \in T
  BY HeadAndRest
<1>2. Occurrences(one, x) = IF Head(q) = x THEN 1 ELSE 0
  BY OccurrencesOne
<1> HIDE DEF one
<1>3. Occurrences(one \o rest, x) = Occurrences(one, x) + Occurrences(rest, x)
  <2> HIDE DEF rest
  <2> QED BY <1>1, OccurrencesConcat
<1>4. Occurrences(rest, x) \in Nat
  <2> HIDE DEF rest
  <2> QED BY <1>1, OccurrencesType
<1>5. Occurrences(q, x) = Occurrences(one, x) + Occurrences(rest, x)
  BY <1>1, <1>3
<1> HIDE DEF rest
<1> QED BY <1>1, <1>2, <1>4, <1>5 DEF rest

\* A queue is its first n elements and the rest.
LEMMA OccurrencesSplit ==
    ASSUME NEW T, NEW q \in Seq(T), NEW n \in 0 .. Len(q), NEW x
    PROVE  /\ SubSeq(q, 1, n) \in Seq(T) /\ SubSeq(q, n + 1, Len(q)) \in Seq(T)
           /\ Occurrences(q, x)
                = Occurrences(SubSeq(q, 1, n), x) + Occurrences(SubSeq(q, n + 1, Len(q)), x)
<1> DEFINE a == SubSeq(q, 1, n)
           b == SubSeq(q, n + 1, Len(q))
<1>1. a \in Seq(T) /\ b \in Seq(T)
  OBVIOUS
<1>2. q = a \o b
  <2>1. SubSeq(q, 1, Len(q)) = q
    OBVIOUS
  <2>2. 1 \in 1 .. Len(q) + 1 /\ n \in 1 - 1 .. Len(q) /\ Len(q) \in n .. Len(q)
    OBVIOUS
  <2>3. a \o b = SubSeq(q, 1, Len(q))
    BY <2>2, ConcatAdjacentSubSeq
  <2> QED BY <2>1, <2>3
<1> HIDE DEF a, b
<1>3. Occurrences(a \o b, x) = Occurrences(a, x) + Occurrences(b, x)
  BY <1>1, OccurrencesConcat
<1> QED BY <1>1, <1>2, <1>3 DEF a, b

\* What is kept occurs as often as it did.
LEMMA KeptOccurrences ==
    ASSUME NEW T, NEW q \in Seq(T), NEW S, NEW x \in S
    PROVE  Occurrences(Kept(q, S), x) = Occurrences(q, x)
<1>1. PICK f : Keeps(q, S, f, Len(q)) /\ Kept(q, S) = f[Len(q)]
  BY KeptRecursion
<1> DEFINE A == {n \in 0 .. Len(q) : /\ f[n] \in Seq(T)
                                     /\ Occurrences(f[n], x) = Occurrences(SubSeq(q, 1, n), x)}
<1>2. Len(q) \in Nat /\ \A n \in 1 .. Len(q) : q[n] \in T
  OBVIOUS
<1>3. 0 \in A
  <2>1. SubSeq(q, 1, 0) = <<>>
    OBVIOUS
  <2>2. f[0] = <<>> /\ 0 \in 0 .. Len(q)
    BY <1>1, <1>2 DEF Keeps
  <2>3. <<>> \in Seq(T)
    OBVIOUS
  <2> QED BY <2>1, <2>2, <2>3
<1>4. ASSUME NEW n \in 0 .. Len(q) - 1, n \in A
      PROVE  n + 1 \in A
  <2>1. n + 1 \in 1 .. Len(q) /\ (n + 1) - 1 = n /\ n + 1 \in 0 .. Len(q)
    BY <1>2
  <2>2. f[n + 1] = IF q[n + 1] \in S THEN Append(f[n], q[n + 1]) ELSE f[n]
    BY <1>1, <2>1 DEF Keeps, Step
  <2>3. f[n] \in Seq(T) /\ Occurrences(f[n], x) = Occurrences(SubSeq(q, 1, n), x)
    BY <1>4
  <2>4. q[n + 1] \in T
    BY <1>2, <2>1
  <2>5. SubSeq(q, 1, n) \in Seq(T) /\ SubSeq(q, 1, n + 1) = Append(SubSeq(q, 1, n), q[n + 1])
    BY <2>1
  <2>6. Occurrences(SubSeq(q, 1, n + 1), x)
          = Occurrences(SubSeq(q, 1, n), x) + (IF q[n + 1] = x THEN 1 ELSE 0)
    <3> DEFINE first == SubSeq(q, 1, n)
               last == q[n + 1]
    <3>1. first \in Seq(T) /\ last \in T
      BY <2>4, <2>5
    <3> HIDE DEF first, last
    <3>2. Occurrences(Append(first, last), x) = Occurrences(first, x) + (IF last = x THEN 1 ELSE 0)
      BY <3>1, OccurrencesAppend
    <3> QED BY <2>5, <3>2 DEF first, last
  <2>7. Occurrences(SubSeq(q, 1, n), x) \in Nat
    BY <2>5, OccurrencesType
  <2>8. /\ f[n + 1] \in Seq(T)
        /\ Occurrences(f[n + 1], x) = Occurrences(SubSeq(q, 1, n + 1), x)
    <3>1. CASE q[n + 1] \in S
      BY <2>2, <2>3, <2>4, <2>6, <3>1, OccurrencesAppend
    <3>2. CASE q[n + 1] \notin S
      BY <2>2, <2>3, <2>6, <2>7, <3>2
    <3> QED BY <3>1, <3>2
  <2> QED BY <2>1, <2>8
<1>5. \A n \in 0 .. Len(q) - 1 : n \in A => n + 1 \in A
  BY <1>4
<1> HIDE DEF A
<1>6. Len(q) \in A
  BY <1>2, <1>3, <1>5, UpTo
<1>7. SubSeq(q, 1, Len(q)) = q
  OBVIOUS
<1> QED BY <1>1, <1>6, <1>7 DEF A

-----------------------------------------------------------------------------
(* Messages, entries and queues.                                            *)

LEMMA BuffersAre ==
    ASSUME TypeOK
    PROVE  /\ \A b \in Buffers : b \in Nat /\ b # EOS
           /\ \A s \in Streams : BuffersOf(s) \subseteq Buffers
           /\ BufferEntry \subseteq Entry
<1>1. \A s \in Streams : NumBuffers[mHas][s] \in Nat \ {0}
  BY BuffersAssumption DEF TypeOK
<1>2. \A s \in Streams : \A b \in BuffersOf(s) : b \in Nat /\ b # EOS
  BY <1>1 DEF BuffersOf, EOS
<1>3. \A s \in Streams : BuffersOf(s) \subseteq Buffers
  BY DEF Buffers
<1>4. BufferEntry \subseteq Entry
  BY DEF BufferEntry, Entry
<1> QED BY <1>2, <1>3, <1>4 DEF Buffers

LEMMA SameBuffers ==
    ASSUME UNCHANGED mHas
    PROVE  /\ \A s : BuffersOf(s)' = BuffersOf(s)
           /\ Buffers' = Buffers /\ Entry' = Entry /\ BufferEntry' = BufferEntry
           /\ Message' = Message /\ DecoderState' = DecoderState
<1>1. \A s : BuffersOf(s)' = BuffersOf(s)
  BY DEF BuffersOf
<1>2. Buffers' = Buffers
  BY <1>1 DEF Buffers
<1> QED BY <1>1, <1>2 DEF Entry, BufferEntry, Message, DecoderState

LEMMA MessageFields ==
    ASSUME NEW m \in Message
    PROVE  /\ m.stream \in Streams /\ m.gen \in Nat /\ m.buffer \in Buffers \cup {EOS}
           /\ m.what \in DrainWhat <=> m \in Drain
           /\ m.what \in DrainWhat =>
                m.stream = IF m.what = "DrainAudioQueue" THEN "audio" ELSE "video"
           /\ m.what \in SignalWhat => m = Signal(m.what)
  BY DEF Message, Drain, DrainWhat, DataWhat, SignalWhat, Streams, EOS, Signal, Msg

LEMMA MessageTypes ==
    /\ \A w \in DataWhat, s \in Streams, b \in Buffers \cup {EOS}, g \in Nat :
          Msg(w, s, b, g) \in Message
    /\ \A w \in SignalWhat : Signal(w) \in Message
    /\ Drain \subseteq Message
    /\ \A g \in Nat : /\ Msg("DrainAudioQueue", "audio", EOS, g) \in Drain
                       /\ Msg("DrainVideoQueue", "video", EOS, g) \in Drain
                       /\ Msg("PostDrainVideoQueue", "video", EOS, g) \in Drain
  BY DEF Message, Drain, DrainWhat, DataWhat, SignalWhat, Streams, EOS, Signal, Msg

LEMMA QueueTypes ==
    ASSUME NEW T, NEW q \in Seq(T)
    PROVE  /\ \A x \in T : Append(q, x) \in Seq(T)
           /\ \A x \in T, y \in T : q \o <<x, y>> \in Seq(T)
           /\ \A r \in Seq(T) : q \o r \in Seq(T)
           /\ q # <<>> => Head(q) \in T /\ Tail(q) \in Seq(T)
           /\ \A n \in 0 .. Len(q) :
                 SubSeq(q, 1, n) \in Seq(T) /\ SubSeq(q, n + 1, Len(q)) \in Seq(T)
           /\ <<>> \in Seq(T)
  OBVIOUS

-----------------------------------------------------------------------------
(* Type correctness: what the actions have in common.                       *)

LEMMA Frame ==
    ASSUME TypeOK, UNCHANGED mHas
    PROVE  /\ UNCHANGED rendererVars => RendererTypeOK'
           /\ UNCHANGED <<inbox, timers>> => LooperTypeOK'
           /\ UNCHANGED <<aborted, sinkVars>> => SinkTypeOK'
           /\ UNCHANGED decoderVars => DecoderTypeOK'
           /\ UNCHANGED playerVars => PlayerTypeOK'
  BY SameBuffers DEF TypeOK, RendererTypeOK, LooperTypeOK, SinkTypeOK, DecoderTypeOK, PlayerTypeOK,
    rendererVars, sinkVars, decoderVars, playerVars

LEMMA TakeType ==
    ASSUME TypeOK, NEW w, Take(w)
    PROVE  /\ aborted = "no" /\ inbox # <<>> /\ Head(inbox) \in Message /\ Head(inbox).what = w
           /\ inbox' = Tail(inbox) /\ Tail(inbox) \in Seq(Message)
  BY QueueTypes DEF TypeOK, LooperTypeOK, Take

LEMMA SpendType ==
    ASSUME TypeOK, NEW e \in BoundedEvents, Spend(e)
    PROVE  budget' \in [BoundedEvents -> Nat]
  BY DEF TypeOK, PlayerTypeOK, Spend

LEMMA ConsumedType ==
    ASSUME TypeOK, NEW s \in Streams, NEW es \in Seq(Entry), Consumed(s, es)
    PROVE  replies' \in [Streams -> Seq(BufferEntry)]
<1>1. Kept(es, BufferEntry) \in Seq(Entry \cap BufferEntry)
  BY KeptType
<1>2. Entry \cap BufferEntry = BufferEntry
  BY BuffersAre
<1>3. replies \in [Streams -> Seq(BufferEntry)]
  BY DEF TypeOK, DecoderTypeOK
<1>4. replies[s] \o Kept(es, BufferEntry) \in Seq(BufferEntry)
  BY <1>1, <1>2, <1>3
<1> QED BY <1>3, <1>4 DEF Consumed

LEMMA QueuedType ==
    ASSUME TypeOK, NEW m \in Message
    PROVE  /\ Queued(m) \in [Streams -> Seq(Entry)]
           /\ [buffer |-> m.buffer, gen |-> m.gen] \in Entry
<1>1. m.stream \in Streams /\ [buffer |-> m.buffer, gen |-> m.gen] \in Entry
  BY MessageFields DEF Entry
<1>2. queue \in [Streams -> Seq(Entry)]
  BY DEF TypeOK, RendererTypeOK
<1>3. Append(queue[m.stream], [buffer |-> m.buffer, gen |-> m.gen]) \in Seq(Entry)
  BY <1>1, <1>2
<1> QED BY <1>1, <1>2, <1>3 DEF Queued

LEMMA FirstRestType ==
    ASSUME TypeOK, NEW s \in Streams, NEW n \in 0 .. Len(queue[s])
    PROVE  First(s, n) \in Seq(Entry) /\ Rest(s, n) \in Seq(Entry)
<1>1. queue[s] \in Seq(Entry)
  BY DEF TypeOK, RendererTypeOK
<1> QED BY <1>1, QueueTypes DEF First, Rest

LEMMA PostDrainsType ==
    ASSUME TypeOK, NEW S \in SUBSET Streams, NEW q, NEW pend, NEW paused, NEW received, NEW eos,
           \A s \in Streams : pend[s] \in BOOLEAN,
           PostDrains(S, q, pend, paused, received, eos)
    PROVE  mDrainPending' \in [Streams -> BOOLEAN] /\ timers' \subseteq Drain
<1> DEFINE due == {s \in S : ~pend[s] /\ DrainWanted(s, q, paused, received, eos)}
<1>1. mDrainPending' = [s \in Streams |-> pend[s] \/ s \in due]
  BY Zenon DEF PostDrains
<1>2. PICK w \in {"DrainVideoQueue", "PostDrainVideoQueue"} :
         timers' = timers \cup {Msg(IF s = "audio" THEN "DrainAudioQueue" ELSE w, s, EOS, mGeneration[s]) :
                                   s \in due}
  BY Zenon DEF PostDrains
<1>3. timers \subseteq Drain /\ \A s \in Streams : mGeneration[s] \in Nat
  BY DEF TypeOK, LooperTypeOK, RendererTypeOK
<1>4. ASSUME NEW s \in due
      PROVE  Msg(IF s = "audio" THEN "DrainAudioQueue" ELSE w, s, EOS, mGeneration[s]) \in Drain
  <2>1. s = "audio" \/ s = "video"
    BY DEF Streams
  <2>2. s \in Streams
    OBVIOUS
  <2> QED BY <1>3, <2>1, <2>2, MessageTypes
<1>5. mDrainPending' \in [Streams -> BOOLEAN]
  BY <1>1
<1> HIDE DEF due
<1> QED BY <1>2, <1>3, <1>4, <1>5

LEMMA ForgetType ==
    ASSUME TypeOK, ForgetObsolete
    PROVE  timers' \subseteq Drain
  BY DEF TypeOK, LooperTypeOK, ForgetObsolete

-----------------------------------------------------------------------------
(* Type correctness, action by action.                                      *)

LEMMA TimerDueType ==
    ASSUME TypeOK, TimerDue
    PROVE  TypeOK'
<1>1. UNCHANGED <<mHas, rendererVars, aborted, sinkVars, decoderVars, playerVars>>
  BY DEF TimerDue
<1>2. LooperTypeOK'
  <2>1. PICK m \in timers : timers' = timers \ {m} /\ inbox' = Append(inbox, m)
    BY DEF TimerDue
  <2>2. inbox \in Seq(Message) /\ timers \subseteq Drain /\ m \in Message
    BY MessageTypes DEF TypeOK, LooperTypeOK
  <2>3. inbox' \in Seq(Message)
    BY <2>1, <2>2
  <2> QED BY <1>1, <2>1, <2>2, <2>3, SameBuffers DEF LooperTypeOK
<1> QED BY <1>1, <1>2, Frame DEF TypeOK

LEMMA DropWhileFlushingType ==
    ASSUME TypeOK, NEW w \in {"QueueBuffer", "QueueEOS"}, DropWhileFlushing(w)
    PROVE  TypeOK'
<1>1. UNCHANGED <<mHas, timers, rendererVars, aborted, sinkVars, decoder, playerVars>>
  BY DEF DropWhileFlushing
<1>2. Take(w) /\ Head(inbox) \in Message
  BY TakeType DEF DropWhileFlushing
<1> DEFINE e == [buffer |-> Head(inbox).buffer, gen |-> Head(inbox).gen]
           es == IF w = "QueueBuffer" THEN <<e>> ELSE <<>>
<1>3. e \in Entry /\ Head(inbox).stream \in Streams
  BY <1>2, QueuedType, MessageFields
<1>4. es \in Seq(Entry)
  <2> HIDE DEF e
  <2> QED BY <1>3
<1>5. Consumed(Head(inbox).stream, es)
  BY DEF DropWhileFlushing
<1>6. DecoderTypeOK'
  <2> HIDE DEF es
  <2> QED BY <1>1, <1>3, <1>4, <1>5, ConsumedType, SameBuffers DEF TypeOK, DecoderTypeOK
<1>7. LooperTypeOK'
  BY <1>1, <1>2, TakeType, SameBuffers DEF TypeOK, LooperTypeOK
<1> QED BY <1>1, <1>6, <1>7, Frame DEF TypeOK

LEMMA QueueAndWaitType ==
    ASSUME TypeOK, QueueAndWait
    PROVE  TypeOK'
<1>1. UNCHANGED <<mHas, timers, aborted, sinkVars, decoderVars, playerVars>>
  BY DEF QueueAndWait
<1>2. Take("QueueBuffer") /\ queue' = Queued(Head(inbox))
  BY DEF QueueAndWait
<1>3. RendererTypeOK'
  BY <1>1, <1>2, TakeType, QueuedType, SameBuffers DEF QueueAndWait, TypeOK, RendererTypeOK
<1>4. LooperTypeOK'
  BY <1>1, <1>2, TakeType, SameBuffers DEF TypeOK, LooperTypeOK
<1> QED BY <1>1, <1>3, <1>4, Frame DEF TypeOK

LEMMA QueueAndDrainType ==
    ASSUME TypeOK, QueueAndDrain
    PROVE  TypeOK'
<1>1. UNCHANGED <<mHas, aborted, sinkVars, decoderVars, playerVars>>
  BY DEF QueueAndDrain
<1>2. /\ Take("QueueBuffer") /\ queue' = Queued(Head(inbox))
      /\ PostDrains(Streams, Queued(Head(inbox)), mDrainPending, mPaused, mVideoSampleReceived, mAudioEOS)
  BY DEF QueueAndDrain
<1>3. mDrainPending' \in [Streams -> BOOLEAN] /\ timers' \subseteq Drain
  BY <1>2, PostDrainsType DEF TypeOK, RendererTypeOK
<1>4. RendererTypeOK'
  BY <1>1, <1>2, <1>3, TakeType, QueuedType, SameBuffers DEF QueueAndDrain, TypeOK, RendererTypeOK
<1>5. LooperTypeOK'
  BY <1>1, <1>2, <1>3, TakeType, SameBuffers DEF TypeOK, LooperTypeOK
<1> QED BY <1>1, <1>4, <1>5, Frame DEF TypeOK

LEMMA QueueEOSType ==
    ASSUME TypeOK, QueueEOS
    PROVE  TypeOK'
<1>1. UNCHANGED <<mHas, aborted, sinkVars, decoderVars, playerVars>>
  BY DEF QueueEOS
<1>2. /\ Take("QueueEOS") /\ queue' = Queued(Head(inbox))
      /\ PostDrains({Head(inbox).stream}, Queued(Head(inbox)), mDrainPending, mPaused,
                    mVideoSampleReceived, mAudioEOS)
  BY DEF QueueEOS
<1>3. Head(inbox) \in Message /\ {Head(inbox).stream} \in SUBSET Streams
  BY <1>2, TakeType, MessageFields
<1>4. mDrainPending' \in [Streams -> BOOLEAN] /\ timers' \subseteq Drain
  BY <1>2, <1>3, PostDrainsType DEF TypeOK, RendererTypeOK
<1>5. RendererTypeOK'
  BY <1>1, <1>2, <1>3, <1>4, QueuedType, SameBuffers DEF QueueEOS, TypeOK, RendererTypeOK
<1>6. LooperTypeOK'
  BY <1>1, <1>2, <1>4, TakeType, SameBuffers DEF TypeOK, LooperTypeOK
<1> QED BY <1>1, <1>5, <1>6, Frame DEF TypeOK

\* What becomes of the queues and the pending drains when rendering may start.
LEMMA QueueAndCompareDoes ==
    ASSUME TypeOK, QueueAndCompare
    PROVE  LET q == Queued(Head(inbox))
           IN  /\ Take("QueueBuffer") /\ ~mFlushing[Head(inbox).stream]
               /\ UNCHANGED <<mHas, mFlushing, mNotifyComplete, mGeneration, mPaused, mAudioEOS,
                              mVideoSampleReceived, mOffload, mTornDown, sinkVars, decoder,
                              playerVars>>
               /\ mRenderStarted' = TRUE /\ mQueueInitial' \in BOOLEAN
               /\ aborted' \in {aborted, "nullBuffer"}
               /\ \/ /\ queue' = q /\ UNCHANGED <<mDrainPending, timers, replies>>
                  \/ /\ q["audio"] # <<>> /\ queue' = [q EXCEPT !["audio"] = Tail(@)]
                     /\ Consumed("audio", <<Head(q["audio"])>>)
                     /\ UNCHANGED <<mDrainPending, timers>>
                  \/ /\ queue' = q /\ UNCHANGED replies
                     /\ PostDrains(Streams, q, mDrainPending, mPaused, mVideoSampleReceived, mAudioEOS)
<1> DEFINE q == Queued(Head(inbox))
<1>1. /\ Take("QueueBuffer") /\ ~mFlushing[Head(inbox).stream]
      /\ mQueueInitial /\ Cardinality(mHas) = 2
      /\ ~Waits(q)
      /\ mRenderStarted' = TRUE
      /\ UNCHANGED <<mHas, mFlushing, mNotifyComplete, mGeneration, mPaused, mAudioEOS,
                     mVideoSampleReceived, mOffload, mTornDown, sinkVars, decoder, playerVars>>
  BY Zenon DEF QueueAndCompare
<1>2. \/ /\ aborted' = "nullBuffer"
         /\ queue' = q
         /\ UNCHANGED <<mQueueInitial, mDrainPending, timers, replies>>
      \/ /\ queue' = [q EXCEPT !["audio"] = Tail(@)]
         /\ Consumed("audio", <<Head(q["audio"])>>)
         /\ UNCHANGED <<mQueueInitial, mDrainPending, timers, aborted>>
      \/ /\ queue' = q
         /\ mQueueInitial' = FALSE
         /\ PostDrains(Streams, q, mDrainPending, mPaused, mVideoSampleReceived, mAudioEOS)
         /\ UNCHANGED <<replies, aborted>>
  BY Zenon DEF QueueAndCompare
<1>3. q["audio"] # <<>>
  BY <1>1 DEF Waits, Streams
<1>4. mQueueInitial \in BOOLEAN
  BY DEF TypeOK, RendererTypeOK
<1> HIDE DEF q
<1>5. mQueueInitial' \in BOOLEAN /\ aborted' \in {aborted, "nullBuffer"}
  BY <1>2, <1>4
<1> QED BY <1>1, <1>2, <1>3, <1>5, Zenon DEF q

LEMMA QueueAndCompareType ==
    ASSUME TypeOK, QueueAndCompare
    PROVE  TypeOK'
<1> DEFINE q == Queued(Head(inbox))
<1>1. /\ Take("QueueBuffer")
      /\ UNCHANGED <<mHas, mFlushing, mNotifyComplete, mGeneration, mPaused, mAudioEOS,
                     mVideoSampleReceived, mOffload, mTornDown, sinkVars, decoder,
                     playerVars>>
      /\ mRenderStarted' = TRUE /\ mQueueInitial' \in BOOLEAN
      /\ aborted' \in {aborted, "nullBuffer"}
      /\ \/ /\ queue' = q /\ UNCHANGED <<mDrainPending, timers, replies>>
         \/ /\ q["audio"] # <<>> /\ queue' = [q EXCEPT !["audio"] = Tail(@)]
            /\ Consumed("audio", <<Head(q["audio"])>>)
            /\ UNCHANGED <<mDrainPending, timers>>
         \/ /\ queue' = q /\ UNCHANGED replies
            /\ PostDrains(Streams, q, mDrainPending, mPaused, mVideoSampleReceived, mAudioEOS)
  BY QueueAndCompareDoes, Zenon
<1>2. q \in [Streams -> Seq(Entry)] /\ "audio" \in Streams
  BY <1>1, TakeType, QueuedType DEF Streams
<1>3. mDrainPending \in [Streams -> BOOLEAN] /\ timers \subseteq Drain
        /\ replies \in [Streams -> Seq(BufferEntry)]
  BY DEF TypeOK, RendererTypeOK, LooperTypeOK, DecoderTypeOK
<1> HIDE DEF q
<1>4. /\ queue' \in [Streams -> Seq(Entry)] /\ mDrainPending' \in [Streams -> BOOLEAN]
      /\ timers' \subseteq Drain /\ replies' \in [Streams -> Seq(BufferEntry)]
  <2>1. CASE queue' = q /\ UNCHANGED <<mDrainPending, timers, replies>>
    BY <1>2, <1>3, <2>1
  <2>2. CASE /\ q["audio"] # <<>> /\ queue' = [q EXCEPT !["audio"] = Tail(@)]
             /\ Consumed("audio", <<Head(q["audio"])>>)
             /\ UNCHANGED <<mDrainPending, timers>>
    <3> DEFINE a == q["audio"]
    <3>1. a \in Seq(Entry) /\ a # <<>>
      BY <1>2, <2>2
    <3> HIDE DEF a
    <3>2. Tail(a) \in Seq(Entry) /\ <<Head(a)>> \in Seq(Entry)
      BY <3>1
    <3>3. queue' = [q EXCEPT !["audio"] = Tail(a)] /\ Consumed("audio", <<Head(a)>>)
      BY <2>2 DEF a
    <3> QED BY <1>2, <1>3, <2>2, <3>2, <3>3, ConsumedType
  <2>3. CASE /\ queue' = q /\ UNCHANGED replies
             /\ PostDrains(Streams, q, mDrainPending, mPaused, mVideoSampleReceived, mAudioEOS)
    BY <1>2, <1>3, <2>3, PostDrainsType
  <2> QED BY <1>1, <2>1, <2>2, <2>3
<1>5. RendererTypeOK'
  BY <1>1, <1>4, SameBuffers DEF TypeOK, RendererTypeOK
<1>6. LooperTypeOK' /\ DecoderTypeOK'
  BY <1>1, <1>4, TakeType, SameBuffers DEF TypeOK, LooperTypeOK, DecoderTypeOK
<1>7. SinkTypeOK'
  BY <1>1 DEF TypeOK, SinkTypeOK, sinkVars, AbortReasons
<1> QED BY <1>1, <1>5, <1>6, <1>7, Frame DEF TypeOK

LEMMA DrainObsoleteType ==
    ASSUME TypeOK, DrainObsolete
    PROVE  TypeOK'
<1>1. PICK w \in DrainWhat :
         Take(w) /\ UNCHANGED <<mHas, timers, rendererVars, aborted, sinkVars, decoderVars, playerVars>>
  BY DEF DrainObsolete
<1>2. LooperTypeOK'
  BY <1>1, TakeType, SameBuffers DEF TypeOK, LooperTypeOK
<1> QED BY <1>1, <1>2, Frame DEF TypeOK

\* A queue without its first elements, or as it was.
LEMMA DrainedType ==
    ASSUME TypeOK, NEW s \in Streams, NEW n \in 0 .. Len(queue[s]),
           queue' = [queue EXCEPT ![s] = Rest(s, n)]
    PROVE  queue' \in [Streams -> Seq(Entry)]
<1>1. queue \in [Streams -> Seq(Entry)]
  BY DEF TypeOK, RendererTypeOK
<1> QED BY <1>1, FirstRestType

LEMMA DrainAudioBuffersType ==
    ASSUME TypeOK, DrainAudioBuffers
    PROVE  TypeOK'
<1> DEFINE pend == [mDrainPending EXCEPT !["audio"] = FALSE]
<1>1. /\ Take("DrainAudioQueue")
      /\ UNCHANGED <<mHas, mFlushing, mNotifyComplete, mGeneration, mPaused, mRenderStarted,
                     mQueueInitial, mAudioEOS, mVideoSampleReceived, mOffload, mTornDown,
                     aborted, sinkVars, decoder, playerVars>>
      /\ PostDrains({"audio"}, queue', pend, mPaused, mVideoSampleReceived, mAudioEOS)
  BY DEF DrainAudioBuffers
<1>2. PICK n \in 0 .. Len(queue["audio"]) :
         Consumed("audio", First("audio", n)) /\ queue' = [queue EXCEPT !["audio"] = Rest("audio", n)]
  BY DEF DrainAudioBuffers
<1>3. "audio" \in Streams /\ {"audio"} \in SUBSET Streams /\ \A s \in Streams : pend[s] \in BOOLEAN
  BY DEF Streams, TypeOK, RendererTypeOK
<1>4. queue' \in [Streams -> Seq(Entry)] /\ replies' \in [Streams -> Seq(BufferEntry)]
  BY <1>2, <1>3, DrainedType, FirstRestType, ConsumedType
<1>5. mDrainPending' \in [Streams -> BOOLEAN] /\ timers' \subseteq Drain
  <2> HIDE DEF pend
  <2> QED BY <1>1, <1>3, PostDrainsType
<1>6. RendererTypeOK'
  BY <1>1, <1>4, <1>5, SameBuffers DEF TypeOK, RendererTypeOK
<1>7. LooperTypeOK' /\ DecoderTypeOK'
  BY <1>1, <1>4, <1>5, TakeType, SameBuffers DEF TypeOK, LooperTypeOK, DecoderTypeOK
<1> QED BY <1>1, <1>6, <1>7, Frame DEF TypeOK

LEMMA DrainAudioEOSType ==
    ASSUME TypeOK, DrainAudioEOS
    PROVE  TypeOK'
<1>1. /\ Take("DrainAudioQueue") /\ mAudioEOS' = TRUE /\ told' = told \cup {"audio"}
      /\ mDrainPending' = [mDrainPending EXCEPT !["audio"] = FALSE]
      /\ UNCHANGED <<mHas, timers, mFlushing, mNotifyComplete, mGeneration, mPaused,
                     mRenderStarted, mQueueInitial, mVideoSampleReceived, mOffload,
                     mTornDown, aborted, sinkVars, decoder, player, seeking, answered, flushed,
                     tearDownTold, resumable, budget>>
  BY DEF DrainAudioEOS
<1>2. PICK n \in 0 .. Len(queue["audio"]) - 1 :
         /\ Consumed("audio", First("audio", n))
         /\ queue' = [queue EXCEPT !["audio"] = Rest("audio", n + 1)]
  BY DEF DrainAudioEOS
<1>3. "audio" \in Streams /\ n \in 0 .. Len(queue["audio"]) /\ n + 1 \in 0 .. Len(queue["audio"])
  <2>1. queue["audio"] \in Seq(Entry)
    BY DEF TypeOK, RendererTypeOK, Streams
  <2>2. Len(queue["audio"]) \in Nat
    BY <2>1
  <2> QED BY <2>2 DEF Streams
<1>4. queue' \in [Streams -> Seq(Entry)] /\ replies' \in [Streams -> Seq(BufferEntry)]
  BY <1>2, <1>3, DrainedType, FirstRestType, ConsumedType
<1>5. RendererTypeOK' /\ PlayerTypeOK'
  BY <1>1, <1>3, <1>4, SameBuffers DEF TypeOK, RendererTypeOK, PlayerTypeOK
<1>6. LooperTypeOK' /\ DecoderTypeOK'
  BY <1>1, <1>4, TakeType, SameBuffers DEF TypeOK, LooperTypeOK, DecoderTypeOK
<1> QED BY <1>1, <1>5, <1>6, Frame DEF TypeOK

LEMMA DrainAudioClosedType ==
    ASSUME TypeOK, DrainAudioClosed
    PROVE  TypeOK'
<1>1. /\ Take("DrainAudioQueue")
      /\ mDrainPending' = [mDrainPending EXCEPT !["audio"] = FALSE]
      /\ UNCHANGED <<mHas, timers, queue, mFlushing, mNotifyComplete, mGeneration, mPaused,
                     mRenderStarted, mQueueInitial, mAudioEOS, mVideoSampleReceived,
                     mOffload, mTornDown, aborted, sinkVars, decoderVars, playerVars>>
  BY DEF DrainAudioClosed
<1>2. RendererTypeOK' /\ LooperTypeOK'
  BY <1>1, TakeType, SameBuffers DEF TypeOK, RendererTypeOK, LooperTypeOK
<1> QED BY <1>1, <1>2, Frame DEF TypeOK

\* What DrainVideo does.
LEMMA DrainVideoDoes ==
    ASSUME TypeOK, DrainVideo
    PROVE  /\ Take("DrainVideoQueue") /\ Current(Head(inbox))
           /\ \E n \in 0 .. Len(queue["video"]) :
                 /\ Consumed("video", First("video", n))
                 /\ queue' = [queue EXCEPT !["video"] = Rest("video", n)]
           /\ told' \in {told, told \cup {"video"}}
           /\ mVideoSampleReceived' \in BOOLEAN
           /\ mVideoSampleReceived => mVideoSampleReceived'
           /\ PostDrains({"video"}, queue', [mDrainPending EXCEPT !["video"] = FALSE],
                         mPaused, mVideoSampleReceived', mAudioEOS)
           /\ UNCHANGED <<mHas, mFlushing, mNotifyComplete, mGeneration, mPaused, mRenderStarted,
                          mQueueInitial, mAudioEOS, mOffload, mTornDown, aborted, sinkVars,
                          decoder, player,
                          seeking, answered, flushed, tearDownTold, resumable, budget>>
<1> DEFINE n == IF queue["video"] = <<>> THEN 0 ELSE 1
           frame == n = 1 /\ IsBuffer(Head(queue["video"]))
<1>1. /\ Take("DrainVideoQueue") /\ Current(Head(inbox))
      /\ PostDrains({"video"}, queue', [mDrainPending EXCEPT !["video"] = FALSE],
                    mPaused, mVideoSampleReceived', mAudioEOS)
      /\ UNCHANGED <<mHas, mFlushing, mNotifyComplete, mGeneration, mPaused, mRenderStarted,
                     mQueueInitial, mAudioEOS, mOffload, mTornDown, aborted, sinkVars,
                     decoder, player, seeking, answered, flushed, tearDownTold, resumable, budget>>
  BY Zenon DEF DrainVideo
<1>2. /\ Consumed("video", First("video", n))
      /\ queue' = [queue EXCEPT !["video"] = Rest("video", n)]
      /\ told' = IF n = 1 /\ ~frame THEN told \cup {"video"} ELSE told
      /\ mVideoSampleReceived' = (mVideoSampleReceived \/ frame)
  BY Zenon DEF DrainVideo
<1>3. n \in 0 .. Len(queue["video"])
  <2>1. queue["video"] \in Seq(Entry)
    BY DEF TypeOK, RendererTypeOK, Streams
  <2> QED BY <2>1
<1>4. mVideoSampleReceived \in BOOLEAN /\ frame \in BOOLEAN
  BY DEF TypeOK, RendererTypeOK
<1> HIDE DEF n, frame
<1>5. /\ told' \in {told, told \cup {"video"}} /\ mVideoSampleReceived' \in BOOLEAN
      /\ mVideoSampleReceived => mVideoSampleReceived'
  BY <1>2, <1>4
<1> QED BY <1>1, <1>2, <1>3, <1>5

LEMMA DrainVideoType ==
    ASSUME TypeOK, DrainVideo
    PROVE  TypeOK'
<1> DEFINE pend == [mDrainPending EXCEPT !["video"] = FALSE]
<1>1. PICK n \in 0 .. Len(queue["video"]) :
         Consumed("video", First("video", n)) /\ queue' = [queue EXCEPT !["video"] = Rest("video", n)]
  BY DrainVideoDoes
<1>2. /\ Take("DrainVideoQueue")
      /\ PostDrains({"video"}, queue', pend, mPaused, mVideoSampleReceived', mAudioEOS)
  BY DrainVideoDoes
<1>3. "video" \in Streams /\ {"video"} \in SUBSET Streams /\ \A s \in Streams : pend[s] \in BOOLEAN
  BY DEF Streams, TypeOK, RendererTypeOK
<1>4. queue' \in [Streams -> Seq(Entry)] /\ replies' \in [Streams -> Seq(BufferEntry)]
  BY <1>1, <1>3, DrainedType, FirstRestType, ConsumedType
<1>5. mDrainPending' \in [Streams -> BOOLEAN] /\ timers' \subseteq Drain
  <2> HIDE DEF pend
  <2> QED BY <1>2, <1>3, PostDrainsType
<1>6. RendererTypeOK' /\ PlayerTypeOK'
  BY <1>3, <1>4, <1>5, DrainVideoDoes, SameBuffers DEF TypeOK, RendererTypeOK, PlayerTypeOK
<1>7. LooperTypeOK' /\ DecoderTypeOK'
  BY <1>2, <1>4, <1>5, DrainVideoDoes, TakeType, SameBuffers DEF TypeOK, LooperTypeOK, DecoderTypeOK
<1> QED BY <1>6, <1>7, DrainVideoDoes, Frame DEF TypeOK

LEMMA PostDrainVideoType ==
    ASSUME TypeOK, PostDrainVideo
    PROVE  TypeOK'
<1> DEFINE pend == [mDrainPending EXCEPT !["video"] = FALSE]
<1>1. /\ Take("PostDrainVideoQueue")
      /\ PostDrains({"video"}, queue, pend, mPaused, mVideoSampleReceived, mAudioEOS)
      /\ UNCHANGED <<mHas, queue, mFlushing, mNotifyComplete, mGeneration, mPaused,
                     mRenderStarted, mQueueInitial, mAudioEOS, mVideoSampleReceived,
                     mOffload, mTornDown, aborted, sinkVars, decoderVars, playerVars>>
  BY DEF PostDrainVideo
<1>2. {"video"} \in SUBSET Streams /\ \A s \in Streams : pend[s] \in BOOLEAN
  BY DEF Streams, TypeOK, RendererTypeOK
<1>3. mDrainPending' \in [Streams -> BOOLEAN] /\ timers' \subseteq Drain
  <2> HIDE DEF pend
  <2> QED BY <1>1, <1>2, PostDrainsType
<1>4. RendererTypeOK' /\ LooperTypeOK'
  BY <1>1, <1>3, TakeType, SameBuffers DEF TypeOK, RendererTypeOK, LooperTypeOK
<1> QED BY <1>1, <1>4, Frame DEF TypeOK

LEMMA FlushType ==
    ASSUME TypeOK, Flush
    PROVE  TypeOK'
<1> DEFINE s == Head(inbox).stream
<1>1. /\ Take("Flush") /\ ForgetObsolete
      /\ mFlushing' = [mFlushing EXCEPT ![s] = FALSE]
      /\ mNotifyComplete' = [mNotifyComplete EXCEPT ![s] = FALSE]
      /\ Consumed(s, queue[s])
      /\ queue' = [queue EXCEPT ![s] = <<>>]
      /\ mGeneration' = [mGeneration EXCEPT ![s] = @ + 1]
      /\ mDrainPending' = [mDrainPending EXCEPT ![s] = FALSE]
      /\ stopping' = (stopping /\ ~(s = "audio" /\ mOffload))
      /\ told' = told \ {s}
      /\ answered' = IF mNotifyComplete[s] THEN answered \cup {s} ELSE answered
      /\ mVideoSampleReceived' = FALSE /\ mQueueInitial' = TRUE
      /\ UNCHANGED <<mHas, mPaused, mRenderStarted, mAudioEOS, mOffload, mTornDown,
                     aborted, sink, decoder, player, seeking, flushed, tearDownTold,
                     resumable, budget>>
  BY Zenon DEF Flush
<1>2. s \in Streams
  BY <1>1, TakeType, MessageFields
<1> HIDE DEF s
<1>3. queue[s] \in Seq(Entry)
  BY <1>2 DEF TypeOK, RendererTypeOK
<1>4. replies' \in [Streams -> Seq(BufferEntry)] /\ timers' \subseteq Drain
  BY <1>1, <1>2, <1>3, ConsumedType, ForgetType
<1>5. RendererTypeOK'
  <2>1. /\ queue \in [Streams -> Seq(Entry)] /\ mGeneration \in [Streams -> Nat]
        /\ mFlushing \in [Streams -> BOOLEAN] /\ mNotifyComplete \in [Streams -> BOOLEAN]
        /\ mDrainPending \in [Streams -> BOOLEAN]
        /\ {mPaused, mRenderStarted, mAudioEOS, mOffload, mTornDown} \subseteq BOOLEAN
    BY DEF TypeOK, RendererTypeOK
  <2>2. queue' \in [Streams -> Seq(Entry)]
    <3>1. <<>> \in Seq(Entry)
      OBVIOUS
    <3> QED BY <1>1, <2>1, <3>1
  <2>3. mGeneration' \in [Streams -> Nat]
    BY <1>1, <1>2, <2>1
  <2>4. /\ mFlushing' \in [Streams -> BOOLEAN] /\ mNotifyComplete' \in [Streams -> BOOLEAN]
        /\ mDrainPending' \in [Streams -> BOOLEAN]
    BY <1>1, <2>1
  <2> QED BY <1>1, <2>1, <2>2, <2>3, <2>4, SameBuffers DEF RendererTypeOK
<1>6. PlayerTypeOK' /\ SinkTypeOK'
  BY <1>1, <1>2 DEF TypeOK, PlayerTypeOK, SinkTypeOK
<1>7. LooperTypeOK' /\ DecoderTypeOK'
  BY <1>1, <1>4, TakeType, SameBuffers DEF TypeOK, LooperTypeOK, DecoderTypeOK
<1> QED BY <1>1, <1>5, <1>6, <1>7 DEF TypeOK

LEMMA PauseType ==
    ASSUME TypeOK, Pause
    PROVE  TypeOK'
<1>1. /\ Take("Pause") /\ ForgetObsolete
      /\ UNCHANGED <<mHas, queue, mFlushing, mNotifyComplete, mRenderStarted,
                     mQueueInitial, mAudioEOS, mVideoSampleReceived, mOffload, mTornDown,
                     aborted, sinkVars, decoderVars, playerVars>>
  BY DEF Pause
<1>2. mPaused' \in BOOLEAN /\ mGeneration' \in [Streams -> Nat] /\ mDrainPending' \in [Streams -> BOOLEAN]
  <2>1. /\ mPaused \in BOOLEAN /\ mGeneration \in [Streams -> Nat]
        /\ mDrainPending \in [Streams -> BOOLEAN]
    BY DEF TypeOK, RendererTypeOK
  <2>2. CASE mPaused
    <3>1. UNCHANGED <<mPaused, mGeneration, mDrainPending>>
      BY <2>2 DEF Pause
    <3> QED BY <2>1, <3>1
  <2>3. CASE ~mPaused
    <3>1. /\ mPaused' = TRUE /\ mGeneration' = [s \in Streams |-> mGeneration[s] + 1]
          /\ mDrainPending' = [s \in Streams |-> FALSE]
      BY <2>3 DEF Pause
    <3> QED BY <2>1, <3>1
  <2> QED BY <2>2, <2>3
<1>3. RendererTypeOK' /\ LooperTypeOK'
  BY <1>1, <1>2, TakeType, ForgetType, SameBuffers DEF TypeOK, RendererTypeOK, LooperTypeOK
<1> QED BY <1>1, <1>3, Frame DEF TypeOK

LEMMA ResumeType ==
    ASSUME TypeOK, Resume
    PROVE  TypeOK'
<1>1. /\ Take("Resume") /\ mPaused' = FALSE
      /\ UNCHANGED <<mHas, queue, mFlushing, mNotifyComplete, mGeneration, mRenderStarted,
                     mQueueInitial, mAudioEOS, mVideoSampleReceived, mOffload, mTornDown,
                     aborted, sinkVars, decoderVars, playerVars>>
      /\ \/ PostDrains(Streams, queue, mDrainPending, FALSE, mVideoSampleReceived, mAudioEOS)
         \/ UNCHANGED <<mDrainPending, timers>>
  BY DEF Resume
<1>2. mDrainPending' \in [Streams -> BOOLEAN] /\ timers' \subseteq Drain
  BY <1>1, PostDrainsType DEF TypeOK, RendererTypeOK, LooperTypeOK
<1>3. RendererTypeOK' /\ LooperTypeOK'
  BY <1>1, <1>2, TakeType, SameBuffers DEF TypeOK, RendererTypeOK, LooperTypeOK
<1> QED BY <1>1, <1>3, Frame DEF TypeOK

LEMMA OpenAudioSinkType ==
    ASSUME TypeOK, OpenAudioSink
    PROVE  TypeOK'
<1>1. /\ Take("OpenAudioSink") /\ sink' = Head(inbox).gen
      /\ aborted' \in {"sinkChanged", aborted}
      /\ decoder' = [decoder EXCEPT !["audio"].opening = FALSE,
                                    !["audio"].format = Head(inbox).gen]
      /\ UNCHANGED <<mHas, timers, rendererVars, stopping, replies, playerVars>>
  BY DEF OpenAudioSink
<1>2. Head(inbox).gen \in Nat
  BY <1>1, TakeType, MessageFields
<1>3. SinkTypeOK' /\ LooperTypeOK'
  BY <1>1, <1>2, TakeType, SameBuffers DEF TypeOK, SinkTypeOK, LooperTypeOK, AbortReasons
<1>4. DecoderTypeOK'
  <2>1. decoder \in [Streams -> DecoderState] /\ "audio" \in Streams
    BY DEF TypeOK, DecoderTypeOK, Streams
  <2>2. decoder' \in [Streams -> DecoderState]
    BY <1>1, <1>2, <2>1 DEF DecoderState
  <2> QED BY <1>1, <2>2, SameBuffers DEF TypeOK, DecoderTypeOK
<1> QED BY <1>1, <1>3, <1>4, Frame DEF TypeOK

LEMMA CloseAudioSinkType ==
    ASSUME TypeOK, CloseAudioSink
    PROVE  TypeOK'
<1>1. /\ Take("CloseAudioSink") /\ sink' = 0 /\ stopping' = FALSE /\ player' = "tornDown"
      /\ UNCHANGED <<mHas, timers, rendererVars, aborted, decoderVars,
                     seeking, answered, flushed, told,
                     tearDownTold, resumable, budget>>
  BY DEF CloseAudioSink
<1>2. SinkTypeOK' /\ LooperTypeOK' /\ PlayerTypeOK'
  BY <1>1, TakeType, SameBuffers DEF TypeOK, SinkTypeOK, LooperTypeOK, PlayerTypeOK
<1> QED BY <1>1, <1>2, Frame DEF TypeOK

LEMMA StopAudioSinkType ==
    ASSUME TypeOK, StopAudioSink
    PROVE  TypeOK'
<1>1. /\ Take("StopAudioSink") /\ stopping' = (sink # 0)
      /\ UNCHANGED <<mHas, timers, rendererVars, aborted, sink, decoderVars, playerVars>>
  BY DEF StopAudioSink
<1>2. SinkTypeOK' /\ LooperTypeOK'
  BY <1>1, TakeType, SameBuffers DEF TypeOK, SinkTypeOK, LooperTypeOK
<1> QED BY <1>1, <1>2, Frame DEF TypeOK

LEMMA DisableOffloadAudioType ==
    ASSUME TypeOK, DisableOffloadAudio
    PROVE  TypeOK'
<1>1. /\ Take("DisableOffloadAudio") /\ mOffload' = FALSE /\ ForgetObsolete
      /\ mGeneration' = [mGeneration EXCEPT !["audio"] = @ + 1]
      /\ UNCHANGED <<mHas, queue, mFlushing, mNotifyComplete, mDrainPending, mPaused,
                     mRenderStarted, mQueueInitial, mAudioEOS, mVideoSampleReceived,
                     mTornDown, aborted, sinkVars, decoderVars, playerVars>>
  BY DEF DisableOffloadAudio
<1>2. mGeneration' \in [Streams -> Nat]
  <2>1. mGeneration \in [Streams -> Nat] /\ mGeneration["audio"] + 1 \in Nat
    BY DEF TypeOK, RendererTypeOK, Streams
  <2> QED BY <1>1, <2>1
<1>3. RendererTypeOK' /\ LooperTypeOK'
  BY <1>1, <1>2, TakeType, ForgetType, SameBuffers DEF TypeOK, RendererTypeOK, LooperTypeOK
<1> QED BY <1>1, <1>3, Frame DEF TypeOK

LEMMA AudioOffloadTearDownType ==
    ASSUME TypeOK, AudioOffloadTearDown
    PROVE  TypeOK'
<1>1. /\ Take("AudioOffloadTearDown") /\ mTornDown' = TRUE
      /\ stopping' = (stopping /\ mTornDown)
      /\ tearDownTold' = (tearDownTold \/ ~mTornDown)
      /\ UNCHANGED <<mHas, timers, queue, mFlushing, mNotifyComplete, mDrainPending,
                     mGeneration, mPaused, mRenderStarted, mQueueInitial, mAudioEOS,
                     mVideoSampleReceived, mOffload, aborted, sink, decoderVars, player,
                     seeking, answered, flushed, told, resumable, budget>>
  BY DEF AudioOffloadTearDown
<1>2. RendererTypeOK' /\ LooperTypeOK'
  BY <1>1, TakeType, SameBuffers DEF TypeOK, RendererTypeOK, LooperTypeOK
<1>3. SinkTypeOK' /\ PlayerTypeOK'
  BY <1>1 DEF TypeOK, SinkTypeOK, PlayerTypeOK
<1> QED BY <1>1, <1>2, <1>3, Frame DEF TypeOK

\* What FillAudioBuffer does.
LEMMA FillAudioBufferDoes ==
    ASSUME TypeOK, FillAudioBuffer
    PROVE  /\ UNCHANGED <<mHas, timers, mFlushing, mNotifyComplete, mDrainPending, mGeneration,
                          mPaused, mRenderStarted, mQueueInitial, mAudioEOS,
                          mVideoSampleReceived, mOffload, mTornDown, aborted, sinkVars, decoder,
                          playerVars>>
           /\ inbox' \in {inbox, Append(inbox, Signal("StopAudioSink"))}
           /\ \E n \in 0 .. Len(queue["audio"]), k \in 0 .. Len(queue["audio"]) :
                 /\ Consumed("audio", First("audio", n))
                 /\ queue' = [queue EXCEPT !["audio"] = Rest("audio", k)]
                 /\ k = n \/ (k = n + 1 /\ ~IsBuffer(queue["audio"][k]))
<1>1. UNCHANGED <<mHas, timers, mFlushing, mNotifyComplete, mDrainPending, mGeneration,
                  mPaused, mRenderStarted, mQueueInitial, mAudioEOS,
                  mVideoSampleReceived, mOffload, mTornDown, aborted, sinkVars, decoder,
                  playerVars>>
  BY DEF FillAudioBuffer
<1>2. PICK n \in 0 .. Len(queue["audio"]), eos \in BOOLEAN :
         /\ eos => n < Len(queue["audio"]) /\ ~IsBuffer(queue["audio"][n + 1])
         /\ Consumed("audio", First("audio", n))
         /\ queue' = [queue EXCEPT !["audio"] = Rest("audio", IF eos THEN n + 1 ELSE n)]
         /\ inbox' = IF eos THEN Append(inbox, Signal("StopAudioSink")) ELSE inbox
  BY Zenon DEF FillAudioBuffer
<1>3. Len(queue["audio"]) \in Nat
  <2>1. queue["audio"] \in Seq(Entry)
    BY DEF TypeOK, RendererTypeOK, Streams
  <2> QED BY <2>1
<1>4. inbox' \in {inbox, Append(inbox, Signal("StopAudioSink"))}
  BY <1>2
<1>5. CASE eos
  <2>1. n + 1 \in 0 .. Len(queue["audio"])
    BY <1>2, <1>3, <1>5
  <2>2. /\ queue' = [queue EXCEPT !["audio"] = Rest("audio", n + 1)]
        /\ ~IsBuffer(queue["audio"][n + 1])
    BY <1>2, <1>5
  <2> QED BY <1>1, <1>2, <1>4, <2>1, <2>2
<1>6. CASE ~eos
  <2>1. queue' = [queue EXCEPT !["audio"] = Rest("audio", n)]
    BY <1>2, <1>6
  <2> QED BY <1>1, <1>2, <1>4, <2>1
<1> QED BY <1>5, <1>6

LEMMA FillAudioBufferType ==
    ASSUME TypeOK, FillAudioBuffer
    PROVE  TypeOK'
<1>1. PICK n \in 0 .. Len(queue["audio"]), k \in 0 .. Len(queue["audio"]) :
         /\ Consumed("audio", First("audio", n))
         /\ queue' = [queue EXCEPT !["audio"] = Rest("audio", k)]
  BY FillAudioBufferDoes
<1>2. "audio" \in Streams
  BY DEF Streams
<1>3. queue' \in [Streams -> Seq(Entry)] /\ replies' \in [Streams -> Seq(BufferEntry)]
  BY <1>1, <1>2, DrainedType, FirstRestType, ConsumedType
<1>4. inbox' \in Seq(Message)
  <2>1. inbox \in Seq(Message) /\ Signal("StopAudioSink") \in Message
    BY MessageTypes DEF TypeOK, LooperTypeOK, SignalWhat
  <2> QED BY <2>1, FillAudioBufferDoes
<1>5. RendererTypeOK'
  BY <1>3, FillAudioBufferDoes, SameBuffers DEF TypeOK, RendererTypeOK
<1>6. LooperTypeOK' /\ DecoderTypeOK'
  BY <1>3, <1>4, FillAudioBufferDoes, SameBuffers DEF TypeOK, LooperTypeOK, DecoderTypeOK
<1> QED BY <1>5, <1>6, FillAudioBufferDoes, Frame DEF TypeOK

LEMMA StreamEndType ==
    ASSUME TypeOK, StreamEnd
    PROVE  TypeOK'
<1>1. /\ stopping' = FALSE /\ told' = told \cup {"audio"}
      /\ UNCHANGED <<mHas, inbox, timers, rendererVars, aborted, sink, decoderVars, player,
                     seeking, answered, flushed, tearDownTold, resumable, budget>>
  BY DEF StreamEnd
<1>2. SinkTypeOK' /\ PlayerTypeOK'
  BY <1>1 DEF TypeOK, SinkTypeOK, PlayerTypeOK, Streams
<1> QED BY <1>1, <1>2, Frame DEF TypeOK

\* The steps that post a signal.
LEMMA PostedType ==
    ASSUME TypeOK, UNCHANGED <<mHas, timers>>, NEW w \in SignalWhat,
           inbox' = Append(inbox, Signal(w))
    PROVE  LooperTypeOK'
<1>1. inbox \in Seq(Message) /\ Signal(w) \in Message
  BY MessageTypes DEF TypeOK, LooperTypeOK
<1>2. inbox' \in Seq(Message)
  BY <1>1
<1> QED BY <1>2, SameBuffers DEF TypeOK, LooperTypeOK

LEMMA SinkLostType ==
    ASSUME TypeOK, SinkLost
    PROVE  TypeOK'
<1>1. /\ Spend("tearDown") /\ "tearDown" \in BoundedEvents
      /\ inbox' = Append(inbox, Signal("AudioOffloadTearDown"))
      /\ UNCHANGED <<mHas, timers, rendererVars, aborted, sinkVars, decoderVars, player,
                     seeking, answered, flushed, told, tearDownTold, resumable>>
  BY DEF SinkLost, BoundedEvents
<1>2. PlayerTypeOK'
  BY <1>1, SpendType DEF TypeOK, PlayerTypeOK
<1> QED BY <1>1, <1>2, PostedType, Frame DEF TypeOK, SignalWhat

LEMMA ClientPausesType ==
    ASSUME TypeOK, ClientPauses
    PROVE  TypeOK'
<1>1. /\ Spend("pause") /\ "pause" \in BoundedEvents
      /\ inbox' = Append(inbox, Signal("Pause")) /\ resumable' = TRUE
      /\ UNCHANGED <<mHas, timers, rendererVars, aborted, sinkVars, decoderVars, player,
                     seeking, answered, flushed, told, tearDownTold>>
  BY DEF ClientPauses, BoundedEvents
<1>2. PlayerTypeOK'
  BY <1>1, SpendType DEF TypeOK, PlayerTypeOK
<1> QED BY <1>1, <1>2, PostedType, Frame DEF TypeOK, SignalWhat

LEMMA ClientResumesType ==
    ASSUME TypeOK, ClientResumes
    PROVE  TypeOK'
<1>1. /\ inbox' = Append(inbox, Signal("Resume")) /\ resumable' = FALSE
      /\ UNCHANGED <<mHas, timers, rendererVars, aborted, sinkVars, decoderVars, player,
                     seeking, answered, flushed, told, tearDownTold, budget>>
  BY DEF ClientResumes
<1>2. PlayerTypeOK'
  BY <1>1 DEF TypeOK, PlayerTypeOK
<1> QED BY <1>1, <1>2, PostedType, Frame DEF TypeOK, SignalWhat

LEMMA TearDownBeginsType ==
    ASSUME TypeOK, TearDownBegins
    PROVE  TypeOK'
<1>1. /\ inbox' = Append(inbox, Signal("CloseAudioSink"))
      /\ tearDownTold' = FALSE /\ player' = "closing"
      /\ UNCHANGED <<mHas, timers, rendererVars, aborted, sinkVars, decoderVars,
                     seeking, answered, flushed,
                     told, resumable, budget>>
  BY DEF TearDownBegins
<1>2. PlayerTypeOK'
  BY <1>1 DEF TypeOK, PlayerTypeOK
<1> QED BY <1>1, <1>2, PostedType, Frame DEF TypeOK, SignalWhat

LEMMA OutputBufferType ==
    ASSUME TypeOK, NEW s \in Streams, OutputBuffer(s)
    PROVE  TypeOK'
<1>1. UNCHANGED <<mHas, timers, rendererVars, aborted, sinkVars, replies, player,
                  seeking, answered, flushed,
                  told, tearDownTold, resumable>>
  BY DEF OutputBuffer
<1>2. inbox \in Seq(Message) /\ decoder \in [Streams -> DecoderState]
  BY DEF TypeOK, LooperTypeOK, DecoderTypeOK
<1>3. PICK b \in decoder[s].codec :
         \/ /\ inbox' = Append(inbox, QueueBufferMsg(s, b))
            /\ decoder' = [decoder EXCEPT ![s].codec = @ \ {b}]
            /\ UNCHANGED budget
         \/ /\ Spend("endOfStream")
            /\ inbox' = inbox \o <<QueueBufferMsg(s, b), QueueEOSMsg(s)>>
            /\ decoder' = [decoder EXCEPT ![s].codec = @ \ {b}, ![s].ended = TRUE]
  BY Zenon DEF OutputBuffer
<1>4. b \in Buffers /\ decoder[s].gen \in Nat
  BY <1>2 DEF DecoderState
<1>5. QueueBufferMsg(s, b) \in Message /\ QueueEOSMsg(s) \in Message
  BY <1>4, MessageTypes DEF QueueBufferMsg, QueueEOSMsg, DataWhat
<1>6. inbox' \in Seq(Message)
  <2> DEFINE m == QueueBufferMsg(s, b)
             e == QueueEOSMsg(s)
  <2>1. m \in Message /\ e \in Message
    BY <1>5
  <2>2. inbox' = Append(inbox, m) \/ inbox' = inbox \o <<m, e>>
    BY <1>3
  <2> HIDE DEF m, e
  <2> QED BY <1>2, <2>1, <2>2, QueueTypes
<1>7. decoder' \in [Streams -> DecoderState]
  <2>1. CASE decoder' = [decoder EXCEPT ![s].codec = @ \ {b}]
    BY <1>2, <2>1 DEF DecoderState
  <2>2. CASE decoder' = [decoder EXCEPT ![s].codec = @ \ {b}, ![s].ended = TRUE]
    BY <1>2, <2>2 DEF DecoderState
  <2> QED BY <1>3, <2>1, <2>2
<1>8. LooperTypeOK' /\ DecoderTypeOK'
  BY <1>1, <1>6, <1>7, SameBuffers DEF TypeOK, LooperTypeOK, DecoderTypeOK
<1>9. PlayerTypeOK'
  <2>1. budget' \in [BoundedEvents -> Nat]
    BY <1>3, SpendType DEF TypeOK, PlayerTypeOK, BoundedEvents
  <2> QED BY <1>1, <2>1 DEF TypeOK, PlayerTypeOK
<1> QED BY <1>1, <1>8, <1>9, Frame DEF TypeOK

LEMMA PassThroughEOSType ==
    ASSUME TypeOK, PassThroughEOS
    PROVE  TypeOK'
<1>1. /\ Spend("endOfStream") /\ "endOfStream" \in BoundedEvents
      /\ inbox' = Append(inbox, QueueEOSMsg("audio"))
      /\ decoder' = [decoder EXCEPT !["audio"].ended = TRUE]
      /\ UNCHANGED <<mHas, timers, rendererVars, aborted, sinkVars, replies, player,
                     seeking, answered, flushed,
                     told, tearDownTold, resumable>>
  BY DEF PassThroughEOS, BoundedEvents
<1>2. inbox \in Seq(Message) /\ decoder \in [Streams -> DecoderState] /\ "audio" \in Streams
  BY DEF TypeOK, LooperTypeOK, DecoderTypeOK, Streams
<1>3. QueueEOSMsg("audio") \in Message
  BY <1>2, MessageTypes DEF QueueEOSMsg, DataWhat, DecoderState
<1>4. inbox' \in Seq(Message)
  BY <1>1, <1>2, <1>3, QueueTypes
<1>5. decoder' \in [Streams -> DecoderState]
  BY <1>1, <1>2 DEF DecoderState
<1>6. LooperTypeOK' /\ DecoderTypeOK'
  BY <1>1, <1>4, <1>5, SameBuffers DEF TypeOK, LooperTypeOK, DecoderTypeOK
<1>7. PlayerTypeOK'
  BY <1>1, SpendType DEF TypeOK, PlayerTypeOK
<1> QED BY <1>1, <1>6, <1>7, Frame DEF TypeOK

LEMMA FormatChangedType ==
    ASSUME TypeOK, FormatChanged
    PROVE  TypeOK'
<1> DEFINE m == Msg("OpenAudioSink", "audio", EOS, decoder["audio"].format + 1)
<1>1. /\ Spend("format") /\ "format" \in BoundedEvents
      /\ inbox' = Append(inbox, m)
      /\ decoder' = [decoder EXCEPT !["audio"].opening = TRUE]
      /\ UNCHANGED <<mHas, timers, rendererVars, aborted, sinkVars, replies, player,
                     seeking, answered, flushed,
                     told, tearDownTold, resumable>>
  BY DEF FormatChanged, BoundedEvents
<1>2. inbox \in Seq(Message) /\ decoder \in [Streams -> DecoderState] /\ "audio" \in Streams
  BY DEF TypeOK, LooperTypeOK, DecoderTypeOK, Streams
<1>3. decoder["audio"].format + 1 \in Nat
  BY <1>2 DEF DecoderState
<1>4. m \in Message
  BY <1>2, <1>3, MessageTypes DEF DataWhat
<1> HIDE DEF m
<1>5. inbox' \in Seq(Message)
  BY <1>1, <1>2, <1>4, QueueTypes
<1>6. decoder' \in [Streams -> DecoderState]
  BY <1>1, <1>2 DEF DecoderState
<1>7. LooperTypeOK' /\ DecoderTypeOK'
  BY <1>1, <1>5, <1>6, SameBuffers DEF TypeOK, LooperTypeOK, DecoderTypeOK
<1>8. PlayerTypeOK'
  BY <1>1, SpendType DEF TypeOK, PlayerTypeOK
<1> QED BY <1>1, <1>7, <1>8, Frame DEF TypeOK

LEMMA RenderBufferType ==
    ASSUME TypeOK, NEW s \in Streams, RenderBuffer(s)
    PROVE  TypeOK'
<1>1. /\ replies[s] # <<>>
      /\ replies' = [replies EXCEPT ![s] = Tail(@)]
      /\ decoder' \in {decoder, [decoder EXCEPT ![s].codec = @ \cup {Head(replies[s]).buffer}]}
      /\ UNCHANGED <<mHas, inbox, timers, rendererVars, aborted, sinkVars, playerVars>>
  BY DEF RenderBuffer
<1>2. replies \in [Streams -> Seq(BufferEntry)] /\ decoder \in [Streams -> DecoderState]
  BY DEF TypeOK, DecoderTypeOK
<1>3. Head(replies[s]) \in BufferEntry /\ Tail(replies[s]) \in Seq(BufferEntry)
  BY <1>1, <1>2
<1>4. Head(replies[s]).buffer \in Buffers
  BY <1>3 DEF BufferEntry
<1>5. replies' \in [Streams -> Seq(BufferEntry)]
  BY <1>1, <1>2, <1>3
<1>6. decoder' \in [Streams -> DecoderState]
  BY <1>1, <1>2, <1>4 DEF DecoderState
<1>7. DecoderTypeOK'
  BY <1>1, <1>5, <1>6, SameBuffers DEF DecoderTypeOK
<1> QED BY <1>1, <1>7, Frame DEF TypeOK

\* flush() on the caller's thread.
LEMMA FlushMsgsType ==
    ASSUME NEW S
    PROVE  FlushMsgs(S) \in Seq(Message)
<1> DEFINE Of(s) == IF s \in S /\ ~mFlushing[s] THEN <<Msg("Flush", s, EOS, 0)>> ELSE <<>>
<1>1. \A s \in Streams : Msg("Flush", s, EOS, 0) \in Message
  BY MessageTypes DEF DataWhat
<1>2. \A s \in Streams : Of(s) \in Seq(Message)
  BY <1>1
<1>3. FlushMsgs(S) = Of("audio") \o Of("video")
  BY DEF FlushMsgs
<1>4. Of("audio") \in Seq(Message) /\ Of("video") \in Seq(Message)
  BY <1>2 DEF Streams
<1> HIDE DEF Of
<1> QED BY <1>3, <1>4

LEMMA AfterFlushOfType ==
    ASSUME TypeOK, NEW S, NEW notify \in BOOLEAN, AfterFlushOf(S, notify),
           UNCHANGED <<mHas, queue, mDrainPending, mGeneration, mPaused,
                       mRenderStarted, mQueueInitial, mAudioEOS, mVideoSampleReceived,
                       mOffload, mTornDown>>
    PROVE  RendererTypeOK'
<1>1. mFlushing' \in [Streams -> BOOLEAN] /\ mNotifyComplete' \in [Streams -> BOOLEAN]
  BY DEF AfterFlushOf, TypeOK, RendererTypeOK
<1> QED BY <1>1, SameBuffers DEF TypeOK, RendererTypeOK

LEMMA FlushedType ==
    ASSUME NEW d \in DecoderState, NEW c \in SUBSET Buffers
    PROVE  [d EXCEPT !.codec = c, !.gen = d.gen + 1, !.ended = FALSE, !.paused = TRUE,
                     !.flushDue = FALSE] \in DecoderState
<1>1. d.gen + 1 \in Nat
  BY DEF DecoderState
<1> QED BY <1>1 DEF DecoderState

LEMMA FlushDecoderType ==
    ASSUME TypeOK, NEW s \in Streams, FlushDecoder(s)
    PROVE  TypeOK'
<1>1. /\ AfterFlushOf({s}, TRUE) /\ inbox' = inbox \o FlushMsgs({s})
      /\ decoder' = [decoder EXCEPT ![s].codec = BuffersOf(s), ![s].gen = @ + 1,
                                    ![s].ended = FALSE, ![s].paused = TRUE,
                                    ![s].flushDue = FALSE]
      /\ flushed' \in {flushed, flushed \cup {s}}
      /\ UNCHANGED <<mHas, timers, queue, mDrainPending, mGeneration, mPaused,
                     mRenderStarted, mQueueInitial, mAudioEOS, mVideoSampleReceived,
                     mOffload, mTornDown, aborted, sinkVars, replies, player, seeking,
                     answered, told, tearDownTold, resumable, budget>>
  BY DEF FlushDecoder
<1>2. inbox \in Seq(Message) /\ decoder \in [Streams -> DecoderState]
  BY DEF TypeOK, LooperTypeOK, DecoderTypeOK
<1>3. inbox' \in Seq(Message)
  BY <1>1, <1>2, FlushMsgsType, QueueTypes
<1>4. decoder' \in [Streams -> DecoderState]
  <2> DEFINE d == [decoder[s] EXCEPT !.codec = BuffersOf(s), !.gen = decoder[s].gen + 1,
                                     !.ended = FALSE, !.paused = TRUE, !.flushDue = FALSE]
  <2>1. BuffersOf(s) \subseteq Buffers
    BY BuffersAre
  <2>2. d \in DecoderState
    <3>1. decoder[s] \in DecoderState
      BY <1>2
    <3> QED BY <2>1, <3>1, FlushedType
  <2>3. decoder' = [decoder EXCEPT ![s] = d]
    BY <1>1, <1>2 DEF DecoderState
  <2> HIDE DEF d
  <2> QED BY <1>2, <2>2, <2>3
<1>5. LooperTypeOK' /\ DecoderTypeOK'
  BY <1>1, <1>3, <1>4, SameBuffers DEF TypeOK, LooperTypeOK, DecoderTypeOK
<1>6. PlayerTypeOK'
  BY <1>1 DEF TypeOK, PlayerTypeOK
<1> QED BY <1>1, <1>5, <1>6, AfterFlushOfType, Frame DEF TypeOK

LEMMA SeekType ==
    ASSUME TypeOK, Seek
    PROVE  TypeOK'
<1>1. /\ Spend("seek") /\ "seek" \in BoundedEvents
      /\ seeking' = TRUE /\ answered' = {} /\ flushed' = {}
      /\ decoder' = [s \in Streams |-> [decoder[s] EXCEPT !.flushDue = s \in mHas]]
      /\ UNCHANGED <<mHas, inbox, timers, rendererVars, aborted, sinkVars, replies, player,
                     told, tearDownTold, resumable>>
  BY DEF Seek, BoundedEvents
<1>2. decoder \in [Streams -> DecoderState]
  BY DEF TypeOK, DecoderTypeOK
<1>3. \A s \in Streams : [decoder[s] EXCEPT !.flushDue = s \in mHas] \in DecoderState
  <2> SUFFICES ASSUME NEW s \in Streams
               PROVE  [decoder[s] EXCEPT !.flushDue = s \in mHas] \in DecoderState
    OBVIOUS
  <2>1. CASE s \in mHas
    <3>1. [decoder[s] EXCEPT !.flushDue = TRUE] \in DecoderState
      BY <1>2 DEF DecoderState
    <3>2. (s \in mHas) = TRUE
      BY <2>1
    <3> QED BY <3>1, <3>2, Zenon
  <2>2. CASE s \notin mHas
    <3>1. [decoder[s] EXCEPT !.flushDue = FALSE] \in DecoderState
      BY <1>2 DEF DecoderState
    <3>2. (s \in mHas) = FALSE
      BY <2>2
    <3> QED BY <3>1, <3>2, Zenon
  <2> QED BY <2>1, <2>2
<1>4. decoder' \in [Streams -> DecoderState]
  BY <1>1, <1>3, Zenon
<1>5. DecoderTypeOK'
  BY <1>1, <1>4, SameBuffers DEF TypeOK, DecoderTypeOK
<1>6. PlayerTypeOK'
  BY <1>1, SpendType DEF TypeOK, PlayerTypeOK
<1> QED BY <1>1, <1>5, <1>6, Frame DEF TypeOK

LEMMA SeekDoneType ==
    ASSUME TypeOK, SeekDone
    PROVE  TypeOK'
<1>1. /\ seeking' = FALSE /\ answered' = {} /\ flushed' = {}
      /\ decoder' = [s \in Streams |-> [decoder[s] EXCEPT !.paused = FALSE]]
      /\ UNCHANGED <<mHas, inbox, timers, rendererVars, aborted, sinkVars, replies, player,
                     told, tearDownTold, resumable, budget>>
  BY DEF SeekDone
<1>2. decoder \in [Streams -> DecoderState]
  BY DEF TypeOK, DecoderTypeOK
<1>3. decoder' \in [Streams -> DecoderState]
  BY <1>1, <1>2 DEF DecoderState
<1>4. DecoderTypeOK' /\ PlayerTypeOK'
  BY <1>1, <1>3, SameBuffers DEF TypeOK, DecoderTypeOK, PlayerTypeOK
<1> QED BY <1>1, <1>4, Frame DEF TypeOK

LEMMA NewDecoderType ==
    ASSUME TypeOK, NEW s \in Streams, NEW g \in Nat, NEW p \in BOOLEAN
    PROVE  NewDecoder(s, g, p) \in DecoderState
<1>1. BuffersOf(s) \subseteq Buffers
  BY BuffersAre
<1> QED BY <1>1 DEF NewDecoder, DecoderState

LEMMA TearDownEndsType ==
    ASSUME TypeOK, TearDownEnds
    PROVE  TypeOK'
<1>1. /\ AfterFlushOf(mHas, FALSE) /\ player' = "idle"
      /\ inbox' = inbox \o FlushMsgs(mHas) \o <<Signal("DisableOffloadAudio")>>
      /\ decoder' = [decoder EXCEPT !["audio"] = NewDecoder("audio", decoder["audio"].gen + 1, FALSE)]
      /\ UNCHANGED <<mHas, timers, queue, mDrainPending, mGeneration, mPaused,
                     mRenderStarted, mQueueInitial, mAudioEOS, mVideoSampleReceived,
                     mOffload, mTornDown, aborted, sinkVars, replies,
                     seeking, answered, flushed, told,
                     tearDownTold, resumable, budget>>
  BY DEF TearDownEnds
<1>2. inbox \in Seq(Message) /\ decoder \in [Streams -> DecoderState] /\ "audio" \in Streams
  BY DEF TypeOK, LooperTypeOK, DecoderTypeOK, Streams
<1>3. inbox' \in Seq(Message)
  <2>1. <<Signal("DisableOffloadAudio")>> \in Seq(Message)
    BY MessageTypes DEF SignalWhat
  <2>2. inbox \o FlushMsgs(mHas) \in Seq(Message)
    BY <1>2, FlushMsgsType, QueueTypes
  <2> QED BY <1>1, <2>1, <2>2, QueueTypes
<1>4. decoder' \in [Streams -> DecoderState]
  <2>1. decoder["audio"].gen + 1 \in Nat
    BY <1>2 DEF DecoderState
  <2>2. NewDecoder("audio", decoder["audio"].gen + 1, FALSE) \in DecoderState
    BY <1>2, <2>1, NewDecoderType
  <2> QED BY <1>1, <1>2, <2>2
<1>5. LooperTypeOK' /\ DecoderTypeOK' /\ PlayerTypeOK'
  BY <1>1, <1>3, <1>4, SameBuffers DEF TypeOK, LooperTypeOK, DecoderTypeOK, PlayerTypeOK
<1> QED BY <1>1, <1>5, AfterFlushOfType, Frame DEF TypeOK

LEMMA InitType ==
    ASSUME Init
    PROVE  TypeOK
<1>1. mHas \in TrackSets
  BY DEF Init
<1>2. RendererTypeOK
  <2>1. <<>> \in Seq(Entry)
    OBVIOUS
  <2> QED BY <2>1 DEF Init, RendererTypeOK
<1>3. LooperTypeOK /\ SinkTypeOK
  <2>1. inbox = <<>> /\ timers = {} /\ <<>> \in Seq(Message)
    BY DEF Init
  <2>2. LooperTypeOK
    BY <2>1 DEF LooperTypeOK
  <2>3. sink \in Nat /\ aborted = "no" /\ stopping = FALSE
    BY DEF Init
  <2> QED BY <2>2, <2>3 DEF SinkTypeOK, AbortReasons
<1>4. DecoderTypeOK
  <2>1. \A s \in Streams : BuffersOf(s) \subseteq Buffers
    BY DEF Buffers
  <2>2. ASSUME NEW s \in Streams
        PROVE  NewDecoder(s, 0, s = "audio" /\ mOffload) \in DecoderState
    <3>1. \A p \in BOOLEAN : NewDecoder(s, 0, p) \in DecoderState
      BY <2>1 DEF NewDecoder, DecoderState
    <3>2. CASE s = "audio" /\ mOffload
      <4>1. NewDecoder(s, 0, TRUE) \in DecoderState
        BY <3>1
      <4>2. (s = "audio" /\ mOffload) = TRUE
        BY <3>2
      <4> QED BY <4>1, <4>2, Zenon
    <3>3. CASE ~(s = "audio" /\ mOffload)
      <4>1. NewDecoder(s, 0, FALSE) \in DecoderState
        BY <3>1
      <4>2. (s = "audio" /\ mOffload) = FALSE
        BY <3>3
      <4> QED BY <4>1, <4>2, Zenon
    <3> QED BY <3>2, <3>3
  <2>3. decoder \in [Streams -> DecoderState]
    BY <2>2, Zenon DEF Init
  <2>4. replies \in [Streams -> Seq(BufferEntry)]
    BY DEF Init
  <2> QED BY <2>3, <2>4 DEF DecoderTypeOK
<1>5. PlayerTypeOK
  BY EventsAssumption DEF Init, PlayerTypeOK
<1> QED BY <1>1, <1>2, <1>3, <1>4, <1>5 DEF TypeOK

LEMMA TypeStep ==
    ASSUME TypeOK, [Next]_vars
    PROVE  TypeOK'
<1>1. CASE RendererNext
  BY <1>1, TimerDueType, DropWhileFlushingType, QueueAndWaitType, QueueAndCompareType, QueueAndDrainType,
    QueueEOSType, DrainObsoleteType, DrainAudioBuffersType, DrainAudioEOSType, DrainAudioClosedType,
    DrainVideoType, PostDrainVideoType, FlushType, PauseType, ResumeType, OpenAudioSinkType,
    CloseAudioSinkType, StopAudioSinkType, DisableOffloadAudioType, AudioOffloadTearDownType DEF RendererNext
<1>2. CASE SinkNext
  BY <1>2, FillAudioBufferType, StreamEndType, SinkLostType DEF SinkNext
<1>3. CASE DecoderNext
  BY <1>3, OutputBufferType, RenderBufferType, FlushDecoderType, PassThroughEOSType, FormatChangedType DEF
    DecoderNext
<1>4. CASE PlayerNext
  BY <1>4, ClientPausesType, ClientResumesType, SeekType, SeekDoneType, TearDownBeginsType, TearDownEndsType
    DEF PlayerNext
<1>5. CASE UNCHANGED vars
  BY <1>5, Frame DEF vars, TypeOK
<1> QED BY <1>1, <1>2, <1>3, <1>4, <1>5 DEF Next

\* Every variable keeps its type, for every number of buffers and every budget: what
\* the loopers, the sink and the decoders hand each other is of the streams it is
\* said to be of, and what goes back to a decoder is a buffer, never an end of
\* stream.
THEOREM TypeCorrect == Spec => []TypeOK
<1>1. Init => TypeOK
  BY InitType
<1>2. TypeOK /\ [Next]_vars => TypeOK'
  BY TypeStep
<1> QED BY <1>1, <1>2, PTL DEF Spec
-----------------------------------------------------------------------------
(* The inductive invariant of the drains.                                   *)

\* The drain messages of s that count, among the messages due in and those
\* delayed in waiting.
Due(in, s) == {i \in DOMAIN in : IsDrainOf(s, in[i])}
Delayed(waiting, s) == {m \in waiting : IsDrainOf(s, m)}

\* There is one if pending is true, and none if not.
OneOrNone(in, waiting, s, pending) ==
    /\ \A i, j \in Due(in, s) : i = j
    /\ \A m, n \in Delayed(waiting, s) : m = n
    /\ Due(in, s) = {} \/ Delayed(waiting, s) = {}
    /\ pending <=> (Due(in, s) # {} \/ Delayed(waiting, s) # {})

\* No drain is of a generation that is yet to come, and those delayed are of the
\* current one.
DueNotAhead(in) ==
    \A i \in DOMAIN in : in[i].what \in DrainWhat => in[i].gen <= mGeneration[in[i].stream]
DelayedIsCurrent == \A m \in timers : m.gen = mGeneration[m.stream]

\* The tear down of an offloaded sink is on its way at one place at most, and once
\* in a session: onDisableOffloadAudio() raises the generation and leaves the
\* pending flag alone, which is sound as no drain of audio is posted before.
ClosesDue   == Occurrences(inbox, Signal("CloseAudioSink"))
DisablesDue == Occurrences(inbox, Signal("DisableOffloadAudio"))
LossesDue   == Occurrences(inbox, Signal("AudioOffloadTearDown"))
TearsDownOnce ==
    /\ ClosesDue <= 1 /\ DisablesDue <= 1
    /\ ClosesDue = 0 \/ DisablesDue = 0
    /\ tearDownTold \/ player = "tornDown" => ClosesDue = 0 /\ DisablesDue = 0
    /\ ~(tearDownTold /\ player = "tornDown")
    /\ tearDownTold \/ player \in {"closing", "tornDown"} \/ DisablesDue > 0
         => mOffload /\ mTornDown
    /\ ClosesDue > 0 <=> player = "closing"
    /\ LossesDue > 0 => mOffload \/ mTornDown
OffloadedIsNotDrained == mOffload => ~mDrainPending["audio"]

Drains ==
    /\ \A s \in Streams : OneOrNone(inbox, timers, s, mDrainPending[s])
    /\ DueNotAhead(inbox)
    /\ DelayedIsCurrent
DrainInv == Drains /\ TearsDownOnce /\ OffloadedIsNotDrained

-----------------------------------------------------------------------------
(* One drain or none, as messages come and go.                              *)

LEMMA NoDrainIn ==
    ASSUME NEW in \in Seq(Message), NEW waiting, NEW s,
           \A i \in DOMAIN in : ~IsDrainOf(s, in[i]),
           \A m \in waiting : ~IsDrainOf(s, m)
    PROVE  OneOrNone(in, waiting, s, FALSE)
  BY DEF OneOrNone, Due, Delayed

\* A message that is no drain of s is taken.
LEMMA OtherTaken ==
    ASSUME NEW in \in Seq(Message), in # <<>>, NEW waiting, NEW s, NEW pending \in BOOLEAN,
           ~IsDrainOf(s, Head(in)), OneOrNone(in, waiting, s, pending)
    PROVE  OneOrNone(Tail(in), waiting, s, pending)
<1> DEFINE rest == Tail(in)
<1>1. /\ DOMAIN in = 1 .. Len(in) /\ DOMAIN rest = 1 .. Len(in) - 1 /\ Len(in) \in Nat
      /\ in[1] = Head(in)
      /\ \A i \in DOMAIN rest : rest[i] = in[i + 1]
  OBVIOUS
<1> HIDE DEF rest
<1>2. \A i \in Due(rest, s) : i \in Nat /\ i + 1 \in Due(in, s)
  BY <1>1 DEF Due
<1>3. \A i \in Due(in, s) : i # 1 /\ i - 1 \in Due(rest, s)
  <2> SUFFICES ASSUME NEW i \in Due(in, s)
               PROVE  i # 1 /\ i - 1 \in Due(rest, s)
    OBVIOUS
  <2>1. i \in 1 .. Len(in) /\ IsDrainOf(s, in[i]) /\ i # 1
    BY <1>1 DEF Due
  <2>2. i - 1 \in 1 .. Len(in) - 1 /\ (i - 1) + 1 = i
    BY <1>1, <2>1
  <2>3. rest[i - 1] = in[i]
    BY <1>1, <2>2
  <2> QED BY <1>1, <2>1, <2>2, <2>3 DEF Due
<1>4. Due(rest, s) = {} <=> Due(in, s) = {}
  BY <1>2, <1>3
<1>5. \A i, j \in Due(rest, s) : i = j
  <2> SUFFICES ASSUME NEW i \in Due(rest, s), NEW j \in Due(rest, s)
               PROVE  i = j
    OBVIOUS
  <2>1. i + 1 = j + 1 /\ i \in Nat /\ j \in Nat
    BY <1>2 DEF OneOrNone
  <2> QED BY <2>1
<1> QED BY <1>4, <1>5 DEF OneOrNone, rest

\* The drain of s is taken.
LEMMA DrainTaken ==
    ASSUME NEW in \in Seq(Message), in # <<>>, NEW waiting, NEW s, NEW pending \in BOOLEAN,
           IsDrainOf(s, Head(in)), OneOrNone(in, waiting, s, pending)
    PROVE  pending /\ OneOrNone(Tail(in), waiting, s, FALSE)
<1> DEFINE rest == Tail(in)
<1>1. /\ DOMAIN in = 1 .. Len(in) /\ DOMAIN rest = 1 .. Len(in) - 1 /\ Len(in) \in Nat \ {0}
      /\ in[1] = Head(in)
      /\ \A i \in DOMAIN rest : rest[i] = in[i + 1]
  OBVIOUS
<1>2. rest \in Seq(Message)
  OBVIOUS
<1> HIDE DEF rest
<1>3. 1 \in Due(in, s)
  BY <1>1 DEF Due
<1>4. pending /\ Delayed(waiting, s) = {}
  BY <1>3 DEF OneOrNone
<1>5. \A i \in DOMAIN rest : ~IsDrainOf(s, rest[i])
  <2> SUFFICES ASSUME NEW i \in DOMAIN rest, IsDrainOf(s, rest[i])
               PROVE  FALSE
    OBVIOUS
  <2>1. i \in Nat /\ i + 1 \in 1 .. Len(in) /\ i >= 1 /\ rest[i] = in[i + 1]
    BY <1>1
  <2>2. i + 1 \in Due(in, s)
    BY <1>1, <2>1 DEF Due
  <2>3. i + 1 = 1
    BY <1>3, <2>2 DEF OneOrNone
  <2> QED BY <2>1, <2>3
<1>6. OneOrNone(rest, waiting, s, FALSE)
  BY <1>2, <1>4, <1>5, NoDrainIn DEF Delayed
<1> QED BY <1>4, <1>6 DEF rest

\* Messages that are no drains of s are posted.
LEMMA OthersPosted ==
    ASSUME NEW in \in Seq(Message), NEW more \in Seq(Message), NEW waiting, NEW s,
           NEW pending \in BOOLEAN,
           \A i \in DOMAIN more : ~IsDrainOf(s, more[i]), OneOrNone(in, waiting, s, pending)
    PROVE  OneOrNone(in \o more, waiting, s, pending)
<1> DEFINE all == in \o more
<1>1. /\ DOMAIN in = 1 .. Len(in) /\ DOMAIN all = 1 .. Len(in) + Len(more)
      /\ DOMAIN more = 1 .. Len(more)
      /\ Len(in) \in Nat /\ Len(more) \in Nat
      /\ \A i \in 1 .. Len(in) : all[i] = in[i]
      /\ \A i \in Len(in) + 1 .. Len(in) + Len(more) : all[i] = more[i - Len(in)]
  OBVIOUS
<1> HIDE DEF all
<1>2. \A i \in DOMAIN all : i \notin DOMAIN in => i - Len(in) \in DOMAIN more /\ all[i] = more[i - Len(in)]
  BY <1>1
<1>3. \A i \in DOMAIN in : i \in DOMAIN all /\ all[i] = in[i]
  BY <1>1
<1>4. Due(all, s) = Due(in, s)
  BY <1>2, <1>3 DEF Due
<1> QED BY <1>4 DEF OneOrNone, all

\* A delayed message comes due.
LEMMA DelayedPosted ==
    ASSUME NEW in \in Seq(Message), NEW waiting \in SUBSET Message, NEW m \in waiting, NEW s,
           NEW pending \in BOOLEAN, OneOrNone(in, waiting, s, pending)
    PROVE  OneOrNone(Append(in, m), waiting \ {m}, s, pending)
<1> DEFINE all == Append(in, m)
           n == Len(in) + 1
<1>1. /\ DOMAIN in = 1 .. Len(in) /\ DOMAIN all = 1 .. Len(in) + 1 /\ Len(in) \in Nat
      /\ \A i \in 1 .. Len(in) : all[i] = in[i]
      /\ all[n] = m
  OBVIOUS
<1>2. DOMAIN all = DOMAIN in \cup {n} /\ n \notin DOMAIN in
  BY <1>1
<1>3. \A i \in DOMAIN in : all[i] = in[i]
  BY <1>1
<1>4. all[n] = m
  BY <1>1
<1> HIDE DEF all, n
<1>5. CASE IsDrainOf(s, m)
  <2>1. m \in Delayed(waiting, s)
    BY <1>5 DEF Delayed
  <2>2. Due(in, s) = {} /\ pending /\ Delayed(waiting \ {m}, s) = {}
    BY <2>1 DEF OneOrNone, Delayed
  <2>3. Due(all, s) = {n}
    BY <1>2, <1>3, <1>4, <1>5, <2>2 DEF Due
  <2>4. OneOrNone(all, waiting \ {m}, s, pending)
    BY <2>2, <2>3 DEF OneOrNone
  <2> QED BY <2>4 DEF all
<1>6. CASE ~IsDrainOf(s, m)
  <2>1. Delayed(waiting \ {m}, s) = Delayed(waiting, s)
    BY <1>6 DEF Delayed
  <2>2. Due(all, s) = Due(in, s)
    BY <1>2, <1>3, <1>4, <1>6 DEF Due
  <2>3. OneOrNone(all, waiting \ {m}, s, pending)
    BY <2>1, <2>2 DEF OneOrNone
  <2> QED BY <2>3 DEF all
<1> QED BY <1>5, <1>6

\* What PostDrains posts is the one drain of its stream.
LEMMA DrainsPosted ==
    ASSUME TypeOK, NEW S \in SUBSET Streams, NEW in, NEW q, NEW pend, NEW paused, NEW received,
           NEW eos, \A s \in Streams : pend[s] \in BOOLEAN,
           PostDrains(S, q, pend, paused, received, eos),
           \A s \in Streams : OneOrNone(in, timers, s, pend[s])
    PROVE  /\ \A s \in Streams : OneOrNone(in, timers', s, mDrainPending'[s])
           /\ \A m \in timers' : m \in timers \/ m.gen = mGeneration[m.stream]
<1> DEFINE due == {s \in S : ~pend[s] /\ DrainWanted(s, q, paused, received, eos)}
<1>1. mDrainPending' = [s \in Streams |-> pend[s] \/ s \in due]
  BY Zenon DEF PostDrains
<1>2. PICK w \in {"DrainVideoQueue", "PostDrainVideoQueue"} :
         timers' = timers \cup {Msg(IF s = "audio" THEN "DrainAudioQueue" ELSE w, s, EOS, mGeneration[s]) :
                                   s \in due}
  BY Zenon DEF PostDrains
<1>3. \A s \in due : s \in Streams /\ ~pend[s]
  OBVIOUS
<1> DEFINE M(s) == Msg(IF s = "audio" THEN "DrainAudioQueue" ELSE w, s, EOS, mGeneration[s])
<1>4. \A s : M(s).stream = s /\ M(s).gen = mGeneration[s] /\ M(s).what \in DrainWhat
  BY DEF Msg, DrainWhat
<1>5. timers' = timers \cup {M(s) : s \in due}
  BY <1>2
<1> HIDE DEF due, M
<1>6. \A m \in timers' : m \in timers \/ m.gen = mGeneration[m.stream]
  BY <1>4, <1>5
<1>7. ASSUME NEW s \in Streams
      PROVE  OneOrNone(in, timers', s, mDrainPending'[s])
  <2>1. OneOrNone(in, timers, s, pend[s]) /\ pend[s] \in BOOLEAN
    OBVIOUS
  <2>2. \A t \in due : IsDrainOf(s, M(t)) <=> t = s
    BY <1>4 DEF IsDrainOf, Current
  <2>3. CASE s \in due
    <3>1. ~pend[s]
      BY <1>3, <2>3
    <3>2. Due(in, s) = {} /\ Delayed(timers, s) = {}
      BY <2>1, <3>1 DEF OneOrNone
    <3>3. Delayed(timers', s) = {M(s)}
      BY <1>5, <2>2, <2>3, <3>2 DEF Delayed
    <3>4. mDrainPending'[s] <=> TRUE
      BY <1>1, <2>3
    <3> QED BY <3>2, <3>3, <3>4 DEF OneOrNone
  <2>4. CASE s \notin due
    <3>1. Delayed(timers', s) = Delayed(timers, s)
      BY <1>5, <2>2, <2>4 DEF Delayed
    <3>2. mDrainPending'[s] <=> pend[s]
      BY <1>1, <2>4
    <3> QED BY <2>1, <3>1, <3>2 DEF OneOrNone
  <2> QED BY <2>3, <2>4
<1> QED BY <1>6, <1>7

LEMMA DueTaken ==
    ASSUME NEW in \in Seq(Message), in # <<>>, DueNotAhead(in)
    PROVE  DueNotAhead(Tail(in))
<1>1. \A i \in DOMAIN Tail(in) : i + 1 \in DOMAIN in /\ Tail(in)[i] = in[i + 1]
  OBVIOUS
<1> QED BY <1>1 DEF DueNotAhead

LEMMA DuePosted ==
    ASSUME NEW in \in Seq(Message), NEW more \in Seq(Message), DueNotAhead(in), DueNotAhead(more)
    PROVE  DueNotAhead(in \o more)
<1>1. \A i \in DOMAIN (in \o more) :
         \/ i \in DOMAIN in /\ (in \o more)[i] = in[i]
         \/ i - Len(in) \in DOMAIN more /\ (in \o more)[i] = more[i - Len(in)]
  OBVIOUS
<1> DEFINE all == in \o more
<1>2. \A i \in DOMAIN all : \/ i \in DOMAIN in /\ all[i] = in[i]
                            \/ i - Len(in) \in DOMAIN more /\ all[i] = more[i - Len(in)]
  BY <1>1
<1> HIDE DEF all
<1>3. DueNotAhead(all)
  BY <1>2 DEF DueNotAhead
<1> QED BY <1>3 DEF all

\* What counts is what counted, while the generation of the stream stays.
LEMMA SameDrains ==
    ASSUME NEW s, mGeneration'[s] = mGeneration[s]
    PROVE  /\ \A m : IsDrainOf(s, m)' <=> IsDrainOf(s, m)
           /\ OneOrNone(inbox', timers', s, mDrainPending'[s])
                 => OneOrNone(inbox, timers, s, mDrainPending[s])'
<1>1. \A m : IsDrainOf(s, m)' <=> IsDrainOf(s, m)
  BY DEF IsDrainOf, Current
<1>2. IsDrainOf(s, inbox[0])' <=> IsDrainOf(s, inbox'[0])
  BY <1>1 DEF IsDrainOf, Current
<1>3. Due(inbox, s)' = Due(inbox', s) /\ Delayed(timers, s)' = Delayed(timers', s)
  BY DEF Due, Delayed, IsDrainOf, Current
<1> QED BY <1>1, <1>3 DEF OneOrNone

LEMMA DrainsOfThisGeneration ==
    ASSUME UNCHANGED mGeneration,
           \A s \in Streams : OneOrNone(inbox', timers', s, mDrainPending'[s]),
           DueNotAhead(inbox'), \A m \in timers' : m.gen = mGeneration[m.stream]
    PROVE  Drains'
<1>1. \A s \in Streams : OneOrNone(inbox, timers, s, mDrainPending[s])'
  BY SameDrains
<1>2. DueNotAhead(inbox)' /\ DelayedIsCurrent'
  BY DEF DueNotAhead, DelayedIsCurrent
<1> QED BY <1>1, <1>2 DEF Drains

LEMMA DrainsOf ==
    ASSUME TypeOK, Drains
    PROVE  /\ \A s \in Streams : OneOrNone(inbox, timers, s, mDrainPending[s])
           /\ \A s \in Streams : mDrainPending[s] \in BOOLEAN
           /\ DueNotAhead(inbox) /\ \A m \in timers : m.gen = mGeneration[m.stream]
           /\ inbox \in Seq(Message) /\ timers \in SUBSET Message
  BY MessageTypes DEF Drains, DelayedIsCurrent, TypeOK, LooperTypeOK, RendererTypeOK

\* The looper is left alone.
LEMMA DrainsAreLeft ==
    ASSUME TypeOK, Drains, UNCHANGED <<inbox, timers, mDrainPending, mGeneration>>
    PROVE  Drains'
  BY DrainsOf, DrainsOfThisGeneration

\* Something else is posted.
LEMMA OthersPostedStep ==
    ASSUME TypeOK, Drains, UNCHANGED <<timers, mDrainPending, mGeneration>>,
           NEW more \in Seq(Message), \A i \in DOMAIN more : more[i].what \notin DrainWhat,
           inbox' = inbox \o more
    PROVE  Drains'
<1>1. \A s \in Streams : OneOrNone(inbox', timers', s, mDrainPending'[s])
  BY DrainsOf, OthersPosted DEF IsDrainOf
<1>2. DueNotAhead(inbox')
  BY DrainsOf, DuePosted DEF DueNotAhead
<1> QED BY <1>1, <1>2, DrainsOf, DrainsOfThisGeneration

LEMMA OtherPostedStep ==
    ASSUME TypeOK, Drains, UNCHANGED <<timers, mDrainPending, mGeneration>>,
           NEW m \in Message, m.what \notin DrainWhat, inbox' = Append(inbox, m)
    PROVE  Drains'
<1> DEFINE more == <<m>>
<1>1. more \in Seq(Message) /\ \A i \in DOMAIN more : more[i].what \notin DrainWhat
  OBVIOUS
<1>2. Append(inbox, m) = inbox \o more
  BY DrainsOf
<1> HIDE DEF more
<1> QED BY <1>1, <1>2, OthersPostedStep

\* The next message is taken.
LEMMA TakenDrains ==
    ASSUME TypeOK, Drains, NEW w, Take(w)
    PROVE  /\ inbox' \in Seq(Message) /\ DueNotAhead(inbox')
           /\ \A s \in Streams :
                 ~IsDrainOf(s, Head(inbox)) => OneOrNone(inbox', timers, s, mDrainPending[s])
<1>1. inbox' \in Seq(Message) /\ DueNotAhead(inbox')
  BY TakeType, DrainsOf, DueTaken
<1>2. ASSUME NEW s \in Streams, ~IsDrainOf(s, Head(inbox))
      PROVE  OneOrNone(inbox', timers, s, mDrainPending[s])
  BY <1>2, TakeType, DrainsOf, OtherTaken
<1> QED BY <1>1, <1>2

\* Something else, or a drain of an old generation, is taken.
LEMMA OtherTakenStep ==
    ASSUME TypeOK, Drains, NEW w, Take(w), UNCHANGED <<timers, mDrainPending, mGeneration>>,
           w \notin DrainWhat \/ ~Current(Head(inbox))
    PROVE  Drains'
<1>1. \A s \in Streams : ~IsDrainOf(s, Head(inbox))
  BY TakeType DEF IsDrainOf
<1>2. \A s \in Streams : OneOrNone(inbox', timers', s, mDrainPending'[s])
  BY <1>1, TakeType, DrainsOf, OtherTaken
<1>3. DueNotAhead(inbox')
  BY TakeType, DrainsOf, DueTaken
<1> QED BY <1>2, <1>3, DrainsOf, DrainsOfThisGeneration

\* Something else is taken, and drains are posted.
LEMMA PostDrainsStep ==
    ASSUME TypeOK, Drains, NEW w, Take(w), w \notin DrainWhat, UNCHANGED mGeneration,
           NEW S \in SUBSET Streams, NEW q, NEW paused, NEW received, NEW eos,
           PostDrains(S, q, mDrainPending, paused, received, eos)
    PROVE  Drains'
<1>1. \A s \in Streams : ~IsDrainOf(s, Head(inbox))
  BY TakeType DEF IsDrainOf
<1>2. \A s \in Streams : OneOrNone(inbox', timers, s, mDrainPending[s])
  BY <1>1, TakeType, DrainsOf, OtherTaken
<1>3. /\ \A s \in Streams : OneOrNone(inbox', timers', s, mDrainPending'[s])
      /\ \A m \in timers' : m \in timers \/ m.gen = mGeneration[m.stream]
  BY <1>2, DrainsOf, DrainsPosted
<1>4. DueNotAhead(inbox')
  BY TakeType, DrainsOf, DueTaken
<1> QED BY <1>3, <1>4, DrainsOf, DrainsOfThisGeneration

\* The drain of a stream is taken: none is left.
LEMMA DrainIsTaken ==
    ASSUME TypeOK, Drains, NEW w \in DrainWhat, Take(w), Current(Head(inbox)),
           NEW s \in Streams, s = IF w = "DrainAudioQueue" THEN "audio" ELSE "video"
    PROVE  /\ mDrainPending[s] /\ DueNotAhead(inbox')
           /\ \A t \in Streams :
                 OneOrNone(inbox', timers, t, [mDrainPending EXCEPT ![s] = FALSE][t])
<1> DEFINE pend == [mDrainPending EXCEPT ![s] = FALSE]
<1>1. Head(inbox).stream = s
  BY TakeType, MessageFields
<1>2. IsDrainOf(s, Head(inbox))
  BY <1>1, TakeType DEF IsDrainOf
<1>3. mDrainPending[s] /\ OneOrNone(Tail(inbox), timers, s, FALSE)
  BY <1>2, DrainsOf, DrainTaken, TakeType
<1>4. ASSUME NEW t \in Streams
      PROVE  OneOrNone(inbox', timers, t, pend[t])
  <2>0. mDrainPending \in [Streams -> BOOLEAN]
    BY DEF TypeOK, RendererTypeOK
  <2>1. CASE t = s
    <3>1. pend[t] = FALSE
      BY <2>0, <2>1
    <3> HIDE DEF pend
    <3> QED BY <1>3, <2>1, <3>1, TakeType
  <2>2. CASE t # s
    <3>1. pend[t] = mDrainPending[t]
      BY <2>0, <2>2
    <3>2. ~IsDrainOf(t, Head(inbox))
      BY <1>1, <2>2 DEF IsDrainOf
    <3> HIDE DEF pend
    <3>3. OneOrNone(Tail(inbox), timers, t, mDrainPending[t])
      BY <3>2, TakeType, DrainsOf, OtherTaken
    <3> QED BY <3>1, <3>3, TakeType
  <2> QED BY <2>1, <2>2
<1>5. DueNotAhead(inbox')
  BY TakeType, DrainsOf, DueTaken
<1> QED BY <1>3, <1>4, <1>5

LEMMA DrainedStep ==
    ASSUME TypeOK, Drains, NEW w \in DrainWhat, Take(w), Current(Head(inbox)),
           NEW s \in Streams, s = IF w = "DrainAudioQueue" THEN "audio" ELSE "video",
           UNCHANGED <<timers, mGeneration>>, mDrainPending' = [mDrainPending EXCEPT ![s] = FALSE]
    PROVE  Drains'
  BY DrainIsTaken, DrainsOf, DrainsOfThisGeneration

LEMMA DrainedOnStep ==
    ASSUME TypeOK, Drains, NEW w \in DrainWhat, Take(w), Current(Head(inbox)),
           NEW s \in Streams, s = IF w = "DrainAudioQueue" THEN "audio" ELSE "video",
           UNCHANGED mGeneration,
           NEW q, NEW paused, NEW received, NEW eos,
           PostDrains({s}, q, [mDrainPending EXCEPT ![s] = FALSE], paused, received, eos)
    PROVE  Drains'
<1> DEFINE pend == [mDrainPending EXCEPT ![s] = FALSE]
<1>1. DueNotAhead(inbox') /\ \A t \in Streams : OneOrNone(inbox', timers, t, pend[t])
  BY DrainIsTaken
<1>2. \A t \in Streams : pend[t] \in BOOLEAN
  BY DEF TypeOK, RendererTypeOK
<1>3. PostDrains({s}, q, pend, paused, received, eos)
  OBVIOUS
<1> HIDE DEF pend
<1>4. /\ \A t \in Streams : OneOrNone(inbox', timers', t, mDrainPending'[t])
      /\ \A m \in timers' : m \in timers \/ m.gen = mGeneration[m.stream]
  BY <1>1, <1>2, <1>3, DrainsPosted
<1> QED BY <1>1, <1>4, DrainsOf, DrainsOfThisGeneration

\* The generations of the streams of S move on: what was posted for them counts no
\* more.
LEMMA NewGenerationStep ==
    ASSUME TypeOK, Drains, NEW w, Take(w), w \notin DrainWhat, ForgetObsolete,
           NEW S \in SUBSET Streams,
           mGeneration' \in [Streams -> Nat],
           \A s \in Streams : mGeneration'[s] = IF s \in S THEN mGeneration[s] + 1 ELSE mGeneration[s],
           \A s \in Streams : mDrainPending'[s] <=> (mDrainPending[s] /\ s \notin S)
    PROVE  Drains'
<1>1. inbox' \in Seq(Message) /\ DueNotAhead(inbox')
  BY TakenDrains
<1>2. mGeneration \in [Streams -> Nat]
  BY DEF TypeOK, RendererTypeOK
<1>3. timers' = {m \in timers : m.gen = mGeneration'[m.stream]}
  BY DEF ForgetObsolete
<1>4. ASSUME NEW s \in Streams
      PROVE  OneOrNone(inbox, timers, s, mDrainPending[s])'
  <2>1. CASE s \notin S
    <3>1. mGeneration'[s] = mGeneration[s]
      BY <2>1
    <3>2. ~IsDrainOf(s, Head(inbox))
      BY TakeType DEF IsDrainOf
    <3>3. OneOrNone(inbox', timers, s, mDrainPending[s])
      BY <3>2, TakenDrains
    <3>4. Delayed(timers', s) = Delayed(timers, s)
      BY <1>3, <3>1 DEF Delayed, IsDrainOf, Current
    <3>5. mDrainPending'[s] <=> mDrainPending[s]
      BY <2>1
    <3>6. OneOrNone(inbox', timers', s, mDrainPending'[s])
      BY <3>3, <3>4, <3>5 DEF OneOrNone
    <3> QED BY <3>1, <3>6, SameDrains
  <2>2. CASE s \in S
    <3>1. mGeneration'[s] = mGeneration[s] + 1 /\ ~mDrainPending'[s] /\ mGeneration[s] \in Nat
      BY <1>2, <2>2
    <3>2. \A i \in DOMAIN inbox' : ~IsDrainOf(s, inbox[i])'
      <4> SUFFICES ASSUME NEW i \in DOMAIN inbox', IsDrainOf(s, inbox[i])'
                   PROVE  FALSE
        OBVIOUS
      <4>1. inbox'[i] \in Message
        BY <1>1
      <4>2. /\ inbox'[i].what \in DrainWhat /\ inbox'[i].stream = s
            /\ inbox'[i].gen = mGeneration'[s]
        BY DEF IsDrainOf, Current
      <4>3. inbox'[i].gen <= mGeneration[s]
        BY <1>1, <4>2 DEF DueNotAhead
      <4> QED BY <3>1, <4>2, <4>3
    <3>3. \A m \in timers' : ~IsDrainOf(s, m)'
      <4> SUFFICES ASSUME NEW m \in timers', IsDrainOf(s, m)'
                   PROVE  FALSE
        OBVIOUS
      <4>1. m \in timers /\ m.stream = s /\ m.gen = mGeneration'[s]
        BY <1>3 DEF IsDrainOf, Current
      <4>2. m.gen = mGeneration[s]
        BY <4>1, DrainsOf
      <4> QED BY <3>1, <4>1, <4>2
    <3> QED BY <3>1, <3>2, <3>3 DEF OneOrNone, Due, Delayed
  <2> QED BY <2>1, <2>2
<1>5. DueNotAhead(inbox)'
  <2> SUFFICES ASSUME NEW i \in DOMAIN inbox', inbox'[i].what \in DrainWhat
               PROVE  inbox'[i].gen <= mGeneration'[inbox'[i].stream]
    BY DEF DueNotAhead
  <2>1. inbox'[i] \in Message
    BY <1>1
  <2>2. inbox'[i].stream \in Streams /\ inbox'[i].gen \in Nat
    BY <2>1, MessageFields
  <2>3. inbox'[i].gen <= mGeneration[inbox'[i].stream]
    BY <1>1 DEF DueNotAhead
  <2>4. mGeneration[inbox'[i].stream] <= mGeneration'[inbox'[i].stream]
    BY <1>2, <2>2
  <2> QED BY <1>2, <2>2, <2>3, <2>4
<1>6. DelayedIsCurrent'
  BY <1>3 DEF DelayedIsCurrent
<1> QED BY <1>4, <1>5, <1>6 DEF Drains

\* A delayed drain comes due.
LEMMA TimerDueStep ==
    ASSUME TypeOK, Drains, TimerDue
    PROVE  Drains'
<1>1. PICK m \in timers : timers' = timers \ {m} /\ inbox' = Append(inbox, m)
  BY DEF TimerDue
<1>2. UNCHANGED <<mDrainPending, mGeneration>>
  BY DEF TimerDue, rendererVars
<1>3. \A s \in Streams : OneOrNone(inbox', timers', s, mDrainPending[s])
  BY <1>1, DrainsOf, DelayedPosted
<1>4. DueNotAhead(inbox')
  <2> DEFINE more == <<m>>
  <2>1. more \in Seq(Message) /\ \A i \in DOMAIN more : more[i] = m
    BY <1>1, DrainsOf
  <2>2. inbox' = inbox \o more
    BY <1>1, DrainsOf
  <2> HIDE DEF more
  <2>3. m \in Message /\ m.gen = mGeneration[m.stream] /\ m.gen \in Nat
    BY <1>1, DrainsOf, MessageFields
  <2>4. DueNotAhead(more)
    BY <2>1, <2>3 DEF DueNotAhead
  <2> QED BY <2>1, <2>2, <2>4, DrainsOf, DuePosted
<1> QED BY <1>1, <1>2, <1>3, <1>4, DrainsOf, DrainsOfThisGeneration

LEMMA DrainsAreCounted ==
    ASSUME TypeOK, Drains
    PROVE  PendingDrainIsPosted
<1> SUFFICES ASSUME NEW s \in Streams
             PROVE  CurrentDrains(s) = IF mDrainPending[s] THEN 1 ELSE 0
  BY DEF PendingDrainIsPosted
<1> DEFINE D == {i \in DOMAIN inbox : IsDrainOf(s, inbox[i])}
           T == {m \in timers : IsDrainOf(s, m)}
<1>1. CurrentDrains(s) = Cardinality(T) + Cardinality(D)
  BY DEF CurrentDrains
<1>2. /\ \A i, j \in D : i = j
      /\ \A m, n \in T : m = n
      /\ D = {} \/ T = {}
      /\ mDrainPending[s] <=> (D # {} \/ T # {})
  BY DrainsOf DEF OneOrNone, Due, Delayed
<1>3. Cardinality({}) = 0 /\ \A x : Cardinality({x}) = 1
  BY FS_EmptySet, FS_Singleton
<1> HIDE DEF D, T
<1>4. CASE D = {} /\ T = {}
  <2>1. CurrentDrains(s) = 0
    BY <1>1, <1>3, <1>4
  <2> QED BY <1>2, <1>4, <2>1
<1>5. CASE D = {} /\ T # {}
  <2>1. PICK m : T = {m}
    BY <1>2, <1>5
  <2>2. Cardinality(T) = 1 /\ Cardinality(D) = 0
    BY <1>3, <1>5, <2>1
  <2>3. CurrentDrains(s) = 1
    BY <1>1, <2>2
  <2> QED BY <1>2, <1>5, <2>3
<1>6. CASE T = {} /\ D # {}
  <2>1. PICK i : D = {i}
    BY <1>2, <1>6
  <2>2. Cardinality(D) = 1 /\ Cardinality(T) = 0
    BY <1>3, <1>6, <2>1
  <2>3. CurrentDrains(s) = 1
    BY <1>1, <2>2
  <2> QED BY <1>2, <1>6, <2>3
<1> QED BY <1>2, <1>4, <1>5, <1>6

-----------------------------------------------------------------------------
(* The tear down of an offloaded sink.                                      *)

LEMMA SignalTaken ==
    ASSUME TypeOK, NEW w, Take(w), NEW v \in SignalWhat
    PROVE  /\ Occurrences(inbox, Signal(v)) \in Nat /\ Occurrences(inbox', Signal(v)) \in Nat
           /\ w = v => /\ Occurrences(inbox, Signal(v)) > 0
                       /\ Occurrences(inbox', Signal(v)) = Occurrences(inbox, Signal(v)) - 1
           /\ w # v => Occurrences(inbox', Signal(v)) = Occurrences(inbox, Signal(v))
<1> DEFINE x == Signal(v)
<1>1. inbox \in Seq(Message) /\ inbox # <<>> /\ Head(inbox) \in Message /\ inbox' = Tail(inbox)
  BY TakeType DEF TypeOK, LooperTypeOK
<1>2. Head(inbox) = x <=> w = v
  BY <1>1, TakeType, MessageFields DEF Signal, Msg
<1> HIDE DEF x
<1>3. inbox' \in Seq(Message) /\ Occurrences(inbox, x) = Occurrences(inbox', x) + (IF Head(inbox) = x THEN 1 ELSE 0)
  BY <1>1, OccurrencesTail
<1>4. Occurrences(inbox, x) \in Nat /\ Occurrences(inbox', x) \in Nat
  BY <1>1, <1>3, OccurrencesType
<1> QED BY <1>2, <1>3, <1>4 DEF x

LEMMA SignalPosted ==
    ASSUME TypeOK, NEW m \in Message, inbox' = Append(inbox, m), NEW v \in SignalWhat
    PROVE  /\ Occurrences(inbox, Signal(v)) \in Nat /\ Occurrences(inbox', Signal(v)) \in Nat
           /\ m.what = v => Occurrences(inbox', Signal(v)) = Occurrences(inbox, Signal(v)) + 1
           /\ m.what # v => Occurrences(inbox', Signal(v)) = Occurrences(inbox, Signal(v))
<1> DEFINE x == Signal(v)
<1>1. inbox \in Seq(Message)
  BY DEF TypeOK, LooperTypeOK
<1>2. m = x <=> m.what = v
  BY MessageFields DEF Signal, Msg
<1> HIDE DEF x
<1>3. inbox' \in Seq(Message) /\ Occurrences(inbox', x) = Occurrences(inbox, x) + (IF m = x THEN 1 ELSE 0)
  BY <1>1, OccurrencesAppend
<1>4. Occurrences(inbox, x) \in Nat /\ Occurrences(inbox', x) \in Nat
  BY <1>1, <1>3, OccurrencesType
<1> QED BY <1>2, <1>3, <1>4 DEF x

LEMMA OthersAreNoSignals ==
    ASSUME NEW more \in Seq(Message), NEW v \in SignalWhat,
           \A i \in DOMAIN more : more[i].what # v
    PROVE  Occurrences(more, Signal(v)) = 0
<1>1. \A i \in DOMAIN more : more[i] # Signal(v)
  BY DEF Signal, Msg
<1> QED BY <1>1, OccurrencesType

LEMMA FlushMsgsAre ==
    ASSUME NEW S
    PROVE  \A i \in DOMAIN FlushMsgs(S) :
              /\ FlushMsgs(S)[i] \in {Msg("Flush", s, EOS, 0) : s \in S \cap Streams}
              /\ ~mFlushing[FlushMsgs(S)[i].stream]
<1> DEFINE Of(s) == IF s \in S /\ ~mFlushing[s] THEN <<Msg("Flush", s, EOS, 0)>> ELSE <<>>
           M == {Msg("Flush", s, EOS, 0) : s \in {t \in S \cap Streams : ~mFlushing[t]}}
<1>1. \A s \in Streams : Of(s) \in Seq(M)
  <2> SUFFICES ASSUME NEW s \in Streams
               PROVE  Of(s) \in Seq(M)
    OBVIOUS
  <2>1. CASE s \in S /\ ~mFlushing[s]
    <3>1. Msg("Flush", s, EOS, 0) \in M
      BY <2>1
    <3> HIDE DEF M
    <3> QED BY <2>1, <3>1
  <2>2. CASE ~(s \in S /\ ~mFlushing[s])
    BY <2>2
  <2> QED BY <2>1, <2>2
<1>2. FlushMsgs(S) = Of("audio") \o Of("video")
  BY DEF FlushMsgs
<1>3. Of("audio") \in Seq(M) /\ Of("video") \in Seq(M)
  BY <1>1 DEF Streams
<1>4. \A m \in M : /\ m \in {Msg("Flush", s, EOS, 0) : s \in S \cap Streams}
                   /\ ~mFlushing[m.stream]
  BY DEF Msg
<1> HIDE DEF Of, M
<1>5. FlushMsgs(S) \in Seq(M)
  BY <1>2, <1>3
<1> QED BY <1>4, <1>5

TearDownSignals == {"CloseAudioSink", "DisableOffloadAudio", "AudioOffloadTearDown"}

LEMMA TearDownIsLeft ==
    ASSUME TearsDownOnce, UNCHANGED <<tearDownTold, player, mOffload, mTornDown>>,
           \A v \in TearDownSignals : Occurrences(inbox', Signal(v)) = Occurrences(inbox, Signal(v))
    PROVE  TearsDownOnce'
<1>1. ClosesDue' = ClosesDue /\ DisablesDue' = DisablesDue /\ LossesDue' = LossesDue
  BY DEF ClosesDue, DisablesDue, LossesDue, TearDownSignals
<1> HIDE DEF ClosesDue, DisablesDue, LossesDue
<1> QED BY <1>1 DEF TearsDownOnce

LEMMA SignalsDue ==
    ASSUME TypeOK
    PROVE  ClosesDue \in Nat /\ DisablesDue \in Nat /\ LossesDue \in Nat
  BY OccurrencesType DEF ClosesDue, DisablesDue, LossesDue, TypeOK, LooperTypeOK

LEMMA CloseAudioSinkTears ==
    ASSUME TypeOK, TearsDownOnce, CloseAudioSink
    PROVE  TearsDownOnce'
<1>1. /\ Take("CloseAudioSink") /\ player' = "tornDown"
      /\ UNCHANGED <<tearDownTold, mOffload, mTornDown>>
  BY DEF CloseAudioSink, rendererVars
<1>2. ClosesDue > 0 /\ ClosesDue' = ClosesDue - 1 /\ DisablesDue' = DisablesDue /\ LossesDue' = LossesDue
  BY <1>1, SignalTaken DEF ClosesDue, DisablesDue, LossesDue, SignalWhat
<1>3. tearDownTold \in BOOLEAN
  BY DEF TypeOK, PlayerTypeOK
<1> HIDE DEF ClosesDue, DisablesDue, LossesDue
<1>4. ClosesDue > 0 /\ ClosesDue <= 1 /\ player = "closing" /\ mOffload /\ mTornDown
  BY <1>2, SignalsDue DEF TearsDownOnce
<1>5. DisablesDue = 0 /\ ~tearDownTold
  BY <1>4, SignalsDue DEF TearsDownOnce
<1>6. ClosesDue' = 0
  BY <1>2, <1>4, SignalsDue
<1> QED BY <1>1, <1>2, <1>4, <1>5, <1>6, SignalsDue DEF TearsDownOnce

LEMMA DisableOffloadAudioTears ==
    ASSUME TypeOK, TearsDownOnce, DisableOffloadAudio
    PROVE  TearsDownOnce' /\ mOffload
<1>1. /\ Take("DisableOffloadAudio") /\ mOffload' = FALSE
      /\ UNCHANGED <<tearDownTold, player, mTornDown>>
  BY DEF DisableOffloadAudio, playerVars
<1>2. DisablesDue > 0 /\ DisablesDue' = DisablesDue - 1 /\ ClosesDue' = ClosesDue /\ LossesDue' = LossesDue
  BY <1>1, SignalTaken DEF ClosesDue, DisablesDue, LossesDue, SignalWhat
<1>3. tearDownTold \in BOOLEAN
  BY DEF TypeOK, PlayerTypeOK
<1> HIDE DEF ClosesDue, DisablesDue, LossesDue
<1>4. DisablesDue > 0 /\ DisablesDue <= 1 /\ mOffload /\ mTornDown
  BY <1>2, SignalsDue DEF TearsDownOnce
<1>5. ClosesDue = 0 /\ ~tearDownTold /\ player # "tornDown" /\ player # "closing"
  BY <1>4, SignalsDue DEF TearsDownOnce
<1>6. DisablesDue' = 0
  BY <1>2, <1>4, SignalsDue
<1> QED BY <1>1, <1>2, <1>4, <1>5, <1>6, SignalsDue DEF TearsDownOnce

LEMMA AudioOffloadTearDownTears ==
    ASSUME TypeOK, TearsDownOnce, AudioOffloadTearDown
    PROVE  TearsDownOnce'
<1>1. /\ Take("AudioOffloadTearDown") /\ mTornDown' = TRUE
      /\ tearDownTold' = (tearDownTold \/ ~mTornDown)
      /\ UNCHANGED <<mOffload, player>>
  BY DEF AudioOffloadTearDown
<1>2. LossesDue > 0 /\ LossesDue' = LossesDue - 1 /\ ClosesDue' = ClosesDue /\ DisablesDue' = DisablesDue
  BY <1>1, SignalTaken DEF ClosesDue, DisablesDue, LossesDue, SignalWhat
<1>3. tearDownTold \in BOOLEAN /\ mTornDown \in BOOLEAN
  BY DEF TypeOK, PlayerTypeOK, RendererTypeOK
<1> HIDE DEF ClosesDue, DisablesDue, LossesDue
<1>4. CASE mTornDown
  BY <1>1, <1>2, <1>3, <1>4, SignalsDue DEF TearsDownOnce
<1>5. CASE ~mTornDown
  <2>0. LossesDue > 0
    BY <1>2
  <2>1. tearDownTold' = TRUE /\ mOffload
    BY <1>1, <1>5, <2>0 DEF TearsDownOnce
  <2>2. ~tearDownTold /\ player \notin {"closing", "tornDown"} /\ DisablesDue = 0 /\ ClosesDue = 0
    BY <1>5, SignalsDue DEF TearsDownOnce
  <2> QED BY <1>1, <1>2, <2>1, <2>2, SignalsDue DEF TearsDownOnce
<1> QED BY <1>4, <1>5

LEMMA SinkLostTears ==
    ASSUME TypeOK, TearsDownOnce, SinkLost
    PROVE  TearsDownOnce'
<1>1. /\ inbox' = Append(inbox, Signal("AudioOffloadTearDown")) /\ mOffload
      /\ UNCHANGED <<tearDownTold, player, mOffload, mTornDown>>
  BY DEF SinkLost, rendererVars
<1>2. Signal("AudioOffloadTearDown") \in Message /\ Signal("AudioOffloadTearDown").what = "AudioOffloadTearDown"
  BY MessageTypes DEF SignalWhat, Signal, Msg
<1>3. LossesDue' = LossesDue + 1 /\ ClosesDue' = ClosesDue /\ DisablesDue' = DisablesDue
  BY <1>1, <1>2, SignalPosted DEF ClosesDue, DisablesDue, LossesDue, SignalWhat
<1> HIDE DEF ClosesDue, DisablesDue, LossesDue
<1> QED BY <1>1, <1>3, SignalsDue DEF TearsDownOnce

LEMMA TearDownBeginsTears ==
    ASSUME TypeOK, TearsDownOnce, TearDownBegins
    PROVE  TearsDownOnce'
<1>1. /\ inbox' = Append(inbox, Signal("CloseAudioSink"))
      /\ player = "idle" /\ tearDownTold /\ tearDownTold' = FALSE /\ player' = "closing"
      /\ UNCHANGED <<mOffload, mTornDown>>
  BY DEF TearDownBegins, rendererVars
<1>2. Signal("CloseAudioSink") \in Message /\ Signal("CloseAudioSink").what = "CloseAudioSink"
  BY MessageTypes DEF SignalWhat, Signal, Msg
<1>3. ClosesDue' = ClosesDue + 1 /\ LossesDue' = LossesDue /\ DisablesDue' = DisablesDue
  BY <1>1, <1>2, SignalPosted DEF ClosesDue, DisablesDue, LossesDue, SignalWhat
<1> HIDE DEF ClosesDue, DisablesDue, LossesDue
<1> QED BY <1>1, <1>3, SignalsDue DEF TearsDownOnce

LEMMA TearDownEndsTears ==
    ASSUME TypeOK, TearsDownOnce, TearDownEnds
    PROVE  TearsDownOnce'
<1> DEFINE flushes == FlushMsgs(mHas)
           last == <<Signal("DisableOffloadAudio")>>
<1>1. /\ inbox' = inbox \o flushes \o last
      /\ player = "tornDown" /\ player' = "idle"
      /\ UNCHANGED <<tearDownTold, mOffload, mTornDown>>
  BY DEF TearDownEnds
<1>2. /\ Signal("DisableOffloadAudio") \in Message
      /\ \A v \in SignalWhat : Signal("DisableOffloadAudio") = Signal(v) <=> v = "DisableOffloadAudio"
  BY MessageTypes DEF SignalWhat, Signal, Msg
<1>3. inbox \in Seq(Message) /\ flushes \in Seq(Message) /\ last \in Seq(Message)
  BY <1>2, FlushMsgsType DEF TypeOK, LooperTypeOK
<1>4. \A v \in SignalWhat : Occurrences(flushes, Signal(v)) = 0
  <2>1. \A i \in DOMAIN flushes : flushes[i].what = "Flush"
    BY FlushMsgsAre DEF Msg
  <2>2. \A v \in SignalWhat : v # "Flush"
    BY DEF SignalWhat
  <2> HIDE DEF flushes
  <2> QED BY <1>3, <2>1, <2>2, OthersAreNoSignals
<1>5. \A v \in SignalWhat : Occurrences(last, Signal(v)) = IF v = "DisableOffloadAudio" THEN 1 ELSE 0
  BY <1>2, OccurrencesOne
<1> HIDE DEF flushes, last
<1>6. ASSUME NEW v \in SignalWhat
      PROVE  Occurrences(inbox', Signal(v)) =
                Occurrences(inbox, Signal(v)) + (IF v = "DisableOffloadAudio" THEN 1 ELSE 0)
  <2> DEFINE x == Signal(v)
  <2>1. Occurrences(flushes, x) = 0 /\ Occurrences(last, x) = IF v = "DisableOffloadAudio" THEN 1 ELSE 0
    BY <1>4, <1>5
  <2> HIDE DEF x
  <2>2. /\ inbox \o flushes \in Seq(Message)
        /\ Occurrences(inbox \o flushes, x) = Occurrences(inbox, x) + Occurrences(flushes, x)
    BY <1>3, OccurrencesConcat
  <2>3. Occurrences(inbox', x) = Occurrences(inbox \o flushes, x) + Occurrences(last, x)
    <3> DEFINE most == inbox \o flushes
    <3>1. most \in Seq(Message) /\ inbox' = most \o last
      BY <1>1, <2>2
    <3> HIDE DEF most
    <3>2. Occurrences(most \o last, x) = Occurrences(most, x) + Occurrences(last, x)
      BY <1>3, <3>1, OccurrencesConcat
    <3> QED BY <3>1, <3>2 DEF most
  <2>4. Occurrences(inbox, x) \in Nat
    BY <1>3, OccurrencesType
  <2> QED BY <2>1, <2>2, <2>3, <2>4 DEF x
<1>7. DisablesDue' = DisablesDue + 1 /\ LossesDue' = LossesDue /\ ClosesDue' = ClosesDue
  <2>1. \A v \in SignalWhat : Occurrences(inbox, Signal(v)) \in Nat
    BY <1>3, OccurrencesType
  <2> QED BY <1>6, <2>1 DEF ClosesDue, DisablesDue, LossesDue, SignalWhat
<1>8. tearDownTold \in BOOLEAN
  BY DEF TypeOK, PlayerTypeOK
<1> HIDE DEF ClosesDue, DisablesDue, LossesDue
<1> QED BY <1>1, <1>7, <1>8, SignalsDue DEF TearsDownOnce

\* The other actions leave it as it is.
LEMMA OtherTakenTears ==
    ASSUME TypeOK, TearsDownOnce, NEW w, Take(w), w \notin TearDownSignals,
           UNCHANGED <<tearDownTold, player, mOffload, mTornDown>>
    PROVE  TearsDownOnce'
<1>1. \A v \in TearDownSignals : Occurrences(inbox', Signal(v)) = Occurrences(inbox, Signal(v))
  BY SignalTaken DEF TearDownSignals, SignalWhat
<1> QED BY <1>1, TearDownIsLeft

LEMMA OthersPostedTears ==
    ASSUME TypeOK, TearsDownOnce, NEW more \in Seq(Message), inbox' = inbox \o more,
           \A i \in DOMAIN more : more[i].what \notin TearDownSignals,
           UNCHANGED <<tearDownTold, player, mOffload, mTornDown>>
    PROVE  TearsDownOnce'
<1>1. ASSUME NEW v \in TearDownSignals
      PROVE  Occurrences(inbox', Signal(v)) = Occurrences(inbox, Signal(v))
  <2>1. inbox \in Seq(Message) /\ v \in SignalWhat
    BY DEF TypeOK, LooperTypeOK, TearDownSignals, SignalWhat
  <2>2. Occurrences(more, Signal(v)) = 0
    BY <2>1, OthersAreNoSignals
  <2>3. Occurrences(inbox, Signal(v)) \in Nat
    BY <2>1, OccurrencesType
  <2> QED BY <2>1, <2>2, <2>3, OccurrencesConcat
<1> QED BY <1>1, TearDownIsLeft

LEMMA OtherPostedTears ==
    ASSUME TypeOK, TearsDownOnce, NEW m \in Message, inbox' = Append(inbox, m),
           m.what \notin TearDownSignals, UNCHANGED <<tearDownTold, player, mOffload, mTornDown>>
    PROVE  TearsDownOnce'
<1>1. \A v \in TearDownSignals : Occurrences(inbox', Signal(v)) = Occurrences(inbox, Signal(v))
  BY SignalPosted DEF TearDownSignals, SignalWhat
<1> QED BY <1>1, TearDownIsLeft

-----------------------------------------------------------------------------
(* The invariant of the drains, action by action.                           *)

LEMMA TearDownSignalsAre == TearDownSignals \cap DrainWhat = {} /\ TearDownSignals \subseteq SignalWhat
  BY DEF TearDownSignals, DrainWhat, SignalWhat

LEMMA SeqOf ==
    ASSUME NEW T, NEW U, NEW q \in Seq(T), \A i \in DOMAIN q : q[i] \in U
    PROVE  q \in Seq(U)
  OBVIOUS

LEMMA DrainInvLeft ==
    ASSUME TypeOK, DrainInv,
           UNCHANGED <<inbox, timers, mDrainPending, mGeneration, tearDownTold, player, mOffload,
                       mTornDown>>
    PROVE  DrainInv'
<1>1. Drains'
  BY DrainsAreLeft DEF DrainInv
<1>2. TearsDownOnce'
  BY TearDownIsLeft DEF DrainInv
<1> QED BY <1>1, <1>2 DEF DrainInv, OffloadedIsNotDrained

LEMMA DrainInvTaken ==
    ASSUME TypeOK, DrainInv, NEW w, Take(w), w \notin TearDownSignals,
           w \notin DrainWhat \/ ~Current(Head(inbox)),
           UNCHANGED <<timers, mDrainPending, mGeneration, tearDownTold, player, mOffload, mTornDown>>
    PROVE  DrainInv'
<1>1. Drains'
  BY OtherTakenStep DEF DrainInv
<1>2. TearsDownOnce'
  BY OtherTakenTears DEF DrainInv
<1> QED BY <1>1, <1>2 DEF DrainInv, OffloadedIsNotDrained

LEMMA DrainInvPosted ==
    ASSUME TypeOK, DrainInv, NEW m \in Message, m.what \notin DrainWhat \cup TearDownSignals,
           inbox' = Append(inbox, m),
           UNCHANGED <<timers, mDrainPending, mGeneration, tearDownTold, player, mOffload, mTornDown>>
    PROVE  DrainInv'
<1>1. Drains'
  BY OtherPostedStep DEF DrainInv
<1>2. TearsDownOnce'
  BY OtherPostedTears DEF DrainInv
<1> QED BY <1>1, <1>2 DEF DrainInv, OffloadedIsNotDrained

LEMMA DrainInvSignalled ==
    ASSUME TypeOK, DrainInv, NEW w \in SignalWhat, w \notin TearDownSignals,
           inbox' = Append(inbox, Signal(w)),
           UNCHANGED <<timers, mDrainPending, mGeneration, tearDownTold, player, mOffload, mTornDown>>
    PROVE  DrainInv'
<1>1. Signal(w) \in Message /\ Signal(w).what = w /\ w \notin DrainWhat
  BY MessageTypes DEF Signal, Msg, SignalWhat, DrainWhat
<1> QED BY <1>1, DrainInvPosted

\* An offloaded stream asks for no drains.
LEMMA OffloadedPostsNone ==
    ASSUME UNCHANGED mOffload, NEW S, NEW q, NEW pend, NEW paused, NEW received, NEW eos,
           PostDrains(S, q, pend, paused, received, eos), mOffload => ~pend["audio"]
    PROVE  OffloadedIsNotDrained'
<1> DEFINE due == {s \in S : ~pend[s] /\ DrainWanted(s, q, paused, received, eos)}
<1>1. mDrainPending' = [s \in Streams |-> pend[s] \/ s \in due]
  BY Zenon DEF PostDrains
<1>2. mOffload => "audio" \notin due
  BY DEF DrainWanted
<1> HIDE DEF due
<1> QED BY <1>1, <1>2 DEF OffloadedIsNotDrained, Streams

LEMMA DrainInvPosts ==
    ASSUME TypeOK, DrainInv, NEW w, Take(w), w \notin DrainWhat \cup TearDownSignals,
           UNCHANGED <<mGeneration, tearDownTold, player, mOffload, mTornDown>>,
           NEW S \in SUBSET Streams, NEW q, NEW paused, NEW received, NEW eos,
           PostDrains(S, q, mDrainPending, paused, received, eos)
    PROVE  DrainInv'
<1>1. Drains'
  BY PostDrainsStep DEF DrainInv
<1>2. TearsDownOnce'
  BY OtherTakenTears DEF DrainInv
<1>3. OffloadedIsNotDrained'
  BY OffloadedPostsNone DEF DrainInv, OffloadedIsNotDrained
<1> QED BY <1>1, <1>2, <1>3 DEF DrainInv

LEMMA DrainInvDrained ==
    ASSUME TypeOK, DrainInv, NEW w \in DrainWhat, Take(w), Current(Head(inbox)),
           NEW s \in Streams, s = IF w = "DrainAudioQueue" THEN "audio" ELSE "video",
           UNCHANGED <<timers, mGeneration, tearDownTold, player, mOffload, mTornDown>>,
           mDrainPending' = [mDrainPending EXCEPT ![s] = FALSE]
    PROVE  DrainInv'
<1>1. Drains'
  BY DrainedStep DEF DrainInv
<1>2. TearsDownOnce'
  BY OtherTakenTears, TearDownSignalsAre DEF DrainInv
<1>3. OffloadedIsNotDrained'
  <2>1. mDrainPending \in [Streams -> BOOLEAN] /\ "audio" \in Streams
    BY DEF TypeOK, RendererTypeOK, Streams
  <2> QED BY <2>1 DEF DrainInv, OffloadedIsNotDrained
<1> QED BY <1>1, <1>2, <1>3 DEF DrainInv

LEMMA DrainInvDrainedOn ==
    ASSUME TypeOK, DrainInv, NEW w \in DrainWhat, Take(w), Current(Head(inbox)),
           NEW s \in Streams, s = IF w = "DrainAudioQueue" THEN "audio" ELSE "video",
           UNCHANGED <<mGeneration, tearDownTold, player, mOffload, mTornDown>>,
           NEW q, NEW paused, NEW received, NEW eos,
           PostDrains({s}, q, [mDrainPending EXCEPT ![s] = FALSE], paused, received, eos)
    PROVE  DrainInv'
<1> DEFINE pend == [mDrainPending EXCEPT ![s] = FALSE]
<1>1. Drains'
  BY DrainedOnStep DEF DrainInv
<1>2. TearsDownOnce'
  BY OtherTakenTears, TearDownSignalsAre DEF DrainInv
<1>3. mOffload => ~pend["audio"]
  <2>1. mDrainPending \in [Streams -> BOOLEAN] /\ "audio" \in Streams
    BY DEF TypeOK, RendererTypeOK, Streams
  <2> QED BY <2>1 DEF DrainInv, OffloadedIsNotDrained
<1>4. PostDrains({s}, q, pend, paused, received, eos)
  OBVIOUS
<1> HIDE DEF pend
<1>5. OffloadedIsNotDrained'
  BY <1>3, <1>4, OffloadedPostsNone
<1> QED BY <1>1, <1>2, <1>5 DEF DrainInv

LEMMA TimerDueKeepsDrains ==
    ASSUME TypeOK, DrainInv, TimerDue
    PROVE  DrainInv'
<1>1. Drains'
  BY TimerDueStep DEF DrainInv
<1>2. UNCHANGED <<tearDownTold, player, mOffload, mTornDown, mDrainPending>>
  BY DEF TimerDue, rendererVars, playerVars
<1>3. PICK m \in timers : inbox' = Append(inbox, m)
  BY DEF TimerDue
<1>4. m \in Message /\ m.what \notin TearDownSignals
  BY <1>3, MessageTypes, MessageFields, TearDownSignalsAre DEF TypeOK, LooperTypeOK
<1>5. TearsDownOnce'
  BY <1>2, <1>3, <1>4, OtherPostedTears DEF DrainInv
<1> QED BY <1>1, <1>2, <1>5 DEF DrainInv, OffloadedIsNotDrained

LEMMA QueueAndCompareKeepsDrains ==
    ASSUME TypeOK, DrainInv, QueueAndCompare
    PROVE  DrainInv'
<1>1. /\ Take("QueueBuffer")
      /\ UNCHANGED <<mGeneration, mOffload, mTornDown, playerVars>>
      /\ \/ UNCHANGED <<mDrainPending, timers>>
         \/ PostDrains(Streams, Queued(Head(inbox)), mDrainPending, mPaused, mVideoSampleReceived, mAudioEOS)
  BY QueueAndCompareDoes, Zenon
<1>2. UNCHANGED <<tearDownTold, player>> /\ "QueueBuffer" \notin DrainWhat \cup TearDownSignals
  BY <1>1 DEF playerVars, DrainWhat, TearDownSignals
<1>3. CASE UNCHANGED <<mDrainPending, timers>>
  BY <1>1, <1>2, <1>3, DrainInvTaken
<1>4. CASE PostDrains(Streams, Queued(Head(inbox)), mDrainPending, mPaused, mVideoSampleReceived, mAudioEOS)
  BY <1>1, <1>2, <1>4, DrainInvPosts
<1> QED BY <1>1, <1>3, <1>4

LEMMA QueuesKeepDrains ==
    ASSUME TypeOK, DrainInv, QueueAndDrain \/ QueueEOS
    PROVE  DrainInv'
<1>1. CASE QueueAndDrain
  <2>1. /\ Take("QueueBuffer") /\ UNCHANGED <<mGeneration, tearDownTold, player, mOffload, mTornDown>>
        /\ PostDrains(Streams, Queued(Head(inbox)), mDrainPending, mPaused, mVideoSampleReceived, mAudioEOS)
    BY <1>1 DEF QueueAndDrain, playerVars
  <2>2. "QueueBuffer" \notin DrainWhat \cup TearDownSignals
    BY DEF DrainWhat, TearDownSignals
  <2> QED BY <2>1, <2>2, DrainInvPosts
<1>2. CASE QueueEOS
  <2>1. /\ Take("QueueEOS") /\ UNCHANGED <<mGeneration, tearDownTold, player, mOffload, mTornDown>>
        /\ PostDrains({Head(inbox).stream}, Queued(Head(inbox)), mDrainPending, mPaused,
                      mVideoSampleReceived, mAudioEOS)
    BY <1>2 DEF QueueEOS, playerVars
  <2>2. "QueueEOS" \notin DrainWhat \cup TearDownSignals
    BY DEF DrainWhat, TearDownSignals
  <2>3. {Head(inbox).stream} \in SUBSET Streams
    BY <2>1, TakeType, MessageFields
  <2> QED BY <2>1, <2>2, <2>3, DrainInvPosts
<1> QED BY <1>1, <1>2

LEMMA DrainsKeepDrains ==
    ASSUME TypeOK, DrainInv,
           \/ DrainObsolete \/ DrainAudioBuffers \/ DrainAudioEOS \/ DrainAudioClosed
           \/ DrainVideo \/ PostDrainVideo
    PROVE  DrainInv'
<1> USE DEF rendererVars, playerVars
<1>0. /\ {"DrainAudioQueue", "DrainVideoQueue", "PostDrainVideoQueue"} \subseteq DrainWhat
      /\ "audio" \in Streams /\ "video" \in Streams
  BY DEF DrainWhat, Streams
<1>1. CASE DrainObsolete
  <2>1. PICK w \in DrainWhat :
           /\ Take(w) /\ ~Current(Head(inbox))
           /\ UNCHANGED <<timers, mDrainPending, mGeneration, tearDownTold, player, mOffload, mTornDown>>
    BY <1>1 DEF DrainObsolete
  <2> QED BY <2>1, DrainInvTaken, TearDownSignalsAre
<1>2. CASE DrainAudioBuffers
  <2>1. /\ Take("DrainAudioQueue") /\ Current(Head(inbox))
        /\ PostDrains({"audio"}, queue', [mDrainPending EXCEPT !["audio"] = FALSE], mPaused,
                      mVideoSampleReceived, mAudioEOS)
        /\ UNCHANGED <<mGeneration, tearDownTold, player, mOffload, mTornDown>>
    BY <1>2 DEF DrainAudioBuffers
  <2> QED BY <1>0, <2>1, DrainInvDrainedOn
<1>3. CASE DrainAudioEOS \/ DrainAudioClosed
  <2>1. /\ Take("DrainAudioQueue") /\ Current(Head(inbox))
        /\ mDrainPending' = [mDrainPending EXCEPT !["audio"] = FALSE]
        /\ UNCHANGED <<timers, mGeneration, tearDownTold, player, mOffload, mTornDown>>
    BY <1>3 DEF DrainAudioEOS, DrainAudioClosed
  <2> QED BY <1>0, <2>1, DrainInvDrained
<1>4. CASE DrainVideo
  <2>1. /\ Take("DrainVideoQueue") /\ Current(Head(inbox))
        /\ PostDrains({"video"}, queue', [mDrainPending EXCEPT !["video"] = FALSE], mPaused,
                      mVideoSampleReceived', mAudioEOS)
        /\ UNCHANGED <<mGeneration, tearDownTold, player, mOffload, mTornDown>>
    BY <1>4, DrainVideoDoes
  <2> QED BY <1>0, <2>1, DrainInvDrainedOn
<1>5. CASE PostDrainVideo
  <2>1. /\ Take("PostDrainVideoQueue") /\ Current(Head(inbox))
        /\ PostDrains({"video"}, queue, [mDrainPending EXCEPT !["video"] = FALSE], mPaused,
                      mVideoSampleReceived, mAudioEOS)
        /\ UNCHANGED <<mGeneration, tearDownTold, player, mOffload, mTornDown>>
    BY <1>5 DEF PostDrainVideo
  <2> QED BY <1>0, <2>1, DrainInvDrainedOn
<1> QED BY <1>1, <1>2, <1>3, <1>4, <1>5

LEMMA FlushKeepsDrains ==
    ASSUME TypeOK, DrainInv, Flush
    PROVE  DrainInv'
<1> DEFINE s == Head(inbox).stream
<1>1. /\ Take("Flush") /\ ForgetObsolete
      /\ mGeneration' = [mGeneration EXCEPT ![s] = @ + 1]
      /\ mDrainPending' = [mDrainPending EXCEPT ![s] = FALSE]
      /\ UNCHANGED <<mOffload, mTornDown, player, tearDownTold>>
  BY Zenon DEF Flush
<1>2. s \in Streams
  BY <1>1, TakeType, MessageFields
<1> HIDE DEF s
<1>3. mGeneration \in [Streams -> Nat] /\ mDrainPending \in [Streams -> BOOLEAN] /\ "audio" \in Streams
  BY DEF TypeOK, RendererTypeOK, Streams
<1>4. /\ mGeneration' \in [Streams -> Nat]
      /\ \A t \in Streams : mGeneration'[t] = IF t \in {s} THEN mGeneration[t] + 1 ELSE mGeneration[t]
  BY <1>1, <1>2, <1>3
<1>5. \A t \in Streams : mDrainPending'[t] <=> (mDrainPending[t] /\ t \notin {s})
  BY <1>1, <1>2, <1>3
<1>6. "Flush" \notin DrainWhat \cup TearDownSignals
  BY DEF DrainWhat, TearDownSignals
<1>7. {s} \in SUBSET Streams
  BY <1>2
<1>8. Drains'
  BY <1>1, <1>4, <1>5, <1>6, <1>7, NewGenerationStep DEF DrainInv
<1>9. TearsDownOnce'
  BY <1>1, <1>6, OtherTakenTears DEF DrainInv
<1> QED BY <1>1, <1>3, <1>5, <1>8, <1>9 DEF DrainInv, OffloadedIsNotDrained

LEMMA PauseKeepsDrains ==
    ASSUME TypeOK, DrainInv, Pause
    PROVE  DrainInv'
<1>1. /\ Take("Pause") /\ ForgetObsolete
      /\ UNCHANGED <<mOffload, mTornDown, player, tearDownTold>>
  BY DEF Pause, playerVars
<1> DEFINE S == IF mPaused THEN {} ELSE Streams
<1>3. mGeneration \in [Streams -> Nat] /\ mDrainPending \in [Streams -> BOOLEAN] /\ "audio" \in Streams
  BY DEF TypeOK, RendererTypeOK, Streams
<1>4. /\ mGeneration' \in [Streams -> Nat]
      /\ \A t \in Streams : mGeneration'[t] = IF t \in S THEN mGeneration[t] + 1 ELSE mGeneration[t]
      /\ \A t \in Streams : mDrainPending'[t] <=> (mDrainPending[t] /\ t \notin S)
  <2>1. CASE mPaused
    BY <1>3, <2>1 DEF Pause
  <2>2. CASE ~mPaused
    <3>1. /\ mGeneration' = [s \in Streams |-> mGeneration[s] + 1]
          /\ mDrainPending' = [s \in Streams |-> FALSE]
      BY <2>2 DEF Pause
    <3>2. S = Streams
      BY <2>2
    <3> QED BY <1>3, <3>1, <3>2
  <2> QED BY <2>1, <2>2
<1>6. "Pause" \notin DrainWhat \cup TearDownSignals
  BY DEF DrainWhat, TearDownSignals
<1>7. S \in SUBSET Streams
  OBVIOUS
<1> HIDE DEF S
<1>8. Drains'
  BY <1>1, <1>4, <1>6, <1>7, NewGenerationStep DEF DrainInv
<1>9. TearsDownOnce'
  BY <1>1, <1>6, OtherTakenTears DEF DrainInv
<1> QED BY <1>1, <1>3, <1>4, <1>8, <1>9 DEF DrainInv, OffloadedIsNotDrained

LEMMA ResumeKeepsDrains ==
    ASSUME TypeOK, DrainInv, Resume
    PROVE  DrainInv'
<1>1. /\ Take("Resume") /\ UNCHANGED <<mGeneration, mOffload, mTornDown, player, tearDownTold>>
      /\ \/ PostDrains(Streams, queue, mDrainPending, FALSE, mVideoSampleReceived, mAudioEOS)
         \/ UNCHANGED <<mDrainPending, timers>>
  BY DEF Resume, playerVars
<1>2. "Resume" \notin DrainWhat \cup TearDownSignals
  BY DEF DrainWhat, TearDownSignals
<1>3. CASE UNCHANGED <<mDrainPending, timers>>
  BY <1>1, <1>2, <1>3, DrainInvTaken
<1>4. CASE PostDrains(Streams, queue, mDrainPending, FALSE, mVideoSampleReceived, mAudioEOS)
  BY <1>1, <1>2, <1>4, DrainInvPosts
<1> QED BY <1>1, <1>3, <1>4

LEMMA SinkMessagesKeepDrains ==
    ASSUME TypeOK, DrainInv,
           OpenAudioSink \/ CloseAudioSink \/ StopAudioSink \/ AudioOffloadTearDown
    PROVE  DrainInv'
<1> USE DEF rendererVars, playerVars
<1>1. CASE OpenAudioSink \/ StopAudioSink
  <2>1. PICK w \in {"OpenAudioSink", "StopAudioSink"} :
           /\ Take(w)
           /\ UNCHANGED <<timers, mDrainPending, mGeneration, tearDownTold, player, mOffload, mTornDown>>
    BY <1>1 DEF OpenAudioSink, StopAudioSink
  <2>2. w \notin DrainWhat \cup TearDownSignals
    BY DEF DrainWhat, TearDownSignals
  <2> QED BY <2>1, <2>2, DrainInvTaken
<1>2. CASE CloseAudioSink
  <2>1. Take("CloseAudioSink") /\ UNCHANGED <<timers, mDrainPending, mGeneration, mOffload>>
    BY <1>2 DEF CloseAudioSink
  <2>2. Drains'
    BY <2>1, OtherTakenStep DEF DrainInv, DrainWhat
  <2> QED BY <1>2, <2>1, <2>2, CloseAudioSinkTears DEF DrainInv, OffloadedIsNotDrained
<1>3. CASE AudioOffloadTearDown
  <2>1. Take("AudioOffloadTearDown") /\ UNCHANGED <<timers, mDrainPending, mGeneration, mOffload>>
    BY <1>3 DEF AudioOffloadTearDown
  <2>2. Drains'
    BY <2>1, OtherTakenStep DEF DrainInv, DrainWhat
  <2> QED BY <1>3, <2>1, <2>2, AudioOffloadTearDownTears DEF DrainInv, OffloadedIsNotDrained
<1> QED BY <1>1, <1>2, <1>3

LEMMA DisableOffloadAudioKeepsDrains ==
    ASSUME TypeOK, DrainInv, DisableOffloadAudio
    PROVE  DrainInv'
<1>1. /\ Take("DisableOffloadAudio") /\ mOffload' = FALSE /\ ForgetObsolete
      /\ mGeneration' = [mGeneration EXCEPT !["audio"] = @ + 1]
      /\ UNCHANGED mDrainPending
  BY DEF DisableOffloadAudio
<1>2. TearsDownOnce' /\ mOffload
  BY DisableOffloadAudioTears DEF DrainInv
<1>3. mGeneration \in [Streams -> Nat] /\ {"audio"} \in SUBSET Streams /\ "audio" \in Streams
  BY DEF TypeOK, RendererTypeOK, Streams
<1>4. /\ mGeneration' \in [Streams -> Nat]
      /\ \A t \in Streams : mGeneration'[t] = IF t \in {"audio"} THEN mGeneration[t] + 1 ELSE mGeneration[t]
  BY <1>1, <1>3
<1>5. \A t \in Streams : mDrainPending'[t] <=> (mDrainPending[t] /\ t \notin {"audio"})
  BY <1>1, <1>2 DEF DrainInv, OffloadedIsNotDrained
<1>6. "DisableOffloadAudio" \notin DrainWhat
  BY DEF DrainWhat
<1>7. Drains'
  BY <1>1, <1>3, <1>4, <1>5, <1>6, NewGenerationStep DEF DrainInv
<1> QED BY <1>1, <1>2, <1>7 DEF DrainInv, OffloadedIsNotDrained

LEMMA FillAudioBufferKeepsDrains ==
    ASSUME TypeOK, DrainInv, FillAudioBuffer
    PROVE  DrainInv'
<1>1. /\ UNCHANGED <<timers, mDrainPending, mGeneration, tearDownTold, player, mOffload, mTornDown>>
      /\ inbox' = inbox \/ inbox' = Append(inbox, Signal("StopAudioSink"))
  BY FillAudioBufferDoes DEF playerVars
<1>2. "StopAudioSink" \in SignalWhat /\ "StopAudioSink" \notin TearDownSignals
  BY DEF SignalWhat, TearDownSignals
<1> QED BY <1>1, <1>2, DrainInvLeft, DrainInvSignalled

LEMMA PostsKeepDrains ==
    ASSUME TypeOK, DrainInv, SinkLost \/ TearDownBegins
    PROVE  DrainInv'
<1>1. PICK w \in {"AudioOffloadTearDown", "CloseAudioSink"} :
         /\ inbox' = Append(inbox, Signal(w))
         /\ UNCHANGED <<timers, mDrainPending, mGeneration, mOffload>>
  BY DEF SinkLost, TearDownBegins, rendererVars
<1>2. Signal(w) \in Message /\ Signal(w).what \notin DrainWhat
  BY MessageTypes DEF SignalWhat, DrainWhat, Signal, Msg
<1>3. Drains'
  BY <1>1, <1>2, OtherPostedStep DEF DrainInv
<1>4. TearsDownOnce'
  BY SinkLostTears, TearDownBeginsTears DEF DrainInv
<1> QED BY <1>1, <1>3, <1>4 DEF DrainInv, OffloadedIsNotDrained

LEMMA TearDownEndsKeepsDrains ==
    ASSUME TypeOK, DrainInv, TearDownEnds
    PROVE  DrainInv'
<1> DEFINE flushes == FlushMsgs(mHas)
           last == <<Signal("DisableOffloadAudio")>>
           more == flushes \o last
<1>1. /\ inbox' = inbox \o flushes \o last
      /\ UNCHANGED <<timers, mDrainPending, mGeneration, mOffload>>
  BY DEF TearDownEnds
<1>2. /\ flushes \in Seq(Message) /\ last \in Seq(Message)
      /\ \A i \in DOMAIN flushes : flushes[i].what \notin DrainWhat
      /\ \A i \in DOMAIN last : last[i].what \notin DrainWhat
  <2>1. Signal("DisableOffloadAudio") \in Message /\ Signal("DisableOffloadAudio").what \notin DrainWhat
    BY MessageTypes DEF SignalWhat, DrainWhat, Signal, Msg
  <2>2. \A i \in DOMAIN flushes : flushes[i].what = "Flush"
    BY FlushMsgsAre DEF Msg
  <2>3. flushes \in Seq(Message)
    BY FlushMsgsType
  <2> HIDE DEF flushes
  <2> QED BY <2>1, <2>2, <2>3 DEF DrainWhat
<1> HIDE DEF flushes, last
<1>3. more \in Seq(Message) /\ \A i \in DOMAIN more : more[i].what \notin DrainWhat
  <2>1. \A i \in DOMAIN more :
           \/ i \in DOMAIN flushes /\ more[i] = flushes[i]
           \/ i - Len(flushes) \in DOMAIN last /\ more[i] = last[i - Len(flushes)]
    BY <1>2
  <2>2. more \in Seq(Message)
    BY <1>2
  <2> QED BY <1>2, <2>1, <2>2
<1>4. inbox' = inbox \o more
  BY <1>1, <1>2 DEF TypeOK, LooperTypeOK
<1> HIDE DEF more
<1>5. Drains'
  BY <1>1, <1>3, <1>4, OthersPostedStep DEF DrainInv
<1>6. TearsDownOnce'
  BY TearDownEndsTears DEF DrainInv
<1> QED BY <1>1, <1>5, <1>6 DEF DrainInv, OffloadedIsNotDrained

LEMMA DecodersKeepDrains ==
    ASSUME TypeOK, DrainInv,
           \/ \E s \in Streams : OutputBuffer(s) \/ FlushDecoder(s)
           \/ PassThroughEOS \/ FormatChanged
    PROVE  DrainInv'
<1> USE DEF rendererVars
<1>1. UNCHANGED <<timers, mDrainPending, mGeneration, tearDownTold, player, mOffload, mTornDown>>
  BY DEF OutputBuffer, FlushDecoder, PassThroughEOS, FormatChanged
<1>2. \E more \in Seq(Message) :
         inbox' = inbox \o more /\ \A i \in DOMAIN more : more[i].what \notin DrainWhat \cup TearDownSignals
  <2> DEFINE Others == {m \in Message : m.what \notin DrainWhat \cup TearDownSignals}
  <2>0. inbox \in Seq(Message) /\ decoder \in [Streams -> DecoderState] /\ "audio" \in Streams
    BY DEF TypeOK, LooperTypeOK, DecoderTypeOK, Streams
  <2>1. ASSUME NEW w \in DataWhat, NEW s \in Streams, NEW b \in Buffers \cup {EOS}, NEW g \in Nat
        PROVE  Msg(w, s, b, g) \in Others
    BY MessageTypes DEF DataWhat, DrainWhat, TearDownSignals, Msg
  <2> HIDE DEF Others
  <2>2. \E more \in Seq(Others) : inbox' = inbox \o more
    <3>1. ASSUME NEW s \in Streams, OutputBuffer(s)
          PROVE  \E more \in Seq(Others) : inbox' = inbox \o more
      <4>1. PICK b \in decoder[s].codec :
               \/ inbox' = Append(inbox, QueueBufferMsg(s, b))
               \/ inbox' = inbox \o <<QueueBufferMsg(s, b), QueueEOSMsg(s)>>
        BY <3>1, Zenon DEF OutputBuffer
      <4>2. b \in Buffers /\ decoder[s].gen \in Nat
        BY <2>0 DEF DecoderState
      <4> DEFINE m == QueueBufferMsg(s, b)
                 e == QueueEOSMsg(s)
      <4>3. m \in Others /\ e \in Others
        BY <2>1, <4>2 DEF QueueBufferMsg, QueueEOSMsg, DataWhat
      <4>4. inbox' = Append(inbox, m) \/ inbox' = inbox \o <<m, e>>
        BY <4>1
      <4> HIDE DEF m, e
      <4>5. <<m>> \in Seq(Others) /\ <<m, e>> \in Seq(Others) /\ Append(inbox, m) = inbox \o <<m>>
        BY <2>0, <4>3
      <4> QED BY <4>4, <4>5
    <3>2. ASSUME NEW s \in Streams, FlushDecoder(s)
          PROVE  \E more \in Seq(Others) : inbox' = inbox \o more
      <4>1. inbox' = inbox \o FlushMsgs({s})
        BY <3>2 DEF FlushDecoder
      <4>2. \A i \in DOMAIN FlushMsgs({s}) : FlushMsgs({s})[i] \in Others
        BY <2>1, FlushMsgsAre DEF DataWhat
      <4>3. FlushMsgs({s}) \in Seq(Message)
        BY FlushMsgsType
      <4>4. FlushMsgs({s}) \in Seq(Others)
        BY <4>2, <4>3, SeqOf
      <4> QED BY <4>1, <4>4
    <3>3. ASSUME PassThroughEOS \/ FormatChanged
          PROVE  \E more \in Seq(Others) : inbox' = inbox \o more
      <4>1. decoder["audio"].gen \in Nat /\ decoder["audio"].format + 1 \in Nat
        BY <2>0 DEF DecoderState
      <4>2. /\ QueueEOSMsg("audio") \in Others
            /\ Msg("OpenAudioSink", "audio", EOS, decoder["audio"].format + 1) \in Others
        BY <2>0, <2>1, <4>1 DEF QueueEOSMsg, DataWhat
      <4>3. PICK m \in Others : inbox' = Append(inbox, m)
        BY <3>3, <4>2, Zenon DEF PassThroughEOS, FormatChanged
      <4>4. <<m>> \in Seq(Others) /\ Append(inbox, m) = inbox \o <<m>>
        BY <2>0
      <4> QED BY <4>3, <4>4
    <3> QED BY <3>1, <3>2, <3>3
  <2>3. PICK more \in Seq(Others) : inbox' = inbox \o more
    BY <2>2
  <2>4. Others \subseteq Message /\ \A m \in Others : m.what \notin DrainWhat \cup TearDownSignals
    BY DEF Others
  <2>5. more \in Seq(Message) /\ \A i \in DOMAIN more : more[i] \in Others
    BY <2>4
  <2> QED BY <2>3, <2>4, <2>5
<1>3. Drains'
  BY <1>1, <1>2, OthersPostedStep DEF DrainInv
<1>4. TearsDownOnce'
  BY <1>1, <1>2, OthersPostedTears DEF DrainInv
<1> QED BY <1>1, <1>3, <1>4 DEF DrainInv, OffloadedIsNotDrained

LEMMA DrainStep ==
    ASSUME TypeOK, DrainInv, [Next]_vars
    PROVE  DrainInv'
<1> USE DEF rendererVars, playerVars
<1>1. CASE RendererNext
  <2>1. CASE \/ \E w \in {"QueueBuffer", "QueueEOS"} : DropWhileFlushing(w)
             \/ QueueAndWait
    <3>1. PICK w \in {"QueueBuffer", "QueueEOS"} :
             /\ Take(w)
             /\ UNCHANGED <<timers, mDrainPending, mGeneration, tearDownTold, player, mOffload, mTornDown>>
      BY <2>1 DEF DropWhileFlushing, QueueAndWait
    <3>2. w \notin DrainWhat \cup TearDownSignals
      BY DEF DrainWhat, TearDownSignals
    <3> QED BY <3>1, <3>2, DrainInvTaken
  <2> QED BY <1>1, <2>1, TimerDueKeepsDrains, QueueAndCompareKeepsDrains, QueuesKeepDrains,
       DrainsKeepDrains, FlushKeepsDrains, PauseKeepsDrains, ResumeKeepsDrains,
       SinkMessagesKeepDrains, DisableOffloadAudioKeepsDrains
       DEF RendererNext
<1>2. CASE SinkNext
  <2>1. CASE StreamEnd
    BY <2>1, DrainInvLeft DEF StreamEnd
  <2> QED BY <1>2, <2>1, FillAudioBufferKeepsDrains, PostsKeepDrains DEF SinkNext
<1>3. CASE DecoderNext
  <2>1. ASSUME NEW s \in Streams, RenderBuffer(s)
        PROVE  DrainInv'
    BY <2>1, DrainInvLeft DEF RenderBuffer
  <2> QED BY <1>3, <2>1, DecodersKeepDrains DEF DecoderNext
<1>4. CASE PlayerNext
  <2>1. CASE ClientPauses \/ ClientResumes
    <3>1. PICK w \in {"Pause", "Resume"} :
             /\ inbox' = Append(inbox, Signal(w))
             /\ UNCHANGED <<timers, mDrainPending, mGeneration, tearDownTold, player, mOffload, mTornDown>>
      BY <2>1 DEF ClientPauses, ClientResumes
    <3>2. w \in SignalWhat /\ w \notin TearDownSignals
      BY DEF SignalWhat, TearDownSignals
    <3> QED BY <3>1, <3>2, DrainInvSignalled
  <2>2. CASE Seek \/ SeekDone
    BY <2>2, DrainInvLeft DEF Seek, SeekDone
  <2> QED BY <1>4, <2>1, <2>2, PostsKeepDrains, TearDownEndsKeepsDrains DEF PlayerNext
<1>5. CASE UNCHANGED vars
  BY <1>5, DrainInvLeft DEF vars
<1> QED BY <1>1, <1>2, <1>3, <1>4, <1>5 DEF Next

LEMMA DrainsAtFirst ==
    ASSUME Init
    PROVE  DrainInv
<1>1. /\ inbox = <<>> /\ timers = {} /\ mDrainPending = [s \in Streams |-> FALSE]
      /\ player = "idle" /\ tearDownTold = FALSE
  BY DEF Init
<1>2. <<>> \in Seq(Message) /\ \A i \in DOMAIN <<>> : FALSE
  OBVIOUS
<1>3. Drains
  <2>1. \A s \in Streams : OneOrNone(inbox, timers, s, FALSE)
    BY <1>1, <1>2, NoDrainIn
  <2>2. \A s \in Streams : mDrainPending[s] = FALSE
    BY <1>1
  <2> QED BY <1>1, <1>2, <2>1, <2>2 DEF Drains, DueNotAhead, DelayedIsCurrent
<1>4. ClosesDue = 0 /\ DisablesDue = 0 /\ LossesDue = 0
  BY <1>1, OccurrencesOne DEF ClosesDue, DisablesDue, LossesDue
<1>5. TearsDownOnce
  BY <1>1, <1>4 DEF TearsDownOnce
<1> QED BY <1>1, <1>3, <1>5 DEF DrainInv, OffloadedIsNotDrained, Streams

\* mDrainAudioQueuePending and mDrainVideoQueuePending are true exactly while one
\* drain message of the queue's generation is on its way, for every number of
\* buffers and any number of pauses, seeks and tear downs: no stream stops for a
\* flag that nothing will clear, none is drained twice as fast.
THEOREM DrainsArePosted == Spec => []PendingDrainIsPosted
<1>1. Init => TypeOK /\ DrainInv
  BY InitType, DrainsAtFirst
<1>2. TypeOK /\ DrainInv /\ [Next]_vars => (TypeOK /\ DrainInv)'
  BY TypeStep, DrainStep
<1>3. TypeOK /\ DrainInv => PendingDrainIsPosted
  BY DrainsAreCounted DEF DrainInv
<1> QED BY <1>1, <1>2, <1>3, PTL DEF Spec

-----------------------------------------------------------------------------
(* A paused renderer is still.                                              *)

\* What a paused renderer has under way: the first frame after a flush, at most.
PausedDrains ==
    mPaused => /\ ~mDrainPending["audio"]
               /\ mVideoSampleReceived => ~mDrainPending["video"]

LEMMA PausedPosts ==
    ASSUME NEW S, NEW q, NEW pend, NEW received, NEW eos, received <=> mVideoSampleReceived',
           PostDrains(S, q, pend, mPaused, received, eos), UNCHANGED mPaused,
           mPaused => ~pend["audio"] /\ (received => ~pend["video"])
    PROVE  PausedDrains'
<1> DEFINE due == {s \in S : ~pend[s] /\ DrainWanted(s, q, mPaused, received, eos)}
<1>1. mDrainPending' = [s \in Streams |-> pend[s] \/ s \in due]
  BY Zenon DEF PostDrains
<1>2. mPaused => "audio" \notin due /\ (received => "video" \notin due)
  BY DEF DrainWanted
<1> HIDE DEF due
<1> QED BY <1>1, <1>2 DEF PausedDrains, Streams

LEMMA PausedLeft ==
    ASSUME PausedDrains, UNCHANGED <<mPaused, mDrainPending, mVideoSampleReceived>>
    PROVE  PausedDrains'
  BY DEF PausedDrains

LEMMA PausedRendererStep ==
    ASSUME TypeOK, PausedDrains, RendererNext
    PROVE  PausedDrains'
<1> USE DEF rendererVars
<1>0. mDrainPending \in [Streams -> BOOLEAN] /\ "audio" \in Streams /\ "video" \in Streams
  BY DEF TypeOK, RendererTypeOK, Streams
<1>00. mPaused => ~mDrainPending["audio"] /\ (mVideoSampleReceived => ~mDrainPending["video"])
  BY DEF PausedDrains
<1>1. CASE \/ TimerDue \/ \E w \in {"QueueBuffer", "QueueEOS"} : DropWhileFlushing(w)
           \/ QueueAndWait \/ DrainObsolete \/ OpenAudioSink \/ CloseAudioSink \/ StopAudioSink
           \/ DisableOffloadAudio \/ AudioOffloadTearDown
  BY <1>1, PausedLeft DEF TimerDue, DropWhileFlushing, QueueAndWait, DrainObsolete, OpenAudioSink,
    CloseAudioSink, StopAudioSink, DisableOffloadAudio, AudioOffloadTearDown
<1>2. CASE QueueAndCompare
  <2>1. /\ UNCHANGED <<mPaused, mVideoSampleReceived>>
        /\ \/ UNCHANGED <<mDrainPending, timers>>
           \/ PostDrains(Streams, Queued(Head(inbox)), mDrainPending, mPaused, mVideoSampleReceived, mAudioEOS)
    BY <1>2, QueueAndCompareDoes, Zenon
  <2> QED BY <1>00, <2>1, PausedLeft, PausedPosts
<1>3. CASE QueueAndDrain \/ QueueEOS \/ PostDrainVideo
  <2>1. UNCHANGED <<mPaused, mVideoSampleReceived>>
    BY <1>3 DEF QueueAndDrain, QueueEOS, PostDrainVideo
  <2>2. CASE QueueAndDrain
    <3>1. PostDrains(Streams, Queued(Head(inbox)), mDrainPending, mPaused, mVideoSampleReceived, mAudioEOS)
      BY <2>2 DEF QueueAndDrain
    <3> QED BY <1>00, <2>1, <3>1, PausedPosts
  <2>3. CASE QueueEOS
    <3>1. PostDrains({Head(inbox).stream}, Queued(Head(inbox)), mDrainPending, mPaused,
                     mVideoSampleReceived, mAudioEOS)
      BY <2>3 DEF QueueEOS
    <3> QED BY <1>00, <2>1, <3>1, PausedPosts
  <2>4. CASE PostDrainVideo
    <3> DEFINE pend == [mDrainPending EXCEPT !["video"] = FALSE]
    <3>1. PostDrains({"video"}, queue, pend, mPaused, mVideoSampleReceived, mAudioEOS)
      BY <2>4 DEF PostDrainVideo
    <3>2. mPaused => ~pend["audio"] /\ ~pend["video"]
      BY <1>0 DEF PausedDrains
    <3> HIDE DEF pend
    <3> QED BY <2>1, <3>1, <3>2, PausedPosts
  <2> QED BY <1>3, <2>2, <2>3, <2>4
<1>4. CASE DrainAudioBuffers
  <2> DEFINE pend == [mDrainPending EXCEPT !["audio"] = FALSE]
  <2>1. /\ UNCHANGED <<mPaused, mVideoSampleReceived>>
        /\ PostDrains({"audio"}, queue', pend, mPaused, mVideoSampleReceived, mAudioEOS)
    BY <1>4 DEF DrainAudioBuffers
  <2>2. mPaused => ~pend["audio"] /\ (mVideoSampleReceived => ~pend["video"])
    BY <1>0 DEF PausedDrains
  <2> HIDE DEF pend
  <2> QED BY <2>1, <2>2, PausedPosts
<1>5. CASE DrainAudioEOS \/ DrainAudioClosed
  <2>1. /\ UNCHANGED <<mPaused, mVideoSampleReceived>>
        /\ mDrainPending' = [mDrainPending EXCEPT !["audio"] = FALSE]
    BY <1>5 DEF DrainAudioEOS, DrainAudioClosed
  <2> QED BY <1>0, <2>1 DEF PausedDrains
<1>6. CASE DrainVideo
  <2> DEFINE pend == [mDrainPending EXCEPT !["video"] = FALSE]
  <2>1. /\ UNCHANGED mPaused
        /\ PostDrains({"video"}, queue', pend, mPaused, mVideoSampleReceived', mAudioEOS)
    BY <1>6, DrainVideoDoes
  <2>2. mPaused => ~pend["audio"] /\ ~pend["video"]
    BY <1>0 DEF PausedDrains
  <2> HIDE DEF pend
  <2> QED BY <2>1, <2>2, PausedPosts
<1>7. CASE Flush
  <2>1. /\ UNCHANGED mPaused /\ mVideoSampleReceived' = FALSE
        /\ mDrainPending' = [mDrainPending EXCEPT ![Head(inbox).stream] = FALSE]
    BY <1>7, Zenon DEF Flush
  <2> QED BY <1>0, <2>1 DEF PausedDrains
<1>8. CASE Pause
  <2>1. CASE mPaused
    BY <1>8, <2>1, PausedLeft DEF Pause
  <2>2. CASE ~mPaused
    <3>1. mDrainPending' = [s \in Streams |-> FALSE]
      BY <1>8, <2>2 DEF Pause
    <3> QED BY <1>0, <3>1 DEF PausedDrains
  <2> QED BY <2>1, <2>2
<1>9. CASE Resume
  BY <1>9 DEF Resume, PausedDrains
<1> QED BY <1>1, <1>2, <1>3, <1>4, <1>5, <1>6, <1>7, <1>8, <1>9 DEF RendererNext

LEMMA PausedStep ==
    ASSUME TypeOK, PausedDrains, [Next]_vars
    PROVE  PausedDrains'
<1> USE DEF rendererVars
<1>1. CASE SinkNext
  BY <1>1, PausedLeft, FillAudioBufferDoes DEF SinkNext, StreamEnd, SinkLost
<1>2. CASE DecoderNext
  BY <1>2, PausedLeft DEF DecoderNext, OutputBuffer, RenderBuffer, FlushDecoder, PassThroughEOS, FormatChanged
<1>3. CASE PlayerNext
  BY <1>3, PausedLeft DEF PlayerNext, ClientPauses, ClientResumes, Seek, SeekDone, TearDownBegins,
    TearDownEnds
<1>4. CASE UNCHANGED vars
  BY <1>4, PausedLeft DEF vars
<1> QED BY <1>1, <1>2, <1>3, <1>4, PausedRendererStep DEF Next

LEMMA PausedDoesNothing ==
    ASSUME TypeOK, Drains, PausedDrains, mPaused
    PROVE  /\ ~DrainAudioBuffers /\ ~DrainAudioEOS /\ ~FillAudioBuffer
           /\ DrainVideo => ~mVideoSampleReceived
<1>1. /\ {"DrainAudioQueue", "DrainVideoQueue"} \subseteq DrainWhat
      /\ "audio" \in Streams /\ "video" \in Streams
  BY DEF DrainWhat, Streams
<1>2. ASSUME DrainAudioBuffers \/ DrainAudioEOS
      PROVE  FALSE
  <2>1. Take("DrainAudioQueue") /\ Current(Head(inbox))
    BY <1>2 DEF DrainAudioBuffers, DrainAudioEOS
  <2>2. mDrainPending["audio"]
    BY <1>1, <2>1, DrainIsTaken
  <2> QED BY <2>2 DEF PausedDrains
<1>3. ASSUME DrainVideo, mVideoSampleReceived
      PROVE  FALSE
  <2>1. Take("DrainVideoQueue") /\ Current(Head(inbox))
    BY <1>3, DrainVideoDoes
  <2>2. mDrainPending["video"]
    BY <1>1, <2>1, DrainIsTaken
  <2> QED BY <1>3, <2>2 DEF PausedDrains
<1>4. ~FillAudioBuffer
  BY DEF FillAudioBuffer
<1> QED BY <1>2, <1>3, <1>4

\* A paused renderer gives the sink nothing and shows one frame at most, the first
\* after a flush, whatever was on its way when onPause() ran.
THEOREM PauseStops == Spec => PausedIsStill
<1> DEFINE Inv == TypeOK /\ DrainInv /\ PausedDrains
<1>1. Init => Inv
  BY InitType, DrainsAtFirst DEF Init, PausedDrains
<1>2. Inv /\ [Next]_vars => Inv'
  BY TypeStep, DrainStep, PausedStep
<1>3. Inv => (mPaused => /\ ~DrainAudioBuffers /\ ~DrainAudioEOS /\ ~FillAudioBuffer
                         /\ DrainVideo => ~mVideoSampleReceived)
  BY PausedDoesNothing DEF DrainInv
<1> HIDE DEF Inv
<1> QED BY <1>1, <1>2, <1>3, PTL DEF Spec, PausedIsStill

-----------------------------------------------------------------------------
(* The output buffers are conserved.                                        *)

\* What a decoder has sent so far: nothing is of a generation it has yet to come to.
SentEntries(s) == {e \in Entry : e.gen <= decoder[s].gen}
QueueWhat      == {"QueueBuffer", "QueueEOS"}
SentMessages   == {m \in Message : /\ m.what \in QueueWhat => m.gen <= decoder[m.stream].gen
                                   /\ m.what = "QueueEOS" => m.buffer = EOS}
NothingIsAhead ==
    /\ inbox \in Seq(SentMessages)
    /\ \A s \in Streams : queue[s] \in Seq(SentEntries(s)) /\ replies[s] \in Seq(SentEntries(s))
BufferInv == NothingIsAhead /\ BuffersConserved

\* How often a buffer of the current generation is in an inbox, a queue and replies.
Total(in, q, r, s, b) ==
    Occurrences(in, QueueBufferMsg(s, b)) + Occurrences(q, EntryOf(s, b))
        + Occurrences(r, EntryOf(s, b))

LEMMA LargerSeq ==
    ASSUME NEW S, NEW T, S \subseteq T, NEW q \in Seq(S)
    PROVE  q \in Seq(T)
  OBVIOUS

LEMMA GenerationsAre ==
    ASSUME TypeOK
    PROVE  /\ \A s \in Streams : decoder[s].gen \in Nat /\ decoder[s].codec \subseteq Buffers
           /\ \A s \in Streams : \A b \in Buffers : EntryOf(s, b) \in BufferEntry
<1>1. decoder \in [Streams -> DecoderState]
  BY DEF TypeOK, DecoderTypeOK
<1>2. \A s \in Streams : decoder[s].gen \in Nat /\ decoder[s].codec \subseteq Buffers
  BY <1>1 DEF DecoderState
<1> QED BY <1>2 DEF EntryOf, BufferEntry

\* The decoders own what they owned, and every buffer is as often on its way.
LEMMA PassedOn ==
    ASSUME TypeOK, BufferInv, UNCHANGED mHas,
           \A s \in Streams : /\ decoder'[s].gen = decoder[s].gen
                              /\ decoder'[s].codec = decoder[s].codec,
           inbox' \in Seq(SentMessages),
           \A s \in Streams : queue'[s] \in Seq(SentEntries(s)) /\ replies'[s] \in Seq(SentEntries(s)),
           \A s \in Streams : \A b \in Buffers :
               Total(inbox', queue'[s], replies'[s], s, b) = Total(inbox, queue[s], replies[s], s, b)
    PROVE  BufferInv'
<1>0. mHas \subseteq Streams
  BY TracksAssumption DEF TypeOK
<1>1. Entry' = Entry /\ Message' = Message /\ \A s : BuffersOf(s)' = BuffersOf(s)
  BY SameBuffers
<1>2. SentMessages' = SentMessages /\ \A s \in Streams : SentEntries(s)' = SentEntries(s)
  <2>1. \A m \in Message : m.stream \in Streams
    BY MessageFields
  <2> QED BY <1>1, <2>1 DEF SentMessages, SentEntries
<1>3. NothingIsAhead'
  BY <1>2 DEF NothingIsAhead
<1>4. \A s \in mHas : \A b \in BuffersOf(s) :
         QueueBufferMsg(s, b)' = QueueBufferMsg(s, b) /\ EntryOf(s, b)' = EntryOf(s, b)
  BY <1>0 DEF QueueBufferMsg, EntryOf, Msg
<1>5. ASSUME NEW s \in mHas, NEW b \in BuffersOf(s)
      PROVE  Total(inbox', queue'[s], replies'[s], s, b) = IF b \in decoder'[s].codec THEN 0 ELSE 1
  <2>1. b \in Buffers /\ s \in Streams /\ decoder'[s].codec = decoder[s].codec
    BY <1>0, BuffersAre
  <2>2. Total(inbox, queue[s], replies[s], s, b) = IF b \in decoder[s].codec THEN 0 ELSE 1
    BY DEF BufferInv, BuffersConserved, Total
  <2> QED BY <2>1, <2>2
<1>6. BuffersConserved'
  BY <1>1, <1>4, <1>5 DEF BuffersConserved, Total
<1> QED BY <1>3, <1>6 DEF BufferInv

\* Sums of occurrences are sums of numbers.
LEMMA OccurrencesAre ==
    ASSUME TypeOK
    PROVE  \A s \in Streams : \A x : /\ Occurrences(inbox, x) \in Nat
                                     /\ Occurrences(queue[s], x) \in Nat
                                     /\ Occurrences(replies[s], x) \in Nat
<1>1. inbox \in Seq(Message) /\ queue \in [Streams -> Seq(Entry)] /\ replies \in [Streams -> Seq(BufferEntry)]
  BY DEF TypeOK, LooperTypeOK, RendererTypeOK, DecoderTypeOK
<1>2. \A s \in Streams : queue[s] \in Seq(Entry) /\ replies[s] \in Seq(BufferEntry)
  BY <1>1
<1> QED BY <1>1, <1>2, OccurrencesType

LEMMA MessageTaken ==
    ASSUME TypeOK, BufferInv, NEW w, Take(w)
    PROVE  /\ inbox' \in Seq(SentMessages) /\ Head(inbox) \in SentMessages
           /\ \A m : /\ Occurrences(inbox', m) \in Nat
                     /\ Occurrences(inbox, m) = Occurrences(inbox', m) + (IF Head(inbox) = m THEN 1 ELSE 0)
           /\ w # "QueueBuffer" =>
                \A s \in Streams : \A b \in Buffers :
                   Occurrences(inbox', QueueBufferMsg(s, b)) = Occurrences(inbox, QueueBufferMsg(s, b))
<1>1. inbox \in Seq(SentMessages) /\ inbox # <<>> /\ inbox' = Tail(inbox) /\ Head(inbox).what = w
  BY TakeType DEF BufferInv, NothingIsAhead
<1>2. /\ Tail(inbox) \in Seq(SentMessages) /\ Head(inbox) \in SentMessages
      /\ \A m : Occurrences(inbox, m) = Occurrences(Tail(inbox), m) + (IF Head(inbox) = m THEN 1 ELSE 0)
  BY <1>1, OccurrencesTail
<1>3. \A m : Occurrences(inbox', m) \in Nat
  BY <1>1, <1>2, OccurrencesType
<1>4. ASSUME w # "QueueBuffer", NEW s \in Streams, NEW b \in Buffers
      PROVE  Occurrences(inbox', QueueBufferMsg(s, b)) = Occurrences(inbox, QueueBufferMsg(s, b))
  <2>1. Head(inbox) # QueueBufferMsg(s, b)
    BY <1>1, <1>4 DEF QueueBufferMsg, Msg
  <2> QED BY <1>1, <1>2, <1>3, <2>1
<1> QED BY <1>1, <1>2, <1>3, <1>4

LEMMA OthersAreSent ==
    ASSUME NEW m \in Message, m.what \notin QueueWhat
    PROVE  m \in SentMessages
  BY DEF SentMessages, QueueWhat

LEMMA MessagesPosted ==
    ASSUME TypeOK, BufferInv, NEW more \in Seq(SentMessages), inbox' = inbox \o more,
           \A i \in DOMAIN more : more[i].what # "QueueBuffer"
    PROVE  /\ inbox' \in Seq(SentMessages)
           /\ \A s \in Streams : \A b \in Buffers :
                   Occurrences(inbox', QueueBufferMsg(s, b)) = Occurrences(inbox, QueueBufferMsg(s, b))
<1>1. inbox \in Seq(SentMessages)
  BY DEF BufferInv, NothingIsAhead
<1>2. inbox' \in Seq(SentMessages)
  BY <1>1
<1>3. ASSUME NEW s \in Streams, NEW b \in Buffers
      PROVE  Occurrences(inbox', QueueBufferMsg(s, b)) = Occurrences(inbox, QueueBufferMsg(s, b))
  <2> DEFINE m == QueueBufferMsg(s, b)
  <2>1. m.what = "QueueBuffer"
    BY DEF QueueBufferMsg, Msg
  <2> HIDE DEF m
  <2>2. Occurrences(more, m) = 0
    BY <2>1, OccurrencesType
  <2>3. Occurrences(inbox', m) = Occurrences(inbox, m) + Occurrences(more, m)
    BY <1>1, OccurrencesConcat
  <2>4. Occurrences(inbox, m) \in Nat
    BY <1>1, OccurrencesType
  <2> QED BY <2>2, <2>3, <2>4 DEF m
<1> QED BY <1>2, <1>3

LEMMA SameMessages ==
    ASSUME TypeOK, BufferInv, UNCHANGED inbox
    PROVE  /\ inbox' \in Seq(SentMessages)
           /\ \A s \in Streams : \A b \in Buffers :
                   Occurrences(inbox', QueueBufferMsg(s, b)) = Occurrences(inbox, QueueBufferMsg(s, b))
  BY DEF BufferInv, NothingIsAhead

LEMMA EntriesConsumed ==
    ASSUME TypeOK, BufferInv, NEW s \in Streams, NEW es \in Seq(SentEntries(s)), Consumed(s, es)
    PROVE  /\ \A t \in Streams : replies'[t] \in Seq(SentEntries(t))
           /\ \A t \in Streams : \A b \in Buffers :
                 Occurrences(replies'[t], EntryOf(t, b)) =
                    Occurrences(replies[t], EntryOf(t, b))
                      + (IF t = s THEN Occurrences(es, EntryOf(t, b)) ELSE 0)
<1>1. \A t \in Streams : replies[t] \in Seq(SentEntries(t))
  BY DEF BufferInv, NothingIsAhead
<1>2. replies \in [Streams -> Seq(BufferEntry)]
  BY DEF TypeOK, DecoderTypeOK
<1> DEFINE back == Kept(es, BufferEntry)
<1>3. back \in Seq(SentEntries(s) \cap BufferEntry)
  BY KeptType
<1>4. back \in Seq(SentEntries(s))
  <2> HIDE DEF back
  <2> QED BY <1>3, LargerSeq
<1>5. replies' = [replies EXCEPT ![s] = replies[s] \o back]
  BY DEF Consumed
<1>6. \A e \in BufferEntry : Occurrences(back, e) = Occurrences(es, e)
  BY KeptOccurrences
<1> HIDE DEF back
<1>7. replies[s] \o back \in Seq(SentEntries(s))
  BY <1>1, <1>4
<1>8. \A t \in Streams : replies'[t] = IF t = s THEN replies[s] \o back ELSE replies[t]
  BY <1>2, <1>5
<1>9. ASSUME NEW t \in Streams, NEW b \in Buffers
      PROVE  Occurrences(replies'[t], EntryOf(t, b)) =
                    Occurrences(replies[t], EntryOf(t, b))
                      + (IF t = s THEN Occurrences(es, EntryOf(t, b)) ELSE 0)
  <2> DEFINE e == EntryOf(t, b)
  <2>1. e \in BufferEntry /\ Occurrences(replies[t], e) \in Nat
    BY GenerationsAre, OccurrencesAre
  <2> HIDE DEF e
  <2>2. CASE t = s
    <3>1. Occurrences(replies[s] \o back, e) = Occurrences(replies[s], e) + Occurrences(back, e)
      BY <1>1, <1>4, OccurrencesConcat
    <3> QED BY <1>6, <1>8, <2>1, <2>2, <3>1 DEF e
  <2>3. CASE t # s
    BY <1>8, <2>1, <2>3 DEF e
  <2> QED BY <2>2, <2>3
<1> QED BY <1>1, <1>7, <1>8, <1>9

LEMMA EntryQueued ==
    ASSUME TypeOK, BufferInv, NEW m \in SentMessages, m.what \in QueueWhat
    PROVE  /\ \A s \in Streams : Queued(m)[s] \in Seq(SentEntries(s))
           /\ \A s \in Streams : \A b \in Buffers :
                 Occurrences(Queued(m)[s], EntryOf(s, b)) =
                    Occurrences(queue[s], EntryOf(s, b)) + (IF m = QueueBufferMsg(s, b) THEN 1 ELSE 0)
<1> DEFINE a == [buffer |-> m.buffer, gen |-> m.gen]
<1>1. m \in Message /\ m.stream \in Streams /\ m.gen <= decoder[m.stream].gen
  BY MessageFields DEF SentMessages, QueueWhat
<1>2. a \in SentEntries(m.stream)
  BY <1>1, QueuedType DEF SentEntries
<1>3. queue \in [Streams -> Seq(Entry)]
  BY DEF TypeOK, RendererTypeOK
<1>4. \A s \in Streams : Queued(m)[s] = IF s = m.stream THEN Append(queue[s], a) ELSE queue[s]
  BY <1>1, <1>3 DEF Queued
<1>5. \A s \in Streams : \A b \in Buffers :
         m = QueueBufferMsg(s, b) <=> (s = m.stream /\ a = EntryOf(s, b))
  <2>1. m = Msg(m.what, m.stream, m.buffer, m.gen)
    BY <1>1 DEF Message, Drain, Signal, Msg
  <2>2. CASE m.what = "QueueBuffer"
    BY <2>1, <2>2 DEF QueueBufferMsg, EntryOf, Msg
  <2>3. CASE m.what = "QueueEOS"
    <3>1. m.buffer = EOS /\ \A b \in Buffers : b # EOS
      BY <2>3, BuffersAre DEF SentMessages, EOS
    <3> QED BY <2>3, <3>1 DEF QueueBufferMsg, EntryOf, Msg
  <2> QED BY <2>2, <2>3 DEF QueueWhat
<1> HIDE DEF a
<1>6. \A s \in Streams : queue[s] \in Seq(SentEntries(s))
  BY DEF BufferInv, NothingIsAhead
<1>7. ASSUME NEW s \in Streams
      PROVE  Queued(m)[s] \in Seq(SentEntries(s))
  <2>1. queue[s] \in Seq(SentEntries(s))
    BY <1>6
  <2>2. CASE s = m.stream
    <3>1. Append(queue[s], a) \in Seq(SentEntries(s))
      BY <1>2, <2>1, <2>2
    <3> QED BY <1>4, <2>2, <3>1
  <2>3. CASE s # m.stream
    BY <1>4, <2>1, <2>3
  <2> QED BY <2>2, <2>3
<1>8. ASSUME NEW s \in Streams, NEW b \in Buffers
      PROVE  Occurrences(Queued(m)[s], EntryOf(s, b)) =
                    Occurrences(queue[s], EntryOf(s, b)) + (IF m = QueueBufferMsg(s, b) THEN 1 ELSE 0)
  <2> DEFINE e == EntryOf(s, b)
  <2>1. Occurrences(queue[s], e) \in Nat
    BY OccurrencesAre
  <2>2. m = QueueBufferMsg(s, b) <=> (s = m.stream /\ a = e)
    BY <1>5
  <2> HIDE DEF e
  <2>3. CASE s = m.stream
    <3>1. Occurrences(Append(queue[s], a), e) = Occurrences(queue[s], e) + (IF a = e THEN 1 ELSE 0)
      BY <1>2, <1>6, <2>3, OccurrencesAppend
    <3> QED BY <1>4, <2>2, <2>3, <3>1 DEF e
  <2>4. CASE s # m.stream
    BY <1>4, <2>1, <2>2, <2>4 DEF e
  <2> QED BY <2>3, <2>4
<1> QED BY <1>7, <1>8

LEMMA NextRest ==
    ASSUME NEW T, NEW q \in Seq(T), NEW n \in Nat, n + 1 \in 0 .. Len(q)
    PROVE  /\ SubSeq(q, n + 1, Len(q)) # <<>>
           /\ Head(SubSeq(q, n + 1, Len(q))) = q[n + 1]
           /\ Tail(SubSeq(q, n + 1, Len(q))) = SubSeq(q, (n + 1) + 1, Len(q))
<1> DEFINE r == SubSeq(q, n + 1, Len(q))
           u == SubSeq(q, (n + 1) + 1, Len(q))
<1>0. Len(q) \in Nat
  OBVIOUS
<1>1. /\ r \in Seq(T) /\ Len(r) = Len(q) - n
      /\ \A i \in 1 .. Len(q) - n : r[i] = q[n + i]
  OBVIOUS
<1>2. /\ u \in Seq(T) /\ Len(u) = Len(q) - n - 1
      /\ \A i \in 1 .. Len(q) - n - 1 : u[i] = q[n + 1 + i]
  OBVIOUS
<1> HIDE DEF r, u
<1>3. r # <<>> /\ Head(r) = q[n + 1]
  BY <1>0, <1>1
<1> DEFINE v == Tail(r)
<1>4. v \in Seq(T) /\ Len(v) = Len(u) /\ \A i \in 1 .. Len(u) : v[i] = r[i + 1]
  BY <1>0, <1>1, <1>2, <1>3
<1>5. \A i \in 1 .. Len(u) : r[i + 1] = u[i]
  <2> SUFFICES ASSUME NEW i \in 1 .. Len(u)
               PROVE  r[i + 1] = u[i]
    OBVIOUS
  <2>1. i + 1 \in 1 .. Len(q) - n /\ i \in 1 .. Len(q) - n - 1 /\ n + (i + 1) = n + 1 + i
    BY <1>0, <1>2
  <2> QED BY <1>1, <1>2, <2>1
<1> HIDE DEF v
<1>6. v = u
  BY <1>2, <1>4, <1>5
<1> QED BY <1>3, <1>6 DEF r, u, v

\* The first n entries go back to the decoder, k are gone from the queue: as many,
\* or an end of stream more.
LEMMA EntriesDrained ==
    ASSUME TypeOK, BufferInv, NEW s \in Streams,
           NEW n \in 0 .. Len(queue[s]), NEW k \in 0 .. Len(queue[s]),
           k = n \/ (k = n + 1 /\ ~IsBuffer(queue[s][k])),
           Consumed(s, First(s, n)), queue' = [queue EXCEPT ![s] = Rest(s, k)]
    PROVE  /\ \A t \in Streams : queue'[t] \in Seq(SentEntries(t)) /\ replies'[t] \in Seq(SentEntries(t))
           /\ \A t \in Streams : \A b \in Buffers :
                 Occurrences(queue'[t], EntryOf(t, b)) + Occurrences(replies'[t], EntryOf(t, b))
                    = Occurrences(queue[t], EntryOf(t, b)) + Occurrences(replies[t], EntryOf(t, b))
<1>1. \A t \in Streams : queue[t] \in Seq(SentEntries(t))
  BY DEF BufferInv, NothingIsAhead
<1>2. queue \in [Streams -> Seq(Entry)]
  BY DEF TypeOK, RendererTypeOK
<1> DEFINE q == queue[s]
           front == SubSeq(q, 1, n)
           RestFrom(j) == SubSeq(q, j + 1, Len(q))
<1>3. q \in Seq(SentEntries(s)) /\ n \in 0 .. Len(q) /\ k \in 0 .. Len(q) /\ Len(q) \in Nat
  <2>1. q \in Seq(SentEntries(s))
    BY <1>1
  <2>2. Len(q) \in Nat
    BY <2>1
  <2> HIDE DEF q
  <2> QED BY <2>1, <2>2 DEF q
<1>4. First(s, n) = front /\ queue' = [queue EXCEPT ![s] = RestFrom(k)]
  BY DEF First, Rest
<1>5. \A t \in Streams : queue'[t] = IF t = s THEN RestFrom(k) ELSE queue[t]
  BY <1>2, <1>4
<1>6. k = n \/ (k = n + 1 /\ ~IsBuffer(q[k]))
  OBVIOUS
<1> HIDE DEF q
<1>7. /\ front \in Seq(SentEntries(s)) /\ RestFrom(n) \in Seq(SentEntries(s))
      /\ RestFrom(k) \in Seq(SentEntries(s))
      /\ \A e : Occurrences(q, e) = Occurrences(front, e) + Occurrences(RestFrom(n), e)
  BY <1>3, OccurrencesSplit
<1>8. ASSUME NEW e, IsBuffer(e)
      PROVE  Occurrences(RestFrom(k), e) = Occurrences(RestFrom(n), e)
  <2>1. CASE k = n
    BY <2>1
  <2>2. CASE k = n + 1 /\ ~IsBuffer(q[k])
    <3> DEFINE r == RestFrom(n)
    <3>1. r # <<>> /\ Head(r) = q[k] /\ Tail(r) = RestFrom(k)
      BY <1>3, <2>2, NextRest
    <3>2. r \in Seq(SentEntries(s))
      BY <1>7
    <3> HIDE DEF r
    <3>3. Head(r) # e
      BY <1>8, <2>2, <3>1
    <3>4. Occurrences(r, e) = Occurrences(Tail(r), e) + (IF Head(r) = e THEN 1 ELSE 0)
      BY <3>1, <3>2, OccurrencesTail
    <3>5. Occurrences(Tail(r), e) \in Nat
      BY <1>7, <3>1, OccurrencesType
    <3>6. Occurrences(r, e) = Occurrences(Tail(r), e)
      BY <3>3, <3>4, <3>5
    <3> QED BY <3>1, <3>6 DEF r
  <2> QED BY <1>6, <2>1, <2>2
<1> HIDE DEF front, RestFrom
<1>9. /\ \A t \in Streams : replies'[t] \in Seq(SentEntries(t))
      /\ \A t \in Streams : \A b \in Buffers :
                 Occurrences(replies'[t], EntryOf(t, b)) =
                    Occurrences(replies[t], EntryOf(t, b))
                      + (IF t = s THEN Occurrences(front, EntryOf(t, b)) ELSE 0)
  BY <1>4, <1>7, EntriesConsumed
<1>10. ASSUME NEW t \in Streams, NEW b \in Buffers
       PROVE  Occurrences(queue'[t], EntryOf(t, b)) + Occurrences(replies'[t], EntryOf(t, b))
                    = Occurrences(queue[t], EntryOf(t, b)) + Occurrences(replies[t], EntryOf(t, b))
  <2> DEFINE e == EntryOf(t, b)
  <2>1. IsBuffer(e)
    BY BuffersAre DEF EntryOf, IsBuffer
  <2>2. Occurrences(replies'[t], e) =
           Occurrences(replies[t], e) + (IF t = s THEN Occurrences(front, e) ELSE 0)
    BY <1>9
  <2>3. Occurrences(queue[t], e) \in Nat /\ Occurrences(replies[t], e) \in Nat
    BY OccurrencesAre
  <2> HIDE DEF e
  <2>4. CASE t = s
    <3>1. Occurrences(q, e) = Occurrences(front, e) + Occurrences(RestFrom(k), e)
      BY <1>7, <1>8, <2>1
    <3>2. Occurrences(front, e) \in Nat /\ Occurrences(RestFrom(k), e) \in Nat
      BY <1>7, OccurrencesType
    <3>3. q = queue[t] /\ queue'[t] = RestFrom(k)
      BY <1>5, <2>4 DEF q
    <3> QED BY <2>2, <2>3, <2>4, <3>1, <3>2, <3>3 DEF e
  <2>5. CASE t # s
    BY <1>5, <2>2, <2>3, <2>5 DEF e
  <2> QED BY <2>4, <2>5
<1> QED BY <1>1, <1>5, <1>7, <1>9, <1>10

-----------------------------------------------------------------------------
(* The invariant of the buffers, action by action.                          *)

DecodersOwnTheSame ==
    \A s \in Streams : decoder'[s].gen = decoder[s].gen /\ decoder'[s].codec = decoder[s].codec

LEMMA EntriesPassedOn ==
    ASSUME TypeOK, BufferInv, UNCHANGED mHas, DecodersOwnTheSame,
           inbox' \in Seq(SentMessages),
           \A s \in Streams : \A b \in Buffers :
               Occurrences(inbox', QueueBufferMsg(s, b)) = Occurrences(inbox, QueueBufferMsg(s, b)),
           \A s \in Streams : queue'[s] \in Seq(SentEntries(s)) /\ replies'[s] \in Seq(SentEntries(s)),
           \A s \in Streams : \A b \in Buffers :
               Occurrences(queue'[s], EntryOf(s, b)) + Occurrences(replies'[s], EntryOf(s, b))
                    = Occurrences(queue[s], EntryOf(s, b)) + Occurrences(replies[s], EntryOf(s, b))
    PROVE  BufferInv'
<1>1. ASSUME NEW s \in Streams, NEW b \in Buffers
      PROVE  Total(inbox', queue'[s], replies'[s], s, b) = Total(inbox, queue[s], replies[s], s, b)
  <2> DEFINE e == EntryOf(s, b)
             m == QueueBufferMsg(s, b)
  <2>1. /\ Occurrences(inbox, m) \in Nat /\ Occurrences(queue[s], e) \in Nat
        /\ Occurrences(replies[s], e) \in Nat
    BY OccurrencesAre
  <2>2. Occurrences(queue'[s], e) \in Nat /\ Occurrences(replies'[s], e) \in Nat
    BY OccurrencesType
  <2>3. /\ Occurrences(inbox', m) = Occurrences(inbox, m)
        /\ Occurrences(queue'[s], e) + Occurrences(replies'[s], e)
             = Occurrences(queue[s], e) + Occurrences(replies[s], e)
    OBVIOUS
  <2>4. /\ Total(inbox', queue'[s], replies'[s], s, b)
             = Occurrences(inbox', m) + Occurrences(queue'[s], e) + Occurrences(replies'[s], e)
        /\ Total(inbox, queue[s], replies[s], s, b)
             = Occurrences(inbox, m) + Occurrences(queue[s], e) + Occurrences(replies[s], e)
    BY DEF Total
  <2> HIDE DEF e, m
  <2> QED BY <2>1, <2>2, <2>3, <2>4
<1> QED BY <1>1, PassedOn DEF DecodersOwnTheSame

LEMMA OnlyMessages ==
    ASSUME TypeOK, BufferInv, UNCHANGED <<mHas, queue, replies>>, DecodersOwnTheSame,
           inbox' \in Seq(SentMessages),
           \A s \in Streams : \A b \in Buffers :
               Occurrences(inbox', QueueBufferMsg(s, b)) = Occurrences(inbox, QueueBufferMsg(s, b))
    PROVE  BufferInv'
<1>1. \A s \in Streams : queue'[s] \in Seq(SentEntries(s)) /\ replies'[s] \in Seq(SentEntries(s))
  BY DEF BufferInv, NothingIsAhead
<1> QED BY <1>1, EntriesPassedOn

LEMMA NothingTaken ==
    ASSUME TypeOK, BufferInv, UNCHANGED <<mHas, inbox, queue, replies>>, DecodersOwnTheSame
    PROVE  BufferInv'
  BY SameMessages, OnlyMessages

LEMMA OnlyTaken ==
    ASSUME TypeOK, BufferInv, UNCHANGED <<mHas, queue, replies>>, DecodersOwnTheSame,
           NEW w, Take(w), w # "QueueBuffer"
    PROVE  BufferInv'
  BY MessageTaken, OnlyMessages

LEMMA OnlyPosted ==
    ASSUME TypeOK, BufferInv, UNCHANGED <<mHas, queue, replies>>, DecodersOwnTheSame,
           NEW m \in SentMessages, m.what # "QueueBuffer", inbox' = Append(inbox, m)
    PROVE  BufferInv'
<1> DEFINE more == <<m>>
<1>1. more \in Seq(SentMessages) /\ \A i \in DOMAIN more : more[i].what # "QueueBuffer"
  OBVIOUS
<1>2. inbox' = inbox \o more
  BY DEF TypeOK, LooperTypeOK
<1> HIDE DEF more
<1> QED BY <1>1, <1>2, MessagesPosted, OnlyMessages

LEMMA SignalsAreSent ==
    ASSUME NEW w \in SignalWhat
    PROVE  Signal(w) \in SentMessages /\ Signal(w).what # "QueueBuffer"
<1>1. Signal(w) \in Message /\ Signal(w).what \notin QueueWhat
  BY MessageTypes DEF Signal, Msg, SignalWhat, QueueWhat
<1> QED BY <1>1, OthersAreSent DEF QueueWhat

LEMMA OnlySignalled ==
    ASSUME TypeOK, BufferInv, UNCHANGED <<mHas, queue, replies>>, DecodersOwnTheSame,
           NEW w \in SignalWhat, inbox' = Append(inbox, Signal(w))
    PROVE  BufferInv'
  BY SignalsAreSent, OnlyPosted

\* A message is taken, and entries are drained.
LEMMA TakenAndDrained ==
    ASSUME TypeOK, BufferInv, UNCHANGED mHas, DecodersOwnTheSame,
           NEW w, Take(w), w # "QueueBuffer", NEW s \in Streams,
           NEW n \in 0 .. Len(queue[s]), NEW k \in 0 .. Len(queue[s]),
           k = n \/ (k = n + 1 /\ ~IsBuffer(queue[s][k])),
           Consumed(s, First(s, n)), queue' = [queue EXCEPT ![s] = Rest(s, k)]
    PROVE  BufferInv'
<1>1. /\ inbox' \in Seq(SentMessages)
      /\ \A t \in Streams : \A b \in Buffers :
               Occurrences(inbox', QueueBufferMsg(t, b)) = Occurrences(inbox, QueueBufferMsg(t, b))
  BY MessageTaken
<1>2. /\ \A t \in Streams : queue'[t] \in Seq(SentEntries(t)) /\ replies'[t] \in Seq(SentEntries(t))
      /\ \A t \in Streams : \A b \in Buffers :
               Occurrences(queue'[t], EntryOf(t, b)) + Occurrences(replies'[t], EntryOf(t, b))
                  = Occurrences(queue[t], EntryOf(t, b)) + Occurrences(replies[t], EntryOf(t, b))
  BY EntriesDrained
<1> QED BY <1>1, <1>2, EntriesPassedOn

LEMMA Untouched ==
    ASSUME UNCHANGED decoder
    PROVE  DecodersOwnTheSame
  BY DEF DecodersOwnTheSame

LEMMA DrainsPassOn ==
    ASSUME TypeOK, BufferInv, DrainAudioBuffers \/ DrainAudioEOS \/ DrainVideo
    PROVE  BufferInv'
<1>0. /\ Len(queue["audio"]) \in Nat /\ "audio" \in Streams /\ "video" \in Streams
  <2>1. queue["audio"] \in Seq(Entry)
    BY DEF TypeOK, RendererTypeOK, Streams
  <2> QED BY <2>1 DEF Streams
<1>1. CASE DrainAudioBuffers
  <2>1. /\ Take("DrainAudioQueue") /\ UNCHANGED <<mHas, decoder>>
        /\ \E n \in 0 .. Len(queue["audio"]) :
              Consumed("audio", First("audio", n)) /\ queue' = [queue EXCEPT !["audio"] = Rest("audio", n)]
    BY <1>1 DEF DrainAudioBuffers
  <2> QED BY <1>0, <2>1, TakenAndDrained, Untouched
<1>2. CASE DrainAudioEOS
  <2>1. Take("DrainAudioQueue") /\ UNCHANGED <<mHas, decoder>>
    BY <1>2 DEF DrainAudioEOS
  <2>2. PICK n \in 0 .. Len(queue["audio"]) - 1 :
           /\ ~IsBuffer(queue["audio"][n + 1])
           /\ Consumed("audio", First("audio", n))
           /\ queue' = [queue EXCEPT !["audio"] = Rest("audio", n + 1)]
    BY <1>2 DEF DrainAudioEOS
  <2>3. n \in 0 .. Len(queue["audio"]) /\ n + 1 \in 0 .. Len(queue["audio"])
    BY <1>0
  <2> QED BY <1>0, <2>1, <2>2, <2>3, TakenAndDrained, Untouched
<1>3. CASE DrainVideo
  <2>1. /\ Take("DrainVideoQueue") /\ UNCHANGED <<mHas, decoder>>
        /\ \E n \in 0 .. Len(queue["video"]) :
              Consumed("video", First("video", n)) /\ queue' = [queue EXCEPT !["video"] = Rest("video", n)]
    BY <1>3, DrainVideoDoes
  <2> QED BY <1>0, <2>1, TakenAndDrained, Untouched
<1> QED BY <1>1, <1>2, <1>3

LEMMA FlushPassesOn ==
    ASSUME TypeOK, BufferInv, Flush
    PROVE  BufferInv'
<1> DEFINE s == Head(inbox).stream
           n == Len(queue[s])
<1>1. /\ Take("Flush") /\ UNCHANGED <<mHas, decoder>>
      /\ Consumed(s, queue[s]) /\ queue' = [queue EXCEPT ![s] = <<>>]
  BY Zenon DEF Flush
<1>2. s \in Streams
  BY <1>1, TakeType, MessageFields
<1> HIDE DEF s
<1>3. queue[s] \in Seq(Entry)
  BY <1>2 DEF TypeOK, RendererTypeOK
<1>4. n \in 0 .. Len(queue[s]) /\ First(s, n) = queue[s] /\ Rest(s, n) = <<>>
  BY <1>3 DEF First, Rest
<1> HIDE DEF n
<1> QED BY <1>1, <1>2, <1>4, TakenAndDrained, Untouched

LEMMA FillAudioBufferPassesOn ==
    ASSUME TypeOK, BufferInv, FillAudioBuffer
    PROVE  BufferInv'
<1>1. UNCHANGED <<mHas, decoder>> /\ "audio" \in Streams
  BY FillAudioBufferDoes DEF Streams
<1>2. PICK n \in 0 .. Len(queue["audio"]), k \in 0 .. Len(queue["audio"]) :
         /\ Consumed("audio", First("audio", n))
         /\ queue' = [queue EXCEPT !["audio"] = Rest("audio", k)]
         /\ k = n \/ (k = n + 1 /\ ~IsBuffer(queue["audio"][k]))
  BY FillAudioBufferDoes
<1>3. /\ inbox' \in Seq(SentMessages)
      /\ \A t \in Streams : \A b \in Buffers :
               Occurrences(inbox', QueueBufferMsg(t, b)) = Occurrences(inbox, QueueBufferMsg(t, b))
  <2>1. CASE inbox' = inbox
    BY <2>1, SameMessages
  <2>2. CASE inbox' = Append(inbox, Signal("StopAudioSink"))
    <3> DEFINE m == Signal("StopAudioSink")
               more == <<m>>
    <3>1. m \in SentMessages /\ m.what # "QueueBuffer"
      BY SignalsAreSent DEF SignalWhat
    <3> HIDE DEF m
    <3>2. more \in Seq(SentMessages) /\ \A i \in DOMAIN more : more[i].what # "QueueBuffer"
      BY <3>1
    <3>3. inbox' = inbox \o more
      BY <2>2 DEF TypeOK, LooperTypeOK, m
    <3> HIDE DEF more
    <3> QED BY <3>2, <3>3, MessagesPosted
  <2> QED BY <2>1, <2>2, FillAudioBufferDoes
<1>4. /\ \A t \in Streams : queue'[t] \in Seq(SentEntries(t)) /\ replies'[t] \in Seq(SentEntries(t))
      /\ \A t \in Streams : \A b \in Buffers :
               Occurrences(queue'[t], EntryOf(t, b)) + Occurrences(replies'[t], EntryOf(t, b))
                  = Occurrences(queue[t], EntryOf(t, b)) + Occurrences(replies[t], EntryOf(t, b))
  BY <1>1, <1>2, EntriesDrained
<1> QED BY <1>1, <1>3, <1>4, EntriesPassedOn, Untouched

\* A buffer that comes in: into the queue ...
LEMMA BufferQueued ==
    ASSUME TypeOK, BufferInv, NEW w \in QueueWhat, Take(w)
    PROVE  /\ \A s \in Streams : Queued(Head(inbox))[s] \in Seq(SentEntries(s))
           /\ \A s \in Streams : \A b \in Buffers :
                 Occurrences(inbox', QueueBufferMsg(s, b))
                   + Occurrences(Queued(Head(inbox))[s], EntryOf(s, b))
                 = Occurrences(inbox, QueueBufferMsg(s, b)) + Occurrences(queue[s], EntryOf(s, b))
<1> DEFINE m == Head(inbox)
<1>1. m \in SentMessages /\ m.what \in QueueWhat
  BY MessageTaken, TakeType
<1>2. \A x : /\ Occurrences(inbox', x) \in Nat
             /\ Occurrences(inbox, x) = Occurrences(inbox', x) + (IF m = x THEN 1 ELSE 0)
  BY MessageTaken
<1> HIDE DEF m
<1>3. /\ \A s \in Streams : Queued(m)[s] \in Seq(SentEntries(s))
      /\ \A s \in Streams : \A b \in Buffers :
                 Occurrences(Queued(m)[s], EntryOf(s, b)) =
                    Occurrences(queue[s], EntryOf(s, b)) + (IF m = QueueBufferMsg(s, b) THEN 1 ELSE 0)
  BY <1>1, EntryQueued
<1>4. ASSUME NEW s \in Streams, NEW b \in Buffers
      PROVE  Occurrences(inbox', QueueBufferMsg(s, b)) + Occurrences(Queued(m)[s], EntryOf(s, b))
                 = Occurrences(inbox, QueueBufferMsg(s, b)) + Occurrences(queue[s], EntryOf(s, b))
  <2> DEFINE e == EntryOf(s, b)
             x == QueueBufferMsg(s, b)
  <2>1. /\ Occurrences(inbox', x) \in Nat /\ Occurrences(queue[s], e) \in Nat
        /\ Occurrences(inbox, x) = Occurrences(inbox', x) + (IF m = x THEN 1 ELSE 0)
        /\ Occurrences(Queued(m)[s], e) = Occurrences(queue[s], e) + (IF m = x THEN 1 ELSE 0)
    BY <1>2, <1>3, OccurrencesAre
  <2> HIDE DEF e, x
  <2>2. Occurrences(inbox', x) + Occurrences(Queued(m)[s], e)
           = Occurrences(inbox, x) + Occurrences(queue[s], e)
    <3>1. CASE m = x
      BY <2>1, <3>1
    <3>2. CASE m # x
      BY <2>1, <3>2
    <3> QED BY <3>1, <3>2
  <2> QED BY <2>2 DEF e, x
<1> QED BY <1>3, <1>4 DEF m

LEMMA OnlyQueued ==
    ASSUME TypeOK, BufferInv, UNCHANGED <<mHas, replies, decoder>>, NEW w \in QueueWhat, Take(w),
           queue' = Queued(Head(inbox))
    PROVE  BufferInv'
<1>1. inbox' \in Seq(SentMessages)
  BY MessageTaken
<1>2. \A s \in Streams : queue'[s] \in Seq(SentEntries(s)) /\ replies'[s] \in Seq(SentEntries(s))
  BY BufferQueued DEF BufferInv, NothingIsAhead
<1>3. ASSUME NEW s \in Streams, NEW b \in Buffers
      PROVE  Total(inbox', queue'[s], replies'[s], s, b) = Total(inbox, queue[s], replies[s], s, b)
  BY BufferQueued DEF Total
<1> QED BY <1>1, <1>2, <1>3, PassedOn, Untouched DEF DecodersOwnTheSame

\* ... or, with the first of the audio queue, back to the decoder.
LEMMA QueuedAndDropped ==
    ASSUME TypeOK, BufferInv, UNCHANGED <<mHas, decoder>>, Take("QueueBuffer"),
           Queued(Head(inbox))["audio"] # <<>>,
           queue' = [Queued(Head(inbox)) EXCEPT !["audio"] = Tail(@)],
           Consumed("audio", <<Head(Queued(Head(inbox))["audio"])>>)
    PROVE  BufferInv'
<1> DEFINE q == Queued(Head(inbox))
           a == q["audio"]
           h == Head(a)
           one == <<h>>
<1>1. /\ q \in [Streams -> Seq(Entry)] /\ "audio" \in Streams
      /\ \A s \in Streams : q[s] \in Seq(SentEntries(s))
      /\ \A s \in Streams : \A b \in Buffers :
                 Occurrences(inbox', QueueBufferMsg(s, b)) + Occurrences(q[s], EntryOf(s, b))
                 = Occurrences(inbox, QueueBufferMsg(s, b)) + Occurrences(queue[s], EntryOf(s, b))
  BY BufferQueued, TakeType, QueuedType DEF Streams, QueueWhat
<1>2. a # <<>> /\ queue' = [q EXCEPT !["audio"] = Tail(a)] /\ Consumed("audio", one)
  OBVIOUS
<1>3. a = q["audio"] /\ a \in Seq(SentEntries("audio"))
  BY <1>1
<1> HIDE DEF q, a
<1>4. h \in SentEntries("audio") /\ Tail(a) \in Seq(SentEntries("audio"))
  BY <1>2, <1>3
<1>5. \A x : Occurrences(a, x) = Occurrences(Tail(a), x) + (IF h = x THEN 1 ELSE 0)
  BY <1>2, <1>3, OccurrencesTail
<1> HIDE DEF h
<1>6. one \in Seq(SentEntries("audio")) /\ \A x : Occurrences(one, x) = IF h = x THEN 1 ELSE 0
  BY <1>4, OccurrencesOne
<1> HIDE DEF one
<1>7. /\ \A t \in Streams : replies'[t] \in Seq(SentEntries(t))
      /\ \A t \in Streams : \A b \in Buffers :
                 Occurrences(replies'[t], EntryOf(t, b)) =
                    Occurrences(replies[t], EntryOf(t, b))
                      + (IF t = "audio" THEN Occurrences(one, EntryOf(t, b)) ELSE 0)
  BY <1>1, <1>2, <1>6, EntriesConsumed
<1>8. \A t \in Streams : queue'[t] = IF t = "audio" THEN Tail(a) ELSE q[t]
  BY <1>1, <1>2
<1>9. \A t \in Streams : queue'[t] \in Seq(SentEntries(t))
  BY <1>1, <1>4, <1>8
<1>10. inbox' \in Seq(SentMessages) /\ \A x : Occurrences(inbox', x) \in Nat
  BY MessageTaken
<1>11. ASSUME NEW s \in Streams, NEW b \in Buffers
       PROVE  Total(inbox', queue'[s], replies'[s], s, b) = Total(inbox, queue[s], replies[s], s, b)
  <2> DEFINE e == EntryOf(s, b)
             x == QueueBufferMsg(s, b)
  <2>1. /\ Occurrences(inbox', x) + Occurrences(q[s], e) = Occurrences(inbox, x) + Occurrences(queue[s], e)
        /\ Occurrences(replies'[s], e) =
              Occurrences(replies[s], e) + (IF s = "audio" THEN Occurrences(one, e) ELSE 0)
    BY <1>1, <1>7
  <2>2. /\ Occurrences(inbox, x) \in Nat /\ Occurrences(queue[s], e) \in Nat
        /\ Occurrences(replies[s], e) \in Nat /\ Occurrences(inbox', x) \in Nat
    BY <1>10, OccurrencesAre
  <2>3. /\ Total(inbox', queue'[s], replies'[s], s, b)
             = Occurrences(inbox', x) + Occurrences(queue'[s], e) + Occurrences(replies'[s], e)
        /\ Total(inbox, queue[s], replies[s], s, b)
             = Occurrences(inbox, x) + Occurrences(queue[s], e) + Occurrences(replies[s], e)
    BY DEF Total
  <2> HIDE DEF e, x
  <2>4. CASE s = "audio"
    <3>1. Occurrences(a, e) = Occurrences(Tail(a), e) + Occurrences(one, e)
      BY <1>5, <1>6
    <3>2. Occurrences(Tail(a), e) \in Nat /\ Occurrences(one, e) \in Nat
      BY <1>4, <1>6, OccurrencesType
    <3>3. queue'[s] = Tail(a) /\ q[s] = a
      BY <1>3, <1>8, <2>4
    <3>4. Occurrences(replies'[s], e) = Occurrences(replies[s], e) + Occurrences(one, e)
      BY <2>1, <2>4
    <3>5. /\ Occurrences(queue'[s], e) = Occurrences(Tail(a), e)
          /\ Occurrences(q[s], e) = Occurrences(a, e)
      BY <3>3
    <3>6. Occurrences(inbox', x) + Occurrences(queue'[s], e) + Occurrences(replies'[s], e)
             = Occurrences(inbox, x) + Occurrences(queue[s], e) + Occurrences(replies[s], e)
      BY <2>1, <2>2, <3>1, <3>2, <3>4, <3>5
    <3> QED BY <2>3, <3>6
  <2>5. CASE s # "audio"
    <3>1. queue'[s] = q[s] /\ Occurrences(replies'[s], e) = Occurrences(replies[s], e)
      BY <1>8, <2>1, <2>2, <2>5
    <3> QED BY <2>1, <2>2, <2>3, <3>1
  <2> QED BY <2>4, <2>5
<1> QED BY <1>7, <1>9, <1>10, <1>11, PassedOn, Untouched DEF DecodersOwnTheSame

LEMMA QueueAndComparePassesOn ==
    ASSUME TypeOK, BufferInv, QueueAndCompare
    PROVE  BufferInv'
<1> DEFINE q == Queued(Head(inbox))
<1>1. /\ Take("QueueBuffer") /\ UNCHANGED <<mHas, decoder>>
      /\ \/ queue' = q /\ UNCHANGED replies
         \/ /\ q["audio"] # <<>> /\ queue' = [q EXCEPT !["audio"] = Tail(@)]
            /\ Consumed("audio", <<Head(q["audio"])>>)
  BY QueueAndCompareDoes, Zenon
<1> QED BY <1>1, OnlyQueued, QueuedAndDropped DEF QueueWhat

LEMMA DropPassesOn ==
    ASSUME TypeOK, BufferInv, NEW w \in {"QueueBuffer", "QueueEOS"}, DropWhileFlushing(w)
    PROVE  BufferInv'
<1> DEFINE m == Head(inbox)
           h == [buffer |-> m.buffer, gen |-> m.gen]
           es == IF w = "QueueBuffer" THEN <<h>> ELSE <<>>
<1>1. Take(w) /\ UNCHANGED <<mHas, decoder, queue>> /\ Consumed(m.stream, es)
  BY DEF DropWhileFlushing, rendererVars
<1>2. m \in SentMessages /\ m.what = w /\ m \in Message
  BY <1>1, MessageTaken, TakeType
<1>3. \A x : /\ Occurrences(inbox', x) \in Nat
             /\ Occurrences(inbox, x) = Occurrences(inbox', x) + (IF m = x THEN 1 ELSE 0)
  BY <1>1, MessageTaken
<1>4. inbox' \in Seq(SentMessages)
  BY <1>1, MessageTaken
<1> HIDE DEF m
<1>5. m.stream \in Streams
  BY <1>2, MessageFields
<1>6. w = "QueueBuffer" => h \in SentEntries(m.stream)
  BY <1>2, QueuedType DEF SentEntries, SentMessages, QueueWhat
<1>7. \A s \in Streams : \A b \in Buffers :
         m = QueueBufferMsg(s, b) <=> (w = "QueueBuffer" /\ s = m.stream /\ h = EntryOf(s, b))
  <2>1. m = Msg(m.what, m.stream, m.buffer, m.gen)
    BY <1>2 DEF Message, Drain, Signal, Msg
  <2> QED BY <1>2, <2>1 DEF QueueBufferMsg, EntryOf, Msg
<1> HIDE DEF h
<1>8. /\ es \in Seq(SentEntries(m.stream))
      /\ \A x : Occurrences(es, x) = IF w = "QueueBuffer" /\ h = x THEN 1 ELSE 0
  <2>1. CASE w = "QueueBuffer"
    <3>1. <<h>> \in Seq(SentEntries(m.stream)) /\ \A x : Occurrences(<<h>>, x) = IF h = x THEN 1 ELSE 0
      BY <1>6, <2>1, OccurrencesOne
    <3> QED BY <2>1, <3>1
  <2>2. CASE w # "QueueBuffer"
    <3>1. es = <<>>
      BY <2>2
    <3>2. \A x : Occurrences(<<>>, x) = 0
      BY OccurrencesOne, Zenon
    <3>3. <<>> \in Seq(SentEntries(m.stream))
      OBVIOUS
    <3> HIDE DEF es
    <3> QED BY <2>2, <3>1, <3>2, <3>3
  <2> QED BY <2>1, <2>2
<1> HIDE DEF es
<1>9. /\ \A t \in Streams : replies'[t] \in Seq(SentEntries(t))
      /\ \A t \in Streams : \A b \in Buffers :
                 Occurrences(replies'[t], EntryOf(t, b)) =
                    Occurrences(replies[t], EntryOf(t, b))
                      + (IF t = m.stream THEN Occurrences(es, EntryOf(t, b)) ELSE 0)
  BY <1>1, <1>5, <1>8, EntriesConsumed
<1>10. \A t \in Streams : queue'[t] \in Seq(SentEntries(t))
  BY <1>1 DEF BufferInv, NothingIsAhead
<1>11. ASSUME NEW s \in Streams, NEW b \in Buffers
       PROVE  Total(inbox', queue'[s], replies'[s], s, b) = Total(inbox, queue[s], replies[s], s, b)
  <2> DEFINE e == EntryOf(s, b)
             x == QueueBufferMsg(s, b)
  <2>1. /\ Occurrences(replies'[s], e) =
              Occurrences(replies[s], e) + (IF s = m.stream THEN Occurrences(es, e) ELSE 0)
        /\ m = x <=> (w = "QueueBuffer" /\ s = m.stream /\ h = e)
    BY <1>7, <1>9
  <2>2. /\ Occurrences(inbox, x) \in Nat /\ Occurrences(queue[s], e) \in Nat
        /\ Occurrences(replies[s], e) \in Nat /\ Occurrences(inbox', x) \in Nat
    BY <1>3, OccurrencesAre
  <2>3. /\ Total(inbox', queue'[s], replies'[s], s, b)
             = Occurrences(inbox', x) + Occurrences(queue'[s], e) + Occurrences(replies'[s], e)
        /\ Total(inbox, queue[s], replies[s], s, b)
             = Occurrences(inbox, x) + Occurrences(queue[s], e) + Occurrences(replies[s], e)
    BY DEF Total
  <2> HIDE DEF e, x
  <2>4. queue' = queue
    BY <1>1
  <2>5. CASE m = x
    <3>1. Occurrences(inbox, x) = Occurrences(inbox', x) + 1
      BY <1>3, <2>5
    <3>2. Occurrences(replies'[s], e) = Occurrences(replies[s], e) + 1
      BY <1>8, <2>1, <2>5
    <3> QED BY <2>2, <2>3, <2>4, <3>1, <3>2
  <2>6. CASE m # x
    <3>1. Occurrences(inbox, x) = Occurrences(inbox', x)
      BY <1>3, <2>2, <2>6
    <3>2. Occurrences(replies'[s], e) = Occurrences(replies[s], e)
      BY <1>8, <2>1, <2>2, <2>6
    <3> QED BY <2>2, <2>3, <2>4, <3>1, <3>2
  <2> QED BY <2>5, <2>6
<1> QED BY <1>1, <1>4, <1>9, <1>10, <1>11, PassedOn, Untouched DEF DecodersOwnTheSame

\* The other messages.
LEMMA TimerDuePassesOn ==
    ASSUME TypeOK, BufferInv, TimerDue
    PROVE  BufferInv'
<1>1. PICK m \in timers : inbox' = Append(inbox, m)
  BY DEF TimerDue
<1>2. m \in Drain /\ m \in Message
  BY MessageTypes DEF TypeOK, LooperTypeOK
<1>3. m \in SentMessages /\ m.what # "QueueBuffer"
  BY <1>2, OthersAreSent DEF Drain, DrainWhat, QueueWhat
<1>4. UNCHANGED <<mHas, queue, replies, decoder>>
  BY DEF TimerDue, rendererVars, decoderVars
<1> QED BY <1>1, <1>2, <1>3, <1>4, OnlyPosted, Untouched

LEMMA QueuesPassOn ==
    ASSUME TypeOK, BufferInv, QueueAndWait \/ QueueAndDrain \/ QueueEOS
    PROVE  BufferInv'
<1>1. /\ UNCHANGED <<mHas, replies, decoder>> /\ queue' = Queued(Head(inbox))
      /\ \E w \in QueueWhat : Take(w)
  BY DEF QueueAndWait, QueueAndDrain, QueueEOS, QueueWhat, decoderVars
<1> QED BY <1>1, OnlyQueued

LEMMA MessagesPassOn ==
    ASSUME TypeOK, BufferInv,
           \/ DrainObsolete \/ DrainAudioClosed \/ PostDrainVideo \/ Pause \/ Resume
           \/ CloseAudioSink \/ StopAudioSink \/ DisableOffloadAudio \/ AudioOffloadTearDown
    PROVE  BufferInv'
<1>1. /\ UNCHANGED <<mHas, queue, replies, decoder>>
      /\ \E w : w # "QueueBuffer" /\ Take(w)
  BY DEF DrainObsolete, DrainAudioClosed, PostDrainVideo, Pause, Resume, CloseAudioSink, StopAudioSink,
    DisableOffloadAudio, AudioOffloadTearDown, rendererVars, decoderVars, DrainWhat
<1> QED BY <1>1, OnlyTaken, Untouched

LEMMA OpenAudioSinkPassesOn ==
    ASSUME TypeOK, BufferInv, OpenAudioSink
    PROVE  BufferInv'
<1>1. /\ Take("OpenAudioSink") /\ UNCHANGED <<mHas, queue, replies>>
      /\ decoder' = [decoder EXCEPT !["audio"].opening = FALSE,
                                    !["audio"].format = Head(inbox).gen]
  BY DEF OpenAudioSink, rendererVars
<1>2. decoder \in [Streams -> DecoderState]
  BY DEF TypeOK, DecoderTypeOK
<1>3. DecodersOwnTheSame
  BY <1>1, <1>2 DEF DecodersOwnTheSame, DecoderState
<1> QED BY <1>1, <1>3, OnlyTaken

LEMMA FormatChangedPassesOn ==
    ASSUME TypeOK, BufferInv, FormatChanged
    PROVE  BufferInv'
<1> DEFINE m == Msg("OpenAudioSink", "audio", EOS, decoder["audio"].format + 1)
<1>1. /\ inbox' = Append(inbox, m) /\ UNCHANGED <<mHas, queue, replies>>
      /\ decoder' = [decoder EXCEPT !["audio"].opening = TRUE]
  BY Zenon DEF FormatChanged, rendererVars
<1>2. decoder \in [Streams -> DecoderState] /\ "audio" \in Streams
  BY DEF TypeOK, DecoderTypeOK, Streams
<1>3. DecodersOwnTheSame
  BY <1>1, <1>2 DEF DecodersOwnTheSame, DecoderState
<1>4. m \in Message /\ m.what = "OpenAudioSink"
  <2>1. decoder["audio"].format + 1 \in Nat
    BY <1>2 DEF DecoderState
  <2> QED BY <1>2, <2>1, MessageTypes DEF DataWhat, Msg
<1> HIDE DEF m
<1>5. m \in SentMessages
  BY <1>4, OthersAreSent DEF QueueWhat
<1> QED BY <1>1, <1>3, <1>4, <1>5, OnlyPosted

LEMMA EndsAreSent ==
    ASSUME TypeOK, NEW s \in Streams
    PROVE  QueueEOSMsg(s) \in SentMessages /\ QueueEOSMsg(s).what # "QueueBuffer"
<1>1. decoder[s].gen \in Nat
  BY GenerationsAre
<1>2. Msg("QueueEOS", s, EOS, decoder[s].gen) \in Message
  BY <1>1, MessageTypes DEF DataWhat
<1> QED BY <1>1, <1>2 DEF QueueEOSMsg, SentMessages, Msg

LEMMA PassThroughEOSPassesOn ==
    ASSUME TypeOK, BufferInv, PassThroughEOS
    PROVE  BufferInv'
<1>1. /\ inbox' = Append(inbox, QueueEOSMsg("audio")) /\ UNCHANGED <<mHas, queue, replies>>
      /\ decoder' = [decoder EXCEPT !["audio"].ended = TRUE]
  BY Zenon DEF PassThroughEOS, rendererVars
<1>2. decoder \in [Streams -> DecoderState] /\ "audio" \in Streams
  BY DEF TypeOK, DecoderTypeOK, Streams
<1>3. DecodersOwnTheSame
  BY <1>1, <1>2 DEF DecodersOwnTheSame, DecoderState
<1> QED BY <1>1, <1>2, <1>3, EndsAreSent, OnlyPosted

LEMMA SeeksPassOn ==
    ASSUME TypeOK, BufferInv, Seek \/ SeekDone
    PROVE  BufferInv'
<1>1. /\ UNCHANGED <<mHas, inbox, queue, replies>>
      /\ \/ decoder' = [s \in Streams |-> [decoder[s] EXCEPT !.flushDue = s \in mHas]]
         \/ decoder' = [s \in Streams |-> [decoder[s] EXCEPT !.paused = FALSE]]
  BY DEF Seek, SeekDone, rendererVars
<1>2. decoder \in [Streams -> DecoderState]
  BY DEF TypeOK, DecoderTypeOK
<1>3. \A s \in Streams : \/ decoder'[s] = [decoder[s] EXCEPT !.flushDue = s \in mHas]
                         \/ decoder'[s] = [decoder[s] EXCEPT !.paused = FALSE]
  BY <1>1, Zenon
<1>4. \A d \in DecoderState : \A f :
         /\ [d EXCEPT !.flushDue = f].gen = d.gen /\ [d EXCEPT !.flushDue = f].codec = d.codec
         /\ [d EXCEPT !.paused = FALSE].gen = d.gen
         /\ [d EXCEPT !.paused = FALSE].codec = d.codec
  BY DEF DecoderState
<1>5. ASSUME NEW s \in Streams
      PROVE  decoder'[s].gen = decoder[s].gen /\ decoder'[s].codec = decoder[s].codec
  <2>1. decoder[s] \in DecoderState
    BY <1>2
  <2>2. CASE decoder'[s] = [decoder[s] EXCEPT !.flushDue = s \in mHas]
    <3>1. \A d \in DecoderState : [d EXCEPT !.flushDue = s \in mHas].gen = d.gen
      BY <1>4, Zenon
    <3>2. \A d \in DecoderState : [d EXCEPT !.flushDue = s \in mHas].codec = d.codec
      BY <1>4, Zenon
    <3> QED BY <2>1, <2>2, <3>1, <3>2, Zenon
  <2>3. CASE decoder'[s] = [decoder[s] EXCEPT !.paused = FALSE]
    BY <1>4, <2>1, <2>3, Zenon
  <2> QED BY <1>3, <2>2, <2>3
<1> QED BY <1>1, <1>5, NothingTaken DEF DecodersOwnTheSame

-----------------------------------------------------------------------------
(* The steps that give a buffer out, take it back, or start again.          *)

\* A buffer of the codec is in one place of these, or in none of them if the codec
\* owns it.
Placed(in, q, r, d, s, b) ==
    Occurrences(in, Msg("QueueBuffer", s, b, d[s].gen))
      + Occurrences(q[s], [buffer |-> b, gen |-> d[s].gen])
      + Occurrences(r[s], [buffer |-> b, gen |-> d[s].gen])
    = IF b \in d[s].codec THEN 0 ELSE 1

LEMMA PlacedAre ==
    /\ BuffersConserved <=>
          \A s \in mHas : \A b \in BuffersOf(s) : Placed(inbox, queue, replies, decoder, s, b)
    /\ BuffersConserved' <=>
          \A s \in mHas' : \A b \in BuffersOf(s)' : Placed(inbox', queue', replies', decoder', s, b)
  BY DEF BuffersConserved, Placed, QueueBufferMsg, EntryOf

\* A decoder that starts anew owns all its buffers: what it sent before is of an
\* older generation.
LEMMA StartedAnew ==
    ASSUME TypeOK, TypeOK', BufferInv, UNCHANGED <<mHas, queue, replies>>, NEW s \in Streams,
           NEW more \in Seq(Message), inbox' = inbox \o more,
           \A i \in DOMAIN more : more[i].what \notin QueueWhat,
           decoder'[s].gen = decoder[s].gen + 1, decoder'[s].codec = BuffersOf(s),
           \A t \in Streams \ {s} : /\ decoder'[t].gen = decoder[t].gen
                                    /\ decoder'[t].codec = decoder[t].codec
    PROVE  BufferInv'
<1>0. mHas \subseteq Streams /\ \A t : BuffersOf(t)' = BuffersOf(t)
  BY TracksAssumption, SameBuffers DEF TypeOK
<1>1. \A t \in Streams : decoder[t].gen \in Nat /\ decoder[t].gen <= decoder'[t].gen
  BY GenerationsAre
<1>2. Message' = Message /\ Entry' = Entry
  BY SameBuffers
<1>3. SentMessages \subseteq SentMessages'
  <2>1. \A m \in Message : m.stream \in Streams /\ m.gen \in Nat
    BY MessageFields
  <2> QED BY <1>1, <1>2, <2>1 DEF SentMessages
<1>4. \A t \in Streams : SentEntries(t) \subseteq SentEntries(t)'
  <2>1. \A e \in Entry : e.gen \in Nat
    BY DEF Entry
  <2> QED BY <1>1, <1>2, <2>1 DEF SentEntries
<1>5. more \in Seq(SentMessages)
  <2>1. \A i \in DOMAIN more : more[i] \in SentMessages
    BY OthersAreSent
  <2> QED BY <2>1, SeqOf
<1>6. /\ inbox' \in Seq(SentMessages)
      /\ \A t \in Streams : \A b \in Buffers :
                   Occurrences(inbox', QueueBufferMsg(t, b)) = Occurrences(inbox, QueueBufferMsg(t, b))
  BY <1>5, MessagesPosted DEF QueueWhat
<1>7. \A t \in Streams : queue[t] \in Seq(SentEntries(t)) /\ replies[t] \in Seq(SentEntries(t))
  BY DEF BufferInv, NothingIsAhead
<1>8. NothingIsAhead'
  <2>1. inbox' \in Seq(SentMessages')
    BY <1>3, <1>6, LargerSeq
  <2>2. \A t \in Streams : queue[t] \in Seq(SentEntries(t)') /\ replies[t] \in Seq(SentEntries(t)')
    BY <1>4, <1>7, LargerSeq
  <2> QED BY <2>1, <2>2 DEF NothingIsAhead
<1>9. ASSUME NEW t \in mHas, NEW b \in BuffersOf(t)
      PROVE  Placed(inbox', queue', replies', decoder', t, b)
  <2>1. t \in Streams /\ b \in Buffers
    BY <1>0, BuffersAre
  <2>2. CASE t = s
    <3> DEFINE g == decoder'[s].gen
               e == [buffer |-> b, gen |-> g]
               m == Msg("QueueBuffer", s, b, g)
    <3>1. decoder[s].gen \in Nat /\ g = decoder[s].gen + 1
      BY <1>1
    <3>2. m \notin SentMessages /\ e \notin SentEntries(s)
      BY <3>1 DEF SentMessages, SentEntries, QueueWhat, Msg
    <3> HIDE DEF e, m
    <3>3. /\ inbox' \in Seq(SentMessages)
          /\ queue[s] \in Seq(SentEntries(s)) /\ replies[s] \in Seq(SentEntries(s))
      BY <1>6, <1>7
    <3>4. /\ \A i \in DOMAIN (inbox') : inbox'[i] # m
          /\ \A i \in DOMAIN queue[s] : queue[s][i] # e
          /\ \A i \in DOMAIN replies[s] : replies[s][i] # e
      BY <3>2, <3>3
    <3>5. Occurrences(inbox', m) = 0 /\ Occurrences(queue[s], e) = 0 /\ Occurrences(replies[s], e) = 0
      BY <3>3, <3>4, OccurrencesType
    <3> QED BY <2>2, <3>5 DEF Placed, e, m
  <2>3. CASE t # s
    <3>1. decoder'[t].gen = decoder[t].gen /\ decoder'[t].codec = decoder[t].codec
      BY <2>1, <2>3
    <3>2. Placed(inbox, queue, replies, decoder, t, b)
      BY PlacedAre DEF BufferInv
    <3>3. Occurrences(inbox', QueueBufferMsg(t, b)) = Occurrences(inbox, QueueBufferMsg(t, b))
      BY <1>6, <2>1
    <3> QED BY <3>1, <3>2, <3>3 DEF Placed, QueueBufferMsg
  <2> QED BY <2>2, <2>3
<1>10. BuffersConserved'
  BY <1>0, <1>9, PlacedAre
<1> QED BY <1>8, <1>10 DEF BufferInv

LEMMA FlushDecoderPassesOn ==
    ASSUME TypeOK, TypeOK', BufferInv, NEW s \in Streams, FlushDecoder(s)
    PROVE  BufferInv'
<1> DEFINE more == FlushMsgs({s})
<1>1. /\ inbox' = inbox \o more /\ UNCHANGED <<mHas, queue, replies>>
      /\ decoder' = [decoder EXCEPT ![s].codec = BuffersOf(s), ![s].gen = @ + 1,
                                    ![s].ended = FALSE, ![s].paused = TRUE,
                                    ![s].flushDue = FALSE]
  BY Zenon DEF FlushDecoder
<1>2. decoder \in [Streams -> DecoderState]
  BY DEF TypeOK, DecoderTypeOK
<1>3. /\ decoder'[s].gen = decoder[s].gen + 1 /\ decoder'[s].codec = BuffersOf(s)
      /\ \A t \in Streams \ {s} : decoder'[t] = decoder[t]
  BY <1>1, <1>2 DEF DecoderState
<1>4. more \in Seq(Message) /\ \A i \in DOMAIN more : more[i].what \notin QueueWhat
  BY FlushMsgsType, FlushMsgsAre DEF Msg, QueueWhat
<1> HIDE DEF more
<1> QED BY <1>1, <1>3, <1>4, StartedAnew

LEMMA TearDownEndsPassesOn ==
    ASSUME TypeOK, TypeOK', BufferInv, TearDownEnds
    PROVE  BufferInv'
<1> DEFINE flushes == FlushMsgs(mHas)
           last == <<Signal("DisableOffloadAudio")>>
           more == flushes \o last
           s == "audio"
<1>1. /\ inbox' = inbox \o flushes \o last /\ UNCHANGED <<mHas, queue, replies>>
      /\ decoder' = [decoder EXCEPT !["audio"] = NewDecoder("audio", @.gen + 1, FALSE)]
  BY Zenon DEF TearDownEnds
<1>2. decoder \in [Streams -> DecoderState] /\ s \in Streams
  BY DEF TypeOK, DecoderTypeOK, Streams
<1>3. /\ decoder'[s].gen = decoder[s].gen + 1 /\ decoder'[s].codec = BuffersOf(s)
      /\ \A t \in Streams \ {s} : decoder'[t] = decoder[t]
  BY <1>1, <1>2 DEF NewDecoder
<1>4. /\ flushes \in Seq(Message) /\ last \in Seq(Message)
      /\ \A i \in DOMAIN flushes : flushes[i].what \notin QueueWhat
      /\ \A i \in DOMAIN last : last[i].what \notin QueueWhat
  <2>1. Signal("DisableOffloadAudio") \in Message /\ Signal("DisableOffloadAudio").what \notin QueueWhat
    BY MessageTypes DEF SignalWhat, QueueWhat, Signal, Msg
  <2>2. flushes \in Seq(Message) /\ \A i \in DOMAIN flushes : flushes[i].what \notin QueueWhat
    BY FlushMsgsType, FlushMsgsAre DEF Msg, QueueWhat
  <2> HIDE DEF flushes
  <2> QED BY <2>1, <2>2
<1> HIDE DEF flushes, last
<1>5. more \in Seq(Message) /\ \A i \in DOMAIN more : more[i].what \notin QueueWhat
  <2>1. \A i \in DOMAIN more :
           \/ i \in DOMAIN flushes /\ more[i] = flushes[i]
           \/ i - Len(flushes) \in DOMAIN last /\ more[i] = last[i - Len(flushes)]
    BY <1>4
  <2>2. more \in Seq(Message)
    BY <1>4
  <2> QED BY <1>4, <2>1, <2>2
<1>6. inbox' = inbox \o more
  BY <1>1, <1>4 DEF TypeOK, LooperTypeOK
<1> HIDE DEF more, s
<1> QED BY <1>1, <1>2, <1>3, <1>5, <1>6, StartedAnew

LEMMA OutputBufferPassesOn ==
    ASSUME TypeOK, TypeOK', BufferInv, NEW s \in Streams, OutputBuffer(s)
    PROVE  BufferInv'
<1>0. mHas \subseteq Streams /\ \A t : BuffersOf(t)' = BuffersOf(t)
  BY TracksAssumption, SameBuffers DEF TypeOK, OutputBuffer
<1>1. PICK o \in decoder[s].codec :
         \/ /\ inbox' = Append(inbox, QueueBufferMsg(s, o))
            /\ decoder' = [decoder EXCEPT ![s].codec = @ \ {o}]
         \/ /\ inbox' = inbox \o <<QueueBufferMsg(s, o), QueueEOSMsg(s)>>
            /\ decoder' = [decoder EXCEPT ![s].codec = @ \ {o}, ![s].ended = TRUE]
  BY Zenon DEF OutputBuffer
<1>2. decoder \in [Streams -> DecoderState] /\ o \in Buffers
  <2>1. decoder \in [Streams -> DecoderState]
    BY DEF TypeOK, DecoderTypeOK
  <2> QED BY <2>1, GenerationsAre
<1>3. /\ \A t \in Streams : decoder'[t].gen = decoder[t].gen
      /\ \A t \in Streams : decoder'[t].codec = decoder[t].codec \ (IF t = s THEN {o} ELSE {})
  <2>1. CASE decoder' = [decoder EXCEPT ![s].codec = @ \ {o}]
    BY <1>2, <2>1 DEF DecoderState
  <2>2. CASE decoder' = [decoder EXCEPT ![s].codec = @ \ {o}, ![s].ended = TRUE]
    BY <1>2, <2>2 DEF DecoderState
  <2> QED BY <1>1, <2>1, <2>2
<1> DEFINE m == QueueBufferMsg(s, o)
           e == QueueEOSMsg(s)
<1>4. m \in SentMessages
  <2>1. decoder[s].gen \in Nat
    BY GenerationsAre
  <2>2. Msg("QueueBuffer", s, o, decoder[s].gen) \in Message
    BY <1>2, <2>1, MessageTypes DEF DataWhat
  <2> QED BY <2>1, <2>2 DEF QueueBufferMsg, SentMessages, Msg
<1>5. e \in SentMessages /\ e.what # "QueueBuffer"
  BY EndsAreSent
<1>6. inbox' = Append(inbox, m) \/ inbox' = inbox \o <<m, e>>
  BY <1>1
<1> HIDE DEF m, e
<1>7. inbox \in Seq(SentMessages)
  BY DEF BufferInv, NothingIsAhead
<1>8. /\ inbox' \in Seq(SentMessages)
      /\ \A x : x.what = "QueueBuffer" =>
            Occurrences(inbox', x) = Occurrences(inbox, x) + (IF m = x THEN 1 ELSE 0)
  <2>1. \A x : Occurrences(inbox, x) \in Nat
    BY <1>7, OccurrencesType
  <2>2. CASE inbox' = Append(inbox, m)
    BY <1>4, <1>7, <2>2, OccurrencesAppend
  <2>3. CASE inbox' = inbox \o <<m, e>>
    <3> DEFINE both == inbox \o <<m, e>>
    <3>1. /\ both \in Seq(SentMessages)
          /\ \A x : Occurrences(both, x)
                = Occurrences(inbox, x) + (IF m = x THEN 1 ELSE 0) + (IF e = x THEN 1 ELSE 0)
      BY <1>4, <1>5, <1>7, OccurrencesAppendTwo
    <3>2. inbox' = both
      BY <2>3
    <3> HIDE DEF both
    <3>3. ASSUME NEW x, x.what = "QueueBuffer"
          PROVE  Occurrences(both, x) = Occurrences(inbox, x) + (IF m = x THEN 1 ELSE 0)
      <4>1. e # x
        BY <1>5, <3>3
      <4>2. Occurrences(both, x)
              = Occurrences(inbox, x) + (IF m = x THEN 1 ELSE 0) + (IF e = x THEN 1 ELSE 0)
        BY <3>1
      <4>3. CASE m = x
        BY <2>1, <4>1, <4>2, <4>3
      <4>4. CASE m # x
        BY <2>1, <4>1, <4>2, <4>4
      <4> QED BY <4>3, <4>4
    <3> QED BY <3>1, <3>2, <3>3
  <2> QED BY <1>6, <2>2, <2>3
<1>9. NothingIsAhead'
  <2>1. Message' = Message /\ Entry' = Entry /\ \A x \in Message : x.stream \in Streams
    BY SameBuffers, MessageFields DEF OutputBuffer
  <2>2. SentMessages' = SentMessages /\ \A t \in Streams : SentEntries(t)' = SentEntries(t)
    BY <1>3, <2>1 DEF SentMessages, SentEntries
  <2>3. UNCHANGED <<queue, replies>>
    BY DEF OutputBuffer, rendererVars
  <2> QED BY <1>8, <2>2, <2>3 DEF BufferInv, NothingIsAhead
<1>10. ASSUME NEW t \in mHas, NEW b \in BuffersOf(t)
       PROVE  Placed(inbox', queue', replies', decoder', t, b)
  <2>1. t \in Streams /\ b \in Buffers
    BY <1>0, BuffersAre
  <2> DEFINE x == Msg("QueueBuffer", t, b, decoder[t].gen)
             f == [buffer |-> b, gen |-> decoder[t].gen]
             i == Occurrences(inbox, x)
             j == Occurrences(queue[t], f)
             k == Occurrences(replies[t], f)
  <2>2. i \in Nat /\ j \in Nat /\ k \in Nat
    BY <2>1, OccurrencesAre
  <2>3. i + j + k = IF b \in decoder[t].codec THEN 0 ELSE 1
    BY PlacedAre DEF BufferInv, Placed
  <2>4. UNCHANGED <<queue, replies>> /\ decoder'[t].gen = decoder[t].gen
    BY <1>3, <2>1 DEF OutputBuffer, rendererVars
  <2>5. Occurrences(inbox', x) = i + (IF m = x THEN 1 ELSE 0)
    BY <1>8 DEF Msg
  <2>6. m = x <=> (t = s /\ b = o)
    BY DEF m, QueueBufferMsg, Msg
  <2>7. Placed(inbox', queue', replies', decoder', t, b) <=>
           Occurrences(inbox', x) + j + k = IF b \in decoder'[t].codec THEN 0 ELSE 1
    BY <2>4 DEF Placed
  <2> HIDE DEF x, i, j, k
  <2>8. CASE t = s /\ b = o
    <3>1. b \in decoder[t].codec /\ b \notin decoder'[t].codec
      BY <1>3, <2>1, <2>8
    <3> QED BY <2>2, <2>3, <2>5, <2>6, <2>7, <2>8, <3>1
  <2>9. CASE ~(t = s /\ b = o)
    <3>1. b \in decoder[t].codec <=> b \in decoder'[t].codec
      BY <1>3, <2>1, <2>9
    <3> QED BY <2>2, <2>3, <2>5, <2>6, <2>7, <2>9, <3>1
  <2> QED BY <2>8, <2>9
<1>11. BuffersConserved'
  BY <1>0, <1>10, PlacedAre DEF OutputBuffer
<1> QED BY <1>9, <1>11 DEF BufferInv

LEMMA RenderBufferPassesOn ==
    ASSUME TypeOK, TypeOK', BufferInv, NEW s \in Streams, RenderBuffer(s)
    PROVE  BufferInv'
<1> DEFINE r == replies[s]
           h == Head(r)
           rest == Tail(r)
<1>1. /\ r # <<>> /\ replies' = [replies EXCEPT ![s] = Tail(r)]
      /\ decoder' = IF h.gen = decoder[s].gen
                    THEN [decoder EXCEPT ![s].codec = @ \cup {h.buffer}] ELSE decoder
      /\ UNCHANGED <<mHas, inbox, queue>>
  BY DEF RenderBuffer, rendererVars
<1>0. mHas \subseteq Streams /\ \A t : BuffersOf(t)' = BuffersOf(t)
  BY <1>1, TracksAssumption, SameBuffers DEF TypeOK
<1>2. /\ decoder \in [Streams -> DecoderState] /\ replies \in [Streams -> Seq(BufferEntry)]
      /\ r \in Seq(SentEntries(s)) /\ r \in Seq(BufferEntry)
  BY DEF TypeOK, DecoderTypeOK, BufferInv, NothingIsAhead
<1> HIDE DEF r
<1>3. h \in BufferEntry /\ rest \in Seq(SentEntries(s))
  BY <1>1, <1>2
<1>4. \A x : Occurrences(r, x) = Occurrences(rest, x) + (IF h = x THEN 1 ELSE 0)
  BY <1>1, <1>2, OccurrencesTail
<1>5. \A x : Occurrences(rest, x) \in Nat
  BY <1>3, OccurrencesType
<1> HIDE DEF h, rest
<1>6. /\ \A t \in Streams : decoder'[t].gen = decoder[t].gen
      /\ \A t \in Streams : decoder'[t].codec = decoder[t].codec \cup
            (IF t = s /\ h.gen = decoder[s].gen THEN {h.buffer} ELSE {})
  <2>1. CASE h.gen = decoder[s].gen
    BY <1>1, <1>2, <2>1 DEF DecoderState
  <2>2. CASE h.gen # decoder[s].gen
    BY <1>1, <2>2
  <2> QED BY <2>1, <2>2
<1>7. \A t \in Streams : replies'[t] = IF t = s THEN rest ELSE replies[t]
  BY <1>1, <1>2 DEF rest
<1>8. NothingIsAhead'
  <2>1. Message' = Message /\ Entry' = Entry /\ \A x \in Message : x.stream \in Streams
    BY <1>1, SameBuffers, MessageFields
  <2>2. SentMessages' = SentMessages /\ \A t \in Streams : SentEntries(t)' = SentEntries(t)
    BY <1>6, <2>1 DEF SentMessages, SentEntries
  <2> QED BY <1>1, <1>3, <1>7, <2>2 DEF BufferInv, NothingIsAhead
<1>9. ASSUME NEW t \in mHas, NEW b \in BuffersOf(t)
      PROVE  Placed(inbox', queue', replies', decoder', t, b)
  <2>1. t \in Streams /\ b \in Buffers
    BY <1>0, BuffersAre
  <2> DEFINE x == Msg("QueueBuffer", t, b, decoder[t].gen)
             f == [buffer |-> b, gen |-> decoder[t].gen]
             i == Occurrences(inbox, x)
             j == Occurrences(queue[t], f)
             k == Occurrences(replies[t], f)
             l == Occurrences(rest, f)
  <2>2. i \in Nat /\ j \in Nat /\ k \in Nat /\ l \in Nat
    BY <1>5, <2>1, OccurrencesAre
  <2>3. i + j + k = IF b \in decoder[t].codec THEN 0 ELSE 1
    BY PlacedAre DEF BufferInv, Placed
  <2>4. h = f <=> (h.buffer = b /\ h.gen = decoder[t].gen)
    BY <1>3 DEF BufferEntry
  <2>5. Placed(inbox', queue', replies', decoder', t, b) <=>
           i + j + (IF t = s THEN l ELSE k) = IF b \in decoder'[t].codec THEN 0 ELSE 1
    BY <1>1, <1>6, <1>7, <2>1 DEF Placed
  <2>6. t = s => k = l + (IF h = f THEN 1 ELSE 0)
    BY <1>4 DEF r
  <2> HIDE DEF f, i, j, k, l
  <2>7. CASE t = s /\ h = f
    <3>1. b \in decoder'[t].codec
      BY <1>6, <2>1, <2>4, <2>7
    <3>2. k = l + 1
      BY <2>6, <2>7
    <3>3. i + j + l = 0
      BY <2>2, <2>3, <3>2
    <3> QED BY <2>5, <2>7, <3>1, <3>3
  <2>8. CASE t = s /\ h # f
    <3>1. b \in decoder[t].codec <=> b \in decoder'[t].codec
      BY <1>6, <2>1, <2>4, <2>8
    <3>2. k = l
      BY <2>2, <2>6, <2>8
    <3> QED BY <2>3, <2>5, <2>8, <3>1, <3>2
  <2>9. CASE t # s
    <3>1. b \in decoder[t].codec <=> b \in decoder'[t].codec
      BY <1>6, <2>1, <2>9
    <3> QED BY <2>3, <2>5, <2>9, <3>1
  <2> QED BY <2>7, <2>8, <2>9
<1>10. BuffersConserved'
  BY <1>0, <1>1, <1>9, PlacedAre
<1> QED BY <1>8, <1>10 DEF BufferInv

LEMMA BufferStep ==
    ASSUME TypeOK, TypeOK', BufferInv, [Next]_vars
    PROVE  BufferInv'
<1> USE DEF rendererVars, decoderVars, playerVars
<1>1. CASE RendererNext
  BY <1>1, TimerDuePassesOn, DropPassesOn, QueuesPassOn, QueueAndComparePassesOn, DrainsPassOn,
    MessagesPassOn, FlushPassesOn, OpenAudioSinkPassesOn DEF RendererNext
<1>2. CASE SinkNext
  <2>1. CASE StreamEnd
    BY <2>1, NothingTaken, Untouched DEF StreamEnd
  <2>2. CASE SinkLost
    BY <2>2, OnlySignalled, Untouched DEF SinkLost, SignalWhat
  <2> QED BY <1>2, <2>1, <2>2, FillAudioBufferPassesOn DEF SinkNext
<1>3. CASE DecoderNext
  BY <1>3, OutputBufferPassesOn, RenderBufferPassesOn, FlushDecoderPassesOn, PassThroughEOSPassesOn,
    FormatChangedPassesOn DEF DecoderNext
<1>4. CASE PlayerNext
  <2>1. CASE ClientPauses \/ ClientResumes \/ TearDownBegins
    <3>1. PICK w \in {"Pause", "Resume", "CloseAudioSink"} :
             inbox' = Append(inbox, Signal(w)) /\ UNCHANGED <<mHas, queue, replies, decoder>>
      BY <2>1 DEF ClientPauses, ClientResumes, TearDownBegins
    <3>2. w \in SignalWhat
      BY DEF SignalWhat
    <3> QED BY <3>1, <3>2, OnlySignalled, Untouched
  <2> QED BY <1>4, <2>1, SeeksPassOn, TearDownEndsPassesOn DEF PlayerNext
<1>5. CASE UNCHANGED vars
  BY <1>5, NothingTaken, Untouched DEF vars
<1> QED BY <1>1, <1>2, <1>3, <1>4, <1>5 DEF Next

LEMMA BuffersAtFirst ==
    ASSUME Init, TypeOK
    PROVE  BufferInv
<1>1. /\ inbox = <<>> /\ queue = [s \in Streams |-> <<>>] /\ replies = [s \in Streams |-> <<>>]
      /\ decoder = [s \in Streams |-> NewDecoder(s, 0, s = "audio" /\ mOffload)]
      /\ mHas \subseteq Streams
  BY TracksAssumption DEF Init
<1>2. \A s \in Streams : queue[s] = <<>> /\ replies[s] = <<>> /\ decoder[s].codec = BuffersOf(s)
  BY <1>1 DEF NewDecoder
<1>3. NothingIsAhead
  BY <1>1, <1>2 DEF NothingIsAhead
<1>4. \A x : Occurrences(<<>>, x) = 0
  BY OccurrencesOne, Zenon
<1>5. \A s \in mHas : \A b \in BuffersOf(s) : Placed(inbox, queue, replies, decoder, s, b)
  BY <1>1, <1>2, <1>4 DEF Placed
<1> QED BY <1>3, <1>5, PlacedAre DEF BufferInv

\* Every output buffer of a codec is with the codec or in one place, for every number
\* of buffers and any number of pauses, seeks and tear downs: what the renderer
\* drains, drops or flushes goes back to the decoder that sent it, once.
THEOREM BuffersAreConserved == Spec => []BuffersConserved
<1>1. Init => TypeOK /\ BufferInv
  BY InitType, BuffersAtFirst
<1>2. TypeOK /\ BufferInv /\ [Next]_vars => (TypeOK /\ BufferInv)'
  BY TypeStep, BufferStep
<1>3. TypeOK /\ BufferInv => BuffersConserved
  BY DEF BufferInv
<1> QED BY <1>1, <1>2, <1>3, PTL DEF Spec

-----------------------------------------------------------------------------
(* What a queue holds is of its decoder's position.                         *)

DataOf(s, m) == m.what \in {"QueueBuffer", "QueueEOS", "Flush"} /\ m.stream = s

\* All that is on its way for s is of generation g, and no flush.
Fresh(in, s, g) ==
    \A i \in DOMAIN in : DataOf(s, in[i]) => in[i].what # "Flush" /\ in[i].gen = g

\* One flush of s is on its way, behind all the data.
BehindData(in, s, i) ==
    /\ in[i].what = "Flush" /\ in[i].stream = s
    /\ \A j \in DOMAIN in : DataOf(s, in[j]) => j <= i /\ (in[j].what = "Flush" => j = i)
FlushBehind(in, s) == \E i \in DOMAIN in : BehindData(in, s, i)

OfGen(q, g) == \A i \in DOMAIN q : q[i].gen = g

\* A decoder that has flushed puts nothing out until the renderer has, and the
\* renderer is asked for no second flush before the player's next seek.
PositionOf(s) ==
    /\ ~mFlushing[s] => Fresh(inbox, s, decoder[s].gen) /\ OfGen(queue[s], decoder[s].gen)
    /\ mFlushing[s] => /\ decoder[s].paused /\ ~decoder[s].flushDue
                       /\ seeking /\ FlushBehind(inbox, s)
    /\ mFlushing[s] \/ decoder[s].flushDue => seeking /\ s \notin answered

PositionInv ==
    ~mTornDown =>
        /\ player = "idle" /\ ~tearDownTold
        /\ \A s \in mHas : PositionOf(s)

\* What a step leaves of an inbox: messages taken but for a flush, or posted by
\* decoders that run.
DataIsFresh(ms) ==
    \A s \in mHas : \A i \in DOMAIN ms :
        DataOf(s, ms[i]) => ~decoder[s].paused /\ ms[i].what # "Flush" /\ ms[i].gen = decoder[s].gen

LEMMA FreshTaken ==
    ASSUME NEW in \in Seq(Message), in # <<>>, NEW s, NEW g, Fresh(in, s, g)
    PROVE  /\ Fresh(Tail(in), s, g)
           /\ DataOf(s, Head(in)) => Head(in).gen = g
<1>1. /\ DOMAIN in = 1 .. Len(in) /\ Len(in) \in Nat \ {0} /\ DOMAIN Tail(in) = 1 .. Len(in) - 1
      /\ \A i \in DOMAIN Tail(in) : i + 1 \in DOMAIN in /\ Tail(in)[i] = in[i + 1]
      /\ Head(in) = in[1] /\ 1 \in DOMAIN in
  OBVIOUS
<1> QED BY <1>1 DEF Fresh

LEMMA BehindTaken ==
    ASSUME NEW in \in Seq(Message), in # <<>>, NEW s, FlushBehind(in, s)
    PROVE  /\ Head(in).what # "Flush" \/ Head(in).stream # s => FlushBehind(Tail(in), s)
           /\ Head(in).what = "Flush" /\ Head(in).stream = s => \A g : Fresh(Tail(in), s, g)
<1>1. /\ DOMAIN in = 1 .. Len(in) /\ Len(in) \in Nat \ {0} /\ DOMAIN Tail(in) = 1 .. Len(in) - 1
      /\ \A i \in DOMAIN Tail(in) : i + 1 \in DOMAIN in /\ Tail(in)[i] = in[i + 1]
      /\ Head(in) = in[1] /\ 1 \in DOMAIN in
  OBVIOUS
<1>2. PICK i \in DOMAIN in : BehindData(in, s, i)
  BY DEF FlushBehind
<1>3. ASSUME Head(in).what # "Flush" \/ Head(in).stream # s
      PROVE  FlushBehind(Tail(in), s)
  <2>1. i # 1 /\ i - 1 \in DOMAIN Tail(in) /\ Tail(in)[i - 1] = in[i]
    BY <1>1, <1>2, <1>3 DEF BehindData
  <2>2. \A j \in DOMAIN Tail(in) : DataOf(s, Tail(in)[j]) =>
            j <= i - 1 /\ (Tail(in)[j].what = "Flush" => j = i - 1)
    BY <1>1, <1>2 DEF BehindData
  <2> QED BY <1>2, <2>1, <2>2 DEF FlushBehind, BehindData
<1>4. ASSUME Head(in).what = "Flush", Head(in).stream = s, NEW g
      PROVE  Fresh(Tail(in), s, g)
  <2>1. i = 1
    BY <1>1, <1>2, <1>4 DEF BehindData, DataOf
  <2> QED BY <1>1, <1>2, <2>1 DEF BehindData, Fresh
<1> QED BY <1>3, <1>4

LEMMA PostedPlaces ==
    ASSUME NEW in \in Seq(Message), NEW ms \in Seq(Message)
    PROVE  /\ \A i \in DOMAIN (in \o ms) :
                 \/ i \in DOMAIN in /\ (in \o ms)[i] = in[i]
                 \/ \E k \in DOMAIN ms : i = Len(in) + k /\ (in \o ms)[i] = ms[k]
           /\ \A i \in DOMAIN in : i \in DOMAIN (in \o ms) /\ (in \o ms)[i] = in[i]
           /\ \A k \in DOMAIN ms : Len(in) + k \in DOMAIN (in \o ms) /\ (in \o ms)[Len(in) + k] = ms[k]
           /\ Len(in) \in Nat /\ DOMAIN in = 1 .. Len(in) /\ DOMAIN ms \subseteq Nat \ {0}
  OBVIOUS

LEMMA FreshPosted ==
    ASSUME NEW in \in Seq(Message), NEW ms \in Seq(Message), NEW s, NEW g,
           Fresh(in, s, g), Fresh(ms, s, g)
    PROVE  Fresh(in \o ms, s, g)
  BY PostedPlaces DEF Fresh

LEMMA BehindPosted ==
    ASSUME NEW in \in Seq(Message), NEW ms \in Seq(Message), NEW s,
           FlushBehind(in, s), \A k \in DOMAIN ms : ~DataOf(s, ms[k])
    PROVE  FlushBehind(in \o ms, s)
<1>1. PICK i \in DOMAIN in : BehindData(in, s, i)
  BY DEF FlushBehind
<1> DEFINE both == in \o ms
<1>2. i \in DOMAIN both /\ both[i] = in[i]
  BY PostedPlaces
<1>3. \A j \in DOMAIN both : DataOf(s, both[j]) => j \in DOMAIN in /\ both[j] = in[j]
  BY PostedPlaces
<1> HIDE DEF both
<1>4. BehindData(both, s, i)
  BY <1>1, <1>2, <1>3 DEF BehindData
<1> QED BY <1>2, <1>4 DEF FlushBehind, both

LEMMA BehindFlushed ==
    ASSUME NEW in \in Seq(Message), NEW s, NEW g, NEW m \in Message, Fresh(in, s, g),
           m.what = "Flush", m.stream = s
    PROVE  FlushBehind(Append(in, m), s)
<1> DEFINE both == Append(in, m)
           n == Len(in) + 1
<1>1. /\ n \in DOMAIN both /\ both[n] = m
      /\ \A j \in DOMAIN both : j = n \/ (j \in DOMAIN in /\ both[j] = in[j])
      /\ \A j \in DOMAIN in : j <= n
      /\ n <= n
  OBVIOUS
<1> HIDE DEF both, n
<1>2. \A j \in DOMAIN both : DataOf(s, both[j]) => j <= n /\ (both[j].what = "Flush" => j = n)
  BY <1>1 DEF Fresh
<1> QED BY <1>1, <1>2 DEF FlushBehind, BehindData, both
-----------------------------------------------------------------------------
(* What a queue holds, step by step.                                        *)

SamePositions ==
    /\ UNCHANGED <<mHas, mFlushing, answered, seeking, player, tearDownTold, mTornDown>>
    /\ \A s \in mHas : /\ decoder'[s].gen = decoder[s].gen
                       /\ decoder'[s].paused = decoder[s].paused
                       /\ decoder'[s].flushDue = decoder[s].flushDue

\* What is queued was queued before, or comes in for a stream that is not flushing.
NoOtherQueued ==
    \A s \in mHas : \A i \in DOMAIN queue'[s] :
        \/ \E j \in DOMAIN queue[s] : queue'[s][i].gen = queue[s][j].gen
        \/ /\ inbox # <<>> /\ DataOf(s, Head(inbox)) /\ ~mFlushing[s]
           /\ queue'[s][i].gen = Head(inbox).gen

NoOtherDue ==
    \/ inbox' = inbox
    \/ inbox # <<>> /\ Head(inbox).what # "Flush" /\ inbox' = Tail(inbox)
    \/ \E ms \in Seq(Message) : DataIsFresh(ms) /\ inbox' = inbox \o ms

LEMMA QueuesOfOneGeneration ==
    ASSUME TypeOK, NoOtherQueued, NEW s \in mHas, NEW g,
           Fresh(inbox, s, g), OfGen(queue[s], g)
    PROVE  OfGen(queue'[s], g)
<1>1. inbox \in Seq(Message)
  BY DEF TypeOK, LooperTypeOK
<1>2. inbox # <<>> /\ DataOf(s, Head(inbox)) => Head(inbox).gen = g
  BY <1>1, FreshTaken
<1> QED BY <1>2 DEF OfGen, NoOtherQueued

LEMMA DueStaysFresh ==
    ASSUME TypeOK, NoOtherDue, NEW s \in mHas, Fresh(inbox, s, decoder[s].gen)
    PROVE  Fresh(inbox', s, decoder[s].gen)
<1>1. inbox \in Seq(Message)
  BY DEF TypeOK, LooperTypeOK
<1>2. CASE inbox' = inbox
  BY <1>2
<1>3. CASE inbox # <<>> /\ inbox' = Tail(inbox)
  BY <1>1, <1>3, FreshTaken
<1>4. ASSUME NEW ms \in Seq(Message), DataIsFresh(ms), inbox' = inbox \o ms
      PROVE  Fresh(inbox', s, decoder[s].gen)
  <2>1. Fresh(ms, s, decoder[s].gen)
    BY <1>4 DEF DataIsFresh, Fresh
  <2> QED BY <1>1, <1>4, <2>1, FreshPosted
<1> QED BY <1>2, <1>3, <1>4 DEF NoOtherDue

LEMMA FlushStaysBehind ==
    ASSUME TypeOK, NoOtherDue, NEW s \in mHas, decoder[s].paused, FlushBehind(inbox, s)
    PROVE  FlushBehind(inbox', s)
<1>1. inbox \in Seq(Message)
  BY DEF TypeOK, LooperTypeOK
<1>2. CASE inbox' = inbox
  BY <1>2
<1>3. CASE inbox # <<>> /\ Head(inbox).what # "Flush" /\ inbox' = Tail(inbox)
  BY <1>1, <1>3, BehindTaken
<1>4. ASSUME NEW ms \in Seq(Message), DataIsFresh(ms), inbox' = inbox \o ms
      PROVE  FlushBehind(inbox', s)
  <2>1. \A i \in DOMAIN ms : ~DataOf(s, ms[i])
    BY <1>4 DEF DataIsFresh
  <2> QED BY <1>1, <1>4, <2>1, BehindPosted
<1> QED BY <1>2, <1>3, <1>4 DEF NoOtherDue

LEMMA PositionKept ==
    ASSUME TypeOK, PositionInv, SamePositions, NoOtherQueued, NoOtherDue
    PROVE  PositionInv'
<1> SUFFICES ASSUME ~mTornDown
             PROVE  PositionInv'
  BY DEF PositionInv, SamePositions
<1>1. /\ player = "idle" /\ ~tearDownTold
      /\ UNCHANGED <<mHas, mFlushing, answered, seeking, player, tearDownTold, mTornDown>>
  BY DEF PositionInv, SamePositions
<1>2. ASSUME NEW s \in mHas
      PROVE  PositionOf(s)'
  <2>1. /\ PositionOf(s)
        /\ decoder'[s].gen = decoder[s].gen
        /\ decoder'[s].paused = decoder[s].paused
        /\ decoder'[s].flushDue = decoder[s].flushDue
    BY <1>2 DEF PositionInv, SamePositions
  <2>2. ~mFlushing[s] => /\ Fresh(inbox', s, decoder[s].gen)
                         /\ OfGen(queue'[s], decoder[s].gen)
    BY <1>2, <2>1, QueuesOfOneGeneration, DueStaysFresh DEF PositionOf
  <2>3. mFlushing[s] => FlushBehind(inbox', s)
    BY <1>2, <2>1, FlushStaysBehind DEF PositionOf
  <2> QED BY <1>1, <2>1, <2>2, <2>3 DEF PositionOf
<1> QED BY <1>1, <1>2 DEF PositionInv

LEMMA QueuesLeft ==
    ASSUME UNCHANGED queue
    PROVE  NoOtherQueued
  BY DEF NoOtherQueued

LEMMA NoDataPosted ==
    ASSUME TypeOK, NEW m \in Message, m.what \notin {"QueueBuffer", "QueueEOS", "Flush"},
           inbox' = Append(inbox, m)
    PROVE  NoOtherDue
<1>1. inbox \in Seq(Message)
  BY DEF TypeOK, LooperTypeOK
<1>2. <<m>> \in Seq(Message) /\ inbox' = inbox \o <<m>> /\ \A i \in DOMAIN <<m>> : <<m>>[i] = m
  BY <1>1
<1>3. DataIsFresh(<<m>>)
  BY <1>2 DEF DataIsFresh, DataOf
<1> QED BY <1>2, <1>3 DEF NoOtherDue

LEMMA OtherIsTaken ==
    ASSUME TypeOK, NEW w, w # "Flush", Take(w)
    PROVE  NoOtherDue
  BY TakeType DEF NoOtherDue

LEMMA RestOfQueue ==
    ASSUME TypeOK, NEW t \in Streams, NEW k \in 0 .. Len(queue[t]),
           queue' = [queue EXCEPT ![t] = Rest(t, k)]
    PROVE  NoOtherQueued
<1>1. queue \in [Streams -> Seq(Entry)] /\ queue[t] \in Seq(Entry) /\ mHas \subseteq Streams
  BY TracksAssumption DEF TypeOK, RendererTypeOK
<1>2. queue'[t] = SubSeq(queue[t], k + 1, Len(queue[t]))
  BY <1>1 DEF Rest
<1> DEFINE q == queue[t]
<1> HIDE DEF q
<1>3. q \in Seq(Entry) /\ k \in 0 .. Len(q)
  BY <1>1 DEF q
<1>4. \A i \in DOMAIN SubSeq(q, k + 1, Len(q)) :
         \E j \in DOMAIN q : SubSeq(q, k + 1, Len(q))[i] = q[j]
  <2>1. SUFFICES ASSUME NEW i \in DOMAIN SubSeq(q, k + 1, Len(q))
                 PROVE  \E j \in DOMAIN q : SubSeq(q, k + 1, Len(q))[i] = q[j]
    OBVIOUS
  <2>2. k + i \in DOMAIN q /\ SubSeq(q, k + 1, Len(q))[i] = q[k + i]
    BY <1>3
  <2> QED BY <2>2
<1>5. \A i \in DOMAIN queue'[t] : \E j \in DOMAIN queue[t] : queue'[t][i].gen = queue[t][j].gen
  BY <1>2, <1>4 DEF q
<1>6. \A s \in Streams \ {t} : queue'[s] = queue[s]
  BY <1>1
<1> QED BY <1>1, <1>5, <1>6 DEF NoOtherQueued

LEMMA EntryIsQueued ==
    ASSUME TypeOK, inbox # <<>>, Head(inbox) \in Message,
           Head(inbox).what \in {"QueueBuffer", "QueueEOS"}, ~mFlushing[Head(inbox).stream],
           \A s \in mHas : \A i \in DOMAIN queue'[s] :
               \E j \in DOMAIN Queued(Head(inbox))[s] : queue'[s][i] = Queued(Head(inbox))[s][j]
    PROVE  NoOtherQueued
<1> DEFINE m == Head(inbox)
           t == m.stream
           e == [buffer |-> m.buffer, gen |-> m.gen]
<1>1. queue \in [Streams -> Seq(Entry)] /\ mHas \subseteq Streams
  BY TracksAssumption DEF TypeOK, RendererTypeOK
<1>2. m \in Message /\ t \in Streams /\ queue[t] \in Seq(Entry)
  BY <1>1, MessageFields
<1>3. Queued(m)[t] = Append(queue[t], e) /\ \A s \in Streams \ {t} : Queued(m)[s] = queue[s]
  BY <1>1, <1>2 DEF Queued
<1>4. e.gen = m.gen /\ DataOf(t, m)
  BY DEF DataOf
<1>5. \A j \in DOMAIN Append(queue[t], e) :
         Append(queue[t], e)[j] = e \/ \E k \in DOMAIN queue[t] : Append(queue[t], e)[j] = queue[t][k]
  BY <1>2
<1> HIDE DEF m, e
<1>6. \A s \in mHas : \A j \in DOMAIN Queued(m)[s] :
         \/ s = t /\ Queued(m)[s][j].gen = m.gen
         \/ \E k \in DOMAIN queue[s] : Queued(m)[s][j] = queue[s][k]
  <2> HIDE DEF t
  <2>1. \A j \in DOMAIN Queued(m)[t] :
           Queued(m)[t][j].gen = m.gen \/ \E k \in DOMAIN queue[t] : Queued(m)[t][j] = queue[t][k]
    BY <1>3, <1>4, <1>5, Zenon
  <2>2. \A s \in mHas \ {t} : \A j \in DOMAIN Queued(m)[s] :
           \E k \in DOMAIN queue[s] : Queued(m)[s][j] = queue[s][k]
    BY <1>1, <1>3, Zenon
  <2> QED BY <2>1, <2>2
<1>7. inbox # <<>> /\ ~mFlushing[t] /\ m = Head(inbox)
  BY DEF m
<1>8. \A s \in mHas : \A i \in DOMAIN queue'[s] :
         \E j \in DOMAIN Queued(m)[s] : queue'[s][i] = Queued(m)[s][j]
  BY DEF m
<1> HIDE DEF t
<1>9. ASSUME NEW s \in mHas, NEW i \in DOMAIN queue'[s]
      PROVE  \/ \E j \in DOMAIN queue[s] : queue'[s][i].gen = queue[s][j].gen
             \/ /\ inbox # <<>> /\ DataOf(s, Head(inbox)) /\ ~mFlushing[s]
                /\ queue'[s][i].gen = Head(inbox).gen
  <2>1. PICK j \in DOMAIN Queued(m)[s] : queue'[s][i] = Queued(m)[s][j]
    BY <1>8
  <2>2. CASE s = t /\ Queued(m)[s][j].gen = m.gen
    BY <1>4, <1>7, <2>1, <2>2
  <2>3. CASE \E k \in DOMAIN queue[s] : Queued(m)[s][j] = queue[s][k]
    BY <2>1, <2>3
  <2> QED BY <1>6, <2>2, <2>3
<1> QED BY <1>9 DEF NoOtherQueued

-----------------------------------------------------------------------------
(* What a queue holds, action by action.                                    *)

LEMMA TakenKeepsPosition ==
    ASSUME TypeOK, PositionInv, SamePositions, NEW w, w # "Flush", Take(w), UNCHANGED queue
    PROVE  PositionInv'
  BY OtherIsTaken, QueuesLeft, PositionKept

LEMMA PostedKeepsPosition ==
    ASSUME TypeOK, PositionInv, SamePositions, UNCHANGED queue, NEW m \in Message,
           m.what \notin {"QueueBuffer", "QueueEOS", "Flush"}, inbox' = Append(inbox, m)
    PROVE  PositionInv'
  BY NoDataPosted, QueuesLeft, PositionKept

LEMMA LeftKeepsPosition ==
    ASSUME TypeOK, PositionInv, SamePositions, UNCHANGED <<queue, inbox>>
    PROVE  PositionInv'
  BY QueuesLeft, PositionKept DEF NoOtherDue

LEMMA TimerDueKeepsPosition ==
    ASSUME TypeOK, PositionInv, TimerDue
    PROVE  PositionInv'
<1>1. SamePositions /\ UNCHANGED queue
  BY DEF TimerDue, SamePositions, rendererVars, playerVars, decoderVars
<1>2. PICK m \in timers : inbox' = Append(inbox, m)
  BY DEF TimerDue
<1>3. m \in Message /\ m.what \in DrainWhat
  BY <1>2, MessageTypes DEF TypeOK, LooperTypeOK, Drain, DrainWhat
<1> QED BY <1>1, <1>2, <1>3, PostedKeepsPosition DEF DrainWhat

LEMMA QueuedKeepsPosition ==
    ASSUME TypeOK, PositionInv, SamePositions, NEW w \in {"QueueBuffer", "QueueEOS"}, Take(w),
           ~mFlushing[Head(inbox).stream],
           \A s \in mHas : \A i \in DOMAIN queue'[s] :
               \E j \in DOMAIN Queued(Head(inbox))[s] : queue'[s][i] = Queued(Head(inbox))[s][j]
    PROVE  PositionInv'
<1>1. inbox # <<>> /\ Head(inbox) \in Message /\ Head(inbox).what = w
  BY TakeType
<1>2. NoOtherQueued
  BY <1>1, EntryIsQueued
<1>3. NoOtherDue
  BY OtherIsTaken
<1> QED BY <1>2, <1>3, PositionKept

LEMMA QueuesKeepPosition ==
    ASSUME TypeOK, PositionInv, QueueAndWait \/ QueueAndDrain \/ QueueEOS
    PROVE  PositionInv'
<1>1. SamePositions
  BY DEF QueueAndWait, QueueAndDrain, QueueEOS, SamePositions, playerVars, decoderVars
<1>2. PICK w \in {"QueueBuffer", "QueueEOS"} : Take(w)
  BY DEF QueueAndWait, QueueAndDrain, QueueEOS
<1>3. ~mFlushing[Head(inbox).stream] /\ queue' = Queued(Head(inbox))
  BY DEF QueueAndWait, QueueAndDrain, QueueEOS
<1> QED BY <1>1, <1>2, <1>3, QueuedKeepsPosition

LEMMA QueueAndCompareKeepsPosition ==
    ASSUME TypeOK, PositionInv, QueueAndCompare
    PROVE  PositionInv'
<1> DEFINE q == Queued(Head(inbox))
<1>1. /\ Take("QueueBuffer") /\ ~mFlushing[Head(inbox).stream]
      /\ UNCHANGED <<mHas, mFlushing, mTornDown, decoder, playerVars>>
      /\ queue' = q \/ (q["audio"] # <<>> /\ queue' = [q EXCEPT !["audio"] = Tail(@)])
  BY QueueAndCompareDoes, Zenon
<1>2. SamePositions
  BY <1>1 DEF SamePositions, playerVars
<1>3. q \in [Streams -> Seq(Entry)] /\ mHas \subseteq Streams
  BY <1>1, TakeType, QueuedType, TracksAssumption DEF TypeOK
<1> HIDE DEF q
<1>4. \A s \in mHas : \A i \in DOMAIN queue'[s] : \E j \in DOMAIN q[s] : queue'[s][i] = q[s][j]
  <2>1. CASE queue' = q
    BY <2>1
  <2>2. CASE q["audio"] # <<>> /\ queue' = [q EXCEPT !["audio"] = Tail(@)]
    <3>1. q["audio"] \in Seq(Entry)
      BY <1>3 DEF Streams
    <3>2. \A i \in DOMAIN Tail(q["audio"]) : \E j \in DOMAIN q["audio"] : Tail(q["audio"])[i] = q["audio"][j]
      <4>1. SUFFICES ASSUME NEW i \in DOMAIN Tail(q["audio"])
                     PROVE  i + 1 \in DOMAIN q["audio"] /\ Tail(q["audio"])[i] = q["audio"][i + 1]
        OBVIOUS
      <4> QED BY <2>2, <3>1
    <3>3. queue'["audio"] = Tail(q["audio"]) /\ \A s \in Streams \ {"audio"} : queue'[s] = q[s]
      BY <1>3, <2>2 DEF Streams
    <3>4. \A i \in DOMAIN queue'["audio"] : \E j \in DOMAIN q["audio"] : queue'["audio"][i] = q["audio"][j]
      BY <3>2, <3>3, Zenon
    <3>5. \A s \in mHas \ {"audio"} : \A i \in DOMAIN queue'[s] :
             \E j \in DOMAIN q[s] : queue'[s][i] = q[s][j]
      BY <1>3, <3>3, Zenon
    <3> QED BY <3>4, <3>5
  <2> QED BY <1>1, <2>1, <2>2 DEF q
<1> QED BY <1>1, <1>2, <1>4, QueuedKeepsPosition DEF q

LEMMA DrainedKeepsPosition ==
    ASSUME TypeOK, PositionInv, SamePositions, NEW w, w # "Flush", Take(w),
           NEW t \in Streams, NEW k \in 0 .. Len(queue[t]),
           queue' = [queue EXCEPT ![t] = Rest(t, k)]
    PROVE  PositionInv'
  BY OtherIsTaken, RestOfQueue, PositionKept

LEMMA DrainsKeepPosition ==
    ASSUME TypeOK, PositionInv,
           \/ DrainObsolete \/ DrainAudioBuffers \/ DrainAudioEOS \/ DrainAudioClosed
           \/ DrainVideo \/ PostDrainVideo
    PROVE  PositionInv'
<1>1. CASE DrainObsolete
  <2>1. SamePositions /\ UNCHANGED queue
    BY <1>1 DEF DrainObsolete, SamePositions, rendererVars, playerVars, decoderVars
  <2>2. PICK w \in DrainWhat : Take(w)
    BY <1>1 DEF DrainObsolete
  <2> QED BY <2>1, <2>2, TakenKeepsPosition DEF DrainWhat
<1>2. CASE DrainAudioClosed \/ PostDrainVideo
  <2>1. SamePositions /\ UNCHANGED queue
    BY <1>2 DEF DrainAudioClosed, PostDrainVideo, SamePositions, playerVars, decoderVars
  <2>2. PICK w \in DrainWhat : Take(w)
    BY <1>2 DEF DrainAudioClosed, PostDrainVideo, DrainWhat
  <2> QED BY <2>1, <2>2, TakenKeepsPosition DEF DrainWhat
<1>3. CASE DrainAudioBuffers
  <2>1. SamePositions /\ Take("DrainAudioQueue")
    BY <1>3 DEF DrainAudioBuffers, SamePositions, playerVars
  <2>2. PICK n \in 0 .. Len(queue["audio"]) : queue' = [queue EXCEPT !["audio"] = Rest("audio", n)]
    BY <1>3, Zenon DEF DrainAudioBuffers
  <2> QED BY <2>1, <2>2, DrainedKeepsPosition DEF Streams
<1>4. CASE DrainAudioEOS
  <2>1. SamePositions /\ Take("DrainAudioQueue")
    BY <1>4 DEF DrainAudioEOS, SamePositions
  <2>2. PICK n \in 0 .. Len(queue["audio"]) - 1 :
           queue' = [queue EXCEPT !["audio"] = Rest("audio", n + 1)]
    BY <1>4, Zenon DEF DrainAudioEOS
  <2>3. queue["audio"] \in Seq(Entry)
    BY DEF TypeOK, RendererTypeOK, Streams
  <2>4. n + 1 \in 0 .. Len(queue["audio"])
    BY <2>2, <2>3
  <2> QED BY <2>1, <2>2, <2>4, DrainedKeepsPosition DEF Streams
<1>5. CASE DrainVideo
  <2>1. /\ SamePositions /\ Take("DrainVideoQueue")
        /\ \E n \in 0 .. Len(queue["video"]) : queue' = [queue EXCEPT !["video"] = Rest("video", n)]
    <3>1. /\ UNCHANGED <<mHas, mFlushing, mNotifyComplete, mGeneration, mPaused, mRenderStarted,
                          mQueueInitial, mAudioEOS, mOffload, mTornDown, aborted, sinkVars,
                          decoder, player,
                          seeking, answered, flushed, tearDownTold, resumable, budget>>
          /\ Take("DrainVideoQueue")
          /\ \E n \in 0 .. Len(queue["video"]) : queue' = [queue EXCEPT !["video"] = Rest("video", n)]
      BY <1>5, DrainVideoDoes, Zenon
    <3> QED BY <3>1 DEF SamePositions
  <2> QED BY <2>1, DrainedKeepsPosition DEF Streams
<1> QED BY <1>1, <1>2, <1>3, <1>4, <1>5

LEMMA MessagesKeepPosition ==
    ASSUME TypeOK, PositionInv,
           \/ \E w \in {"QueueBuffer", "QueueEOS"} : DropWhileFlushing(w)
           \/ Pause \/ Resume \/ StopAudioSink \/ DisableOffloadAudio
    PROVE  PositionInv'
<1>1. SamePositions /\ UNCHANGED queue
  BY DEF DropWhileFlushing, Pause, Resume, StopAudioSink, DisableOffloadAudio, SamePositions, rendererVars,
    playerVars, decoderVars
<1>2. PICK w \in {"QueueBuffer", "QueueEOS", "Pause", "Resume", "StopAudioSink", "DisableOffloadAudio"} :
         Take(w)
  BY DEF DropWhileFlushing, Pause, Resume, StopAudioSink, DisableOffloadAudio
<1> QED BY <1>1, <1>2, TakenKeepsPosition

LEMMA OpenAudioSinkKeepsPosition ==
    ASSUME TypeOK, PositionInv, OpenAudioSink
    PROVE  PositionInv'
<1>1. /\ Take("OpenAudioSink") /\ UNCHANGED <<mHas, rendererVars, playerVars>>
      /\ decoder' = [decoder EXCEPT !["audio"].opening = FALSE,
                                    !["audio"].format = Head(inbox).gen]
  BY DEF OpenAudioSink
<1>2. decoder \in [Streams -> DecoderState] /\ mHas \subseteq Streams /\ "audio" \in Streams
  BY TracksAssumption DEF TypeOK, DecoderTypeOK, Streams
<1>3. \A s \in mHas : /\ decoder'[s].gen = decoder[s].gen
                      /\ decoder'[s].paused = decoder[s].paused
                      /\ decoder'[s].flushDue = decoder[s].flushDue
  BY <1>1, <1>2 DEF DecoderState
<1>4. SamePositions /\ UNCHANGED queue
  BY <1>1, <1>3 DEF SamePositions, rendererVars, playerVars
<1> QED BY <1>1, <1>4, TakenKeepsPosition

\* A tear down is past what is said of the queues.
LEMMA TearDownsKeepPosition ==
    ASSUME TypeOK, TearsDownOnce, PositionInv,
           \/ CloseAudioSink \/ AudioOffloadTearDown \/ TearDownBegins \/ TearDownEnds
    PROVE  PositionInv'
<1>1. CASE AudioOffloadTearDown
  BY <1>1 DEF AudioOffloadTearDown, PositionInv
<1>2. CASE TearDownBegins \/ TearDownEnds
  <2>1. mTornDown /\ mTornDown' = mTornDown
    BY <1>2 DEF TearDownBegins, TearDownEnds, TearsDownOnce, rendererVars
  <2> QED BY <2>1 DEF PositionInv
<1>3. CASE CloseAudioSink
  <2>1. Take("CloseAudioSink") /\ mTornDown' = mTornDown
    BY <1>3 DEF CloseAudioSink, rendererVars
  <2>2. ClosesDue > 0
    BY <2>1, SignalTaken DEF ClosesDue, SignalWhat
  <2>3. mTornDown
    BY <2>2 DEF TearsDownOnce
  <2> QED BY <2>1, <2>3 DEF PositionInv
<1> QED BY <1>1, <1>2, <1>3

LEMMA FlushKeepsPosition ==
    ASSUME TypeOK, PositionInv, Flush
    PROVE  PositionInv'
<1> SUFFICES ASSUME ~mTornDown
             PROVE  PositionInv'
  BY DEF PositionInv, Flush
<1> DEFINE t == Head(inbox).stream
<1>1. /\ Take("Flush") /\ UNCHANGED <<mHas, mTornDown, decoder, player, seeking, tearDownTold>>
      /\ mFlushing' = [mFlushing EXCEPT ![t] = FALSE]
      /\ queue' = [queue EXCEPT ![t] = <<>>]
      /\ answered' = answered \/ answered' = answered \cup {t}
  BY DEF Flush
<1>2. /\ inbox \in Seq(Message) /\ inbox # <<>> /\ inbox' = Tail(inbox)
      /\ Head(inbox) \in Message /\ Head(inbox).what = "Flush"
  BY <1>1, TakeType DEF TypeOK, LooperTypeOK
<1>3. /\ mHas \subseteq Streams /\ t \in Streams
      /\ mFlushing \in [Streams -> BOOLEAN] /\ queue \in [Streams -> Seq(Entry)]
  BY <1>2, MessageFields, TracksAssumption DEF TypeOK, RendererTypeOK
<1>4. Head(inbox).stream = t
  OBVIOUS
<1> HIDE DEF t
<1>5. /\ mFlushing'[t] = FALSE /\ queue'[t] = <<>>
      /\ \A s \in Streams \ {t} : mFlushing'[s] = mFlushing[s] /\ queue'[s] = queue[s]
  BY <1>1, <1>3
<1>6. ASSUME NEW s \in mHas, s = t
      PROVE  PositionOf(s)'
  <2>1. PositionOf(s)
    BY <1>6 DEF PositionInv
  <2>2. 1 \in DOMAIN inbox /\ inbox[1] = Head(inbox)
    BY <1>2
  <2>3. mFlushing[s]
    BY <1>2, <1>4, <1>6, <2>1, <2>2 DEF PositionOf, Fresh, DataOf
  <2>4. FlushBehind(inbox, s) /\ ~decoder[s].flushDue
    BY <2>1, <2>3 DEF PositionOf
  <2>5. Fresh(inbox', s, decoder[s].gen)
    BY <1>2, <1>4, <1>6, <2>4, BehindTaken
  <2>6. OfGen(queue'[s], decoder[s].gen)
    BY <1>5, <1>6 DEF OfGen
  <2> QED BY <1>1, <1>5, <1>6, <2>4, <2>5, <2>6 DEF PositionOf
<1>7. ASSUME NEW s \in mHas, s # t
      PROVE  PositionOf(s)'
  <2>1. PositionOf(s) /\ mFlushing'[s] = mFlushing[s] /\ queue'[s] = queue[s]
    BY <1>3, <1>5, <1>7 DEF PositionInv
  <2>2. Fresh(inbox, s, decoder[s].gen) => Fresh(inbox', s, decoder[s].gen)
    BY <1>2, FreshTaken
  <2>3. FlushBehind(inbox, s) => FlushBehind(inbox', s)
    BY <1>2, <1>4, <1>7, BehindTaken
  <2>4. s \in answered' => s \in answered
    BY <1>1, <1>7
  <2> QED BY <1>1, <2>1, <2>2, <2>3, <2>4 DEF PositionOf
<1> QED BY <1>1, <1>6, <1>7 DEF PositionInv

LEMMA SinkKeepsPosition ==
    ASSUME TypeOK, PositionInv, SinkNext
    PROVE  PositionInv'
<1>1. CASE StreamEnd
  <2>1. SamePositions /\ UNCHANGED <<queue, inbox>>
    BY <1>1 DEF StreamEnd, SamePositions, rendererVars, decoderVars
  <2> QED BY <2>1, LeftKeepsPosition
<1>2. CASE SinkLost
  <2>1. SamePositions /\ UNCHANGED queue /\ inbox' = Append(inbox, Signal("AudioOffloadTearDown"))
    BY <1>2 DEF SinkLost, SamePositions, rendererVars, decoderVars
  <2>2. Signal("AudioOffloadTearDown") \in Message /\ Signal("AudioOffloadTearDown").what = "AudioOffloadTearDown"
    BY MessageTypes DEF SignalWhat, Signal, Msg
  <2> QED BY <2>1, <2>2, PostedKeepsPosition
<1>3. CASE FillAudioBuffer
  <2>1. /\ UNCHANGED <<mHas, timers, mFlushing, mNotifyComplete, mDrainPending, mGeneration,
                       mPaused, mRenderStarted, mQueueInitial, mAudioEOS,
                       mVideoSampleReceived, mOffload, mTornDown, aborted, sinkVars, decoder,
                       playerVars>>
        /\ inbox' \in {inbox, Append(inbox, Signal("StopAudioSink"))}
        /\ \E k \in 0 .. Len(queue["audio"]) : queue' = [queue EXCEPT !["audio"] = Rest("audio", k)]
    BY <1>3, FillAudioBufferDoes, Zenon
  <2>2. Signal("StopAudioSink") \in Message /\ Signal("StopAudioSink").what = "StopAudioSink"
    BY MessageTypes DEF SignalWhat, Signal, Msg
  <2>3. NoOtherDue
    BY <2>1, <2>2, NoDataPosted DEF NoOtherDue
  <2>4. NoOtherQueued
    BY <2>1, RestOfQueue DEF Streams
  <2>5. SamePositions
    BY <2>1 DEF SamePositions, playerVars
  <2> QED BY <2>3, <2>4, <2>5, PositionKept
<1> QED BY <1>1, <1>2, <1>3 DEF SinkNext

\* A decoder that is not paused puts out data of its generation.
LEMMA DataKeepsPosition ==
    ASSUME TypeOK, PositionInv, SamePositions, UNCHANGED queue,
           NEW s \in Streams, ~decoder[s].paused, NEW ms \in Seq(Message), inbox' = inbox \o ms,
           \A i \in DOMAIN ms : ms[i].what # "Flush" /\ ms[i].stream = s /\ ms[i].gen = decoder[s].gen
    PROVE  PositionInv'
<1>1. DataIsFresh(ms)
  BY DEF DataIsFresh, DataOf
<1>2. NoOtherDue
  BY <1>1 DEF NoOtherDue
<1> QED BY <1>2, QueuesLeft, PositionKept

LEMMA OutputBufferKeepsPosition ==
    ASSUME TypeOK, PositionInv, NEW s \in Streams, OutputBuffer(s)
    PROVE  PositionInv'
<1>1. /\ UNCHANGED <<mHas, timers, rendererVars, aborted, sinkVars, replies, player,
                     seeking, answered, flushed, told, tearDownTold, resumable>>
      /\ ~decoder[s].paused /\ s \in mHas
  BY DEF OutputBuffer, PutsOut, Runs
<1>2. PICK b \in decoder[s].codec :
         \/ /\ inbox' = Append(inbox, QueueBufferMsg(s, b))
            /\ decoder' = [decoder EXCEPT ![s].codec = @ \ {b}]
         \/ /\ inbox' = inbox \o <<QueueBufferMsg(s, b), QueueEOSMsg(s)>>
            /\ decoder' = [decoder EXCEPT ![s].codec = @ \ {b}, ![s].ended = TRUE]
  BY Zenon DEF OutputBuffer
<1>3. decoder \in [Streams -> DecoderState] /\ mHas \subseteq Streams /\ inbox \in Seq(Message)
  BY TracksAssumption DEF TypeOK, DecoderTypeOK, LooperTypeOK
<1>4. \A t \in mHas : /\ decoder'[t].gen = decoder[t].gen
                      /\ decoder'[t].paused = decoder[t].paused
                      /\ decoder'[t].flushDue = decoder[t].flushDue
  <2>1. CASE decoder' = [decoder EXCEPT ![s].codec = @ \ {b}]
    BY <1>3, <2>1 DEF DecoderState
  <2>2. CASE decoder' = [decoder EXCEPT ![s].codec = @ \ {b}, ![s].ended = TRUE]
    BY <1>3, <2>2 DEF DecoderState
  <2> QED BY <1>2, <2>1, <2>2
<1>5. SamePositions /\ UNCHANGED queue
  BY <1>1, <1>4 DEF SamePositions, rendererVars
<1>6. decoder[s].gen \in Nat /\ b \in Buffers
  BY <1>2, <1>3 DEF DecoderState
<1>7. QueueBufferMsg(s, b) \in Message /\ QueueEOSMsg(s) \in Message
  BY <1>6, MessageTypes DEF QueueBufferMsg, QueueEOSMsg, DataWhat
<1>8. \A m \in {QueueBufferMsg(s, b), QueueEOSMsg(s)} :
         m.what # "Flush" /\ m.stream = s /\ m.gen = decoder[s].gen
  BY DEF QueueBufferMsg, QueueEOSMsg, Msg
<1> DEFINE m1 == QueueBufferMsg(s, b)
           m2 == QueueEOSMsg(s)
<1>9. inbox' = Append(inbox, m1) \/ inbox' = inbox \o <<m1, m2>>
  BY <1>2
<1>10. m1 \in Message /\ m2 \in Message
  BY <1>7
<1> HIDE DEF m1, m2
<1>11. PICK ms \in {<<m1>>, <<m1, m2>>} : inbox' = inbox \o ms
  <2>1. Append(inbox, m1) = inbox \o <<m1>>
    BY <1>3, <1>10
  <2> QED BY <1>9, <2>1
<1>12. ms \in Seq(Message) /\ \A i \in DOMAIN ms : ms[i] \in {m1, m2}
  BY <1>10, <1>11
<1>13. \A i \in DOMAIN ms : ms[i].what # "Flush" /\ ms[i].stream = s /\ ms[i].gen = decoder[s].gen
  BY <1>8, <1>12 DEF m1, m2
<1> QED BY <1>1, <1>5, <1>11, <1>12, <1>13, DataKeepsPosition

LEMMA PassThroughEOSKeepsPosition ==
    ASSUME TypeOK, PositionInv, PassThroughEOS
    PROVE  PositionInv'
<1>1. /\ UNCHANGED <<mHas, timers, rendererVars, aborted, sinkVars, replies, player,
                     seeking, answered, flushed, told, tearDownTold, resumable>>
      /\ ~decoder["audio"].paused
      /\ inbox' = Append(inbox, QueueEOSMsg("audio"))
      /\ decoder' = [decoder EXCEPT !["audio"].ended = TRUE]
  BY DEF PassThroughEOS, PutsOut, Runs
<1>2. decoder \in [Streams -> DecoderState] /\ mHas \subseteq Streams /\ inbox \in Seq(Message)
      /\ "audio" \in Streams
  BY TracksAssumption DEF TypeOK, DecoderTypeOK, LooperTypeOK, Streams
<1>3. \A t \in mHas : /\ decoder'[t].gen = decoder[t].gen
                      /\ decoder'[t].paused = decoder[t].paused
                      /\ decoder'[t].flushDue = decoder[t].flushDue
  BY <1>1, <1>2 DEF DecoderState
<1>4. SamePositions /\ UNCHANGED queue
  BY <1>1, <1>3 DEF SamePositions, rendererVars
<1> DEFINE m == QueueEOSMsg("audio")
<1>5. m \in Message
  BY <1>2, MessageTypes DEF QueueEOSMsg, DataWhat, DecoderState
<1>6. m.what # "Flush" /\ m.stream = "audio" /\ m.gen = decoder["audio"].gen
  BY DEF QueueEOSMsg, Msg
<1>7. inbox' = Append(inbox, m)
  BY <1>1
<1> HIDE DEF m
<1>8. <<m>> \in Seq(Message) /\ inbox' = inbox \o <<m>> /\ \A i \in DOMAIN <<m>> : <<m>>[i] = m
  BY <1>2, <1>5, <1>7
<1> QED BY <1>1, <1>2, <1>4, <1>6, <1>8, DataKeepsPosition

LEMMA FormatChangedKeepsPosition ==
    ASSUME TypeOK, PositionInv, FormatChanged
    PROVE  PositionInv'
<1>1. /\ UNCHANGED <<mHas, timers, rendererVars, aborted, sinkVars, replies, player,
                     seeking, answered, flushed, told, tearDownTold, resumable>>
      /\ inbox' = Append(inbox, Msg("OpenAudioSink", "audio", EOS, decoder["audio"].format + 1))
      /\ decoder' = [decoder EXCEPT !["audio"].opening = TRUE]
  BY DEF FormatChanged
<1>2. decoder \in [Streams -> DecoderState] /\ mHas \subseteq Streams /\ "audio" \in Streams
  BY TracksAssumption DEF TypeOK, DecoderTypeOK, Streams
<1>3. \A t \in mHas : /\ decoder'[t].gen = decoder[t].gen
                      /\ decoder'[t].paused = decoder[t].paused
                      /\ decoder'[t].flushDue = decoder[t].flushDue
  BY <1>1, <1>2 DEF DecoderState
<1>4. SamePositions /\ UNCHANGED queue
  BY <1>1, <1>3 DEF SamePositions, rendererVars
<1>5. Msg("OpenAudioSink", "audio", EOS, decoder["audio"].format + 1) \in Message
  BY <1>2, MessageTypes DEF DataWhat, DecoderState
<1>6. Msg("OpenAudioSink", "audio", EOS, decoder["audio"].format + 1).what = "OpenAudioSink"
  BY DEF Msg
<1> QED BY <1>1, <1>4, <1>5, <1>6, PostedKeepsPosition

LEMMA RenderBufferKeepsPosition ==
    ASSUME TypeOK, PositionInv, NEW s \in Streams, RenderBuffer(s)
    PROVE  PositionInv'
<1>1. /\ UNCHANGED <<mHas, inbox, timers, rendererVars, aborted, sinkVars, playerVars>>
      /\ \/ decoder' = decoder
         \/ decoder' = [decoder EXCEPT ![s].codec = @ \cup {Head(replies[s]).buffer}]
  BY DEF RenderBuffer
<1>2. decoder \in [Streams -> DecoderState] /\ mHas \subseteq Streams
  BY TracksAssumption DEF TypeOK, DecoderTypeOK
<1>3. \A t \in mHas : /\ decoder'[t].gen = decoder[t].gen
                      /\ decoder'[t].paused = decoder[t].paused
                      /\ decoder'[t].flushDue = decoder[t].flushDue
  BY <1>1, <1>2 DEF DecoderState
<1>4. SamePositions /\ UNCHANGED <<queue, inbox>>
  BY <1>1, <1>3 DEF SamePositions, rendererVars, playerVars
<1> QED BY <1>4, LeftKeepsPosition

LEMMA FlushOfOne ==
    ASSUME NEW s \in Streams, ~mFlushing[s]
    PROVE  FlushMsgs({s}) = <<Msg("Flush", s, EOS, 0)>>
<1>1. FlushMsgs({s}) = (IF "audio" \in {s} /\ ~mFlushing["audio"] THEN <<Msg("Flush", "audio", EOS, 0)>> ELSE <<>>)
                       \o (IF "video" \in {s} /\ ~mFlushing["video"] THEN <<Msg("Flush", "video", EOS, 0)>> ELSE <<>>)
  BY DEF FlushMsgs
<1>2. \A m : <<m>> \o <<>> = <<m>> /\ <<>> \o <<m>> = <<m>>
  OBVIOUS
<1>3. s = "audio" \/ s = "video"
  BY DEF Streams
<1> QED BY <1>1, <1>2, <1>3

LEMMA FlushDecoderKeepsPosition ==
    ASSUME TypeOK, PositionInv, NEW t \in Streams, FlushDecoder(t)
    PROVE  PositionInv'
<1> SUFFICES ASSUME ~mTornDown
             PROVE  PositionInv'
  BY DEF PositionInv, FlushDecoder
<1>1. /\ UNCHANGED <<mHas, queue, mTornDown, player, seeking, answered, tearDownTold>>
      /\ decoder[t].flushDue
      /\ mFlushing' = [s \in Streams |-> mFlushing[s] \/ s \in {t}]
      /\ inbox' = inbox \o FlushMsgs({t})
      /\ decoder' = [decoder EXCEPT ![t].codec = BuffersOf(t), ![t].gen = @ + 1,
                                    ![t].ended = FALSE, ![t].paused = TRUE,
                                    ![t].flushDue = FALSE]
  BY DEF FlushDecoder, AfterFlushOf
<1>2. /\ inbox \in Seq(Message) /\ mHas \subseteq Streams
      /\ decoder \in [Streams -> DecoderState] /\ mFlushing \in [Streams -> BOOLEAN]
  BY TracksAssumption DEF TypeOK, RendererTypeOK, LooperTypeOK, DecoderTypeOK
<1>3. /\ mFlushing'[t] = TRUE /\ decoder'[t].paused = TRUE /\ decoder'[t].flushDue = FALSE
      /\ \A s \in Streams \ {t} : mFlushing'[s] = mFlushing[s] /\ decoder'[s] = decoder[s]
  <2>1. mFlushing'[t] = TRUE /\ \A s \in Streams \ {t} : mFlushing'[s] = mFlushing[s]
    BY <1>1, <1>2
  <2>2. decoder[t] \in DecoderState
    BY <1>2
  <2>3. /\ decoder'[t].paused = TRUE /\ decoder'[t].flushDue = FALSE
        /\ \A s \in Streams \ {t} : decoder'[s] = decoder[s]
    BY <1>1, <1>2, <2>2 DEF DecoderState
  <2> QED BY <2>1, <2>3
<1> DEFINE m == Msg("Flush", t, EOS, 0)
<1>4. m \in Message /\ m.what = "Flush" /\ m.stream = t
  BY MessageTypes DEF DataWhat, Msg
<1>5. ASSUME ~mFlushing[t]
      PROVE  inbox' = Append(inbox, m)
  <2>1. FlushMsgs({t}) = <<m>>
    BY <1>5, FlushOfOne
  <2> HIDE DEF m
  <2>2. inbox \o <<m>> = Append(inbox, m)
    BY <1>2, <1>4
  <2> QED BY <1>1, <2>1, <2>2
<1>6. ASSUME NEW s \in mHas, s = t
      PROVE  PositionOf(s)'
  <2>1. PositionOf(s)
    BY <1>6 DEF PositionInv
  <2>2. ~mFlushing[t] /\ seeking /\ s \notin answered
    BY <1>1, <1>6, <2>1 DEF PositionOf
  <2>3. Fresh(inbox, s, decoder[s].gen)
    BY <1>6, <2>1, <2>2 DEF PositionOf
  <2> HIDE DEF m
  <2>4. FlushBehind(Append(inbox, m), s)
    BY <1>2, <1>4, <1>6, <2>3, BehindFlushed
  <2>5. FlushBehind(inbox', s)
    BY <1>5, <2>2, <2>4
  <2> QED BY <1>1, <1>3, <1>6, <2>2, <2>5 DEF PositionOf
<1>7. ASSUME NEW s \in mHas, s # t
      PROVE  PositionOf(s)'
  <2>1. PositionOf(s) /\ mFlushing'[s] = mFlushing[s] /\ decoder'[s] = decoder[s]
    BY <1>2, <1>3, <1>7 DEF PositionInv
  <2> DEFINE ms == FlushMsgs({t})
  <2>2. ms \in Seq(Message)
    BY FlushMsgsType
  <2>3. \A i \in DOMAIN ms : ms[i].stream = t
    BY FlushMsgsAre DEF Msg
  <2>4. inbox' = inbox \o ms
    BY <1>1
  <2> HIDE DEF ms
  <2>5. \A i \in DOMAIN ms : ~DataOf(s, ms[i])
    BY <1>7, <2>3 DEF DataOf
  <2>6. Fresh(inbox, s, decoder[s].gen) => Fresh(inbox', s, decoder[s].gen)
    <3>1. Fresh(ms, s, decoder[s].gen)
      BY <2>5 DEF Fresh
    <3> QED BY <1>2, <2>2, <2>4, <3>1, FreshPosted
  <2>7. FlushBehind(inbox, s) => FlushBehind(inbox', s)
    BY <1>2, <2>2, <2>4, <2>5, BehindPosted
  <2> QED BY <1>1, <2>1, <2>6, <2>7 DEF PositionOf
<1> QED BY <1>1, <1>6, <1>7 DEF PositionInv

LEMMA DecodersKeepPosition ==
    ASSUME TypeOK, PositionInv, DecoderNext
    PROVE  PositionInv'
  BY OutputBufferKeepsPosition, RenderBufferKeepsPosition, FlushDecoderKeepsPosition,
    PassThroughEOSKeepsPosition, FormatChangedKeepsPosition DEF DecoderNext

LEMMA SeeksKeepPosition ==
    ASSUME TypeOK, PositionInv, Seek \/ SeekDone
    PROVE  PositionInv'
<1>1. UNCHANGED <<mHas, inbox, queue, mFlushing, mTornDown, tearDownTold>>
  BY DEF Seek, SeekDone, rendererVars
<1> SUFFICES ASSUME ~mTornDown
             PROVE  PositionInv'
  BY <1>1 DEF PositionInv
<1>2. mHas \subseteq Streams /\ decoder \in [Streams -> DecoderState]
  BY TracksAssumption DEF TypeOK, DecoderTypeOK
<1>3. \A s \in mHas : PositionOf(s)
  BY DEF PositionInv
<1>4. CASE Seek
  <2>1. /\ ~seeking /\ seeking' = TRUE /\ answered' = {} /\ player' = player
        /\ decoder' = [s \in Streams |-> [decoder[s] EXCEPT !.flushDue = s \in mHas]]
    BY <1>4 DEF Seek
  <2>2. \A s \in mHas : ~mFlushing[s] /\ decoder'[s].gen = decoder[s].gen
    BY <1>2, <1>3, <2>1 DEF PositionOf, DecoderState
  <2>3. \A s \in mHas : PositionOf(s)'
    BY <1>1, <1>3, <2>1, <2>2 DEF PositionOf
  <2> QED BY <1>1, <2>1, <2>3 DEF PositionInv
<1>5. CASE SeekDone
  <2>1. /\ answered = mHas /\ player' = player
        /\ decoder' = [s \in Streams |-> [decoder[s] EXCEPT !.paused = FALSE]]
    BY <1>5 DEF SeekDone
  <2>2. \A s \in mHas : ~mFlushing[s] /\ ~decoder[s].flushDue
    BY <1>3, <2>1 DEF PositionOf
  <2>3. \A s \in mHas : decoder'[s].gen = decoder[s].gen /\ decoder'[s].flushDue = decoder[s].flushDue
    BY <1>2, <2>1 DEF DecoderState
  <2>4. \A s \in mHas : PositionOf(s)'
    BY <1>1, <1>3, <2>2, <2>3 DEF PositionOf
  <2> QED BY <1>1, <2>1, <2>4 DEF PositionInv
<1> QED BY <1>4, <1>5

LEMMA ClientKeepsPosition ==
    ASSUME TypeOK, PositionInv, ClientPauses \/ ClientResumes
    PROVE  PositionInv'
<1>1. PICK w \in {"Pause", "Resume"} : inbox' = Append(inbox, Signal(w))
  BY DEF ClientPauses, ClientResumes
<1>2. SamePositions /\ UNCHANGED queue
  BY DEF ClientPauses, ClientResumes, SamePositions, rendererVars, decoderVars
<1>3. Signal(w) \in Message /\ Signal(w).what = w
  BY MessageTypes DEF SignalWhat, Signal, Msg
<1> QED BY <1>1, <1>2, <1>3, PostedKeepsPosition

LEMMA PositionStep ==
    ASSUME TypeOK, TearsDownOnce, PositionInv, [Next]_vars
    PROVE  PositionInv'
<1>1. CASE RendererNext
  BY <1>1, TimerDueKeepsPosition, QueuesKeepPosition, QueueAndCompareKeepsPosition, DrainsKeepPosition,
    MessagesKeepPosition, OpenAudioSinkKeepsPosition, TearDownsKeepPosition, FlushKeepsPosition DEF
    RendererNext
<1>2. CASE PlayerNext
  BY <1>2, SeeksKeepPosition, ClientKeepsPosition, TearDownsKeepPosition DEF PlayerNext
<1>3. CASE UNCHANGED vars
  <2>1. SamePositions /\ UNCHANGED <<queue, inbox>>
    BY <1>3 DEF vars, SamePositions, rendererVars, playerVars, decoderVars
  <2> QED BY <2>1, LeftKeepsPosition
<1> QED BY <1>1, <1>2, <1>3, SinkKeepsPosition, DecodersKeepPosition DEF Next

LEMMA PositionAtFirst ==
    ASSUME Init
    PROVE  PositionInv
<1>1. /\ inbox = <<>> /\ queue = [s \in Streams |-> <<>>] /\ mFlushing = [s \in Streams |-> FALSE]
      /\ decoder = [s \in Streams |-> NewDecoder(s, 0, s = "audio" /\ mOffload)]
      /\ player = "idle" /\ tearDownTold = FALSE /\ mHas \subseteq Streams
  BY TracksAssumption DEF Init
<1>2. \A s \in mHas : queue[s] = <<>> /\ ~mFlushing[s] /\ ~decoder[s].flushDue
  BY <1>1 DEF NewDecoder
<1>3. \A g, s : Fresh(<<>>, s, g) /\ OfGen(<<>>, g)
  BY DEF Fresh, OfGen
<1>4. \A s \in mHas : PositionOf(s)
  BY <1>1, <1>2, <1>3 DEF PositionOf
<1> QED BY <1>1, <1>4 DEF PositionInv

\* A queue holds nothing of before its decoder's last flush once the renderer has
\* handled that flush, for every number of buffers and any number of pauses and
\* seeks: after a seek nothing of the old position is played, until an offloaded
\* sink is lost.
THEOREM QueuesAreOfThisPosition == Spec => []QueueIsOfThisPosition
<1>1. Init => TypeOK /\ DrainInv /\ PositionInv
  BY InitType, DrainsAtFirst, PositionAtFirst
<1>2. TypeOK /\ DrainInv /\ PositionInv /\ [Next]_vars => (TypeOK /\ DrainInv /\ PositionInv)'
  BY TypeStep, DrainStep, PositionStep DEF DrainInv
<1>3. PositionInv => QueueIsOfThisPosition
  BY DEF PositionInv, PositionOf, OfGen, QueueIsOfThisPosition
<1> QED BY <1>1, <1>2, <1>3, PTL DEF Spec

=============================================================================
