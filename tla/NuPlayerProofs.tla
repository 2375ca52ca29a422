--------------------------- MODULE NuPlayerProofs ---------------------------
(* Theorems about NuPlayer, for every set of formats and every budget.      *)
EXTENDS NuPlayer, Integers, FiniteSetTheorems, SequenceTheorems, WellFoundedInduction, TLAPS

-----------------------------------------------------------------------------
(* Queues, whatever they hold: what is kept of one, and how often.         *)

\* Induction up to n, with a set of numbers for the predicate.  Of two intervals
\* 1..k and 1..m the shorter is a strict subset of the other, and strict inclusion
\* of finite sets is well-founded: there is a least number that is not in the set.
LEMMA UpTo ==
    ASSUME NEW n \in Nat, NEW A, 0 \in A, \A k \in 0 .. n - 1 : k \in A => k + 1 \in A
    PROVE  n \in A
<1> DEFINE B == {k \in 0 .. n : k \notin A}
           T == {1 .. k : k \in B}
<1>1. SUFFICES ASSUME n \notin A
               PROVE  FALSE
  OBVIOUS
<1>2. T \subseteq FiniteSubsetsOf(Nat) /\ T # {}
  <2>1. \A k \in B : IsFiniteSet(1 .. k) /\ 1 .. k \subseteq Nat
    BY FS_Interval
  <2>2. n \in B
    BY <1>1
  <2> QED BY <2>1, <2>2 DEF FiniteSubsetsOf
<1>3. \E x \in T : \A y \in T : ~(<<y, x>> \in StrictSubsetOrdering(Nat))
  <2> HIDE DEF T
  <2> QED BY <1>2, FS_StrictSubsetOrderingWellFounded, WFMin
<1>4. PICK m \in B : \A y \in T : ~(<<y, 1 .. m>> \in StrictSubsetOrdering(Nat))
  BY <1>3
<1>5. m \in 1 .. n /\ m - 1 \in 0 .. n - 1 /\ (m - 1) + 1 = m /\ m - 1 \in 0 .. n
  OBVIOUS
<1>6. 1 .. m - 1 \in T
  BY <1>5
<1>7. 1 .. m - 1 \subseteq 1 .. m /\ m \in 1 .. m /\ m \notin 1 .. m - 1 /\ 1 .. m \subseteq Nat
  BY <1>5
<1>8. <<1 .. m - 1, 1 .. m>> \in StrictSubsetOrdering(Nat)
  BY <1>7 DEF StrictSubsetOrdering
<1> QED BY <1>4, <1>6, <1>8

\* Kept is what its recursion says.
Step(q, S, f, n) == IF q[n] \in S THEN Append(f[n - 1], q[n]) ELSE f[n - 1]
Keeps(q, S, f, n) == f[0] = <<>> /\ \A k \in 1 .. n : f[k] = Step(q, S, f, k)

LEMMA KeepsExists ==
    ASSUME NEW T, NEW q \in Seq(T), NEW S
    PROVE  \E f \in [0 .. Len(q) -> Seq(T)] : Keeps(q, S, f, Len(q))
<1> DEFINE A == {n \in 0 .. Len(q) : \E f \in [0 .. n -> Seq(T)] : Keeps(q, S, f, n)}
<1>1. Len(q) \in Nat /\ \A n \in 1 .. Len(q) : q[n] \in T
  OBVIOUS
<1>2. 0 \in A
  <2> DEFINE none == [n \in 0 .. 0 |-> <<>>]
  <2>1. none \in [0 .. 0 -> Seq(T)] /\ Keeps(q, S, none, 0) /\ 0 \in 0 .. Len(q)
    BY <1>1 DEF Keeps
  <2> HIDE DEF none
  <2> QED BY <2>1
<1>3. ASSUME NEW n \in 0 .. Len(q) - 1, n \in A
      PROVE  n + 1 \in A
  <2>1. PICK f \in [0 .. n -> Seq(T)] : Keeps(q, S, f, n)
    BY <1>3
  <2> DEFINE last == IF q[n + 1] \in S THEN Append(f[n], q[n + 1]) ELSE f[n]
             g == [k \in 0 .. n + 1 |-> IF k = n + 1 THEN last ELSE f[k]]
  <2>2. last \in Seq(T) /\ n + 1 \in 0 .. Len(q) /\ (n + 1) - 1 = n
    BY <1>1, f[n] \in Seq(T), q[n + 1] \in T
  <2> HIDE DEF last
  <2>3. g \in [0 .. n + 1 -> Seq(T)] /\ g[n + 1] = last /\ \A k \in 0 .. n : g[k] = f[k]
    BY <2>2
  <2> HIDE DEF g
  <2>4. ASSUME NEW k \in 1 .. n + 1
        PROVE  g[k] = Step(q, S, g, k)
    <3>1. CASE k = n + 1
      BY <2>2, <2>3, <3>1 DEF Step, last
    <3>2. CASE k \in 1 .. n
      <4>1. k \in 0 .. n /\ k - 1 \in 0 .. n
        BY <3>2
      <4>2. g[k] = f[k] /\ g[k - 1] = f[k - 1]
        BY <2>3, <4>1
      <4>3. f[k] = Step(q, S, f, k)
        BY <2>1, <3>2 DEF Keeps
      <4> QED BY <4>2, <4>3 DEF Step
    <3> QED BY <3>1, <3>2
  <2>5. Keeps(q, S, g, n + 1)
    BY <2>1, <2>3, <2>4 DEF Keeps
  <2> QED BY <2>2, <2>3, <2>5
<1>4. \A n \in 0 .. Len(q) - 1 : n \in A => n + 1 \in A
  BY <1>3
<1> HIDE DEF A
<1>5. Len(q) \in A
  BY <1>1, <1>2, <1>4, UpTo
<1> QED BY <1>5 DEF A

LEMMA KeptRecursion ==
    ASSUME NEW T, NEW q \in Seq(T), NEW S
    PROVE  \E f : Keeps(q, S, f, Len(q)) /\ Kept(q, S) = f[Len(q)]
<1> DEFINE Body(f) == [n \in 0 .. Len(q) |->
                          IF n = 0 THEN <<>>
                          ELSE IF q[n] \in S THEN Append(f[n - 1], q[n]) ELSE f[n - 1]]
           kept == CHOOSE f : f = Body(f)
<1>1. Kept(q, S) = kept[Len(q)] /\ Len(q) \in Nat
  BY DEF Kept
<1>2. PICK f \in [0 .. Len(q) -> Seq(T)] : Keeps(q, S, f, Len(q))
  BY KeepsExists
<1>3. \A n \in 0 .. Len(q) : f[n] = Body(f)[n]
  BY <1>2, \A n \in 0 .. Len(q) : n = 0 \/ n \in 1 .. Len(q) DEF Keeps, Step
<1>4. f = Body(f)
  BY <1>3
<1>5. kept = Body(kept)
  <2> HIDE DEF Body
  <2> QED BY <1>4
<1> HIDE DEF kept
<1>6. \A n \in 0 .. Len(q) : kept[n] = Body(kept)[n]
  BY <1>5
<1> QED BY <1>1, <1>6 DEF Keeps, Step

\* What is kept is of the queue and of the set.
LEMMA KeptType ==
    ASSUME NEW T, NEW q \in Seq(T), NEW S
    PROVE  Kept(q, S) \in Seq(T \cap S)
<1>1. PICK f : Keeps(q, S, f, Len(q)) /\ Kept(q, S) = f[Len(q)]
  BY KeptRecursion
<1> DEFINE A == {n \in 0 .. Len(q) : f[n] \in Seq(T \cap S)}
<1>2. Len(q) \in Nat /\ \A n \in 1 .. Len(q) : q[n] \in T
  OBVIOUS
<1>3. 0 \in A
  BY <1>1, <1>2, 0 \in 0 .. Len(q), <<>> \in Seq(T \cap S) DEF Keeps
<1>4. ASSUME NEW n \in 0 .. Len(q) - 1, n \in A
      PROVE  n + 1 \in A
  <2>1. n + 1 \in 1 .. Len(q) /\ (n + 1) - 1 = n
    BY <1>2
  <2>2. f[n + 1] = IF q[n + 1] \in S THEN Append(f[n], q[n + 1]) ELSE f[n]
    BY <1>1, <2>1 DEF Keeps, Step
  <2>3. f[n + 1] \in Seq(T \cap S)
    BY <1>2, <1>4, <2>1, <2>2
  <2> QED BY <2>1, <2>3
<1>5. \A n \in 0 .. Len(q) - 1 : n \in A => n + 1 \in A
  BY <1>4
<1> HIDE DEF A
<1>6. Len(q) \in A
  BY <1>2, <1>3, <1>5, UpTo
<1> QED BY <1>1, <1>6 DEF A

LEMMA PlacesAreFinite ==
    ASSUME NEW n \in Nat, NEW P \in SUBSET (1 .. n)
    PROVE  IsFiniteSet(P) /\ Cardinality(P) \in Nat
<1>1. IsFiniteSet(1 .. n)
  BY FS_Interval
<1>2. IsFiniteSet(P)
  BY <1>1, FS_Subset
<1> QED BY <1>2, FS_CardinalityType

LEMMA ShiftedPlaces ==
    ASSUME NEW m \in Nat, NEW n \in Nat, NEW P \in SUBSET (1 .. n)
    PROVE  /\ IsFiniteSet({m + k : k \in P})
           /\ Cardinality({m + k : k \in P}) = Cardinality(P)
<1> DEFINE Q == {m + k : k \in P}
           f == [k \in P |-> m + k]
<1>1. f \in [P -> Q] /\ (\A a, b \in P : f[a] = f[b] => a = b) /\ \A t \in Q : \E a \in P : f[a] = t
  OBVIOUS
<1>2. f \in Bijection(P, Q)
  BY <1>1 DEF Bijection, Injection, Surjection, IsInjective
<1> QED BY <1>2, PlacesAreFinite, FS_Bijection DEF ExistsBijection

LEMMA OccurrencesType ==
    ASSUME NEW T, NEW q \in Seq(T), NEW x
    PROVE  /\ Occurrences(q, x) \in Nat
           /\ Occurrences(q, x) = 0 <=> \A i \in DOMAIN q : q[i] # x
<1> DEFINE P == {i \in DOMAIN q : q[i] = x}
<1>1. Len(q) \in Nat /\ P \in SUBSET (1 .. Len(q))
  OBVIOUS
<1>2. IsFiniteSet(P) /\ Cardinality(P) \in Nat
  <2> HIDE DEF P
  <2> QED BY <1>1, PlacesAreFinite
<1>3. Cardinality(P) = 0 <=> P = {}
  BY <1>2, FS_EmptySet
<1> QED BY <1>2, <1>3 DEF Occurrences

LEMMA OccurrencesConcat ==
    ASSUME NEW T, NEW p \in Seq(T), NEW q \in Seq(T), NEW x
    PROVE  /\ p \o q \in Seq(T)
           /\ Occurrences(p \o q, x) = Occurrences(p, x) + Occurrences(q, x)
<1> DEFINE m == Len(p)
           n == Len(q)
           P == {i \in 1 .. m : p[i] = x}
           Q == {i \in 1 .. n : q[i] = x}
           Moved == {m + i : i \in Q}
           R == {i \in 1 .. m + n : (p \o q)[i] = x}
<1>1. /\ p \o q \in Seq(T) /\ m \in Nat /\ n \in Nat
      /\ DOMAIN p = 1 .. m /\ DOMAIN q = 1 .. n /\ DOMAIN (p \o q) = 1 .. m + n
      /\ \A i \in 1 .. m : (p \o q)[i] = p[i]
      /\ \A i \in m + 1 .. m + n : (p \o q)[i] = q[i - m]
  OBVIOUS
<1>2. P \in SUBSET (1 .. m) /\ Q \in SUBSET (1 .. n)
  OBVIOUS
<1> DEFINE r == p \o q
<1> HIDE DEF m, n, r
<1>3. R = P \cup Moved /\ P \cap Moved = {}
  <2>1. /\ \A i \in m + 1 .. m + n : q[i - m] = x => i \in Moved
        /\ \A i \in Moved : i \in m + 1 .. m + n /\ q[i - m] = x
    <3>1. \A i \in m + 1 .. m + n : i - m \in 1 .. n /\ m + (i - m) = i
      BY <1>1
    <3>2. \A k \in 1 .. n : m + k \in m + 1 .. m + n /\ (m + k) - m = k
      BY <1>1
    <3> QED BY <3>1, <3>2
  <2>2. \A i : i \in R <=> i \in 1 .. m + n /\ r[i] = x
    BY DEF r
  <2>3. \A i : i \in P <=> i \in 1 .. m /\ r[i] = x
    BY <1>1 DEF r
  <2>4. \A i \in m + 1 .. m + n : r[i] = q[i - m]
    BY <1>1 DEF r
  <2>5. \A i : /\ i \in 1 .. m + n <=> i \in 1 .. m \/ i \in m + 1 .. m + n
               /\ ~(i \in 1 .. m /\ i \in m + 1 .. m + n)
    BY <1>1
  <2> HIDE DEF P, R, Moved
  <2> QED BY <2>1, <2>2, <2>3, <2>4, <2>5
<1>4. /\ IsFiniteSet(P) /\ Cardinality(P) \in Nat /\ Cardinality(Q) \in Nat
      /\ IsFiniteSet(Moved) /\ Cardinality(Moved) = Cardinality(Q)
  <2> HIDE DEF P, Q
  <2> QED BY <1>1, <1>2, PlacesAreFinite, ShiftedPlaces
<1>5. Cardinality(R) = Cardinality(P) + Cardinality(Q)
  <2> HIDE DEF P, Q, R, Moved
  <2>1. Cardinality(P \cup Moved) = Cardinality(P) + Cardinality(Moved) - Cardinality(P \cap Moved)
    BY <1>4, FS_Union
  <2>2. Cardinality(P \cap Moved) = 0
    BY <1>3, FS_EmptySet
  <2> QED BY <1>3, <1>4, <2>1, <2>2
<1>6. /\ Occurrences(p, x) = Cardinality(P) /\ Occurrences(q, x) = Cardinality(Q)
      /\ Occurrences(p \o q, x) = Cardinality(R)
  BY <1>1 DEF Occurrences
<1> QED BY <1>1, <1>5, <1>6

LEMMA OccurrencesOne ==
    ASSUME NEW a, NEW x
    PROVE  /\ Occurrences(<<>>, x) = 0
           /\ Occurrences(<<a>>, x) = IF a = x THEN 1 ELSE 0
<1>1. {i \in DOMAIN <<>> : <<>>[i] = x} = {}
  OBVIOUS
<1>2. {i \in DOMAIN <<a>> : <<a>>[i] = x} = IF a = x THEN {1} ELSE {}
  OBVIOUS
<1> QED BY <1>1, <1>2, FS_EmptySet, FS_Singleton DEF Occurrences

LEMMA OccurrencesAppend ==
    ASSUME NEW T, NEW q \in Seq(T), NEW a \in T, NEW x
    PROVE  /\ Append(q, a) \in Seq(T)
           /\ Occurrences(Append(q, a), x) = Occurrences(q, x) + (IF a = x THEN 1 ELSE 0)
<1> DEFINE one == <<a>>
<1>1. Append(q, a) = q \o one /\ one \in Seq(T)
  OBVIOUS
<1>2. Occurrences(one, x) = IF a = x THEN 1 ELSE 0
  BY OccurrencesOne
<1> HIDE DEF one
<1>3. q \o one \in Seq(T) /\ Occurrences(q \o one, x) = Occurrences(q, x) + Occurrences(one, x)
  BY <1>1, OccurrencesConcat
<1> QED BY <1>1, <1>2, <1>3

LEMMA HeadAndRest ==
    ASSUME NEW T, NEW q \in Seq(T), q # <<>>
    PROVE  /\ q = <<Head(q)>> \o Tail(q)
           /\ <<Head(q)>> \in Seq(T) /\ Tail(q) \in Seq(T) /\ Head(q) \in T
<1> DEFINE one == <<Head(q)>>
           rest == Tail(q)
<1>1. one \in Seq(T) /\ rest \in Seq(T) /\ Head(q) \in T /\ Len(one \o rest) = Len(q)
  OBVIOUS
<1>2. \A i \in 1 .. Len(q) : (one \o rest)[i] = q[i]
  OBVIOUS
<1>3. one \o rest \in Seq(T)
  OBVIOUS
<1> HIDE DEF one, rest
<1>4. q = one \o rest
  BY <1>1, <1>2, <1>3, SeqEqual
<1> QED BY <1>1, <1>4 DEF one, rest

LEMMA OccurrencesTail ==
    ASSUME NEW T, NEW q \in Seq(T), q # <<>>, NEW x
    PROVE  /\ Tail(q) \in Seq(T) /\ Head(q) \in T
           /\ Occurrences(q, x) = Occurrences(Tail(q), x) + (IF Head(q) = x THEN 1 ELSE 0)
<1> DEFINE one == <<Head(q)>>
           rest == Tail(q)
<1>1. q = one \o rest /\ one \in Seq(T) /\ rest \in Seq(T) /\ Head(q) \in T
  BY HeadAndRest
<1>2. Occurrences(one, x) = IF Head(q) = x THEN 1 ELSE 0
  BY OccurrencesOne
<1> HIDE DEF one
<1>3. Occurrences(one \o rest, x) = Occurrences(one, x) + Occurrences(rest, x)
  <2> HIDE DEF rest
  <2> QED BY <1>1, OccurrencesConcat
<1>4. Occurrences(rest, x) \in Nat
  <2> HIDE DEF rest
  <2> QED BY <1>1, OccurrencesType
<1>5. Occurrences(q, x) = Occurrences(one, x) + Occurrences(rest, x)
  BY <1>1, <1>3
<1> HIDE DEF rest
<1> QED BY <1>1, <1>2, <1>4, <1>5 DEF rest

\* (The name keeps the provers from taking \o apart where it is of no use.)
Joined(a, b) == a \o b

LEMMA JoinedAppend ==
    ASSUME NEW T, NEW a \in Seq(T), NEW b \in Seq(T), NEW x \in T
    PROVE  Append(Joined(a, b), x) = Joined(a, Append(b, x))
BY DEF Joined

LEMMA KeptConcat ==
    ASSUME NEW T, NEW p \in Seq(T), NEW q \in Seq(T), NEW S
    PROVE  Kept(p \o q, S) = Kept(p, S) \o Kept(q, S)
<1> DEFINE m == Len(p)
           n == Len(q)
           both == p \o q
<1>1. /\ m \in Nat /\ n \in Nat /\ both \in Seq(T) /\ Len(both) = m + n
      /\ \A k \in 1 .. m : both[k] = p[k]
      /\ \A k \in 1 .. n : both[m + k] = q[k]
      /\ \A k \in 1 .. m : p[k] \in T
      /\ \A k \in 1 .. n : q[k] \in T
  OBVIOUS
<1> HIDE DEF both
<1>2. PICK f : Keeps(both, S, f, m + n) /\ Kept(both, S) = f[m + n]
  BY <1>1, KeptRecursion
<1>3. PICK g : Keeps(p, S, g, m) /\ Kept(p, S) = g[m]
  BY KeptRecursion
<1>4. PICK h : Keeps(q, S, h, n) /\ Kept(q, S) = h[n]
  BY KeptRecursion
<1> HIDE DEF m, n
<1>5. f[m] = g[m] /\ g[m] \in Seq(T)
  <2> DEFINE A == {k \in 0 .. m : f[k] = g[k] /\ g[k] \in Seq(T)}
  <2>1. 0 \in A
    <3>1. f[0] = <<>> /\ g[0] = <<>> /\ 0 \in 0 .. m
      BY <1>1, <1>2, <1>3 DEF Keeps
    <3>2. <<>> \in Seq(T)
      OBVIOUS
    <3> QED BY <3>1, <3>2
  <2>2. ASSUME NEW k \in 0 .. m - 1, k \in A
        PROVE  k + 1 \in A
    <3>1. k + 1 \in 1 .. m + n /\ k + 1 \in 1 .. m /\ (k + 1) - 1 = k /\ k + 1 \in 0 .. m
      BY <1>1
    <3>2. f[k + 1] = IF p[k + 1] \in S THEN Append(f[k], p[k + 1]) ELSE f[k]
      BY <1>1, <1>2, <3>1 DEF Keeps, Step
    <3>3. g[k + 1] = IF p[k + 1] \in S THEN Append(g[k], p[k + 1]) ELSE g[k]
      BY <1>3, <3>1 DEF Keeps, Step
    <3>4. f[k] = g[k] /\ g[k] \in Seq(T) /\ p[k + 1] \in T
      BY <1>1, <2>2, <3>1
    <3>5. f[k + 1] = g[k + 1] /\ g[k + 1] \in Seq(T)
      BY <3>2, <3>3, <3>4
    <3> QED BY <3>1, <3>5
  <2>3. \A k \in 0 .. m - 1 : k \in A => k + 1 \in A
    BY <2>2
  <2> HIDE DEF A
  <2>4. m \in A
    BY <1>1, <2>1, <2>3, UpTo
  <2> QED BY <2>4 DEF A
<1>6. \A a \in Seq(T) : Joined(a, <<>>) = a
  BY DEF Joined
<1>7. f[m + n] = Joined(g[m], h[n])
  <2> DEFINE A == {k \in 0 .. n : f[m + k] = Joined(g[m], h[k]) /\ h[k] \in Seq(T)}
  <2>1. 0 \in A
    <3>1. h[0] = <<>> /\ 0 \in 0 .. n /\ m + 0 = m
      BY <1>1, <1>4 DEF Keeps
    <3>2. <<>> \in Seq(T) /\ Joined(g[m], <<>>) = g[m]
      BY <1>5, <1>6
    <3> QED BY <1>5, <3>1, <3>2
  <2>2. ASSUME NEW k \in 0 .. n - 1, k \in A
        PROVE  k + 1 \in A
    <3>1. /\ m + (k + 1) \in 1 .. m + n /\ (m + (k + 1)) - 1 = m + k
          /\ k + 1 \in 1 .. n /\ (k + 1) - 1 = k /\ k + 1 \in 0 .. n
      BY <1>1
    <3> DEFINE x == q[k + 1]
    <3>2. f[m + (k + 1)] = IF x \in S THEN Append(f[m + k], x) ELSE f[m + k]
      BY <1>1, <1>2, <3>1 DEF Keeps, Step
    <3>3. h[k + 1] = IF x \in S THEN Append(h[k], x) ELSE h[k]
      BY <1>4, <3>1 DEF Keeps, Step
    <3>4. f[m + k] = Joined(g[m], h[k]) /\ h[k] \in Seq(T) /\ x \in T
      BY <1>1, <2>2, <3>1
    <3> HIDE DEF x
    <3>5. Append(Joined(g[m], h[k]), x) = Joined(g[m], Append(h[k], x)) /\ Append(h[k], x) \in Seq(T)
      <4> DEFINE a == g[m]
                 b == h[k]
      <4>1. a \in Seq(T) /\ b \in Seq(T) /\ x \in T
        BY <1>5, <3>4
      <4> HIDE DEF a, b
      <4>2. Append(b, x) \in Seq(T)
        BY <4>1
      <4>3. Append(Joined(a, b), x) = Joined(a, Append(b, x))
        BY <4>1, JoinedAppend
      <4> QED BY <4>2, <4>3 DEF a, b
    <3>6. f[m + (k + 1)] = Joined(g[m], h[k + 1]) /\ h[k + 1] \in Seq(T)
      BY <3>2, <3>3, <3>4, <3>5
    <3> QED BY <3>1, <3>6
  <2>3. \A k \in 0 .. n - 1 : k \in A => k + 1 \in A
    BY <2>2
  <2> HIDE DEF A
  <2>4. n \in A
    BY <1>1, <2>1, <2>3, UpTo
  <2> QED BY <2>4 DEF A
<1> QED BY <1>2, <1>3, <1>4, <1>7 DEF both, Joined

LEMMA KeptNone ==
    ASSUME NEW T, NEW S, NEW q \in Seq(T \ S)
    PROVE  Kept(q, S) = <<>>
<1>1. Kept(q, S) \in Seq((T \ S) \cap S)
  BY KeptType
<1>2. (T \ S) \cap S = {}
  OBVIOUS
<1>3. Kept(q, S) \in Seq({})
  BY <1>1, <1>2
<1> QED BY <1>3

LEMMA KeptOne ==
    ASSUME NEW a, NEW S
    PROVE  /\ Kept(<<>>, S) = <<>>
           /\ Kept(<<a>>, S) = IF a \in S THEN <<a>> ELSE <<>>
<1> DEFINE T == {a}
           one == <<a>>
<1>1. one \in Seq(T) /\ Len(one) = 1 /\ one[1] = a /\ <<>> \in Seq(T) /\ Len(<<>>) = 0
  OBVIOUS
<1> HIDE DEF one, T
<1>2. Kept(<<>>, S) = <<>>
  <2>1. PICK f : Keeps(<<>>, S, f, 0) /\ Kept(<<>>, S) = f[0]
    BY <1>1, KeptRecursion
  <2> QED BY <2>1 DEF Keeps
<1>3. Kept(one, S) = IF a \in S THEN one ELSE <<>>
  <2>1. PICK f : Keeps(one, S, f, 1) /\ Kept(one, S) = f[1]
    BY <1>1, KeptRecursion
  <2>2. 1 \in 1 .. 1 /\ 1 - 1 = 0
    OBVIOUS
  <2>3. f[1] = IF one[1] \in S THEN Append(f[0], one[1]) ELSE f[0]
    BY <2>1, <2>2 DEF Keeps, Step
  <2>4. f[0] = <<>> /\ Append(<<>>, a) = one
    BY <2>1 DEF Keeps, one
  <2> QED BY <1>1, <2>1, <2>3, <2>4
<1> QED BY <1>2, <1>3 DEF one

LEMMA KeptAppend ==
    ASSUME NEW T, NEW q \in Seq(T), NEW a \in T, NEW S
    PROVE  Kept(Append(q, a), S) = IF a \in S THEN Append(Kept(q, S), a) ELSE Kept(q, S)
<1> DEFINE one == <<a>>
<1>1. Append(q, a) = q \o one /\ one \in Seq(T)
  OBVIOUS
<1>2. Kept(one, S) = IF a \in S THEN one ELSE <<>>
  BY KeptOne
<1>3. Kept(q, S) \in Seq(T)
  <2>1. Kept(q, S) \in Seq(T \cap S) /\ T \cap S \subseteq T
    BY KeptType
  <2> QED BY <2>1
<1>4. Kept(q, S) \o one = Append(Kept(q, S), a) /\ Kept(q, S) \o <<>> = Kept(q, S)
  BY <1>3
<1> HIDE DEF one
<1>5. Kept(q \o one, S) = Kept(q, S) \o Kept(one, S)
  BY <1>1, KeptConcat
<1> QED BY <1>1, <1>2, <1>4, <1>5

LEMMA KeptJoined ==
    ASSUME NEW T, NEW p \in Seq(T), NEW q \in Seq(T), NEW S
    PROVE  /\ Joined(p, q) \in Seq(T)
           /\ Kept(Joined(p, q), S) = Joined(Kept(p, S), Kept(q, S))
<1>1. p \o q \in Seq(T)
  OBVIOUS
<1>2. Kept(p \o q, S) = Kept(p, S) \o Kept(q, S)
  BY KeptConcat
<1> QED BY <1>1, <1>2 DEF Joined

LEMMA JoinedAssociative ==
    ASSUME NEW T, NEW p \in Seq(T), NEW q \in Seq(T), NEW r \in Seq(T)
    PROVE  Joined(Joined(p, q), r) = Joined(p, Joined(q, r))
BY DEF Joined

LEMMA JoinedToOne ==
    ASSUME NEW T, NEW q \in Seq(T), NEW m \in T
    PROVE  /\ Joined(<<m>>, q) # <<>> /\ Head(Joined(<<m>>, q)) = m
           /\ Tail(Joined(<<m>>, q)) = q
<1> DEFINE j == <<m>> \o q
<1>1. /\ j \in Seq(T) /\ Len(j) = Len(q) + 1 /\ j[1] = m
      /\ \A i \in 1 .. Len(q) : j[i + 1] = q[i]
  OBVIOUS
<1> HIDE DEF j
<1> DEFINE t == Tail(j)
<1>2. j # <<>> /\ Head(j) = m
  BY <1>1
<1>3. t \in Seq(T) /\ Len(t) = Len(q) /\ \A i \in 1 .. Len(q) : t[i] = j[i + 1]
  BY <1>1, <1>2
<1> HIDE DEF t
<1>4. t = q
  BY <1>1, <1>3, SeqEqual
<1> QED BY <1>2, <1>4 DEF t, j, Joined

LEMMA JoinedBasics ==
    ASSUME NEW T, NEW q \in Seq(T)
    PROVE  /\ Joined(q, <<>>) = q /\ Joined(<<>>, q) = q
           /\ \A m \in T : Joined(q, <<m>>) = Append(q, m)
           /\ q # <<>> => q = Joined(<<Head(q)>>, Tail(q))
           /\ \A m : /\ Joined(<<m>>, q) # <<>> /\ Head(Joined(<<m>>, q)) = m
                     /\ Tail(Joined(<<m>>, q)) = q
<1>1. Joined(q, <<>>) = q /\ Joined(<<>>, q) = q
  BY DEF Joined
<1>2. \A m \in T : Joined(q, <<m>>) = Append(q, m)
  BY AppendIsConcat DEF Joined
<1>3. q # <<>> => q = Joined(<<Head(q)>>, Tail(q))
  BY HeadAndRest DEF Joined
<1>4. ASSUME NEW m
      PROVE  /\ Joined(<<m>>, q) # <<>> /\ Head(Joined(<<m>>, q)) = m
             /\ Tail(Joined(<<m>>, q)) = q
  <2> DEFINE U == T \cup {m}
  <2>1. q \in Seq(U) /\ m \in U
    OBVIOUS
  <2> HIDE DEF U
  <2> QED BY <2>1, JoinedToOne
<1> QED BY <1>1, <1>2, <1>3, <1>4

\* What is put behind a queue.
LEMMA KeptBehind ==
    ASSUME NEW T, NEW S, NEW q \in Seq(T), NEW p \in Seq(T)
    PROVE  /\ p \in Seq(T \ S) => Kept(Joined(q, p), S) = Kept(q, S)
           /\ \A m \in T \cap S : p = <<m>> => Kept(Joined(q, p), S) = Append(Kept(q, S), m)
<1>1. Kept(Joined(q, p), S) = Kept(q, S) \o Kept(p, S)
  BY KeptConcat DEF Joined
<1>2. Kept(q, S) \in Seq(T \cap S)
  BY KeptType
<1>3. ASSUME p \in Seq(T \ S)
      PROVE  Kept(Joined(q, p), S) = Kept(q, S)
  <2>1. Kept(p, S) = <<>>
    BY <1>3, KeptNone
  <2> QED BY <1>1, <1>2, <2>1
<1>4. ASSUME NEW m \in T \cap S, p = <<m>>
      PROVE  Kept(Joined(q, p), S) = Append(Kept(q, S), m)
  <2>1. Kept(p, S) = <<m>>
    BY <1>4, KeptOne
  <2>2. Kept(q, S) \o <<m>> = Append(Kept(q, S), m)
    BY <1>2, <1>4
  <2> QED BY <1>1, <2>1, <2>2
<1> QED BY <1>3, <1>4

LEMMA KeptTail ==
    ASSUME NEW T, NEW q \in Seq(T), q # <<>>, NEW S
    PROVE  /\ Head(q) \in S => Kept(q, S) = <<Head(q)>> \o Kept(Tail(q), S)
           /\ Head(q) \notin S => Kept(q, S) = Kept(Tail(q), S)
<1> DEFINE one == <<Head(q)>>
           rest == Tail(q)
<1>1. q = one \o rest /\ one \in Seq(T) /\ rest \in Seq(T)
  BY HeadAndRest
<1>2. Kept(one, S) = IF Head(q) \in S THEN one ELSE <<>>
  BY KeptOne
<1> HIDE DEF one, rest
<1>3. Kept(q, S) = Kept(one, S) \o Kept(rest, S)
  BY <1>1, KeptConcat
<1>4. Kept(rest, S) \in Seq(T \cap S)
  BY <1>1, KeptType
<1>5. <<>> \o Kept(rest, S) = Kept(rest, S)
  BY <1>4
<1> QED BY <1>2, <1>3, <1>5 DEF one, rest

LEMMA KindsAppend ==
    ASSUME NEW T, NEW q \in Seq(T), NEW m \in T
    PROVE  KindsIn(Append(q, m)) = Append(KindsIn(q), m.what)
<1> DEFINE W == {x.what : x \in T}
           l == KindsIn(Append(q, m))
           k == KindsIn(q)
<1>1. k \in Seq(W) /\ Len(k) = Len(q) /\ \A i \in 1 .. Len(q) : k[i] = q[i].what
  BY DEF KindsIn
<1>2. /\ l \in Seq(W) /\ Len(l) = Len(q) + 1 /\ l[Len(q) + 1] = m.what
      /\ \A i \in 1 .. Len(q) : l[i] = q[i].what
  BY DEF KindsIn
<1>3. m.what \in W
  OBVIOUS
<1> HIDE DEF l, k, W
<1> DEFINE r == Append(k, m.what)
<1>4. /\ r \in Seq(W) /\ Len(r) = Len(q) + 1 /\ r[Len(q) + 1] = m.what
      /\ \A i \in 1 .. Len(q) : r[i] = k[i]
  BY <1>1, <1>3
<1> HIDE DEF r
<1>5. l = r
  BY <1>1, <1>2, <1>4
<1> QED BY <1>5 DEF l, r, k

LEMMA KindsHead ==
    ASSUME NEW T, NEW q \in Seq(T), q # <<>>
    PROVE  /\ KindsIn(q) # <<>> /\ Head(KindsIn(q)) = Head(q).what
           /\ Tail(KindsIn(q)) = KindsIn(Tail(q))
<1> DEFINE W == {x.what : x \in T}
           k == KindsIn(q)
           t == Tail(q)
<1>1. k \in Seq(W) /\ Len(k) = Len(q) /\ \A i \in 1 .. Len(q) : k[i] = q[i].what
  BY DEF KindsIn
<1>2. t \in Seq(T) /\ Len(t) = Len(q) - 1 /\ (\A i \in 1 .. Len(q) - 1 : t[i] = q[i + 1])
      /\ Len(q) \in Nat \ {0}
  OBVIOUS
<1> HIDE DEF k, t
<1> DEFINE l == Tail(k)
           r == KindsIn(t)
<1>3. /\ k # <<>> /\ Head(k) = Head(q).what
      /\ l \in Seq(W) /\ Len(l) = Len(q) - 1 /\ \A i \in 1 .. Len(q) - 1 : l[i] = k[i + 1]
  <2> HIDE DEF W
  <2> QED BY <1>1, <1>2
<1>4. r \in Seq(W) /\ Len(r) = Len(q) - 1 /\ \A i \in 1 .. Len(q) - 1 : r[i] = t[i].what
  BY <1>2 DEF KindsIn
<1> HIDE DEF l, r, W
<1>5. l = r
  BY <1>1, <1>2, <1>3, <1>4
<1> QED BY <1>3, <1>5 DEF l, r, k, t

-----------------------------------------------------------------------------
(* What the constructors of messages, actions and objects return.          *)

LEMMA MessageType ==
    ASSUME NEW w \in PlayerWhat, NEW f \in BOOLEAN
    PROVE  Message(w, f) \in PlayerMessage
  BY DEF Message, PlayerMessage, Streams

LEMMA ScanMessageType ==
    ASSUME NEW g \in Nat
    PROVE  [Message("ScanSources", FALSE) EXCEPT !.gen = g] \in PlayerMessage
  BY DEF Message, PlayerMessage, Streams, PlayerWhat

LEMMA NotificationType ==
    ASSUME NEW w \in PlayerWhat, NEW s \in Streams, NEW g \in Nat, NEW f \in BOOLEAN
    PROVE  Notification(w, s, g, f) \in PlayerMessage
  BY DEF Notification, PlayerMessage

LEMMA ActionType ==
    ASSUME NEW a \in {"Seek", "SetSurface", "ScanSources", "ResumeDecoder", "Reset",
                      "PostMessage"}, NEW f \in BOOLEAN
    PROVE  Action(a, f) \in DeferredAction
  BY DEF Action, DeferredAction, NoCommand, FlushCommand

LEMMA FlushActionType ==
    ASSUME NEW cmd \in [Streams -> FlushCommand]
    PROVE  FlushAction(cmd) \in DeferredAction
  BY DEF FlushAction, DeferredAction

LEMMA CommandTypes ==
    ASSUME NEW c \in FlushCommand, NEW s \in Streams
    PROVE  /\ ForAll(c) \in [Streams -> FlushCommand]
           /\ ForOnly(s, c) \in [Streams -> FlushCommand]
           /\ [ForAll(c) EXCEPT ![s] = "SHUTDOWN"] \in [Streams -> FlushCommand]
  BY DEF ForAll, ForOnly, FlushCommand

LEMMA PostType ==
    ASSUME NEW d \in DecoderState, NEW f \in BOOLEAN,
           NEW w \in {"Configure", "Flush", "Resume", "Shutdown"}
    PROVE  Post(d, w, f) \in DecoderState
<1>1. [what |-> w, flag |-> f] \in DecoderMessage
  BY DEF DecoderMessage
<1>2. Append(d.queue, [what |-> w, flag |-> f]) \in Seq(DecoderMessage)
  BY <1>1 DEF DecoderState
<1> QED BY <1>2 DEF Post, DecoderState

LEMMA NewDecoderType ==
    ASSUME NEW p \in BOOLEAN
    PROVE  NewDecoder(p) \in DecoderState /\ NoDecoder \in DecoderState
  BY DEF NewDecoder, NoDecoder, DecoderState, DecoderMessage

LEMMA OutdatedType ==
    ASSUME NEW d \in DecoderState
    PROVE  Outdated(d) \in DecoderState
  BY DEF Outdated, DecoderState

LEMMA NewRendererType ==
    ASSUME NEW offload \in BOOLEAN
    PROVE  NewRenderer(offload) \in RendererState
  BY DEF NewRenderer, RendererState, RendererMessage

LEMMA ToRendererType ==
    ASSUME NEW r \in RendererState,
           NEW w \in {"Flush", "Pause", "Resume", "CloseAudioSink",
                      "DisableOffloadAudio", "AudioOffloadTearDown"}
    PROVE  ToRenderer(r, w) \in RendererState
<1>1. RendererMsg(w, "audio") \in RendererMessage
  BY DEF RendererMsg, RendererMessage, Streams
<1>2. Append(r.queue, RendererMsg(w, "audio")) \in Seq(RendererMessage)
  BY <1>1 DEF RendererState
<1> QED BY <1>2 DEF ToRenderer, RendererState

LEMMA WithMediaType ==
    ASSUME NEW r \in RendererState, NEW S
    PROVE  WithMedia(r, S) \in RendererState
  BY DEF WithMedia, RendererState

LEMMA OpenOffloadSinkType ==
    ASSUME NEW r \in RendererState, NEW opened \in BOOLEAN
    PROVE  OpenOffloadSink(r, opened) \in RendererState
  BY DEF OpenOffloadSink, RendererState

LEMMA RendererFlushType ==
    ASSUME NEW r \in RendererState, NEW s \in Streams, NEW notify \in BOOLEAN
    PROVE  RendererFlush(r, s, notify) \in RendererState
<1>1. RendererMsg("Flush", s) \in RendererMessage
  BY DEF RendererMsg, RendererMessage
<1>2. (IF r.flushing[s] THEN r.queue ELSE Append(r.queue, RendererMsg("Flush", s)))
        \in Seq(RendererMessage)
  BY <1>1 DEF RendererState
<1>3. /\ [r.notifyComplete EXCEPT ![s] = @ \/ notify] \in [Streams -> BOOLEAN]
      /\ [r.flushing EXCEPT ![s] = TRUE] \in [Streams -> BOOLEAN]
  BY DEF RendererState
<1> QED BY <1>2, <1>3 DEF RendererFlush, RendererState
-----------------------------------------------------------------------------
(* Type correctness, one lemma for each kind of step.                      *)

LEMMA Frame ==
    ASSUME TypeOK
    PROVE  /\ UNCHANGED driverVars => DriverTypeOK'
           /\ UNCHANGED playerQueue => QueueTypeOK'
           /\ UNCHANGED looper => LooperTypeOK'
           /\ UNCHANGED pauseVars => PauseTypeOK'
           /\ UNCHANGED configVars => ConfigTypeOK'
           /\ UNCHANGED mResumePending => ResumeTypeOK'
           /\ UNCHANGED objectVars => ObjectTypeOK'
           /\ UNCHANGED flushVars => FlushTypeOK'
           /\ UNCHANGED mDeferredActions => DeferredTypeOK'
           /\ UNCHANGED scanVars => ScanTypeOK'
           /\ UNCHANGED decoder => DecoderTypeOK'
           /\ UNCHANGED renderer => RendererTypeOK'
           /\ UNCHANGED budget => BudgetTypeOK'
<1> USE DEF TypeOK
<1>1. UNCHANGED driverVars => DriverTypeOK'
  BY DEF DriverTypeOK, driverVars
<1>2. UNCHANGED pauseVars => PauseTypeOK'
  BY DEF PauseTypeOK, pauseVars
<1>3. UNCHANGED configVars => ConfigTypeOK'
  BY DEF ConfigTypeOK, configVars
<1>4. UNCHANGED objectVars => ObjectTypeOK'
  BY DEF ObjectTypeOK, objectVars
<1>5. UNCHANGED flushVars => FlushTypeOK'
  BY DEF FlushTypeOK, flushVars
<1>6. UNCHANGED scanVars => ScanTypeOK'
  BY DEF ScanTypeOK, scanVars
<1> QED BY <1>1, <1>2, <1>3, <1>4, <1>5, <1>6
     DEF QueueTypeOK, LooperTypeOK, ResumeTypeOK, DeferredTypeOK, DecoderTypeOK,
         RendererTypeOK, BudgetTypeOK

LEMMA SpendType ==
    ASSUME TypeOK, NEW event \in BoundedEvents, Spend(event)
    PROVE  BudgetTypeOK'
  BY DEF TypeOK, BudgetTypeOK, Spend

\* What a call of the client leaves alone.
LEMMA CallType ==
    ASSUME TypeOK, NEW m \in PlayerMessage, Call(m)
    PROVE  /\ QueueTypeOK' /\ LooperTypeOK' /\ PauseTypeOK' /\ ResumeTypeOK'
           /\ ObjectTypeOK' /\ FlushTypeOK' /\ DeferredTypeOK' /\ ScanTypeOK'
           /\ DecoderTypeOK' /\ RendererTypeOK'
<1>1. QueueTypeOK'
  BY DEF TypeOK, QueueTypeOK, Call
<1> QED BY Frame, <1>1 DEF Call, playerVarsButSurface

LEMMA ClientStepType ==
    ASSUME TypeOK, ClientStep
    PROVE  TypeOK'
<1> USE DEF TypeOK, DriverTypeOK, DriverStates, ConfigTypeOK
<1>1. CASE ClientSetDataSource
  <2>1. PICK ok \in BOOLEAN : Call(Message("SetDataSource", ok))
    BY <1>1 DEF ClientSetDataSource
  <2>2. Message("SetDataSource", ok) \in PlayerMessage
    BY MessageType DEF PlayerWhat
  <2>3. BudgetTypeOK'
    BY <1>1, SpendType DEF ClientSetDataSource, BoundedEvents
  <2> QED BY <1>1, <2>1, <2>2, <2>3, CallType DEF ClientSetDataSource, Call, playerVarsButSurface
<1>2. CASE ClientPrepare
  <2>1. Message("Prepare", FALSE) \in PlayerMessage
    BY MessageType DEF PlayerWhat
  <2>2. BudgetTypeOK'
    BY <1>2, Frame DEF ClientPrepare
  <2> QED BY <1>2, <2>1, <2>2, CallType DEF ClientPrepare, Call, playerVarsButSurface
<1>3. CASE ClientStart
  <2>1. Message("Start", FALSE) \in PlayerMessage
    BY MessageType DEF PlayerWhat
  <2>2. BudgetTypeOK'
    BY <1>3, SpendType DEF ClientStart, BoundedEvents
  <2> QED BY <1>3, <2>1, <2>2, CallType DEF ClientStart, Call, playerVarsButSurface
<1>4. CASE ClientPause
  <2>1. Message("Pause", FALSE) \in PlayerMessage
    BY MessageType DEF PlayerWhat
  <2>2. BudgetTypeOK'
    BY <1>4, SpendType DEF ClientPause, BoundedEvents
  <2> QED BY <1>4, <2>1, <2>2, CallType DEF ClientPause, Call, playerVarsButSurface
<1>5. CASE ClientSeek
  <2>1. PICK needNotify \in BOOLEAN :
             /\ mSeekInProgress' = (mSeekInProgress \/ needNotify)
             /\ Call(Message("Seek", needNotify))
    BY <1>5 DEF ClientSeek
  <2>2. Message("Seek", needNotify) \in PlayerMessage
    BY MessageType DEF PlayerWhat
  <2>3. BudgetTypeOK'
    BY <1>5, SpendType DEF ClientSeek, BoundedEvents
  <2> QED BY <1>5, <2>1, <2>2, <2>3, CallType DEF ClientSeek, Call, playerVarsButSurface
<1>6. CASE ClientSetSurface
  <2>1. PICK window \in BOOLEAN :
             /\ mNewSurface' = IF window /\ mNativeWindow THEN "pending" ELSE mNewSurface
             /\ Call(Message("SetVideoNativeWindow", window))
    BY <1>6 DEF ClientSetSurface
  <2>2. Message("SetVideoNativeWindow", window) \in PlayerMessage
    BY MessageType DEF PlayerWhat
  <2>3. BudgetTypeOK'
    BY <1>6, SpendType DEF ClientSetSurface, BoundedEvents
  <2> QED BY <1>6, <2>1, <2>2, <2>3, CallType DEF ClientSetSurface, Call, playerVarsButSurface
<1>7. CASE ClientReset
  <2>1. Message("Reset", FALSE) \in PlayerMessage
    BY MessageType DEF PlayerWhat
  <2>2. BudgetTypeOK'
    BY <1>7, SpendType DEF ClientReset, BoundedEvents
  <2> QED BY <1>7, <2>1, <2>2, CallType DEF ClientReset, Call, playerVarsButSurface
<1> QED BY <1>1, <1>2, <1>3, <1>4, <1>5, <1>6, <1>7 DEF ClientStep

\* What a message of the source leaves alone.
LEMMA SourcePostsType ==
    ASSUME TypeOK, NEW m \in PlayerMessage, NEW state \in SourceStates,
           SourcePosts(m, state), BudgetTypeOK'
    PROVE  TypeOK'
<1>1. QueueTypeOK'
  BY DEF TypeOK, QueueTypeOK, SourcePosts
<1>2. ConfigTypeOK'
  BY DEF TypeOK, ConfigTypeOK, SourcePosts
<1> QED BY Frame, <1>1, <1>2 DEF SourcePosts, TypeOK

LEMMA SourceStepType ==
    ASSUME TypeOK, SourceStep
    PROVE  TypeOK'
<1>1. CASE SourcePrepared
  <2>1. Message("Prepared", TRUE) \in PlayerMessage
    BY MessageType DEF PlayerWhat
  <2> QED BY <1>1, <2>1, Frame, SourcePostsType DEF SourcePrepared, SourceStates
<1>2. CASE SourcePrepareError
  <2>1. Message("Prepared", FALSE) \in PlayerMessage
    BY MessageType DEF PlayerWhat
  <2>2. BudgetTypeOK'
    BY <1>2, SpendType DEF SourcePrepareError, BoundedEvents
  <2> QED BY <1>2, <2>1, <2>2, SourcePostsType DEF SourcePrepareError, SourceStates
<1>3. CASE SourceInstantiateSecureDecoders
  <2>1. Message("InstantiateSecureDecoders", FALSE) \in PlayerMessage
    BY MessageType DEF PlayerWhat
  <2>2. BudgetTypeOK'
    BY <1>3, SpendType DEF SourceInstantiateSecureDecoders, BoundedEvents
  <2> QED BY <1>3, <2>1, <2>2, SourcePostsType DEF SourceInstantiateSecureDecoders, SourceStates
<1>4. CASE SourcePauseOnBuffering
  <2>1. Message("PauseOnBufferingStart", FALSE) \in PlayerMessage
    BY MessageType DEF PlayerWhat
  <2>2. BudgetTypeOK'
    BY <1>4, SpendType DEF SourcePauseOnBuffering, BoundedEvents
  <2> QED BY <1>4, <2>1, <2>2, SourcePostsType DEF SourcePauseOnBuffering, SourceStates
<1>5. CASE SourceResumeOnBuffering
  <2>1. Message("ResumeOnBufferingEnd", FALSE) \in PlayerMessage
    BY MessageType DEF PlayerWhat
  <2> QED BY <1>5, <2>1, Frame, SourcePostsType DEF SourceResumeOnBuffering, SourceStates
<1>6. CASE SourceQueueDecoderShutdown
  <2>1. PICK s \in Streams, both \in BOOLEAN :
             SourcePosts(Notification("QueueDecoderShutdown", s, 0, both), "idle")
    BY <1>6 DEF SourceQueueDecoderShutdown
  <2>2. Notification("QueueDecoderShutdown", s, 0, both) \in PlayerMessage
    BY NotificationType DEF PlayerWhat
  <2>3. BudgetTypeOK'
    BY <1>6, SpendType DEF SourceQueueDecoderShutdown, BoundedEvents
  <2> QED BY <2>1, <2>2, <2>3, SourcePostsType DEF SourceStates
<1>7. CASE OldSourcePrepared
  <2>1. PICK ok \in BOOLEAN : playerQueue' = Append(playerQueue, Message("Prepared", ok))
    BY <1>7 DEF OldSourcePrepared
  <2>2. Message("Prepared", ok) \in PlayerMessage
    BY MessageType DEF PlayerWhat
  <2>3. QueueTypeOK'
    BY <2>1, <2>2 DEF TypeOK, QueueTypeOK, Message
  <2>4. ConfigTypeOK'
    BY <1>7 DEF TypeOK, ConfigTypeOK, OldSourcePrepared
  <2> QED BY <1>7, <2>3, <2>4, Frame DEF OldSourcePrepared, TypeOK
<1> QED BY <1>1, <1>2, <1>3, <1>4, <1>5, <1>6, <1>7 DEF SourceStep

-----------------------------------------------------------------------------
(* What the handlers of the player's looper are made of.                   *)

LEMMA ReceiveType ==
    ASSUME TypeOK, NEW w, Receive(w)
    PROVE  QueueTypeOK' /\ Received \in PlayerMessage
  BY DEF TypeOK, QueueTypeOK, Receive, Received

LEMMA DeferType ==
    ASSUME TypeOK, NEW actions \in Seq(DeferredAction), Defer(actions)
    PROVE  DeferredTypeOK' /\ LooperTypeOK'
  BY DEF TypeOK, DeferredTypeOK, LooperTypeOK, LooperStates, Defer

LEMMA PostScanSourcesType ==
    ASSUME TypeOK, NEW queue \in Seq(PlayerMessage), PostScanSources(queue)
    PROVE  QueueTypeOK' /\ ScanTypeOK'
<1>1. CASE mScanSourcesPending
  BY <1>1 DEF TypeOK, ScanTypeOK, QueueTypeOK, PostScanSources, scanVars
<1>2. CASE ~mScanSourcesPending
  <2>1. [Message("ScanSources", FALSE) EXCEPT !.gen = mScanSourcesGeneration] \in PlayerMessage
    BY ScanMessageType DEF TypeOK, ScanTypeOK
  <2> QED BY <1>2, <2>1 DEF TypeOK, ScanTypeOK, QueueTypeOK, PostScanSources, Message
<1> QED BY <1>1, <1>2

LEMMA InstantiateType ==
    ASSUME TypeOK, NEW S, NEW offload \in BOOLEAN, Instantiate(S, offload)
    PROVE  /\ mDecoder' \in [Streams -> DecoderKinds]
           /\ mDecoderGeneration' \in [Streams -> Nat]
           /\ DecoderTypeOK'
<1> DEFINE kind(s) == IF s = "audio" /\ offload THEN "DecoderPassThrough" ELSE "Decoder"
<1>1. mDecoder' = [s \in Streams |-> IF s \in S THEN kind(s) ELSE mDecoder[s]]
  BY DEF Instantiate
<1>2. mDecoder' \in [Streams -> DecoderKinds]
  BY <1>1 DEF TypeOK, ObjectTypeOK, DecoderKinds
<1>3. mDecoderGeneration' \in [Streams -> Nat]
  BY DEF Instantiate, TypeOK, ObjectTypeOK
<1>4. \A s \in Streams : NewDecoder(kind(s) = "DecoderPassThrough") \in DecoderState
  BY NewDecoderType
<1>5. decoder' = [s \in Streams |-> IF s \in S
                    THEN NewDecoder(kind(s) = "DecoderPassThrough") ELSE decoder[s]]
  BY DEF Instantiate
<1>6. DecoderTypeOK'
  BY <1>4, <1>5 DEF TypeOK, DecoderTypeOK, NewDecoder
<1> QED BY <1>2, <1>3, <1>6

LEMMA FinishFlushType ==
    ASSUME TypeOK, NEW status \in [Streams -> FlushStatus],
           NEW complete \in [Streams -> [Parties -> BOOLEAN]],
           FinishFlushIfPossible(status, complete)
    PROVE  FlushTypeOK' /\ LooperTypeOK'
<1>1. AllNone \in [Streams -> FlushStatus]
  BY DEF AllNone, FlushStatus
<1>2. Nothing \in [Streams -> [Parties -> BOOLEAN]]
  BY DEF Nothing
<1>3. LooperTypeOK'
  BY DEF FinishFlushIfPossible, LooperTypeOK, LooperStates
<1>4. FlushTypeOK'
  BY <1>1, <1>2 DEF FinishFlushIfPossible, FlushTypeOK
<1> QED BY <1>3, <1>4

LEMMA HandleFlushCompleteType ==
    ASSUME TypeOK, NEW s \in Streams, NEW party \in Parties, HandleFlushComplete(s, party)
    PROVE  FlushTypeOK' /\ LooperTypeOK' /\ DecoderTypeOK'
<1> DEFINE complete == [mFlushComplete EXCEPT ![s][party] = TRUE]
           both     == BothComplete(complete[s])
           flushed  == both /\ mFlushing[s] = "FLUSHING_DECODER"
           shutdown == both /\ mFlushing[s] = "FLUSHING_DECODER_SHUTDOWN"
           status   == [mFlushing EXCEPT ![s] = IF flushed THEN "FLUSHED"
                                                ELSE IF shutdown THEN "SHUTTING_DOWN_DECODER"
                                                ELSE @]
<1>1. complete \in [Streams -> [Parties -> BOOLEAN]]
  BY DEF TypeOK, FlushTypeOK
<1>2. status \in [Streams -> FlushStatus]
  BY DEF TypeOK, FlushTypeOK, FlushStatus
<1>3. CASE \/ both /\ party = "decoder" /\ ~flushed /\ ~shutdown
           \/ shutdown /\ mDecoder[s] = "NULL"
  <2>1. /\ looper' = IF shutdown THEN "abortNullDecoder" ELSE "abortFlushState"
        /\ UNCHANGED <<flushVars, decoder>>
    BY <1>3 DEF HandleFlushComplete
  <2> QED BY <2>1, Frame DEF LooperTypeOK, LooperStates, AbortStates
<1>4. CASE ~ (\/ both /\ party = "decoder" /\ ~flushed /\ ~shutdown
              \/ shutdown /\ mDecoder[s] = "NULL")
  <2>1. /\ decoder' = IF shutdown THEN [decoder EXCEPT ![s] = Post(@, "Shutdown", FALSE)]
                                  ELSE decoder
        /\ FinishFlushIfPossible(status, complete)
    BY <1>4 DEF HandleFlushComplete
  <2>2. Post(decoder[s], "Shutdown", FALSE) \in DecoderState
    BY PostType DEF TypeOK, DecoderTypeOK
  <2>3. DecoderTypeOK'
    BY <2>1, <2>2 DEF TypeOK, DecoderTypeOK, Post
  <2> QED BY <1>1, <1>2, <2>1, <2>3, FinishFlushType
<1> QED BY <1>3, <1>4

-----------------------------------------------------------------------------
(* The requests of the driver and of the source.                           *)

LEMMA ResumeType ==
    ASSUME TypeOK, Resume
    PROVE  /\ mPaused' \in BOOLEAN /\ LooperTypeOK' /\ DecoderTypeOK' /\ RendererTypeOK'
           /\ mDecoder' \in [Streams -> DecoderKinds]
           /\ mDecoderGeneration' \in [Streams -> Nat]
<1> DEFINE S == IF MissingAudioDecoder THEN Formats \cap {"audio"} ELSE {}
<1>1. /\ Instantiate(S, mOffloadAudio)
      /\ renderer' = IF mRenderer THEN ToRenderer(WithMedia(renderer, S), "Resume")
                     ELSE renderer
  BY DEF Resume
<1>2. /\ mDecoder' \in [Streams -> DecoderKinds]
      /\ mDecoderGeneration' \in [Streams -> Nat]
      /\ DecoderTypeOK'
  BY <1>1, InstantiateType DEF TypeOK, ConfigTypeOK
<1>3. WithMedia(renderer, S) \in RendererState
  BY WithMediaType DEF TypeOK, RendererTypeOK
<1>4. RendererTypeOK'
  BY <1>1, <1>3, ToRendererType DEF TypeOK, RendererTypeOK
<1>5. mPaused' \in BOOLEAN /\ LooperTypeOK'
  BY DEF Resume, Check, LooperTypeOK, LooperStates, AbortStates
<1> QED BY <1>2, <1>4, <1>5

LEMMA PauseType ==
    ASSUME TypeOK, Pause
    PROVE  mPaused' \in BOOLEAN /\ RendererTypeOK'
  BY ToRendererType DEF Pause, TypeOK, RendererTypeOK

LEMMA OnScanSourcesType ==
    ASSUME TypeOK, OnScanSources
    PROVE  TypeOK'
<1>1. PICK found \in SUBSET Formats, opened \in BOOLEAN, more \in BOOLEAN :
         LET missing == {s \in found : /\ mDecoder[s] = "NULL"
                                       /\ s = "video" => mNativeWindow}
             tries   == CanOffload /\ "audio" \in missing
             offload == IF tries THEN renderer'.offload ELSE mOffloadAudio
             again   == /\ more
                        /\ \/ mDecoder'["audio"] = "NULL"
                           \/ mDecoder'["video"] = "NULL" /\ mNativeWindow
         IN /\ tries => renderer.queue = <<>>
            /\ looper' = Check(mSource # "NULL", "abortNullSource", "idle")
            /\ renderer' = WithMedia(IF tries
                 THEN OpenOffloadSink([renderer EXCEPT !.offload = @ \/ ~mOffloadAudio], opened)
                 ELSE renderer, missing)
            /\ mOffloadAudio' = offload
            /\ Instantiate(missing, offload)
            /\ mScanSourcesPending' = again
            /\ scanTimer' = IF again THEN scanTimer \cup {Received.gen} ELSE scanTimer
  BY Zenon DEF OnScanSources
<1> DEFINE missing == {s \in found : /\ mDecoder[s] = "NULL"
                                     /\ s = "video" => mNativeWindow}
           tries   == CanOffload /\ "audio" \in missing
           offload == IF tries THEN renderer'.offload ELSE mOffloadAudio
           again   == /\ more
                      /\ \/ mDecoder'["audio"] = "NULL"
                         \/ mDecoder'["video"] = "NULL" /\ mNativeWindow
           opening == [renderer EXCEPT !.offload = @ \/ ~mOffloadAudio]
<1>2. QueueTypeOK' /\ Received \in PlayerMessage
  BY ReceiveType DEF OnScanSources
<1>3. LooperTypeOK'
  BY <1>1 DEF Check, LooperTypeOK, LooperStates, AbortStates
<1>4. opening \in RendererState
  BY DEF TypeOK, RendererTypeOK, RendererState, ConfigTypeOK
<1>5. OpenOffloadSink(opening, opened) \in RendererState
  BY <1>4, OpenOffloadSinkType
<1>6. RendererTypeOK'
  <2>1. CASE tries
    <3>1. renderer' = WithMedia(OpenOffloadSink(opening, opened), missing)
      BY <1>1, <2>1
    <3> QED BY <1>5, <3>1, WithMediaType DEF RendererTypeOK
  <2>2. CASE ~tries
    <3>1. renderer' = WithMedia(renderer, missing)
      BY <1>1, <2>2
    <3> QED BY <3>1, WithMediaType DEF TypeOK, RendererTypeOK
  <2> QED BY <2>1, <2>2
<1>7. offload \in BOOLEAN
  BY <1>6 DEF RendererTypeOK, RendererState, TypeOK, ConfigTypeOK
<1>8. ConfigTypeOK'
  BY <1>1, <1>7 DEF OnScanSources, TypeOK, ConfigTypeOK
<1>9. ObjectTypeOK' /\ DecoderTypeOK'
  <2>1. Instantiate(missing, offload)
    BY <1>1
  <2>2. /\ mDecoder' \in [Streams -> DecoderKinds]
        /\ mDecoderGeneration' \in [Streams -> Nat]
        /\ DecoderTypeOK'
    BY <1>7, <2>1, InstantiateType
  <2> QED BY <2>2 DEF OnScanSources, TypeOK, ObjectTypeOK
<1>10. mScanSourcesPending' \in BOOLEAN
  BY <1>1
<1>11. ScanTypeOK'
  BY <1>1, <1>2, <1>10 DEF OnScanSources, TypeOK, ScanTypeOK, PlayerMessage
<1> QED BY <1>2, <1>3, <1>6, <1>8, <1>9, <1>11, Frame DEF OnScanSources, TypeOK

LEMMA ActionListType ==
    /\ \A f \in BOOLEAN : SeekActions(f) \in Seq(DeferredAction)
    /\ \A window, refresh \in BOOLEAN : SurfaceActions(window, refresh) \in Seq(DeferredAction)
    /\ ResetActions \in Seq(DeferredAction)
<1>1. /\ FlushAction(ForAll("FLUSH")) \in DeferredAction
      /\ FlushAction(ForAll("SHUTDOWN")) \in DeferredAction
      /\ FlushAction([ForAll("FLUSH") EXCEPT !["video"] = "SHUTDOWN"]) \in DeferredAction
  BY CommandTypes, FlushActionType DEF FlushCommand, Streams
<1>2. ASSUME NEW f \in BOOLEAN
      PROVE  SeekActions(f) \in Seq(DeferredAction)
  <2>1. Action("Seek", f) \in DeferredAction /\ Action("ResumeDecoder", f) \in DeferredAction
    BY ActionType
  <2> QED BY <1>1, <2>1 DEF SeekActions, Action
<1>3. ASSUME NEW window \in BOOLEAN, NEW refresh \in BOOLEAN
      PROVE  SurfaceActions(window, refresh) \in Seq(DeferredAction)
  <2>1. /\ Action("SetSurface", window) \in DeferredAction
        /\ Action("Seek", FALSE) \in DeferredAction
        /\ Action("ScanSources", FALSE) \in DeferredAction
        /\ Action("ResumeDecoder", FALSE) \in DeferredAction
    BY ActionType
  <2>2. RefreshActions(refresh) \in Seq(DeferredAction)
    BY <2>1 DEF RefreshActions, Action
  <2>3. (IF window THEN RefreshActions(refresh) ELSE <<>>) \in Seq(DeferredAction)
    BY <2>2 DEF RefreshActions, Action
  <2> QED BY <1>1, <2>1, <2>3 DEF SurfaceActions, RefreshActions, Action
<1>4. ResetActions \in Seq(DeferredAction)
  <2>1. Action("Reset", FALSE) \in DeferredAction
    BY ActionType
  <2> QED BY <1>1, <2>1 DEF ResetActions, Action
<1> QED BY <1>2, <1>3, <1>4

LEMMA RequestType ==
    ASSUME TypeOK,
           \/ OnSetDataSource \/ OnPrepare \/ OnStart \/ OnStartResumes \/ OnPause
           \/ OnSeek \/ OnReset \/ OnSetVideoNativeWindowAtOnce \/ OnSetVideoNativeWindow
           \/ OnScanSourcesStale \/ OnScanSourcesWaits
    PROVE  TypeOK'
<1> USE Frame DEF Check, LooperTypeOK, LooperStates, AbortStates
<1>1. CASE OnSetDataSource
  <2>1. QueueTypeOK' /\ Received \in PlayerMessage
    BY <1>1, ReceiveType DEF OnSetDataSource
  <2>2. DriverTypeOK' /\ ConfigTypeOK' /\ LooperTypeOK'
    BY <1>1 DEF OnSetDataSource, TypeOK, DriverTypeOK, DriverStates, ConfigTypeOK, SourceStates
  <2> QED BY <1>1, <2>1, <2>2 DEF OnSetDataSource, TypeOK
<1>2. CASE OnPrepare
  <2>1. QueueTypeOK'
    BY <1>2, ReceiveType DEF OnPrepare
  <2>2. ConfigTypeOK' /\ LooperTypeOK'
    BY <1>2 DEF OnPrepare, TypeOK, ConfigTypeOK, SourceStates
  <2> QED BY <1>2, <2>1, <2>2 DEF OnPrepare, TypeOK
<1>3. CASE OnStart
  <2>1. Tail(playerQueue) \in Seq(PlayerMessage)
    BY <1>3 DEF OnStart, TypeOK, QueueTypeOK
  <2>2. QueueTypeOK' /\ ScanTypeOK'
    BY <1>3, <2>1, PostScanSourcesType DEF OnStart
  <2>3. RendererTypeOK'
    BY <1>3, CanOffloadAssumption, NewRendererType DEF OnStart, RendererTypeOK
  <2>4. ConfigTypeOK'
    BY <1>3, CanOffloadAssumption DEF OnStart, TypeOK, ConfigTypeOK
  <2>5. ObjectTypeOK'
    BY <1>3 DEF OnStart, TypeOK, ObjectTypeOK
  <2>6. PauseTypeOK' /\ LooperTypeOK'
    BY <1>3 DEF OnStart, TypeOK, PauseTypeOK
  <2> QED BY <1>3, <2>2, <2>3, <2>4, <2>5, <2>6 DEF OnStart, TypeOK
<1>4. CASE OnStartResumes
  <2>1. QueueTypeOK'
    BY <1>4, ReceiveType DEF OnStartResumes
  <2>2. PauseTypeOK' /\ LooperTypeOK' /\ ObjectTypeOK' /\ DecoderTypeOK' /\ RendererTypeOK'
    <3>1. CASE mPaused
      BY <1>4, <3>1, ResumeType DEF OnStartResumes, TypeOK, PauseTypeOK, ObjectTypeOK
    <3>2. CASE ~mPaused
      BY <1>4, <3>2 DEF OnStartResumes, TypeOK, PauseTypeOK, ObjectTypeOK
    <3> QED BY <3>1, <3>2
  <2> QED BY <1>4, <2>1, <2>2 DEF OnStartResumes, TypeOK
<1>5. CASE OnPause
  <2>1. QueueTypeOK'
    BY <1>5, ReceiveType DEF OnPause
  <2>2. PauseTypeOK' /\ RendererTypeOK'
    BY <1>5, PauseType DEF OnPause, TypeOK, PauseTypeOK
  <2> QED BY <1>5, <2>1, <2>2 DEF OnPause, TypeOK
<1>6. CASE OnSeek
  <2>1. QueueTypeOK' /\ Received.flag \in BOOLEAN
    BY <1>6, ReceiveType DEF OnSeek, PlayerMessage
  <2>2. SeekActions(Received.flag) \in Seq(DeferredAction)
    BY <2>1, ActionListType
  <2>3. DeferredTypeOK' /\ LooperTypeOK'
    BY <1>6, <2>2, DeferType DEF OnSeek
  <2> QED BY <1>6, <2>1, <2>3 DEF OnSeek, TypeOK
<1>7. CASE OnReset
  <2>1. QueueTypeOK'
    BY <1>7, ReceiveType DEF OnReset
  <2>2. DeferredTypeOK' /\ LooperTypeOK'
    BY <1>7, ActionListType, DeferType DEF OnReset
  <2> QED BY <1>7, <2>1, <2>2 DEF OnReset, TypeOK
<1>8. CASE OnSetVideoNativeWindowAtOnce
  <2>1. QueueTypeOK' /\ Received.flag \in BOOLEAN
    BY <1>8, ReceiveType DEF OnSetVideoNativeWindowAtOnce, PlayerMessage
  <2>2. ConfigTypeOK' /\ DriverTypeOK' /\ LooperTypeOK'
    BY <1>8, <2>1 DEF OnSetVideoNativeWindowAtOnce, InstallWindow, TypeOK, ConfigTypeOK, DriverTypeOK
  <2> QED BY <1>8, <2>1, <2>2 DEF OnSetVideoNativeWindowAtOnce, TypeOK
<1>9. CASE OnSetVideoNativeWindow
  <2>1. QueueTypeOK' /\ Received.flag \in BOOLEAN
    BY <1>9, ReceiveType DEF OnSetVideoNativeWindow, PlayerMessage
  <2>2. PICK position \in BOOLEAN : Defer(SurfaceActions(Received.flag, mStarted /\ position))
    BY <1>9 DEF OnSetVideoNativeWindow
  <2>3. SurfaceActions(Received.flag, mStarted /\ position) \in Seq(DeferredAction)
    <3>1. (mStarted /\ position) \in BOOLEAN
      OBVIOUS
    <3> QED BY <2>1, <3>1, ActionListType, Zenon
  <2>4. DeferredTypeOK' /\ LooperTypeOK'
    BY <2>2, <2>3, DeferType, Zenon
  <2> QED BY <1>9, <2>1, <2>4 DEF OnSetVideoNativeWindow, TypeOK
<1>10. CASE OnScanSourcesStale
  BY <1>10, ReceiveType DEF OnScanSourcesStale, TypeOK, playerVars, playerVarsButSurface, configVars
<1>11. CASE OnScanSourcesWaits
  <2>1. QueueTypeOK' /\ Received \in PlayerMessage
    BY <1>11, ReceiveType DEF OnScanSourcesWaits
  <2>2. ScanTypeOK'
    BY <1>11, <2>1 DEF OnScanSourcesWaits, TypeOK, ScanTypeOK, PlayerMessage
  <2> QED BY <1>11, <2>1, <2>2 DEF OnScanSourcesWaits, TypeOK
<1> QED BY <1>1, <1>2, <1>3, <1>4, <1>5, <1>6, <1>7, <1>8, <1>9, <1>10, <1>11

LEMMA SourceNotifyType ==
    ASSUME TypeOK,
           \/ OnSourceNotifyGone \/ OnPrepared \/ OnInstantiateSecureDecoders
           \/ OnPauseOnBufferingStart \/ OnResumeOnBufferingEnd \/ OnQueueDecoderShutdown
    PROVE  TypeOK'
<1> USE Frame DEF Check, LooperTypeOK, LooperStates, AbortStates
<1>1. CASE OnSourceNotifyGone
  BY <1>1, ReceiveType DEF OnSourceNotifyGone, TypeOK, playerVars, playerVarsButSurface, configVars
<1>2. CASE OnPrepared
  <2>1. QueueTypeOK'
    BY <1>2, ReceiveType DEF OnPrepared
  <2>2. DriverTypeOK'
    BY <1>2 DEF OnPrepared, TypeOK, DriverTypeOK, DriverStates
  <2>3. <<FlushAction(ForAll("SHUTDOWN"))>> \in Seq(DeferredAction)
    <3>1. FlushAction(ForAll("SHUTDOWN")) \in DeferredAction
      BY CommandTypes, FlushActionType DEF FlushCommand, Streams
    <3> QED BY <3>1
  <2>4. DeferredTypeOK' /\ LooperTypeOK'
    BY <1>2, <2>3, DeferType DEF OnPrepared, TypeOK
  <2> QED BY <1>2, <2>1, <2>2, <2>4 DEF OnPrepared, TypeOK
<1>3. CASE OnInstantiateSecureDecoders
  <2>1. QueueTypeOK'
    BY <1>3, ReceiveType DEF OnInstantiateSecureDecoders
  <2>2. ConfigTypeOK' /\ LooperTypeOK'
    BY <1>3 DEF OnInstantiateSecureDecoders, TypeOK, ConfigTypeOK, SourceStates
  <2> QED BY <1>3, <2>1, <2>2 DEF OnInstantiateSecureDecoders, TypeOK
<1>4. CASE OnPauseOnBufferingStart
  <2>1. QueueTypeOK'
    BY <1>4, ReceiveType DEF OnPauseOnBufferingStart
  <2>2. PauseTypeOK' /\ RendererTypeOK'
    BY <1>4, PauseType DEF OnPauseOnBufferingStart, TypeOK, PauseTypeOK
  <2> QED BY <1>4, <2>1, <2>2 DEF OnPauseOnBufferingStart, TypeOK
<1>5. CASE OnResumeOnBufferingEnd
  <2>1. QueueTypeOK'
    BY <1>5, ReceiveType DEF OnResumeOnBufferingEnd
  <2>2. PauseTypeOK' /\ LooperTypeOK' /\ ObjectTypeOK' /\ DecoderTypeOK' /\ RendererTypeOK'
    <3>1. CASE BufferingResumes
      BY <1>5, <3>1, ResumeType DEF OnResumeOnBufferingEnd, TypeOK, PauseTypeOK, ObjectTypeOK
    <3>2. CASE ~BufferingResumes
      BY <1>5, <3>2 DEF OnResumeOnBufferingEnd, TypeOK, PauseTypeOK, ObjectTypeOK
    <3> QED BY <3>1, <3>2
  <2> QED BY <1>5, <2>1, <2>2 DEF OnResumeOnBufferingEnd, TypeOK
<1>6. CASE OnQueueDecoderShutdown
  <2> DEFINE flush == FlushAction(IF Received.flag THEN ForAll("SHUTDOWN")
                                  ELSE ForOnly(Received.stream, "SHUTDOWN"))
  <2>1. QueueTypeOK' /\ Received.stream \in Streams
    BY <1>6, ReceiveType DEF OnQueueDecoderShutdown, PlayerMessage
  <2>2. flush \in DeferredAction
    BY <2>1, CommandTypes, FlushActionType DEF FlushCommand
  <2>3. /\ Action("ScanSources", FALSE) \in DeferredAction
        /\ Action("PostMessage", FALSE) \in DeferredAction
    BY ActionType
  <2>4. <<flush, Action("ScanSources", FALSE), Action("PostMessage", FALSE)>>
          \in Seq(DeferredAction)
    BY <2>2, <2>3 DEF Action
  <2>5. DeferredTypeOK' /\ LooperTypeOK'
    BY <1>6, <2>4, DeferType, Zenon DEF OnQueueDecoderShutdown
  <2> QED BY <1>6, <2>1, <2>5 DEF OnQueueDecoderShutdown, TypeOK
<1> QED BY <1>1, <1>2, <1>3, <1>4, <1>5, <1>6

-----------------------------------------------------------------------------
(* The notifications of the decoders and of the renderer.                  *)

LEMMA NotifyType ==
    ASSUME TypeOK,
           \/ OnNotifyStale \/ OnInputDiscontinuity \/ OnFlushCompleted
           \/ OnRendererFlushComplete \/ OnShutdownCompleted \/ OnResumeCompleted
    PROVE  TypeOK'
<1> USE Frame DEF LooperTypeOK, LooperStates, AbortStates, ReceiveFromDecoder
<1>1. CASE OnNotifyStale
  BY <1>1, ReceiveType DEF OnNotifyStale, TypeOK, playerVars, playerVarsButSurface, configVars
<1>2. CASE OnInputDiscontinuity
  <2>1. QueueTypeOK'
    BY <1>2, ReceiveType DEF OnInputDiscontinuity
  <2>2. Action("ScanSources", FALSE) \in DeferredAction
    BY ActionType
  <2>3. <<Action("ScanSources", FALSE)>> \in Seq(DeferredAction)
    BY <2>2 DEF Action
  <2>4. DeferredTypeOK' /\ LooperTypeOK'
    BY <1>2, <2>3, DeferType, Zenon DEF OnInputDiscontinuity
  <2> QED BY <1>2, <2>1, <2>4 DEF OnInputDiscontinuity, TypeOK
<1>3. CASE OnFlushCompleted
  <2>1. QueueTypeOK' /\ Received.stream \in Streams
    BY <1>3, ReceiveType DEF OnFlushCompleted, PlayerMessage
  <2>2. FlushTypeOK' /\ LooperTypeOK' /\ DecoderTypeOK'
    BY <1>3, <2>1, HandleFlushCompleteType DEF OnFlushCompleted, Parties
  <2> QED BY <1>3, <2>1, <2>2 DEF OnFlushCompleted, TypeOK
<1>4. CASE OnRendererFlushComplete
  <2>1. QueueTypeOK' /\ Received.stream \in Streams
    BY <1>4, ReceiveType DEF OnRendererFlushComplete, PlayerMessage
  <2>2. FlushTypeOK' /\ LooperTypeOK' /\ DecoderTypeOK'
    BY <1>4, <2>1, HandleFlushCompleteType DEF OnRendererFlushComplete, Parties
  <2> QED BY <1>4, <2>1, <2>2 DEF OnRendererFlushComplete, TypeOK
<1>5. CASE OnShutdownCompleted
  <2> DEFINE s == Received.stream
  <2>1. QueueTypeOK' /\ s \in Streams
    BY <1>5, ReceiveType DEF OnShutdownCompleted, PlayerMessage
  <2>2. ObjectTypeOK'
    BY <1>5, <2>1 DEF OnShutdownCompleted, TypeOK, ObjectTypeOK, DecoderKinds
  <2>3. NoDecoder \in DecoderState
    BY NewDecoderType
  <2>4. DecoderTypeOK'
    BY <1>5, <2>1, <2>3 DEF OnShutdownCompleted, TypeOK, DecoderTypeOK, NoDecoder
  <2>5. FlushTypeOK' /\ LooperTypeOK'
    <3>1. CASE mFlushing[s] = "SHUTTING_DOWN_DECODER"
      <4>1. FinishFlushIfPossible([mFlushing EXCEPT ![s] = "SHUT_DOWN"], mFlushComplete)
        BY <1>5, <3>1 DEF OnShutdownCompleted
      <4>2. /\ [mFlushing EXCEPT ![s] = "SHUT_DOWN"] \in [Streams -> FlushStatus]
            /\ mFlushComplete \in [Streams -> [Parties -> BOOLEAN]]
        BY <2>1 DEF TypeOK, FlushTypeOK, FlushStatus
      <4> QED BY <4>1, <4>2, FinishFlushType
    <3>2. CASE mFlushing[s] # "SHUTTING_DOWN_DECODER"
      BY <1>5, <3>2 DEF OnShutdownCompleted, TypeOK, FlushTypeOK, flushVars
    <3> QED BY <3>1, <3>2
  <2> QED BY <1>5, <2>1, <2>2, <2>4, <2>5 DEF OnShutdownCompleted, TypeOK
<1>6. CASE OnResumeCompleted
  <2>1. QueueTypeOK'
    BY <1>6, ReceiveType DEF OnResumeCompleted
  <2>2. DriverTypeOK' /\ ResumeTypeOK'
    BY <1>6 DEF OnResumeCompleted, FinishResume, TypeOK, DriverTypeOK, ResumeTypeOK
  <2> QED BY <1>6, <2>1, <2>2 DEF OnResumeCompleted, TypeOK
<1> QED BY <1>1, <1>2, <1>3, <1>4, <1>5, <1>6

LEMMA ErrorType ==
    ASSUME TypeOK,
           \/ OnErrorIgnored \/ OnErrorWhenNotFlushing \/ OnErrorWhileFlushing
           \/ OnErrorWhenFlushed
    PROVE  TypeOK'
<1> USE Frame DEF LooperTypeOK, LooperStates, AbortStates, ReceiveFromDecoder
<1>1. CASE OnErrorIgnored
  BY <1>1, ReceiveType DEF OnErrorIgnored, TypeOK, playerVars, playerVarsButSurface, configVars
<1>2. CASE OnErrorWhenNotFlushing
  <2>1. QueueTypeOK' /\ Received.stream \in Streams
    BY <1>2, ReceiveType DEF OnErrorWhenNotFlushing, ReceiveError, PlayerMessage
  <2>2. FlushAction(ForOnly(Received.stream, "SHUTDOWN")) \in DeferredAction
    BY <2>1, CommandTypes, FlushActionType DEF FlushCommand
  <2>3. <<FlushAction(ForOnly(Received.stream, "SHUTDOWN"))>> \in Seq(DeferredAction)
    BY <2>2
  <2>4. DeferredTypeOK' /\ LooperTypeOK'
    BY <1>2, <2>3, DeferType DEF OnErrorWhenNotFlushing
  <2> QED BY <1>2, <2>1, <2>4 DEF OnErrorWhenNotFlushing, ReceiveError, TypeOK
<1>3. CASE OnErrorWhileFlushing
  <2>1. QueueTypeOK'
    BY <1>3, ReceiveType DEF OnErrorWhileFlushing, ReceiveError
  <2>2. FlushTypeOK' /\ LooperTypeOK'
    <3>1. CASE mFlushing[Received.stream] = "SHUT_DOWN"
      BY <1>3, <3>1, FinishFlushType DEF OnErrorWhileFlushing, TypeOK, FlushTypeOK
    <3>2. CASE mFlushing[Received.stream] # "SHUT_DOWN"
      BY <1>3, <3>2 DEF OnErrorWhileFlushing, TypeOK, FlushTypeOK, FlushStatus
    <3> QED BY <3>1, <3>2
  <2> QED BY <1>3, <2>1, <2>2 DEF OnErrorWhileFlushing, ReceiveError, TypeOK
<1>4. CASE OnErrorWhenFlushed
  <2> DEFINE s == Received.stream
  <2>1. QueueTypeOK' /\ s \in Streams
    BY <1>4, ReceiveType DEF OnErrorWhenFlushed, ReceiveError, PlayerMessage
  <2>2. FlushTypeOK' /\ LooperTypeOK'
    BY <1>4 DEF OnErrorWhenFlushed, TypeOK, FlushTypeOK, FlushStatus, Check
  <2>3. Post(decoder[s], "Shutdown", FALSE) \in DecoderState
    BY <2>1, PostType DEF TypeOK, DecoderTypeOK
  <2>4. DecoderTypeOK'
    BY <1>4, <2>1, <2>3 DEF OnErrorWhenFlushed, TypeOK, DecoderTypeOK, Post
  <2> QED BY <1>4, <2>1, <2>2, <2>4 DEF OnErrorWhenFlushed, ReceiveError, TypeOK
<1> QED BY <1>1, <1>2, <1>3, <1>4

LEMMA TearDownType ==
    ASSUME TypeOK, OnAudioOffloadTearDown \/ OnAudioSinkClosed
    PROVE  TypeOK'
<1> USE Frame DEF LooperTypeOK, LooperStates
<1>1. CASE OnAudioOffloadTearDown
  <2>1. QueueTypeOK'
    BY <1>1, ReceiveType DEF OnAudioOffloadTearDown
  <2>2. RendererTypeOK'
    BY <1>1, ToRendererType DEF OnAudioOffloadTearDown, TypeOK, RendererTypeOK
  <2> QED BY <1>1, <2>1, <2>2 DEF OnAudioOffloadTearDown, TypeOK
<1>2. CASE OnAudioSinkClosed
  <2> DEFINE error    == looper = "tearError"
             audio    == RendererFlush(renderer, "audio", FALSE)
             flushed  == IF mDecoder["video"] = "NULL" THEN audio
                         ELSE RendererFlush(audio, "video", FALSE)
             software == error /\ "audio" \in Formats
             media    == WithMedia(flushed, Formats)
             newAudio == IF software THEN NewDecoder(FALSE) ELSE NoDecoder
  <2>1. audio \in RendererState
    BY RendererFlushType DEF TypeOK, RendererTypeOK, Streams
  <2>2. RendererFlush(audio, "video", FALSE) \in RendererState
    BY <2>1, RendererFlushType DEF Streams
  <2>3. flushed \in RendererState
    BY <2>1, <2>2, Zenon
  <2>4. media \in RendererState
    BY <2>3, WithMediaType, Zenon
  <2>5. ToRenderer(media, "DisableOffloadAudio") \in RendererState
    BY <2>4, ToRendererType, Zenon
  <2>6. renderer' = IF error THEN ToRenderer(media, "DisableOffloadAudio") ELSE flushed
    BY <1>2, Zenon DEF OnAudioSinkClosed
  <2>7. RendererTypeOK'
    BY <2>3, <2>5, <2>6, Zenon DEF RendererTypeOK
  <2>8. ConfigTypeOK'
    BY <1>2 DEF OnAudioSinkClosed, TypeOK, ConfigTypeOK
  <2>9. ObjectTypeOK'
    <3>1. mDecoder' \in [Streams -> DecoderKinds]
      BY <1>2 DEF OnAudioSinkClosed, TypeOK, ObjectTypeOK, DecoderKinds
    <3>2. mDecoderGeneration' \in [Streams -> Nat]
      <4>1. \/ mDecoderGeneration' = [mDecoderGeneration EXCEPT !["audio"] = @ + 1]
            \/ mDecoderGeneration' = [mDecoderGeneration EXCEPT !["audio"] = @ + 2]
        BY <1>2, Zenon DEF OnAudioSinkClosed
      <4> QED BY <4>1 DEF TypeOK, ObjectTypeOK
    <3> QED BY <1>2, <3>1, <3>2 DEF OnAudioSinkClosed, TypeOK, ObjectTypeOK
  <2>10. newAudio \in DecoderState
    BY NewDecoderType DEF NewDecoder
  <2>11. Outdated(decoder["video"]) \in DecoderState
    BY OutdatedType DEF TypeOK, DecoderTypeOK, Streams
  <2>12. decoder' = [decoder EXCEPT !["audio"] = newAudio, !["video"] = Outdated(@)]
    BY <1>2, Zenon DEF OnAudioSinkClosed
  <2>13. DecoderTypeOK'
    <3> HIDE DEF newAudio
    <3> QED BY <2>10, <2>11, <2>12 DEF TypeOK, DecoderTypeOK
  <2>14. LooperTypeOK'
    BY <1>2 DEF OnAudioSinkClosed
  <2> QED BY <1>2, <2>7, <2>8, <2>9, <2>13, <2>14 DEF OnAudioSinkClosed, TypeOK
<1> QED BY <1>1, <1>2

-----------------------------------------------------------------------------
(* The deferred actions.                                                   *)

LEMMA ExecuteType ==
    ASSUME TypeOK, NEW a, Execute(a)
    PROVE  DeferredTypeOK' /\ Next1 \in DeferredAction
  BY DEF TypeOK, DeferredTypeOK, Execute, Next1

LEMMA ForgetScansType ==
    ASSUME TypeOK, ForgetScans
    PROVE  ScanTypeOK'
<1>1. mScanSourcesGeneration \in Nat /\ mScanSourcesGeneration' = mScanSourcesGeneration + 1
  BY DEF TypeOK, ScanTypeOK, ForgetScans
<1>2. mScanSourcesPending' \in BOOLEAN /\ scanTimer' \in SUBSET Nat
  BY DEF TypeOK, ScanTypeOK, ForgetScans
<1> QED BY <1>1, <1>2 DEF ScanTypeOK

LEMMA DeferredStepType ==
    ASSUME TypeOK, DeferredStep
    PROVE  TypeOK'
<1> USE Frame DEF LooperTypeOK, LooperStates, AbortStates
<1>1. CASE DeferredDone
  BY <1>1 DEF DeferredDone, TypeOK
<1>2. CASE PerformDecoderFlush
  <2> DEFINE F == {s \in Streams : Next1.cmd[s] # "NONE" /\ mDecoder[s] # "NULL"}
  <2>1. DeferredTypeOK'
    BY <1>2, ExecuteType DEF PerformDecoderFlush
  <2>2. \A s \in Streams : Post(decoder[s], "Flush", FALSE) \in DecoderState
    BY PostType DEF TypeOK, DecoderTypeOK
  <2>3. decoder' = [s \in Streams |-> IF s \in F THEN Post(decoder[s], "Flush", FALSE)
                                      ELSE decoder[s]]
    BY <1>2 DEF PerformDecoderFlush
  <2>4. DecoderTypeOK'
    BY <2>2, <2>3 DEF TypeOK, DecoderTypeOK, Post
  <2>5. mFlushing' \in [Streams -> FlushStatus]
    BY <1>2 DEF PerformDecoderFlush, TypeOK, FlushTypeOK, FlushStatus
  <2>6. mFlushComplete' \in [Streams -> [Parties -> BOOLEAN]]
    <3>1. mFlushComplete' = [s \in Streams |->
                IF s \in F THEN [p \in Parties |-> p = "renderer" /\ ~mRenderer]
                ELSE mFlushComplete[s]]
      BY <1>2 DEF PerformDecoderFlush
    <3>2. [p \in Parties |-> p = "renderer" /\ ~mRenderer] \in [Parties -> BOOLEAN]
      OBVIOUS
    <3> QED BY <3>1, <3>2 DEF TypeOK, FlushTypeOK
  <2>7. ScanTypeOK'
    <3>1. ForgetScans \/ UNCHANGED scanVars
      BY <1>2, Zenon DEF PerformDecoderFlush
    <3> QED BY <3>1, ForgetScansType, Frame
  <2> QED BY <1>2, <2>1, <2>4, <2>5, <2>6, <2>7 DEF PerformDecoderFlush, TypeOK, FlushTypeOK
<1>3. CASE PerformSeek
  <2>1. DeferredTypeOK'
    BY <1>3, ExecuteType DEF PerformSeek
  <2>2. DecoderTypeOK'
    BY <1>3, OutdatedType DEF PerformSeek, TypeOK, DecoderTypeOK
  <2> QED BY <1>3, <2>1, <2>2 DEF PerformSeek, TypeOK
<1>4. CASE PerformSetSurface
  <2>1. DeferredTypeOK' /\ Next1.flag \in BOOLEAN
    BY <1>4, ExecuteType DEF PerformSetSurface, DeferredAction
  <2>2. ConfigTypeOK' /\ DriverTypeOK' /\ LooperTypeOK'
    BY <1>4, <2>1 DEF PerformSetSurface, InstallWindow, Check, TypeOK, ConfigTypeOK, DriverTypeOK
  <2> QED BY <1>4, <2>1, <2>2 DEF PerformSetSurface, TypeOK
<1>5. CASE PerformResumeDecoders
  <2>1. DeferredTypeOK' /\ Next1.flag \in BOOLEAN
    BY <1>5, ExecuteType DEF PerformResumeDecoders, DeferredAction
  <2>2. ResumeTypeOK' /\ DriverTypeOK'
    BY <1>5, <2>1 DEF PerformResumeDecoders, AwaitResume, FinishResume, TypeOK, ResumeTypeOK, DriverTypeOK
  <2>3. \A s \in Streams : Post(decoder[s], "Resume", Next1.flag /\ s = "video") \in DecoderState
    <3> TAKE s \in Streams
    <3>1. (Next1.flag /\ s = "video") \in BOOLEAN
      OBVIOUS
    <3>2. decoder[s] \in DecoderState
      BY DEF TypeOK, DecoderTypeOK
    <3> QED BY <3>1, <3>2, PostType, Zenon
  <2>4. decoder' = [s \in Streams |-> IF mDecoder[s] = "NULL" THEN decoder[s]
                       ELSE Post(decoder[s], "Resume", Next1.flag /\ s = "video")]
    BY <1>5 DEF PerformResumeDecoders
  <2>5. DecoderTypeOK'
    BY <2>3, <2>4, Zenon DEF TypeOK, DecoderTypeOK
  <2> QED BY <1>5, <2>1, <2>2, <2>5 DEF PerformResumeDecoders, TypeOK
<1>6. CASE PerformScanSources
  <2>1. DeferredTypeOK'
    BY <1>6, ExecuteType DEF PerformScanSources
  <2>2. QueueTypeOK' /\ ScanTypeOK'
    BY <1>6, PostScanSourcesType DEF PerformScanSources, TypeOK, QueueTypeOK
  <2> QED BY <1>6, <2>1, <2>2 DEF PerformScanSources, TypeOK
<1>7. CASE PerformPostMessage
  BY <1>7, ExecuteType DEF PerformPostMessage, TypeOK
<1>8. CASE PerformReset
  <2>1. DeferredTypeOK'
    BY <1>8, ExecuteType DEF PerformReset
  <2>2. ScanTypeOK'
    BY <1>8, ForgetScansType DEF PerformReset
  <2>3. RendererTypeOK'
    BY <1>8, NewRendererType DEF PerformReset, RendererTypeOK
  <2>4. DriverTypeOK' /\ LooperTypeOK'
    BY <1>8 DEF PerformReset, Check, TypeOK, DriverTypeOK, DriverStates
  <2>5. ConfigTypeOK'
    BY <1>8 DEF PerformReset, TypeOK, ConfigTypeOK, SourceStates
  <2>6. PauseTypeOK'
    BY <1>8 DEF PerformReset, StopPlayer, TypeOK, PauseTypeOK
  <2>7. ObjectTypeOK'
    <3>1. /\ UNCHANGED <<mDecoder, mDecoderGeneration>>
          /\ mRenderer' = FALSE
          /\ mRendererGeneration' = mRendererGeneration + 1
      BY <1>8 DEF PerformReset
    <3>2. mRendererGeneration' \in Nat
      BY <3>1 DEF TypeOK, ObjectTypeOK
    <3> QED BY <3>1, <3>2 DEF TypeOK, ObjectTypeOK
  <2> QED BY <1>8, <2>1, <2>2, <2>3, <2>4, <2>5, <2>6, <2>7 DEF PerformReset, TypeOK
<1> QED BY <1>1, <1>2, <1>3, <1>4, <1>5, <1>6, <1>7, <1>8 DEF DeferredStep

-----------------------------------------------------------------------------
(* The decoder and the renderer loopers, and the environment.              *)

\* What a decoder posts to the player.
LEMMA NotifyTypes ==
    ASSUME TypeOK, NEW s \in Streams, NEW f \in BOOLEAN, NEW w \in PlayerWhat
    PROVE  Notify(s, w, f) \in PlayerMessage
  BY NotificationType DEF Notify, TypeOK, ObjectTypeOK

LEMMA ConcatenationType ==
    ASSUME NEW T, NEW a \in Seq(T), NEW b \in Seq(T)
    PROVE  a \o b \in Seq(T)
  OBVIOUS

\* The messages of the decoders.
DecoderNotification == {m \in PlayerMessage : m.what \in DecoderNotify}

LEMMA DecoderAnswers ==
    ASSUME TypeOK, NEW s \in Streams
    PROVE  /\ \A ok \in BOOLEAN : FlushAnswers(s, ok) \in Seq(DecoderNotification)
           /\ ResumeCompletedIfPending(s) \in Seq(DecoderNotification)
           /\ <<Notify(s, "ShutdownCompleted", FALSE)>> \in Seq(DecoderNotification)
           /\ \A f \in BOOLEAN : <<Notify(s, "Error", f)>> \in Seq(DecoderNotification)
           /\ <<Notify(s, "InputDiscontinuity", FALSE)>> \in Seq(DecoderNotification)
<1>1. /\ Notify(s, "FlushCompleted", FALSE) \in DecoderNotification
      /\ Notify(s, "ShutdownCompleted", FALSE) \in DecoderNotification
      /\ Notify(s, "ResumeCompleted", FALSE) \in DecoderNotification
      /\ Notify(s, "InputDiscontinuity", FALSE) \in DecoderNotification
      /\ \A f \in BOOLEAN : Notify(s, "Error", f) \in DecoderNotification
  BY NotifyTypes DEF PlayerWhat, DecoderNotify, DecoderNotification, Notify, Notification
<1> USE DEF Notify, Notification
<1>2. \A ok \in BOOLEAN : FlushAnswers(s, ok) \in Seq(DecoderNotification)
  <2> TAKE ok \in BOOLEAN
  <2>1. /\ <<Notify(s, "Error", FALSE)>> \in Seq(DecoderNotification)
        /\ <<Notify(s, "FlushCompleted", FALSE)>> \in Seq(DecoderNotification)
    <3>1. Notify(s, "Error", FALSE) \in DecoderNotification
      BY <1>1, Zenon
    <3> QED BY <1>1, <3>1
  <2>2. (IF ok THEN <<>> ELSE <<Notify(s, "Error", FALSE)>>) \in Seq(DecoderNotification)
    BY <2>1
  <2> QED BY <2>1, <2>2, ConcatenationType, Zenon DEF FlushAnswers
<1>3. ResumeCompletedIfPending(s) \in Seq(DecoderNotification)
  BY <1>1 DEF ResumeCompletedIfPending
<1> QED BY <1>1, <1>2, <1>3

LEMMA AnswerTypes ==
    ASSUME TypeOK, NEW s \in Streams
    PROVE  /\ \A ok \in BOOLEAN : FlushAnswers(s, ok) \in Seq(PlayerMessage)
           /\ ResumeCompletedIfPending(s) \in Seq(PlayerMessage)
           /\ <<Notify(s, "ShutdownCompleted", FALSE)>> \in Seq(PlayerMessage)
           /\ \A f \in BOOLEAN : <<Notify(s, "Error", f)>> \in Seq(PlayerMessage)
           /\ <<Notify(s, "InputDiscontinuity", FALSE)>> \in Seq(PlayerMessage)
<1>1. DecoderNotification \subseteq PlayerMessage
  BY DEF DecoderNotification
<1>2. \A r \in Seq(DecoderNotification) : r \in Seq(PlayerMessage)
  BY <1>1
<1> QED BY <1>2, DecoderAnswers, Zenon

\* A step of a decoder posts to the player and changes the decoder only.
LEMMA DecoderStepType ==
    ASSUME TypeOK, NEW s \in Streams, NEW d \in DecoderState,
           NEW notifies \in Seq(PlayerMessage), DecoderStep(s, d, notifies),
           RendererTypeOK', BudgetTypeOK'
    PROVE  TypeOK'
<1>1. QueueTypeOK'
  BY DEF TypeOK, QueueTypeOK, DecoderStep
<1>2. DecoderTypeOK'
  BY DEF TypeOK, DecoderTypeOK, DecoderStep
<1> QED BY <1>1, <1>2, Frame DEF DecoderStep, TypeOK, playerVars, playerVarsButSurface, configVars

LEMMA CodecCallType ==
    ASSUME TypeOK, NEW ok \in BOOLEAN, CodecCall(ok)
    PROVE  BudgetTypeOK'
  BY SpendType, Frame DEF CodecCall, BoundedEvents

LEMMA HandledType ==
    ASSUME NEW d \in DecoderState, d.queue # <<>>
    PROVE  Handled(d) \in DecoderState /\ Head(d.queue).flag \in BOOLEAN
<1>1. Tail(d.queue) \in Seq(DecoderMessage) /\ Head(d.queue) \in DecoderMessage
  BY DEF DecoderState
<1> QED BY <1>1 DEF Handled, DecoderState, DecoderMessage

LEMMA DecoderType ==
    ASSUME TypeOK, NEW s \in Streams,
           DecoderMessageStep(s) \/ DecoderPulls(s) \/ DecoderOutputs(s)
             \/ DecoderFails(s) \/ PassThroughDiscontinuity(s)
    PROVE  TypeOK'
<1> DEFINE d == decoder[s]
<1>1. d \in DecoderState
  BY DEF TypeOK, DecoderTypeOK
<1>2. <<>> \in Seq(PlayerMessage)
  OBVIOUS
<1>3. CASE DecoderConfigures(s)
  <2>1. Handled(d) \in DecoderState
    BY <1>1, <1>3, HandledType DEF DecoderConfigures, DecoderReceives
  <2>2. [Handled(d) EXCEPT !.codec = TRUE, !.paused = FALSE, !.resumePending = FALSE]
          \in DecoderState
    BY <2>1 DEF DecoderState
  <2>3. RendererTypeOK'
    BY <1>3, Frame DEF DecoderConfigures
  <2>4. CASE /\ CodecCall(TRUE)
             /\ DecoderStep(s, [Handled(d) EXCEPT !.codec = TRUE, !.paused = FALSE,
                                                  !.resumePending = FALSE], <<>>)
    BY <1>2, <2>2, <2>3, <2>4, CodecCallType, DecoderStepType
  <2>5. CASE CodecCall(FALSE) /\ DecoderStep(s, Handled(d), <<Notify(s, "Error", FALSE)>>)
    BY <2>1, <2>3, <2>5, AnswerTypes, CodecCallType, DecoderStepType
  <2>6. CASE Spend("surfaceError") /\ DecoderStep(s, Handled(d), <<Notify(s, "Error", TRUE)>>)
    <3>1. BudgetTypeOK'
      BY <2>6, SpendType DEF BoundedEvents
    <3> QED BY <2>1, <2>3, <2>6, <3>1, AnswerTypes, DecoderStepType
  <2> QED BY <1>3, <2>4, <2>5, <2>6, Zenon DEF DecoderConfigures
<1>4. CASE PassThroughConfigures(s)
  <2>1. Handled(d) \in DecoderState
    BY <1>1, <1>4, HandledType DEF PassThroughConfigures, DecoderReceives
  <2>2. [Handled(d) EXCEPT !.codec = TRUE] \in DecoderState
    BY <2>1 DEF DecoderState
  <2>3. RendererTypeOK' /\ BudgetTypeOK'
    BY <1>4, Frame, OpenOffloadSinkType DEF PassThroughConfigures, TypeOK, RendererTypeOK
  <2> QED BY <1>2, <1>4, <2>2, <2>3, DecoderStepType DEF PassThroughConfigures
<1>5. CASE DecoderFlushes(s)
  <2>1. Handled(d) \in DecoderState
    BY <1>1, <1>5, HandledType DEF DecoderFlushes, DecoderReceives
  <2>2. [Handled(d) EXCEPT !.data = "none", !.paused = TRUE] \in DecoderState
    BY <2>1 DEF DecoderState
  <2>3. PICK ok \in BOOLEAN :
             /\ CodecCall(ok)
             /\ DecoderStep(s, [Handled(d) EXCEPT !.data = "none", !.paused = TRUE],
                            FlushAnswers(s, ok))
    BY <1>5, Zenon DEF DecoderFlushes
  <2>4. RendererTypeOK'
    BY <1>5, RendererFlushType, Zenon DEF DecoderFlushes, TypeOK, RendererTypeOK
  <2>5. BudgetTypeOK'
    BY <2>3, CodecCallType
  <2>6. FlushAnswers(s, ok) \in Seq(PlayerMessage)
    BY AnswerTypes
  <2> QED BY <2>2, <2>3, <2>4, <2>5, <2>6, DecoderStepType
<1>6. CASE DecoderResumes(s)
  <2> DEFINE d2 == [Handled(d) EXCEPT !.paused = FALSE,
                                      !.resumePending = @ \/ Head(d.queue).flag]
  <2>1. Handled(d) \in DecoderState /\ Head(d.queue).flag \in BOOLEAN
    BY <1>1, <1>6, HandledType DEF DecoderResumes, DecoderReceives
  <2>2. d2 \in DecoderState
    BY <2>1 DEF DecoderState
  <2>3. RendererTypeOK' /\ BudgetTypeOK'
    BY <1>6, Frame DEF DecoderResumes
  <2>4. DecoderStep(s, d2, <<>>)
    BY <1>6, Zenon DEF DecoderResumes
  <2> HIDE DEF d2
  <2> QED BY <1>2, <2>2, <2>3, <2>4, DecoderStepType
<1>7. CASE DecoderShutsDown(s)
  <2> DEFINE d2 == [Handled(d) EXCEPT !.resumePending = FALSE, !.codec = FALSE,
                                      !.data = "none",
                                      !.paused = (mDecoder[s] = "Decoder") \/ @]
             answers(ok) == ResumeCompletedIfPending(s)
                            \o (IF ok THEN <<>> ELSE <<Notify(s, "Error", FALSE)>>)
                            \o <<Notify(s, "ShutdownCompleted", FALSE)>>
  <2>1. Handled(d) \in DecoderState
    BY <1>1, <1>7, HandledType DEF DecoderShutsDown, DecoderReceives
  <2>2. d2 \in DecoderState
    BY <2>1 DEF DecoderState
  <2>3. PICK ok \in BOOLEAN : CodecCall(ok) /\ DecoderStep(s, d2, answers(ok))
    BY <1>7, Zenon DEF DecoderShutsDown
  <2>4. RendererTypeOK'
    BY <1>7, Frame DEF DecoderShutsDown
  <2>5. BudgetTypeOK'
    BY <2>3, CodecCallType
  <2>6. answers(ok) \in Seq(PlayerMessage)
    <3>1. <<Notify(s, "Error", FALSE)>> \in Seq(PlayerMessage)
      BY AnswerTypes
    <3>2. (IF ok THEN <<>> ELSE <<Notify(s, "Error", FALSE)>>) \in Seq(PlayerMessage)
      BY <3>1 DEF Notify, Notification
    <3>3. ResumeCompletedIfPending(s)
            \o (IF ok THEN <<>> ELSE <<Notify(s, "Error", FALSE)>>) \in Seq(PlayerMessage)
      BY <3>2, AnswerTypes, ConcatenationType, Zenon
    <3> QED BY <3>3, AnswerTypes, ConcatenationType, Zenon
  <2> HIDE DEF d2, answers
  <2> QED BY <2>2, <2>3, <2>4, <2>5, <2>6, DecoderStepType
<1>8. CASE DecoderPulls(s)
  <2>1. [d EXCEPT !.data = "fresh"] \in DecoderState
    BY <1>1 DEF DecoderState
  <2>2. RendererTypeOK' /\ BudgetTypeOK'
    BY <1>8, Frame DEF DecoderPulls
  <2> QED BY <1>2, <1>8, <2>1, <2>2, DecoderStepType DEF DecoderPulls
<1>9. CASE DecoderOutputs(s)
  <2>1. [d EXCEPT !.resumePending = FALSE] \in DecoderState
    BY <1>1 DEF DecoderState
  <2>2. RendererTypeOK' /\ BudgetTypeOK'
    BY <1>9, Frame DEF DecoderOutputs
  <2>3. ResumeCompletedIfPending(s) \in Seq(PlayerMessage)
    BY AnswerTypes
  <2> QED BY <1>9, <2>1, <2>2, <2>3, DecoderStepType DEF DecoderOutputs
<1>10. CASE DecoderFails(s)
  <2>1. RendererTypeOK' /\ BudgetTypeOK'
    BY <1>10, Frame, CodecCallType DEF DecoderFails
  <2> QED BY <1>1, <1>10, <2>1, AnswerTypes, DecoderStepType DEF DecoderFails
<1>11. CASE PassThroughDiscontinuity(s)
  <2>1. PICK timeChange \in BOOLEAN :
         /\ renderer' = IF timeChange THEN RendererFlush(renderer, s, FALSE) ELSE renderer
         /\ DecoderStep(s, [d EXCEPT !.data = IF timeChange THEN "none" ELSE @],
                        <<Notify(s, "InputDiscontinuity", FALSE)>>)
    BY <1>11, Zenon DEF PassThroughDiscontinuity
  <2>2. [d EXCEPT !.data = IF timeChange THEN "none" ELSE @] \in DecoderState
    BY <1>1 DEF DecoderState
  <2>3. RendererTypeOK'
    BY <2>1, RendererFlushType, Zenon DEF TypeOK, RendererTypeOK
  <2>4. BudgetTypeOK'
    BY <1>11, SpendType DEF PassThroughDiscontinuity, BoundedEvents
  <2> QED BY <2>1, <2>2, <2>3, <2>4, AnswerTypes, DecoderStepType
<1> QED BY <1>3, <1>4, <1>5, <1>6, <1>7, <1>8, <1>9, <1>10, <1>11 DEF DecoderMessageStep

\* A step of the renderer posts to the player and changes the renderer only.
LEMMA RendererStepType ==
    ASSUME TypeOK, NEW r \in RendererState, NEW notifies \in Seq(PlayerMessage),
           RendererStep(r, notifies), BudgetTypeOK'
    PROVE  TypeOK'
<1>1. QueueTypeOK' /\ RendererTypeOK'
  BY DEF TypeOK, QueueTypeOK, RendererTypeOK, RendererStep
<1> QED BY <1>1, Frame DEF RendererStep, TypeOK, playerVars, playerVarsButSurface, configVars

LEMMA RendererHandledType ==
    ASSUME TypeOK, renderer.queue # <<>>
    PROVE  RendererHandled \in RendererState /\ Head(renderer.queue).stream \in Streams
<1>1. /\ Tail(renderer.queue) \in Seq(RendererMessage)
      /\ Head(renderer.queue) \in RendererMessage
  BY DEF TypeOK, RendererTypeOK, RendererState
<1> QED BY <1>1 DEF RendererHandled, TypeOK, RendererTypeOK, RendererState, RendererMessage

LEMMA RendererNotifiesType ==
    ASSUME TypeOK, NEW w \in RendererNotify, NEW s \in Streams, NEW f \in BOOLEAN
    PROVE  RendererNotifies(w, s, f) \in Seq(PlayerMessage)
<1>1. Notification(w, s, mRendererGeneration, f) \in PlayerMessage
  BY NotificationType DEF TypeOK, ObjectTypeOK, RendererNotify, PlayerWhat
<1> QED BY <1>1 DEF RendererNotifies

LEMMA RendererTearDownType ==
    ASSUME TypeOK, NEW r \in RendererState, NEW error \in BOOLEAN, TearDown(r, error),
           BudgetTypeOK'
    PROVE  TypeOK'
<1> DEFINE notifies == IF r.tornDown THEN <<>>
                       ELSE RendererNotifies("AudioOffloadTearDown", "audio", error)
<1>1. [r EXCEPT !.tornDown = TRUE] \in RendererState
  BY DEF RendererState
<1>2. RendererNotifies("AudioOffloadTearDown", "audio", error) \in Seq(PlayerMessage)
  BY RendererNotifiesType DEF RendererNotify, Streams
<1>3. notifies \in Seq(PlayerMessage)
  BY <1>2 DEF RendererNotifies, Notification
<1>4. RendererStep([r EXCEPT !.tornDown = TRUE], notifies)
  BY Zenon DEF TearDown
<1> HIDE DEF notifies
<1> QED BY <1>1, <1>3, <1>4, RendererStepType

LEMMA RendererType ==
    ASSUME TypeOK, RendererLoop \/ RendererPauseTimeout \/ HALTearsDown
    PROVE  TypeOK'
<1>1. <<>> \in Seq(PlayerMessage)
  OBVIOUS
<1>2. CASE RendererFlushes
  <2> DEFINE s == Head(renderer.queue).stream
             r == [RendererHandled EXCEPT !.flushing[s] = FALSE, !.notifyComplete[s] = FALSE]
             notifies == IF renderer.notifyComplete[s]
                         THEN RendererNotifies("RendererFlushComplete", s, FALSE) ELSE <<>>
  <2>1. RendererHandled \in RendererState /\ s \in Streams
    BY <1>2, RendererHandledType DEF RendererFlushes, RendererReceives
  <2>2. r \in RendererState
    BY <2>1 DEF RendererState
  <2>3. RendererNotifies("RendererFlushComplete", s, FALSE) \in Seq(PlayerMessage)
    BY <2>1, RendererNotifiesType DEF RendererNotify
  <2>4. notifies \in Seq(PlayerMessage)
    BY <2>3 DEF RendererNotifies, Notification
  <2>5. RendererStep(r, notifies) /\ BudgetTypeOK'
    BY <1>2, Frame, Zenon DEF RendererFlushes
  <2> HIDE DEF r, notifies
  <2> QED BY <2>2, <2>4, <2>5, RendererStepType
<1>3. CASE RendererPauses
  <2> DEFINE r == [RendererHandled EXCEPT !.paused = TRUE,
                      !.timeout = @ \/ (~renderer.paused /\ HoldsSink)]
  <2>1. RendererHandled \in RendererState
    BY <1>3, RendererHandledType DEF RendererPauses, RendererReceives
  <2>2. r \in RendererState
    BY <2>1 DEF RendererState
  <2>3. RendererStep(r, <<>>) /\ BudgetTypeOK'
    BY <1>3, Frame, Zenon DEF RendererPauses
  <2> HIDE DEF r
  <2> QED BY <1>1, <2>2, <2>3, RendererStepType
<1>4. CASE RendererResumes
  <2> DEFINE r == [RendererHandled EXCEPT !.paused = FALSE,
                      !.timeout = @ /\ ~(renderer.paused /\ HoldsSink)]
  <2>1. RendererHandled \in RendererState
    BY <1>4, RendererHandledType DEF RendererResumes, RendererReceives
  <2>2. r \in RendererState
    BY <2>1 DEF RendererState
  <2>3. RendererStep(r, <<>>) /\ BudgetTypeOK'
    BY <1>4, Frame, Zenon DEF RendererResumes
  <2> HIDE DEF r
  <2> QED BY <1>1, <2>2, <2>3, RendererStepType
<1>5. CASE RendererClosesSink
  <2>1. RendererHandled \in RendererState
    BY <1>5, RendererHandledType DEF RendererClosesSink, RendererReceives
  <2>2. [RendererHandled EXCEPT !.sink = FALSE] \in RendererState
    BY <2>1 DEF RendererState
  <2> QED BY <1>1, <1>5, <2>2, Frame, RendererStepType DEF RendererClosesSink
<1>6. CASE RendererDisablesOffload
  <2>1. RendererHandled \in RendererState
    BY <1>6, RendererHandledType DEF RendererDisablesOffload, RendererReceives
  <2>2. [RendererHandled EXCEPT !.offload = FALSE] \in RendererState
    BY <2>1 DEF RendererState
  <2> QED BY <1>1, <1>6, <2>2, Frame, RendererStepType DEF RendererDisablesOffload
<1>7. CASE RendererTearsDown
  <2>1. RendererHandled \in RendererState
    BY <1>7, RendererHandledType DEF RendererTearsDown, RendererReceives
  <2> QED BY <1>7, <2>1, Frame, RendererTearDownType DEF RendererTearsDown
<1>8. CASE RendererPauseTimeout
  <2>1. [renderer EXCEPT !.timeout = FALSE] \in RendererState
    BY DEF TypeOK, RendererTypeOK, RendererState
  <2>2. BudgetTypeOK'
    BY <1>8, SpendType DEF RendererPauseTimeout, BoundedEvents
  <2> QED BY <1>8, <2>1, <2>2, RendererTearDownType DEF RendererPauseTimeout
<1>9. CASE HALTearsDown
  <2>1. ToRenderer(renderer, "AudioOffloadTearDown") \in RendererState
    BY ToRendererType DEF TypeOK, RendererTypeOK
  <2>2. BudgetTypeOK'
    BY <1>9, SpendType DEF HALTearsDown, BoundedEvents
  <2> QED BY <1>1, <1>9, <2>1, <2>2, RendererStepType DEF HALTearsDown
<1> QED BY <1>2, <1>3, <1>4, <1>5, <1>6, <1>7, <1>8, <1>9 DEF RendererLoop

LEMMA ScanTimerType ==
    ASSUME TypeOK, ScanTimer
    PROVE  TypeOK'
<1>1. PICK gen \in scanTimer :
         /\ scanTimer' = scanTimer \ {gen}
         /\ playerQueue' = Append(playerQueue,
                                  [Message("ScanSources", FALSE) EXCEPT !.gen = gen])
         /\ UNCHANGED <<driverVars, looper, pauseVars, configVars, mResumePending, objectVars,
                        flushVars, mDeferredActions, mScanSourcesPending,
                        mScanSourcesGeneration, decoder, renderer, budget>>
  BY Zenon DEF ScanTimer
<1>2. [Message("ScanSources", FALSE) EXCEPT !.gen = gen] \in PlayerMessage
  BY ScanMessageType DEF TypeOK, ScanTypeOK
<1>3. QueueTypeOK'
  BY <1>1, <1>2 DEF TypeOK, QueueTypeOK, Message
<1>4. ScanTypeOK'
  BY <1>1 DEF TypeOK, ScanTypeOK
<1> QED BY <1>1, <1>3, <1>4, Frame DEF TypeOK

-----------------------------------------------------------------------------
(* Every step, and the theorem.                                            *)

LEMMA InitType == Init => TypeOK
<1> SUFFICES ASSUME Init PROVE TypeOK
  OBVIOUS
<1>1. DecoderTypeOK /\ RendererTypeOK
  BY NewDecoderType, NewRendererType DEF Init, DecoderTypeOK, RendererTypeOK
<1>2. FlushTypeOK
  BY DEF Init, FlushTypeOK, AllNone, Nothing, FlushStatus
<1>3. DriverTypeOK /\ PauseTypeOK /\ ConfigTypeOK /\ ResumeTypeOK
  BY DEF Init, DriverTypeOK, DriverStates, PauseTypeOK, ConfigTypeOK, SourceStates, ResumeTypeOK
<1>4. QueueTypeOK /\ DeferredTypeOK /\ LooperTypeOK
  BY DEF Init, QueueTypeOK, DeferredTypeOK, LooperTypeOK, LooperStates
<1>5. ObjectTypeOK /\ ScanTypeOK
  BY DEF Init, ObjectTypeOK, DecoderKinds, ScanTypeOK
<1>6. BudgetTypeOK
  BY BudgetAssumption DEF Init, BudgetTypeOK
<1> QED BY <1>1, <1>2, <1>3, <1>4, <1>5, <1>6 DEF TypeOK

LEMMA NextType == TypeOK /\ [Next]_vars => TypeOK'
<1> SUFFICES ASSUME TypeOK, [Next]_vars
             PROVE  TypeOK'
  OBVIOUS
<1>1. CASE ClientStep
  BY <1>1, ClientStepType
<1>2. CASE SourceStep
  BY <1>2, SourceStepType
<1>3. CASE PlayerStep
  BY <1>3, RequestType, OnScanSourcesType, SourceNotifyType, NotifyType, ErrorType, TearDownType,
    DeferredStepType DEF PlayerStep, MessageStep
<1>4. CASE RendererLoop
  BY <1>4, RendererType
<1>5. CASE Environment
  BY <1>5, ScanTimerType, RendererType, DecoderType DEF Environment
<1>6. CASE \E s \in Streams : DecoderMessageStep(s) \/ DecoderPulls(s) \/ DecoderOutputs(s)
  BY <1>6, DecoderType
<1>7. CASE UNCHANGED vars
  BY <1>7, Frame DEF vars, playerVars, playerVarsButSurface, configVars, TypeOK
<1> QED BY <1>1, <1>2, <1>3, <1>4, <1>5, <1>6, <1>7 DEF Next

\* Whatever the client asks for and the environment does, and however often,
\* every variable keeps its type: no status leaves its enumeration, no queue
\* holds a message its reader has no case for, no generation is lost.
THEOREM TypeCorrect == Spec => []TypeOK
<1>1. Init => TypeOK
  BY InitType
<1>2. TypeOK /\ [Next]_vars => TypeOK'
  BY NextType
<1> QED BY <1>1, <1>2, PTL DEF Spec

-----------------------------------------------------------------------------
(* The pause state.                                                        *)

\* A step that handles neither a request of the client nor one of the source's
\* buffering leaves mPaused and mPausedByClient as they are, a reset included.
LEMMA PauseFrame ==
    ASSUME [Next]_vars
    PROVE  \/ OnStart \/ OnStartResumes \/ OnPause \/ OnPauseOnBufferingStart
           \/ OnResumeOnBufferingEnd
           \/ UNCHANGED <<mPaused, mPausedByClient>>
<1> USE DEF pauseVars
<1>1. CASE ClientStep
  BY <1>1 DEF ClientStep, ClientSetDataSource, ClientPrepare, ClientStart, ClientPause, ClientSeek,
    ClientSetSurface, ClientReset, Call, playerVarsButSurface
<1>2. CASE SourceStep
  BY <1>2 DEF SourceStep, SourcePrepared, SourcePrepareError, SourceInstantiateSecureDecoders,
    SourcePauseOnBuffering, SourceResumeOnBuffering, SourceQueueDecoderShutdown, OldSourcePrepared,
    SourcePosts
<1>3. CASE MessageStep
  BY <1>3 DEF MessageStep, OnSetDataSource, OnPrepare, OnSeek, OnReset, OnSetVideoNativeWindowAtOnce,
    OnSetVideoNativeWindow, OnScanSourcesStale, OnScanSourcesWaits, OnScanSources, OnSourceNotifyGone,
    OnPrepared, OnInstantiateSecureDecoders, OnQueueDecoderShutdown, OnNotifyStale, OnInputDiscontinuity,
    OnFlushCompleted, OnRendererFlushComplete, OnShutdownCompleted, OnResumeCompleted, OnErrorIgnored,
    OnErrorWhenNotFlushing, OnErrorWhileFlushing, OnErrorWhenFlushed, ReceiveError, OnAudioOffloadTearDown,
    playerVars, playerVarsButSurface
<1>4. CASE DeferredStep \/ OnAudioSinkClosed
  BY <1>4 DEF DeferredStep, DeferredDone, PerformDecoderFlush, PerformSeek, PerformSetSurface,
    PerformResumeDecoders, PerformScanSources, PerformPostMessage, PerformReset, OnAudioSinkClosed
<1>5. CASE RendererLoop \/ Environment
           \/ \E s \in Streams : DecoderMessageStep(s) \/ DecoderPulls(s) \/ DecoderOutputs(s)
  BY <1>5 DEF RendererLoop, RendererFlushes, RendererPauses, RendererResumes, RendererClosesSink,
    RendererDisablesOffload, RendererTearsDown, TearDown, RendererStep, Environment, ScanTimer,
    RendererPauseTimeout, HALTearsDown, DecoderFails, PassThroughDiscontinuity, DecoderMessageStep,
    DecoderConfigures, PassThroughConfigures, DecoderFlushes, DecoderResumes, DecoderShutsDown, DecoderPulls,
    DecoderOutputs, DecoderStep, playerVars, playerVarsButSurface
<1>6. CASE UNCHANGED vars
  BY <1>6 DEF vars, playerVars, playerVarsButSurface
<1> QED BY <1>1, <1>2, <1>3, <1>4, <1>5, <1>6 DEF Next, PlayerStep

\* "Note that if mPausedByClient is true, mPaused is always true": the comment
\* of AmNuPlayer.h holds for every interleaving of starts, pauses and buffering.
THEOREM PausedByClient == Spec => []PausedByClientImpliesPaused
<1>1. Init => PausedByClientImpliesPaused
  BY DEF Init, PausedByClientImpliesPaused
<1>2. PausedByClientImpliesPaused /\ [Next]_vars => PausedByClientImpliesPaused'
  <2> SUFFICES ASSUME PausedByClientImpliesPaused, [Next]_vars
               PROVE  PausedByClientImpliesPaused'
    OBVIOUS
  <2> USE DEF PausedByClientImpliesPaused
  <2>1. CASE OnStart
    BY <2>1 DEF OnStart
  <2>2. CASE OnStartResumes
    BY <2>2 DEF OnStartResumes
  <2>3. CASE OnPause
    BY <2>3 DEF OnPause, Pause
  <2>4. CASE OnPauseOnBufferingStart
    BY <2>4 DEF OnPauseOnBufferingStart, Pause
  <2>5. CASE OnResumeOnBufferingEnd
    BY <2>5 DEF OnResumeOnBufferingEnd, BufferingResumes
  <2>6. CASE UNCHANGED <<mPaused, mPausedByClient>>
    BY <2>6
  <2> QED BY <2>1, <2>2, <2>3, <2>4, <2>5, <2>6, PauseFrame
<1> QED BY <1>1, <1>2, PTL DEF Spec

-----------------------------------------------------------------------------
(* The scan for streams.                                                   *)

\* A scan message of generation g is in the queue q.
ScanQueued(q, g) == \E i \in DOMAIN q : q[i].what = "ScanSources" /\ q[i].gen = g

LEMMA ScanQueuedLemma ==
    ASSUME NEW q \in Seq(PlayerMessage), NEW g \in Nat
    PROVE  /\ \A m \in PlayerMessage : ScanQueued(q, g) => ScanQueued(Append(q, m), g)
           /\ \A m \in PlayerMessage :
                 m.what = "ScanSources" /\ m.gen = g => ScanQueued(Append(q, m), g)
           /\ \A r \in Seq(PlayerMessage) : ScanQueued(q, g) => ScanQueued(q \o r, g)
           /\ q # <<>> /\ ScanQueued(q, g)
                 /\ (Head(q).what = "ScanSources" => Head(q).gen # g)
              => ScanQueued(Tail(q), g)
<1> USE DEF ScanQueued
<1>1. \A m \in PlayerMessage : ScanQueued(q, g) => ScanQueued(Append(q, m), g)
  OBVIOUS
<1>2. \A m \in PlayerMessage :
         m.what = "ScanSources" /\ m.gen = g => ScanQueued(Append(q, m), g)
  <2> SUFFICES ASSUME NEW m \in PlayerMessage, m.what = "ScanSources", m.gen = g
               PROVE  ScanQueued(Append(q, m), g)
    OBVIOUS
  <2>1. /\ Len(q) + 1 \in DOMAIN Append(q, m)
        /\ Append(q, m)[Len(q) + 1] = m
    OBVIOUS
  <2> QED BY <2>1
<1>3. \A r \in Seq(PlayerMessage) : ScanQueued(q, g) => ScanQueued(q \o r, g)
  OBVIOUS
<1>4. ASSUME q # <<>>, ScanQueued(q, g), Head(q).what = "ScanSources" => Head(q).gen # g
      PROVE  ScanQueued(Tail(q), g)
  <2>1. PICK i \in DOMAIN q : q[i].what = "ScanSources" /\ q[i].gen = g
    BY <1>4
  <2>2. i # 1
    BY <1>4, <2>1
  <2>3. i - 1 \in DOMAIN Tail(q) /\ Tail(q)[i - 1] = q[i]
    BY <1>4, <2>1, <2>2
  <2> QED BY <2>1, <2>3
<1> QED BY <1>1, <1>2, <1>3, <1>4

\* What is posted behind a scan leaves it where it is.
LEMMA PostingKeepsScan ==
    ASSUME TypeOK, PendingScanIsPosted, UNCHANGED scanVars,
           \/ UNCHANGED playerQueue
           \/ \E m \in PlayerMessage : playerQueue' = Append(playerQueue, m)
           \/ \E r \in Seq(PlayerMessage) : playerQueue' = playerQueue \o r
    PROVE  PendingScanIsPosted'
<1> USE DEF TypeOK, QueueTypeOK, ScanTypeOK
<1>1. CASE \E m \in PlayerMessage : playerQueue' = Append(playerQueue, m)
  <2>1. ScanQueued(playerQueue, mScanSourcesGeneration)
           => ScanQueued(playerQueue', mScanSourcesGeneration)
    BY <1>1, ScanQueuedLemma
  <2> QED BY <2>1 DEF PendingScanIsPosted, ScanQueued, scanVars
<1>2. CASE \E r \in Seq(PlayerMessage) : playerQueue' = playerQueue \o r
  <2>1. ScanQueued(playerQueue, mScanSourcesGeneration)
           => ScanQueued(playerQueue', mScanSourcesGeneration)
    BY <1>2, ScanQueuedLemma
  <2> QED BY <2>1 DEF PendingScanIsPosted, ScanQueued, scanVars
<1>3. CASE UNCHANGED playerQueue
  BY <1>3 DEF PendingScanIsPosted, scanVars
<1> QED BY <1>1, <1>2, <1>3

\* A handler that takes another message than the scan leaves it where it is.
LEMMA TakingKeepsScan ==
    ASSUME TypeOK, PendingScanIsPosted, UNCHANGED scanVars, NEW w, Receive(w),
           w = "ScanSources" => Received.gen # mScanSourcesGeneration
    PROVE  PendingScanIsPosted'
<1>1. ScanQueued(playerQueue, mScanSourcesGeneration)
         => ScanQueued(playerQueue', mScanSourcesGeneration)
  BY ScanQueuedLemma DEF TypeOK, QueueTypeOK, ScanTypeOK, Receive, Received
<1> QED BY <1>1 DEF PendingScanIsPosted, ScanQueued, scanVars

\* postScanSources() itself, for a queue that holds the scans it held before.
LEMMA PostScanSourcesPosts ==
    ASSUME TypeOK, PendingScanIsPosted, NEW queue \in Seq(PlayerMessage),
           ScanQueued(playerQueue, mScanSourcesGeneration)
             => ScanQueued(queue, mScanSourcesGeneration),
           PostScanSources(queue)
    PROVE  PendingScanIsPosted'
<1>1. CASE mScanSourcesPending
  BY <1>1 DEF PostScanSources, PendingScanIsPosted, ScanQueued, scanVars
<1>2. CASE ~mScanSourcesPending
  <2> DEFINE scan == [Message("ScanSources", FALSE) EXCEPT !.gen = mScanSourcesGeneration]
  <2>1. scan \in PlayerMessage
    BY ScanMessageType DEF TypeOK, ScanTypeOK
  <2>2. scan.what = "ScanSources" /\ scan.gen = mScanSourcesGeneration
    BY DEF Message
  <2>3. playerQueue' = Append(queue, scan) /\ UNCHANGED <<mScanSourcesGeneration, scanTimer>>
    BY <1>2 DEF PostScanSources
  <2> HIDE DEF scan
  <2>4. ScanQueued(playerQueue', mScanSourcesGeneration)
    BY <2>1, <2>2, <2>3, ScanQueuedLemma DEF TypeOK, ScanTypeOK
  <2> QED BY <2>3, <2>4 DEF PendingScanIsPosted, ScanQueued
<1> QED BY <1>1, <1>2

\* A call or a notification of the source is posted.
LEMMA CallStepPosts ==
    ASSUME TypeOK, ClientStep \/ SourceStep
    PROVE  /\ UNCHANGED scanVars
           /\ UNCHANGED <<looper, mRendererGeneration, renderer>>
           /\ \E m \in PlayerMessage : playerQueue' = Append(playerQueue, m)
<1>1. \A w \in PlayerWhat, f \in BOOLEAN : Message(w, f) \in PlayerMessage
  BY MessageType
<1>2. /\ UNCHANGED scanVars
      /\ UNCHANGED <<looper, mRendererGeneration, renderer>>
      /\ \E m \in PlayerMessage : playerQueue' = Append(playerQueue, m)
  <2> USE DEF objectVars
  <2>1. CASE ClientSetDataSource
    BY <1>1, <2>1 DEF ClientSetDataSource, Call, playerVarsButSurface, PlayerWhat
  <2>2. CASE ClientPrepare
    BY <1>1, <2>2 DEF ClientPrepare, Call, playerVarsButSurface, PlayerWhat
  <2>3. CASE ClientStart
    BY <1>1, <2>3 DEF ClientStart, Call, playerVarsButSurface, PlayerWhat
  <2>4. CASE ClientPause
    BY <1>1, <2>4 DEF ClientPause, Call, playerVarsButSurface, PlayerWhat
  <2>5. CASE ClientSeek
    BY <1>1, <2>5 DEF ClientSeek, Call, playerVarsButSurface, PlayerWhat
  <2>6. CASE ClientSetSurface
    BY <1>1, <2>6 DEF ClientSetSurface, Call, playerVarsButSurface, PlayerWhat
  <2>7. CASE ClientReset
    BY <1>1, <2>7 DEF ClientReset, Call, playerVarsButSurface, PlayerWhat
  <2>8. CASE SourcePrepared \/ SourcePrepareError
    BY <1>1, <2>8 DEF SourcePrepared, SourcePrepareError, SourcePosts, PlayerWhat
  <2>9. CASE SourceInstantiateSecureDecoders
    BY <1>1, <2>9 DEF SourceInstantiateSecureDecoders, SourcePosts, PlayerWhat
  <2>10. CASE SourcePauseOnBuffering \/ SourceResumeOnBuffering
    BY <1>1, <2>10 DEF SourcePauseOnBuffering, SourceResumeOnBuffering, SourcePosts, PlayerWhat
  <2>11. CASE SourceQueueDecoderShutdown
    BY <2>11, NotificationType DEF SourceQueueDecoderShutdown, SourcePosts, PlayerWhat
  <2>12. CASE OldSourcePrepared
    BY <1>1, <2>12 DEF OldSourcePrepared, PlayerWhat
  <2> QED BY <2>1, <2>2, <2>3, <2>4, <2>5, <2>6, <2>7, <2>8, <2>9, <2>10, <2>11, <2>12
       DEF ClientStep, SourceStep
<1> QED BY <1>2

LEMMA CallStepKeepsScan ==
    ASSUME TypeOK, PendingScanIsPosted, ClientStep \/ SourceStep
    PROVE  PendingScanIsPosted'
  BY CallStepPosts, PostingKeepsScan

LEMMA ScanStepKeepsScan ==
    ASSUME TypeOK, TypeOK', PendingScanIsPosted,
           OnStart \/ OnScanSourcesStale \/ OnScanSourcesWaits \/ OnScanSources \/ ScanTimer
             \/ PerformScanSources
    PROVE  PendingScanIsPosted'
<1>1. CASE OnStart
  <2>1. Tail(playerQueue) \in Seq(PlayerMessage)
    BY <1>1 DEF OnStart, TypeOK, QueueTypeOK
  <2>2. ScanQueued(playerQueue, mScanSourcesGeneration)
          => ScanQueued(Tail(playerQueue), mScanSourcesGeneration)
    BY <1>1, ScanQueuedLemma DEF OnStart, Received, TypeOK, QueueTypeOK, ScanTypeOK
  <2> QED BY <1>1, <2>1, <2>2, PostScanSourcesPosts DEF OnStart
<1>2. CASE OnScanSourcesStale
  BY <1>2, TakingKeepsScan DEF OnScanSourcesStale, playerVars, playerVarsButSurface
<1>3. CASE OnScanSourcesWaits
  BY <1>3 DEF OnScanSourcesWaits, PendingScanIsPosted
<1>4. CASE OnScanSources
  <2>1. mScanSourcesPending' => Received.gen \in scanTimer'
    BY <1>4, Zenon DEF OnScanSources
  <2> QED BY <1>4, <2>1 DEF OnScanSources, PendingScanIsPosted
<1>5. CASE ScanTimer
  <2>1. PICK gen \in scanTimer :
           /\ scanTimer' = scanTimer \ {gen}
           /\ playerQueue' = Append(playerQueue,
                                    [Message("ScanSources", FALSE) EXCEPT !.gen = gen])
           /\ UNCHANGED <<mScanSourcesPending, mScanSourcesGeneration>>
    BY <1>5, Zenon DEF ScanTimer
  <2> DEFINE scan == [Message("ScanSources", FALSE) EXCEPT !.gen = gen]
  <2>2. scan \in PlayerMessage
    BY ScanMessageType DEF TypeOK, ScanTypeOK
  <2>3. scan.what = "ScanSources" /\ scan.gen = gen
    BY DEF Message
  <2>4. playerQueue' = Append(playerQueue, scan)
    BY <2>1
  <2> HIDE DEF scan
  <2>5. /\ ScanQueued(playerQueue, mScanSourcesGeneration)
             => ScanQueued(playerQueue', mScanSourcesGeneration)
        /\ mScanSourcesGeneration = gen => ScanQueued(playerQueue', mScanSourcesGeneration)
    BY <2>2, <2>3, <2>4, ScanQueuedLemma DEF TypeOK, QueueTypeOK, ScanTypeOK
  <2> QED BY <2>1, <2>5 DEF PendingScanIsPosted, ScanQueued
<1>6. CASE PerformScanSources
  <2>1. CASE UNCHANGED <<playerQueue, scanVars>>
    BY <2>1, PostingKeepsScan
  <2>2. CASE PostScanSources(playerQueue)
    BY <2>2, PostScanSourcesPosts DEF TypeOK, QueueTypeOK
  <2> QED BY <1>6, <2>1, <2>2 DEF PerformScanSources
<1> QED BY <1>1, <1>2, <1>3, <1>4, <1>5, <1>6

LEMMA PlayerStepKeepsScan ==
    ASSUME TypeOK, TypeOK', PendingScanIsPosted, PlayerStep
    PROVE  PendingScanIsPosted'
<1>1. CASE \/ OnStart \/ OnScanSourcesStale \/ OnScanSourcesWaits \/ OnScanSources
           \/ PerformScanSources
  BY <1>1, ScanStepKeepsScan
<1>2. CASE \/ OnSetDataSource \/ OnPrepare \/ OnStartResumes \/ OnPause \/ OnSeek \/ OnReset
           \/ OnSetVideoNativeWindowAtOnce \/ OnSetVideoNativeWindow
  BY <1>2, TakingKeepsScan DEF OnSetDataSource, OnPrepare, OnStartResumes, OnPause, OnSeek, OnReset,
    OnSetVideoNativeWindowAtOnce, OnSetVideoNativeWindow
<1>3. CASE \/ OnSourceNotifyGone \/ OnPrepared \/ OnInstantiateSecureDecoders
           \/ OnPauseOnBufferingStart \/ OnResumeOnBufferingEnd \/ OnQueueDecoderShutdown
  BY <1>3, TakingKeepsScan DEF OnSourceNotifyGone, OnPrepared, OnInstantiateSecureDecoders,
    OnPauseOnBufferingStart, OnResumeOnBufferingEnd, OnQueueDecoderShutdown, playerVars, playerVarsButSurface
<1>4. CASE OnNotifyStale
  <2>1. PICK w \in DecoderNotify \cup RendererNotify : Receive(w)
    BY <1>4 DEF OnNotifyStale
  <2> QED BY <1>4, <2>1, TakingKeepsScan
       DEF OnNotifyStale, DecoderNotify, RendererNotify, playerVars, playerVarsButSurface
<1>5. CASE \/ OnInputDiscontinuity \/ OnFlushCompleted \/ OnRendererFlushComplete
           \/ OnShutdownCompleted \/ OnResumeCompleted \/ OnAudioOffloadTearDown
  BY <1>5, TakingKeepsScan DEF OnInputDiscontinuity, OnFlushCompleted, OnRendererFlushComplete,
    OnShutdownCompleted, OnResumeCompleted, OnAudioOffloadTearDown, ReceiveFromDecoder
<1>6. CASE \/ OnErrorIgnored \/ OnErrorWhenNotFlushing \/ OnErrorWhileFlushing
           \/ OnErrorWhenFlushed
  BY <1>6, TakingKeepsScan DEF OnErrorIgnored, OnErrorWhenNotFlushing, OnErrorWhileFlushing,
    OnErrorWhenFlushed, ReceiveError, ReceiveFromDecoder, playerVars, playerVarsButSurface
<1>7. CASE \/ DeferredDone \/ PerformSeek \/ PerformSetSurface \/ PerformResumeDecoders
           \/ PerformPostMessage \/ OnAudioSinkClosed
  BY <1>7, PostingKeepsScan DEF DeferredDone, PerformSeek, PerformSetSurface, PerformResumeDecoders,
    PerformPostMessage, OnAudioSinkClosed
<1>8. CASE PerformDecoderFlush \/ PerformReset
  <2>1. CASE ForgetScans
    BY <2>1 DEF ForgetScans, PendingScanIsPosted
  <2>2. CASE UNCHANGED <<playerQueue, scanVars>>
    BY <2>2, PostingKeepsScan
  <2> QED BY <1>8, <2>1, <2>2 DEF PerformDecoderFlush, PerformReset
<1> QED BY <1>1, <1>2, <1>3, <1>4, <1>5, <1>6, <1>7, <1>8 DEF PlayerStep, MessageStep, DeferredStep


\* A decoder posts behind what is queued.
LEMMA DecoderPosts ==
    ASSUME TypeOK, NEW s \in Streams,
           DecoderMessageStep(s) \/ DecoderPulls(s) \/ DecoderOutputs(s)
             \/ DecoderFails(s) \/ PassThroughDiscontinuity(s)
    PROVE  /\ UNCHANGED scanVars /\ UNCHANGED <<looper, mRendererGeneration>>
           /\ UNCHANGED <<driver, mSource, mStarted, mDeferredActions>>
           /\ \E r \in Seq(DecoderNotification) : playerQueue' = playerQueue \o r
<1> DEFINE posts(r) == /\ playerQueue' = playerQueue \o r
                       /\ UNCHANGED scanVars /\ UNCHANGED <<looper, mRendererGeneration>>
                       /\ UNCHANGED <<driver, mSource, mStarted, mDeferredActions>>
<1>1. <<>> \in Seq(DecoderNotification)
  OBVIOUS
<1>2. \A d, r : DecoderStep(s, d, r) => posts(r)
  BY DEF DecoderStep, playerVars, playerVarsButSurface, objectVars, driverVars, pauseVars
<1> HIDE DEF posts
<1>3. \E r \in Seq(DecoderNotification) : posts(r)
  <2>1. CASE DecoderConfigures(s)
    <3>1. \E r \in {<<>>, <<Notify(s, "Error", FALSE)>>, <<Notify(s, "Error", TRUE)>>} :
             posts(r)
      BY <1>2, <2>1, Zenon DEF DecoderConfigures
    <3>2. /\ <<Notify(s, "Error", FALSE)>> \in Seq(DecoderNotification)
          /\ <<Notify(s, "Error", TRUE)>> \in Seq(DecoderNotification)
      BY DecoderAnswers
    <3> QED BY <1>1, <3>1, <3>2, Zenon
  <2>2. CASE PassThroughConfigures(s) \/ DecoderResumes(s) \/ DecoderPulls(s)
    <3>1. posts(<<>>)
      BY <1>2, <2>2, Zenon DEF PassThroughConfigures, DecoderResumes, DecoderPulls
    <3> QED BY <1>1, <3>1
  <2>3. CASE DecoderFlushes(s)
    <3>1. \E ok \in BOOLEAN : posts(FlushAnswers(s, ok))
      BY <1>2, <2>3, Zenon DEF DecoderFlushes
    <3> QED BY <3>1, DecoderAnswers, Zenon
  <2>4. CASE DecoderShutsDown(s)
    <3> DEFINE answers(ok) == ResumeCompletedIfPending(s)
                              \o (IF ok THEN <<>> ELSE <<Notify(s, "Error", FALSE)>>)
                              \o <<Notify(s, "ShutdownCompleted", FALSE)>>
    <3>1. PICK ok \in BOOLEAN : posts(answers(ok))
      BY <1>2, <2>4, Zenon DEF DecoderShutsDown
    <3>2. <<Notify(s, "Error", FALSE)>> \in Seq(DecoderNotification)
      BY DecoderAnswers
    <3>3. (IF ok THEN <<>> ELSE <<Notify(s, "Error", FALSE)>>) \in Seq(DecoderNotification)
      BY <3>2 DEF Notify, Notification
    <3>4. ResumeCompletedIfPending(s)
            \o (IF ok THEN <<>> ELSE <<Notify(s, "Error", FALSE)>>) \in Seq(DecoderNotification)
      BY <3>3, DecoderAnswers, ConcatenationType, Zenon
    <3>5. answers(ok) \in Seq(DecoderNotification)
      BY <3>4, DecoderAnswers, ConcatenationType, Zenon
    <3> HIDE DEF answers
    <3> QED BY <3>1, <3>5
  <2>5. CASE DecoderOutputs(s)
    <3>1. posts(ResumeCompletedIfPending(s))
      BY <1>2, <2>5, Zenon DEF DecoderOutputs
    <3> QED BY <3>1, DecoderAnswers, Zenon
  <2>6. CASE DecoderFails(s)
    <3>1. posts(<<Notify(s, "Error", FALSE)>>)
      BY <1>2, <2>6, Zenon DEF DecoderFails
    <3>2. <<Notify(s, "Error", FALSE)>> \in Seq(DecoderNotification)
      BY DecoderAnswers
    <3> QED BY <3>1, <3>2, Zenon
  <2>7. CASE PassThroughDiscontinuity(s)
    <3>1. posts(<<Notify(s, "InputDiscontinuity", FALSE)>>)
      BY <1>2, <2>7, Zenon DEF PassThroughDiscontinuity
    <3> QED BY <3>1, DecoderAnswers, Zenon
  <2> QED BY <2>1, <2>2, <2>3, <2>4, <2>5, <2>6, <2>7 DEF DecoderMessageStep
<1> QED BY <1>3 DEF posts

\* So does the renderer.
RendererNotification == {m \in PlayerMessage : m.what \in RendererNotify}

LEMMA RendererNotificationType ==
    \A r \in Seq(RendererNotification) : r \in Seq(PlayerMessage)
<1>1. RendererNotification \subseteq PlayerMessage
  BY DEF RendererNotification
<1> QED BY <1>1

LEMMA RendererAnswers ==
    ASSUME TypeOK, NEW w \in RendererNotify, NEW s \in Streams, NEW f \in BOOLEAN
    PROVE  RendererNotifies(w, s, f) \in Seq(RendererNotification)
<1> DEFINE m == Notification(w, s, mRendererGeneration, f)
<1>1. m \in PlayerMessage /\ m.what = w
  BY NotificationType DEF RendererNotify, PlayerWhat, TypeOK, ObjectTypeOK, Notification
<1> HIDE DEF m
<1>2. m \in RendererNotification
  BY <1>1 DEF RendererNotification
<1> QED BY <1>2 DEF RendererNotifies, m

LEMMA RendererPosts ==
    ASSUME TypeOK, RendererLoop \/ RendererPauseTimeout \/ HALTearsDown
    PROVE  /\ UNCHANGED scanVars /\ UNCHANGED <<looper, mRendererGeneration>>
           /\ UNCHANGED <<driver, mSource, mStarted, mDeferredActions>>
           /\ \E r \in Seq(RendererNotification) : playerQueue' = playerQueue \o r
<1> DEFINE posts(q) == /\ playerQueue' = playerQueue \o q
                       /\ UNCHANGED scanVars /\ UNCHANGED <<looper, mRendererGeneration>>
                       /\ UNCHANGED <<driver, mSource, mStarted, mDeferredActions>>
<1>1. <<>> \in Seq(RendererNotification)
  OBVIOUS
<1>2. \A r, q : RendererStep(r, q) => posts(q)
  BY DEF RendererStep, playerVars, playerVarsButSurface, objectVars, driverVars, pauseVars
<1> HIDE DEF posts
<1>3. ASSUME NEW r, NEW error \in BOOLEAN, TearDown(r, error)
      PROVE  \E q \in Seq(RendererNotification) : posts(q)
  <2>1. RendererNotifies("AudioOffloadTearDown", "audio", error) \in Seq(RendererNotification)
    BY RendererAnswers DEF RendererNotify, Streams
  <2>2. posts(<<>>) \/ posts(RendererNotifies("AudioOffloadTearDown", "audio", error))
    BY <1>2, <1>3, Zenon DEF TearDown
  <2> QED BY <1>1, <2>1, <2>2, Zenon
<1>4. \E q \in Seq(RendererNotification) : posts(q)
  <2>1. CASE RendererFlushes
    <3> DEFINE s == Head(renderer.queue).stream
    <3>1. s \in Streams
      BY <2>1, RendererHandledType DEF RendererFlushes, RendererReceives
    <3>2. RendererNotifies("RendererFlushComplete", s, FALSE) \in Seq(RendererNotification)
      BY <3>1, RendererAnswers DEF RendererNotify
    <3>3. posts(<<>>) \/ posts(RendererNotifies("RendererFlushComplete", s, FALSE))
      BY <1>2, <2>1, Zenon DEF RendererFlushes
    <3> QED BY <1>1, <3>2, <3>3, Zenon
  <2>2. CASE RendererTearsDown
    BY <1>3, <2>2 DEF RendererTearsDown
  <2>3. CASE RendererPauseTimeout
    BY <1>3, <2>3 DEF RendererPauseTimeout
  <2>4. CASE \/ RendererPauses \/ RendererResumes \/ RendererClosesSink
             \/ RendererDisablesOffload \/ HALTearsDown
    <3>1. posts(<<>>)
      BY <1>2, <2>4, Zenon DEF RendererPauses, RendererResumes, RendererClosesSink, RendererDisablesOffload,
        HALTearsDown
    <3> QED BY <1>1, <3>1
  <2> QED BY <2>1, <2>2, <2>3, <2>4 DEF RendererLoop
<1> QED BY <1>4 DEF posts

\* A scan that is marked as posted really is, so that a stream which appears
\* later is found: over flushes and resets that make scans obsolete, scans that
\* wait for their timer and scans that find all there is.
THEOREM PendingScan == Spec => []PendingScanIsPosted
<1>1. Init => PendingScanIsPosted
  BY DEF Init, PendingScanIsPosted
<1>2. TypeOK /\ TypeOK' /\ PendingScanIsPosted /\ [Next]_vars => PendingScanIsPosted'
  <2> SUFFICES ASSUME TypeOK, TypeOK', PendingScanIsPosted, [Next]_vars
               PROVE  PendingScanIsPosted'
    OBVIOUS
  <2>1. CASE ClientStep \/ SourceStep
    BY <2>1, CallStepKeepsScan
  <2>2. CASE PlayerStep
    BY <2>2, PlayerStepKeepsScan
  <2>3. CASE RendererLoop \/ RendererPauseTimeout \/ HALTearsDown
    BY <2>3, RendererPosts, RendererNotificationType, PostingKeepsScan
  <2>4. CASE ScanTimer
    BY <2>4, ScanStepKeepsScan
  <2>5. CASE \E s \in Streams : DecoderMessageStep(s) \/ DecoderPulls(s) \/ DecoderOutputs(s)
                                 \/ DecoderFails(s) \/ PassThroughDiscontinuity(s)
    <3>1. PICK s \in Streams :
             \/ DecoderMessageStep(s) \/ DecoderPulls(s) \/ DecoderOutputs(s)
             \/ DecoderFails(s) \/ PassThroughDiscontinuity(s)
      BY <2>5
    <3>2. /\ UNCHANGED scanVars
          /\ \E r \in Seq(DecoderNotification) : playerQueue' = playerQueue \o r
      BY <3>1, DecoderPosts
    <3>3. \A r \in Seq(DecoderNotification) : r \in Seq(PlayerMessage)
      <4>1. DecoderNotification \subseteq PlayerMessage
        BY DEF DecoderNotification
      <4> QED BY <4>1
    <3> QED BY <3>2, <3>3, PostingKeepsScan
  <2>6. CASE UNCHANGED vars
    BY <2>6, PostingKeepsScan DEF vars, playerVars, playerVarsButSurface
  <2> QED BY <2>1, <2>2, <2>3, <2>4, <2>5, <2>6 DEF Next, Environment
<1> QED BY <1>1, <1>2, TypeCorrect, PTL DEF Spec

-----------------------------------------------------------------------------
(* The tear down of the offloaded audio.                                   *)

\* The queue q contains a message of the set M.
Contains(q, M) == \E i \in DOMAIN q : q[i] \in M

LEMMA ContainsLemma ==
    ASSUME NEW T, NEW q \in Seq(T), NEW M
    PROVE  /\ \A m \in T : Contains(q, M) => Contains(Append(q, m), M)
           /\ \A m \in T \cap M : Contains(Append(q, m), M)
           /\ \A r \in Seq(T) : Contains(q, M) => Contains(q \o r, M)
           /\ \A r \in Seq(T) : Contains(r, M) => Contains(q \o r, M)
           /\ q # <<>> /\ Contains(q, M) /\ Head(q) \notin M => Contains(Tail(q), M)
<1> USE DEF Contains
<1>1. \A m \in T : Contains(q, M) => Contains(Append(q, m), M)
  OBVIOUS
<1>2. ASSUME NEW m \in T \cap M
      PROVE  Contains(Append(q, m), M)
  <2>1. Len(q) + 1 \in DOMAIN Append(q, m) /\ Append(q, m)[Len(q) + 1] = m
    OBVIOUS
  <2> QED BY <2>1
<1>3. \A r \in Seq(T) : Contains(q, M) => Contains(q \o r, M)
  OBVIOUS
<1>4. ASSUME NEW r \in Seq(T), Contains(r, M)
      PROVE  Contains(q \o r, M)
  <2>1. PICK i \in DOMAIN r : r[i] \in M
    BY <1>4
  <2>2. Len(q) + i \in DOMAIN (q \o r) /\ (q \o r)[Len(q) + i] = r[i]
    OBVIOUS
  <2> QED BY <2>1, <2>2
<1>5. ASSUME q # <<>>, Contains(q, M), Head(q) \notin M
      PROVE  Contains(Tail(q), M)
  <2>1. PICK i \in DOMAIN q : q[i] \in M
    BY <1>5
  <2>2. i # 1
    BY <1>5, <2>1
  <2>3. i - 1 \in DOMAIN Tail(q) /\ Tail(q)[i - 1] = q[i]
    BY <1>5, <2>1, <2>2
  <2> QED BY <2>1, <2>3
<1> QED BY <1>1, <1>2, <1>3, <1>4, <1>5

TearDowns == {m \in PlayerMessage : /\ m.what = "AudioOffloadTearDown" /\ m.stream = "audio"
                                    /\ m.gen = mRendererGeneration}
CloseOrders == {m \in RendererMessage : m.what = "CloseAudioSink"}

\* The player has been told of the tear down, or its looper waits until the
\* renderer has closed the sink.
Told == Contains(playerQueue, TearDowns)
Closing == looper \in {"tearError", "tearTimeout"} /\ Contains(renderer.queue, CloseOrders)
TearDownInv == Alive /\ renderer.tornDown /\ renderer.sink => Told \/ Closing

LEMMA ToldLemma ==
    ASSUME TypeOK
    PROVE  Told <=> FromRenderer("audio", "AudioOffloadTearDown")
  BY DEF Told, Contains, FromRenderer, TearDowns, TypeOK, QueueTypeOK

\* What the operations of the renderer leave of a torn down sink.
LEMMA TornSink ==
    ASSUME NEW r \in RendererState
    PROVE  /\ \A w \in {"Pause", "Resume", "CloseAudioSink", "DisableOffloadAudio",
                        "AudioOffloadTearDown"} :
                /\ ToRenderer(r, w).tornDown = r.tornDown /\ ToRenderer(r, w).sink = r.sink
                /\ Contains(r.queue, CloseOrders) => Contains(ToRenderer(r, w).queue, CloseOrders)
           /\ Contains(ToRenderer(r, "CloseAudioSink").queue, CloseOrders)
           /\ \A S : /\ WithMedia(r, S).tornDown = r.tornDown /\ WithMedia(r, S).sink = r.sink
                     /\ WithMedia(r, S).queue = r.queue
           /\ \A opened \in BOOLEAN :
                /\ OpenOffloadSink(r, opened).tornDown /\ OpenOffloadSink(r, opened).sink
                     => r.tornDown /\ r.sink
                /\ OpenOffloadSink(r, opened).queue = r.queue
           /\ \A s \in Streams, b \in BOOLEAN :
                /\ RendererFlush(r, s, b).tornDown = r.tornDown
                /\ RendererFlush(r, s, b).sink = r.sink
                /\ Contains(r.queue, CloseOrders) => Contains(RendererFlush(r, s, b).queue, CloseOrders)
<1>1. r.queue \in Seq(RendererMessage) /\ r.tornDown \in BOOLEAN /\ r.sink \in BOOLEAN
  BY DEF RendererState
<1>2. ASSUME NEW m \in RendererMessage
      PROVE  Contains(r.queue, CloseOrders) => Contains(Append(r.queue, m), CloseOrders)
  BY <1>1, ContainsLemma
<1>3. ASSUME NEW w \in {"Pause", "Resume", "CloseAudioSink", "DisableOffloadAudio",
                        "AudioOffloadTearDown"}
      PROVE  /\ ToRenderer(r, w).tornDown = r.tornDown /\ ToRenderer(r, w).sink = r.sink
             /\ Contains(r.queue, CloseOrders) => Contains(ToRenderer(r, w).queue, CloseOrders)
             /\ w = "CloseAudioSink" => Contains(ToRenderer(r, w).queue, CloseOrders)
  <2>1. RendererMsg(w, "audio") \in RendererMessage
    BY DEF RendererMsg, RendererMessage, Streams
  <2>2. /\ ToRenderer(r, w).queue = Append(r.queue, RendererMsg(w, "audio"))
        /\ ToRenderer(r, w).tornDown = r.tornDown /\ ToRenderer(r, w).sink = r.sink
    BY DEF ToRenderer, RendererState
  <2>3. w = "CloseAudioSink" => RendererMsg(w, "audio") \in CloseOrders
    BY <2>1 DEF CloseOrders, RendererMsg
  <2>4. w = "CloseAudioSink" => Contains(Append(r.queue, RendererMsg(w, "audio")), CloseOrders)
    BY <1>1, <2>1, <2>3, ContainsLemma
  <2> QED BY <1>2, <2>1, <2>2, <2>4
<1>4. \A S : /\ WithMedia(r, S).tornDown = r.tornDown /\ WithMedia(r, S).sink = r.sink
             /\ WithMedia(r, S).queue = r.queue
  BY DEF WithMedia, RendererState
<1>5. ASSUME NEW opened \in BOOLEAN
      PROVE  /\ OpenOffloadSink(r, opened).tornDown /\ OpenOffloadSink(r, opened).sink
                  => r.tornDown /\ r.sink
             /\ OpenOffloadSink(r, opened).queue = r.queue
  BY <1>1 DEF OpenOffloadSink, RendererState
<1>6. ASSUME NEW s \in Streams, NEW b \in BOOLEAN
      PROVE  /\ RendererFlush(r, s, b).tornDown = r.tornDown
             /\ RendererFlush(r, s, b).sink = r.sink
             /\ Contains(r.queue, CloseOrders) => Contains(RendererFlush(r, s, b).queue, CloseOrders)
  <2>1. RendererMsg("Flush", s) \in RendererMessage
    BY DEF RendererMsg, RendererMessage
  <2>2. /\ RendererFlush(r, s, b).queue
             = IF r.flushing[s] THEN r.queue ELSE Append(r.queue, RendererMsg("Flush", s))
        /\ RendererFlush(r, s, b).tornDown = r.tornDown /\ RendererFlush(r, s, b).sink = r.sink
    BY DEF RendererFlush, RendererState
  <2> QED BY <1>2, <2>1, <2>2
<1> QED BY <1>3, <1>4, <1>5, <1>6

\* A torn down sink stays as well known as it was.
LEMMA TearDownFrame ==
    ASSUME TearDownInv, Alive' => Alive,
           renderer'.tornDown /\ renderer'.sink => renderer.tornDown /\ renderer.sink,
           Told => Told',
           Closing => Closing'
    PROVE  TearDownInv'
  BY DEF TearDownInv

\* Posting.
LEMMA ToldStays ==
    ASSUME TypeOK, UNCHANGED mRendererGeneration,
           \/ UNCHANGED playerQueue
           \/ \E m \in PlayerMessage : playerQueue' = Append(playerQueue, m)
           \/ \E r \in Seq(PlayerMessage) : playerQueue' = playerQueue \o r
    PROVE  Told => Told'
<1>1. TearDowns' = TearDowns /\ playerQueue \in Seq(PlayerMessage)
  BY DEF TearDowns, TypeOK, QueueTypeOK
<1>2. Contains(playerQueue, TearDowns) => Contains(playerQueue', TearDowns)
  <2>1. CASE UNCHANGED playerQueue
    BY <2>1
  <2>2. CASE \E m \in PlayerMessage : playerQueue' = Append(playerQueue, m)
    <3>1. \A m \in PlayerMessage :
             Contains(playerQueue, TearDowns) => Contains(Append(playerQueue, m), TearDowns)
      BY <1>1, ContainsLemma
    <3> QED BY <2>2, <3>1
  <2>3. CASE \E r \in Seq(PlayerMessage) : playerQueue' = playerQueue \o r
    <3>1. \A r \in Seq(PlayerMessage) :
             Contains(playerQueue, TearDowns) => Contains(playerQueue \o r, TearDowns)
      BY <1>1, ContainsLemma
    <3> QED BY <2>3, <3>1
  <2> QED BY <2>1, <2>2, <2>3
<1> QED BY <1>1, <1>2 DEF Told

\* Taking another message.
LEMMA TakingKeepsTold ==
    ASSUME TypeOK, UNCHANGED mRendererGeneration, NEW w, Receive(w),
           w = "AudioOffloadTearDown" => Received.gen # mRendererGeneration
    PROVE  (Told => Told') /\ looper = "idle"
<1>1. /\ TearDowns' = TearDowns /\ playerQueue \in Seq(PlayerMessage)
      /\ playerQueue # <<>> /\ playerQueue' = Tail(playerQueue) /\ looper = "idle"
  BY DEF TearDowns, TypeOK, QueueTypeOK, Receive
<1>2. Head(playerQueue) \notin TearDowns
  BY DEF Receive, Received, TearDowns
<1>3. Contains(playerQueue, TearDowns) => Contains(Tail(playerQueue), TearDowns)
  BY <1>1, <1>2, ContainsLemma
<1> QED BY <1>1, <1>3 DEF Told

\* A step of the player but the tear down itself: its looper is not closing the
\* sink, and goes on only when it was alive.
LEMMA HandlerFrame ==
    ASSUME TearDownInv, looper \in {"idle", "deferred"},
           renderer'.tornDown /\ renderer'.sink =>
             renderer.tornDown /\ renderer.sink /\ (Told => Told')
    PROVE  TearDownInv'
  BY DEF TearDownInv, Closing, Alive, AbortStates

LEMMA HandlerKeepsTearDown ==
    ASSUME TypeOK, TearDownInv, MessageStep, ~OnAudioOffloadTearDown, ~OnStart
    PROVE  TearDownInv'
<1>1. renderer \in RendererState
  BY DEF TypeOK, RendererTypeOK
<1>2. CASE \/ OnSetDataSource \/ OnPrepare \/ OnSeek \/ OnReset \/ OnSetVideoNativeWindowAtOnce
           \/ OnSetVideoNativeWindow \/ OnScanSourcesStale \/ OnScanSourcesWaits
           \/ OnSourceNotifyGone \/ OnPrepared \/ OnInstantiateSecureDecoders
           \/ OnQueueDecoderShutdown \/ OnInputDiscontinuity
  <2>1. /\ UNCHANGED <<renderer, mRendererGeneration>>
        /\ \E w : Receive(w) /\ w # "AudioOffloadTearDown"
    BY <1>2 DEF OnSetDataSource, OnPrepare, OnSeek, OnReset, OnSetVideoNativeWindowAtOnce,
      OnSetVideoNativeWindow, OnScanSourcesStale, OnScanSourcesWaits, OnSourceNotifyGone, OnPrepared,
      OnInstantiateSecureDecoders, OnQueueDecoderShutdown, OnInputDiscontinuity, ReceiveFromDecoder,
      playerVars, playerVarsButSurface, objectVars
  <2> QED BY <2>1, TakingKeepsTold, HandlerFrame
<1>3. CASE \/ OnFlushCompleted \/ OnRendererFlushComplete \/ OnShutdownCompleted
           \/ OnResumeCompleted \/ OnErrorIgnored \/ OnErrorWhenNotFlushing
           \/ OnErrorWhileFlushing \/ OnErrorWhenFlushed
  <2>1. UNCHANGED <<renderer, mRendererGeneration>>
    BY <1>3 DEF OnFlushCompleted, OnRendererFlushComplete, OnShutdownCompleted, OnResumeCompleted,
      OnErrorIgnored, OnErrorWhenNotFlushing, OnErrorWhileFlushing, OnErrorWhenFlushed, ReceiveError,
      playerVars, playerVarsButSurface, objectVars
  <2>2. \E w \in {"FlushCompleted", "RendererFlushComplete", "ShutdownCompleted",
                  "ResumeCompleted", "Error"} : Receive(w)
    BY <1>3 DEF OnFlushCompleted, OnRendererFlushComplete, OnShutdownCompleted, OnResumeCompleted,
      OnErrorIgnored, OnErrorWhenNotFlushing, OnErrorWhileFlushing, OnErrorWhenFlushed, ReceiveError,
      ReceiveFromDecoder
  <2>3. \E w : Receive(w) /\ w # "AudioOffloadTearDown"
    BY <2>2
  <2> QED BY <2>1, <2>3, TakingKeepsTold, HandlerFrame
<1>4. CASE OnNotifyStale
  <2>1. UNCHANGED <<renderer, mRendererGeneration>>
    BY <1>4 DEF OnNotifyStale, playerVars, playerVarsButSurface, objectVars
  <2>2. PICK w \in DecoderNotify \cup RendererNotify :
           /\ Receive(w)
           /\ w \in RendererNotify => Received.gen # mRendererGeneration
    BY <1>4 DEF OnNotifyStale, DecoderNotify, RendererNotify
  <2>3. w = "AudioOffloadTearDown" => w \in RendererNotify
    BY DEF RendererNotify
  <2> QED BY <2>1, <2>2, <2>3, TakingKeepsTold, HandlerFrame
<1>5. CASE OnStartResumes \/ OnPause \/ OnPauseOnBufferingStart \/ OnResumeOnBufferingEnd
  <2>1. /\ UNCHANGED mRendererGeneration
        /\ \E w : Receive(w) /\ w # "AudioOffloadTearDown"
    BY <1>5 DEF OnStartResumes, OnPause, OnPauseOnBufferingStart, OnResumeOnBufferingEnd, objectVars
  <2>2. \A S : /\ WithMedia(renderer, S) \in RendererState
               /\ WithMedia(renderer, S).tornDown = renderer.tornDown
               /\ WithMedia(renderer, S).sink = renderer.sink
    BY <1>1, WithMediaType, TornSink
  <2>3. \A S : /\ ToRenderer(WithMedia(renderer, S), "Resume").tornDown = renderer.tornDown
               /\ ToRenderer(WithMedia(renderer, S), "Resume").sink = renderer.sink
    BY <2>2, TornSink
  <2>4. /\ ToRenderer(renderer, "Pause").tornDown = renderer.tornDown
        /\ ToRenderer(renderer, "Pause").sink = renderer.sink
    BY <1>1, TornSink
  <2>5. Resume => renderer'.tornDown = renderer.tornDown /\ renderer'.sink = renderer.sink
    BY <2>3 DEF Resume
  <2>6. renderer'.tornDown = renderer.tornDown /\ renderer'.sink = renderer.sink
    BY <1>5, <2>4, <2>5 DEF OnStartResumes, OnPause, OnPauseOnBufferingStart, OnResumeOnBufferingEnd, Pause
  <2> QED BY <2>1, <2>6, TakingKeepsTold, HandlerFrame
<1>6. CASE OnScanSources
  <2>1. UNCHANGED mRendererGeneration /\ Receive("ScanSources")
    BY <1>6 DEF OnScanSources
  <2>2. PICK found \in SUBSET Formats, opened \in BOOLEAN :
           LET missing == {s \in found : /\ mDecoder[s] = "NULL"
                                         /\ s = "video" => mNativeWindow}
               tries   == CanOffload /\ "audio" \in missing
           IN renderer' = WithMedia(IF tries
                 THEN OpenOffloadSink([renderer EXCEPT !.offload = @ \/ ~mOffloadAudio], opened)
                 ELSE renderer, missing)
    BY <1>6, Zenon DEF OnScanSources
  <2> DEFINE r == [renderer EXCEPT !.offload = @ \/ ~mOffloadAudio]
             missing == {s \in found : /\ mDecoder[s] = "NULL"
                                       /\ s = "video" => mNativeWindow}
             tries   == CanOffload /\ "audio" \in missing
  <2>3. r \in RendererState /\ r.tornDown = renderer.tornDown /\ r.sink = renderer.sink
    BY DEF TypeOK, RendererTypeOK, RendererState, ConfigTypeOK
  <2>4. \/ renderer' = WithMedia(OpenOffloadSink(r, opened), missing)
        \/ renderer' = WithMedia(renderer, missing)
    BY <2>2, Zenon
  <2> HIDE DEF r, missing, tries
  <2>5. /\ OpenOffloadSink(r, opened) \in RendererState
        /\ OpenOffloadSink(r, opened).tornDown /\ OpenOffloadSink(r, opened).sink
             => renderer.tornDown /\ renderer.sink
    BY <2>3, OpenOffloadSinkType, TornSink
  <2>6. renderer'.tornDown /\ renderer'.sink => renderer.tornDown /\ renderer.sink
    <3>1. CASE renderer' = WithMedia(renderer, missing)
      BY <1>1, <3>1, TornSink
    <3>2. CASE renderer' = WithMedia(OpenOffloadSink(r, opened), missing)
      BY <2>5, <3>2, TornSink
    <3> QED BY <2>4, <3>1, <3>2
  <2> QED BY <2>1, <2>6, TakingKeepsTold, HandlerFrame
<1> QED BY <1>2, <1>3, <1>4, <1>5, <1>6 DEF MessageStep

\* A new renderer has no sink.
LEMMA NewRendererKeepsTearDown ==
    ASSUME \/ OnStart \/ PerformReset
    PROVE  TearDownInv'
<1>1. ~renderer'.sink
  BY DEF OnStart, PerformReset, NewRenderer
<1> QED BY <1>1 DEF TearDownInv

\* The tear down: the looper waits for the renderer, which is asked to close
\* the sink.
LEMMA TearDownStarts ==
    ASSUME TypeOK, OnAudioOffloadTearDown
    PROVE  TearDownInv'
<1>1. /\ looper' \in {"tearError", "tearTimeout"}
      /\ renderer' = ToRenderer(renderer, "CloseAudioSink")
  BY DEF OnAudioOffloadTearDown
<1>2. renderer \in RendererState
  BY DEF TypeOK, RendererTypeOK
<1>3. Contains(ToRenderer(renderer, "CloseAudioSink").queue, CloseOrders)
  BY <1>2, TornSink
<1>4. CloseOrders' = CloseOrders
  BY DEF CloseOrders
<1>5. Closing'
  BY <1>1, <1>3, <1>4 DEF Closing
<1> QED BY <1>5 DEF TearDownInv

\* When the order has been taken, a sink that is still torn down has been
\* opened and torn down since, and the player has been told of it.
LEMMA TearDownEnds ==
    ASSUME TypeOK, TearDownInv, OnAudioSinkClosed
    PROVE  TearDownInv'
<1>1. renderer \in RendererState
  BY DEF TypeOK, RendererTypeOK
<1>2. ~Closing
  BY DEF OnAudioSinkClosed, Closing, Contains, CloseOrders
<1>3. UNCHANGED <<playerQueue, mRendererGeneration>> /\ looper' = "idle"
  BY DEF OnAudioSinkClosed
<1>4. Told => Told'
  BY <1>3 DEF Told, TearDowns
<1> DEFINE audio    == RendererFlush(renderer, "audio", FALSE)
           flushed  == IF mDecoder["video"] = "NULL" THEN audio
                       ELSE RendererFlush(audio, "video", FALSE)
<1>5. renderer' = flushed
        \/ renderer' = ToRenderer(WithMedia(flushed, Formats), "DisableOffloadAudio")
  BY Zenon DEF OnAudioSinkClosed
<1>6. /\ audio \in RendererState
      /\ audio.tornDown = renderer.tornDown /\ audio.sink = renderer.sink
  BY <1>1, RendererFlushType, TornSink DEF Streams
<1> HIDE DEF audio
<1>7. /\ flushed \in RendererState
      /\ flushed.tornDown = renderer.tornDown /\ flushed.sink = renderer.sink
  <2>1. /\ RendererFlush(audio, "video", FALSE) \in RendererState
        /\ RendererFlush(audio, "video", FALSE).tornDown = audio.tornDown
        /\ RendererFlush(audio, "video", FALSE).sink = audio.sink
    BY <1>6, RendererFlushType, TornSink DEF Streams
  <2> QED BY <1>6, <2>1
<1> HIDE DEF flushed
<1>8. renderer'.tornDown = renderer.tornDown /\ renderer'.sink = renderer.sink
  <2>1. /\ WithMedia(flushed, Formats) \in RendererState
        /\ WithMedia(flushed, Formats).tornDown = flushed.tornDown
        /\ WithMedia(flushed, Formats).sink = flushed.sink
    BY <1>7, WithMediaType, TornSink
  <2>2. /\ ToRenderer(WithMedia(flushed, Formats), "DisableOffloadAudio").tornDown
             = flushed.tornDown
        /\ ToRenderer(WithMedia(flushed, Formats), "DisableOffloadAudio").sink = flushed.sink
    BY <2>1, TornSink
  <2> QED BY <1>5, <1>7, <2>2
<1> QED BY <1>2, <1>3, <1>4, <1>8 DEF TearDownInv, Alive, AbortStates, OnAudioSinkClosed

LEMMA PlayerKeepsTearDown ==
    ASSUME TypeOK, TearDownInv, PlayerStep
    PROVE  TearDownInv'
<1>1. CASE OnStart \/ PerformReset
  BY <1>1, NewRendererKeepsTearDown
<1>2. CASE OnAudioOffloadTearDown
  BY <1>2, TearDownStarts
<1>3. CASE OnAudioSinkClosed
  BY <1>3, TearDownEnds
<1>4. CASE MessageStep /\ ~OnAudioOffloadTearDown /\ ~OnStart
  BY <1>4, HandlerKeepsTearDown
<1>5. CASE DeferredStep /\ ~PerformReset
  <2>1. UNCHANGED <<renderer, mRendererGeneration>> /\ looper = "deferred"
    BY <1>5 DEF DeferredStep, DeferredDone, PerformDecoderFlush, PerformSeek, PerformSetSurface,
      PerformResumeDecoders, PerformScanSources, PerformPostMessage, Execute, objectVars
  <2>2. UNCHANGED playerQueue \/ \E m \in PlayerMessage : playerQueue' = Append(playerQueue, m)
    <3>1. CASE PerformScanSources
      <4>1. [Message("ScanSources", FALSE) EXCEPT !.gen = mScanSourcesGeneration] \in PlayerMessage
        BY ScanMessageType DEF TypeOK, ScanTypeOK
      <4> QED BY <3>1, <4>1 DEF PerformScanSources, PostScanSources
    <3>2. CASE ~PerformScanSources
      BY <1>5, <3>2 DEF DeferredStep, DeferredDone, PerformDecoderFlush, PerformSeek, PerformSetSurface,
        PerformResumeDecoders, PerformPostMessage
    <3> QED BY <3>1, <3>2
  <2>3. Told => Told'
    BY <2>1, <2>2, ToldStays
  <2> QED BY <2>1, <2>3, HandlerFrame
<1> QED BY <1>1, <1>2, <1>3, <1>4, <1>5 DEF PlayerStep

\* The other loopers post, and take from the queue of the renderer no order to
\* close the sink but to close it.
LEMMA PostingKeepsTearDown ==
    ASSUME TypeOK, TearDownInv, UNCHANGED <<looper, mRendererGeneration>>,
           \/ UNCHANGED playerQueue
           \/ \E m \in PlayerMessage : playerQueue' = Append(playerQueue, m)
           \/ \E r \in Seq(PlayerMessage) : playerQueue' = playerQueue \o r,
           renderer'.tornDown /\ renderer'.sink => renderer.tornDown /\ renderer.sink,
           Contains(renderer.queue, CloseOrders) => Contains(renderer'.queue, CloseOrders)
    PROVE  TearDownInv'
<1>1. Told => Told'
  BY ToldStays
<1>2. Closing => Closing'
  BY DEF Closing, CloseOrders
<1>3. Alive' => Alive
  BY DEF Alive
<1> QED BY <1>1, <1>2, <1>3, TearDownFrame

LEMMA DecoderKeepsTearDown ==
    ASSUME TypeOK, TearDownInv, NEW s \in Streams,
           DecoderMessageStep(s) \/ DecoderPulls(s) \/ DecoderOutputs(s)
             \/ DecoderFails(s) \/ PassThroughDiscontinuity(s)
    PROVE  TearDownInv'
<1>1. renderer \in RendererState
  BY DEF TypeOK, RendererTypeOK
<1>2. /\ UNCHANGED <<looper, mRendererGeneration>>
      /\ \E r \in Seq(DecoderNotification) : playerQueue' = playerQueue \o r
  BY DecoderPosts
<1>3. \E r \in Seq(PlayerMessage) : playerQueue' = playerQueue \o r
  <2>1. DecoderNotification \subseteq PlayerMessage
    BY DEF DecoderNotification
  <2>2. \A r \in Seq(DecoderNotification) : r \in Seq(PlayerMessage)
    BY <2>1
  <2> QED BY <1>2, <2>2
<1>4. \/ UNCHANGED renderer
      \/ \E opened \in BOOLEAN : renderer' = OpenOffloadSink(renderer, opened)
      \/ \E b \in BOOLEAN : renderer' = RendererFlush(renderer, s, b)
  <2>1. CASE \/ DecoderConfigures(s) \/ DecoderResumes(s) \/ DecoderShutsDown(s)
             \/ DecoderPulls(s) \/ DecoderOutputs(s) \/ DecoderFails(s)
    BY <2>1, Zenon DEF DecoderConfigures, DecoderResumes, DecoderShutsDown, DecoderPulls, DecoderOutputs,
      DecoderFails
  <2>2. CASE PassThroughConfigures(s)
    BY <2>2, Zenon DEF PassThroughConfigures
  <2>3. CASE DecoderFlushes(s)
    BY <2>3 DEF DecoderFlushes
  <2>4. CASE PassThroughDiscontinuity(s)
    <3>1. PICK timeChange \in BOOLEAN :
             renderer' = IF timeChange THEN RendererFlush(renderer, s, FALSE) ELSE renderer
      BY <2>4, Zenon DEF PassThroughDiscontinuity
    <3> QED BY <3>1
  <2> QED BY <2>1, <2>2, <2>3, <2>4 DEF DecoderMessageStep
<1>5. /\ renderer'.tornDown /\ renderer'.sink => renderer.tornDown /\ renderer.sink
      /\ Contains(renderer.queue, CloseOrders) => Contains(renderer'.queue, CloseOrders)
  <2>1. CASE UNCHANGED renderer
    BY <2>1
  <2>2. CASE \E opened \in BOOLEAN : renderer' = OpenOffloadSink(renderer, opened)
    BY <1>1, <2>2, TornSink
  <2>3. CASE \E b \in BOOLEAN : renderer' = RendererFlush(renderer, s, b)
    BY <1>1, <2>3, TornSink
  <2> QED BY <1>4, <2>1, <2>2, <2>3
<1> QED BY <1>2, <1>3, <1>5, PostingKeepsTearDown

\* A tear down of the renderer posts a notification, unless one was posted for
\* this sink before.
LEMMA RendererTearDownTells ==
    ASSUME TypeOK, TearDownInv, NEW r \in RendererState, NEW error \in BOOLEAN,
           TearDown(r, error), r.tornDown = renderer.tornDown, r.sink = renderer.sink,
           Contains(renderer.queue, CloseOrders) => Contains(r.queue, CloseOrders)
    PROVE  TearDownInv'
<1>1. /\ renderer'.sink = r.sink /\ renderer'.queue = r.queue
      /\ UNCHANGED <<looper, mRendererGeneration>>
  BY DEF TearDown, RendererStep, RendererState, playerVars, playerVarsButSurface, objectVars
<1> DEFINE told == Notification("AudioOffloadTearDown", "audio", mRendererGeneration, error)
<1>2. told \in PlayerMessage \cap TearDowns
  <2>1. told \in PlayerMessage
    BY NotificationType DEF TypeOK, ObjectTypeOK, PlayerWhat, Streams
  <2> QED BY <2>1 DEF TearDowns, Notification
<1>3. playerQueue' = playerQueue \o (IF r.tornDown THEN <<>> ELSE <<told>>)
  BY DEF TearDown, RendererStep, RendererNotifies
<1>4. playerQueue \in Seq(PlayerMessage) /\ TearDowns' = TearDowns /\ r.tornDown \in BOOLEAN
  BY <1>1 DEF TypeOK, QueueTypeOK, TearDowns, RendererState
<1> HIDE DEF told
<1>5. CASE r.tornDown
  <2>1. UNCHANGED playerQueue
    BY <1>3, <1>4, <1>5
  <2>2. renderer'.tornDown /\ renderer'.sink => renderer.tornDown /\ renderer.sink
    BY <1>1, <1>5
  <2> QED BY <1>1, <2>1, <2>2, PostingKeepsTearDown
<1>6. CASE ~r.tornDown
  <2>1. playerQueue' = Append(playerQueue, told)
    BY <1>2, <1>3, <1>4, <1>6
  <2>2. Contains(Append(playerQueue, told), TearDowns)
    BY <1>2, <1>4, ContainsLemma
  <2>3. Told'
    BY <1>4, <2>1, <2>2 DEF Told
  <2> QED BY <2>3 DEF TearDownInv
<1> QED BY <1>4, <1>5, <1>6

LEMMA RendererKeepsTearDown ==
    ASSUME TypeOK, TearDownInv, RendererLoop \/ RendererPauseTimeout \/ HALTearsDown
    PROVE  TearDownInv'
<1>1. renderer \in RendererState /\ renderer.queue \in Seq(RendererMessage)
  BY DEF TypeOK, RendererTypeOK, RendererState
<1>2. /\ UNCHANGED <<looper, mRendererGeneration>>
      /\ \E r \in Seq(PlayerMessage) : playerQueue' = playerQueue \o r
  BY RendererPosts, RendererNotificationType
<1>3. renderer.queue # <<>> /\ Head(renderer.queue).what # "CloseAudioSink"
        => (Contains(renderer.queue, CloseOrders) => Contains(Tail(renderer.queue), CloseOrders))
  BY <1>1, ContainsLemma DEF CloseOrders
<1>4. CASE RendererFlushes \/ RendererPauses \/ RendererResumes \/ RendererDisablesOffload
  <2>1. renderer.queue # <<>> /\ Head(renderer.queue).what # "CloseAudioSink"
    BY <1>4 DEF RendererFlushes, RendererPauses, RendererResumes, RendererDisablesOffload, RendererReceives
  <2>2. /\ renderer'.tornDown = renderer.tornDown /\ renderer'.sink = renderer.sink
        /\ renderer'.queue = Tail(renderer.queue)
    BY <1>1, <1>4 DEF RendererFlushes, RendererPauses, RendererResumes, RendererDisablesOffload, RendererStep,
      RendererHandled, RendererState
  <2> QED BY <1>2, <1>3, <2>1, <2>2, PostingKeepsTearDown
<1>5. CASE RendererClosesSink
  <2>1. ~renderer'.sink
    BY <1>1, <1>5 DEF RendererClosesSink, RendererStep, RendererHandled, RendererState
  <2> QED BY <2>1 DEF TearDownInv
<1>6. CASE RendererTearsDown
  <2>1. /\ renderer.queue # <<>> /\ Head(renderer.queue).what # "CloseAudioSink"
        /\ TearDown(RendererHandled, TRUE)
    BY <1>6 DEF RendererTearsDown, RendererReceives
  <2>2. /\ RendererHandled \in RendererState
        /\ RendererHandled.tornDown = renderer.tornDown
        /\ RendererHandled.sink = renderer.sink /\ RendererHandled.queue = Tail(renderer.queue)
    BY <1>1, <2>1, RendererHandledType DEF RendererHandled, RendererState
  <2> QED BY <1>3, <2>1, <2>2, RendererTearDownTells
<1>7. CASE RendererPauseTimeout
  <2> DEFINE r == [renderer EXCEPT !.timeout = FALSE]
  <2>1. /\ r \in RendererState /\ r.tornDown = renderer.tornDown
        /\ r.sink = renderer.sink /\ r.queue = renderer.queue
    BY <1>1 DEF RendererState
  <2>2. TearDown(r, FALSE)
    BY <1>7 DEF RendererPauseTimeout
  <2> HIDE DEF r
  <2> QED BY <2>1, <2>2, RendererTearDownTells
<1>8. CASE HALTearsDown
  <2>1. renderer' = ToRenderer(renderer, "AudioOffloadTearDown")
    BY <1>8 DEF HALTearsDown, RendererStep
  <2>2. /\ renderer'.tornDown = renderer.tornDown /\ renderer'.sink = renderer.sink
        /\ Contains(renderer.queue, CloseOrders) => Contains(renderer'.queue, CloseOrders)
    BY <1>1, <2>1, TornSink
  <2> QED BY <1>2, <2>2, PostingKeepsTearDown
<1> QED BY <1>4, <1>5, <1>6, <1>7, <1>8 DEF RendererLoop

\* A torn down sink is still known to the player: onAudioOffloadTearDown() of
\* the renderer ignores every tear down but the first, and the first is on its
\* way to the player, or the player is closing the sink because of it.  No
\* step, whether the flush of a decoder that opens the sink again or the end of
\* a session, leaves a sink that is open and torn down with nobody told.
THEOREM TearDownHandled == Spec => []TearDownIsHandled
<1>1. Init => TearDownInv
  BY DEF Init, TearDownInv, NewRenderer
<1>2. TypeOK /\ TearDownInv /\ [Next]_vars => TearDownInv'
  <2> SUFFICES ASSUME TypeOK, TearDownInv, [Next]_vars
               PROVE  TearDownInv'
    OBVIOUS
  <2>1. CASE ClientStep \/ SourceStep
    BY <2>1, CallStepPosts, PostingKeepsTearDown
  <2>2. CASE PlayerStep
    BY <2>2, PlayerKeepsTearDown
  <2>3. CASE RendererLoop \/ RendererPauseTimeout \/ HALTearsDown
    BY <2>3, RendererKeepsTearDown
  <2>4. CASE ScanTimer
    <3>1. \A gen \in Nat : [Message("ScanSources", FALSE) EXCEPT !.gen = gen] \in PlayerMessage
      BY ScanMessageType
    <3>2. /\ UNCHANGED <<looper, mRendererGeneration, renderer>>
          /\ \E m \in PlayerMessage : playerQueue' = Append(playerQueue, m)
      BY <2>4, <3>1 DEF ScanTimer, TypeOK, ScanTypeOK, objectVars
    <3> QED BY <3>2, PostingKeepsTearDown
  <2>5. CASE \E s \in Streams : DecoderMessageStep(s) \/ DecoderPulls(s) \/ DecoderOutputs(s)
                                 \/ DecoderFails(s) \/ PassThroughDiscontinuity(s)
    BY <2>5, DecoderKeepsTearDown
  <2>6. CASE UNCHANGED vars
    BY <2>6 DEF vars, playerVars, playerVarsButSurface, objectVars, TearDownInv, Told, TearDowns, Closing,
      CloseOrders, Alive, Contains
  <2> QED BY <2>1, <2>2, <2>3, <2>4, <2>5, <2>6 DEF Next, Environment
<1>3. TypeOK /\ TearDownInv => TearDownIsHandled
  BY ToldLemma DEF TearDownInv, TearDownIsHandled, Closing
<1> QED BY <1>1, <1>2, <1>3, TypeCorrect, PTL DEF Spec

-----------------------------------------------------------------------------
(* The source and the requests that need one.                              *)

\* No x of M in the queue q has a y of N behind it.
NothingBehind(q, M, N) == \A i, j \in DOMAIN q : i < j /\ q[i] \in M => q[j] \notin N

LEMMA ContainsOnlyLemma ==
    ASSUME NEW T, NEW q \in Seq(T), NEW M
    PROVE  /\ \A r \in Seq(T) : Contains(q \o r, M) => Contains(q, M) \/ Contains(r, M)
           /\ q # <<>> => (Contains(Tail(q), M) => Contains(q, M))
           /\ q # <<>> /\ Head(q) \in M => Contains(q, M)
           /\ ~Contains(<<>>, M)
           /\ q \in Seq(T \ M) => ~Contains(q, M)
<1> USE DEF Contains
<1>1. ASSUME NEW r \in Seq(T), Contains(q \o r, M)
      PROVE  Contains(q, M) \/ Contains(r, M)
  <2>1. PICK i \in DOMAIN (q \o r) : (q \o r)[i] \in M
    BY <1>1
  <2>2. CASE i <= Len(q)
    <3>1. i \in DOMAIN q /\ q[i] \in M
      BY <2>1, <2>2
    <3> QED BY <3>1
  <2>3. CASE ~(i <= Len(q))
    <3>1. i - Len(q) \in DOMAIN r /\ r[i - Len(q)] \in M
      BY <2>1, <2>3
    <3> QED BY <3>1
  <2> QED BY <2>2, <2>3
<1>2. ASSUME q # <<>>, Contains(Tail(q), M)
      PROVE  Contains(q, M)
  <2>1. PICK i \in DOMAIN Tail(q) : Tail(q)[i] \in M
    BY <1>2
  <2>2. i + 1 \in DOMAIN q /\ q[i + 1] \in M
    BY <1>2, <2>1
  <2> QED BY <2>2
<1>3. ASSUME q # <<>>, Head(q) \in M
      PROVE  Contains(q, M)
  <2>1. 1 \in DOMAIN q /\ q[1] \in M
    BY <1>3
  <2> QED BY <2>1
<1>4. ~Contains(<<>>, M)
  OBVIOUS
<1>5. q \in Seq(T \ M) => ~Contains(q, M)
  OBVIOUS
<1> QED BY <1>1, <1>2, <1>3, <1>4, <1>5

LEMMA NothingBehindLemma ==
    ASSUME NEW T, NEW q \in Seq(T), NEW M, NEW N, NothingBehind(q, M, N)
    PROVE  /\ \A r \in Seq(T) :
                NothingBehind(r, M, N) /\ (Contains(q, M) => ~Contains(r, N))
                  => NothingBehind(q \o r, M, N)
           /\ q # <<>> => NothingBehind(Tail(q), M, N)
           /\ q # <<>> /\ Head(q) \in M => ~Contains(Tail(q), N)
<1> USE DEF NothingBehind, Contains
<1>1. ASSUME NEW r \in Seq(T), NothingBehind(r, M, N), Contains(q, M) => ~Contains(r, N)
      PROVE  NothingBehind(q \o r, M, N)
  <2> DEFINE both == q \o r
  <2> SUFFICES ASSUME NEW i \in DOMAIN both, NEW j \in DOMAIN both, i < j, both[i] \in M
               PROVE  both[j] \notin N
    OBVIOUS
  <2>1. CASE j <= Len(q)
    <3>1. i \in DOMAIN q /\ j \in DOMAIN q /\ both[i] = q[i] /\ both[j] = q[j]
      BY <2>1
    <3> QED BY <3>1
  <2>2. CASE i <= Len(q) /\ ~(j <= Len(q))
    <3>1. i \in DOMAIN q /\ both[i] = q[i]
      BY <2>2
    <3>2. j - Len(q) \in DOMAIN r /\ both[j] = r[j - Len(q)]
      BY <2>2
    <3> HIDE DEF both
    <3> QED BY <1>1, <3>1, <3>2
  <2>3. CASE ~(i <= Len(q))
    <3>1. /\ i - Len(q) \in DOMAIN r /\ both[i] = r[i - Len(q)]
          /\ j - Len(q) \in DOMAIN r /\ both[j] = r[j - Len(q)]
          /\ i - Len(q) < j - Len(q)
      BY <2>3
    <3> HIDE DEF both
    <3> QED BY <1>1, <3>1
  <2> QED BY <2>1, <2>2, <2>3
<1>2. ASSUME q # <<>>
      PROVE  NothingBehind(Tail(q), M, N)
  <2> SUFFICES ASSUME NEW i \in DOMAIN Tail(q), NEW j \in DOMAIN Tail(q), i < j,
                      Tail(q)[i] \in M
               PROVE  Tail(q)[j] \notin N
    OBVIOUS
  <2>1. /\ i + 1 \in DOMAIN q /\ Tail(q)[i] = q[i + 1]
        /\ j + 1 \in DOMAIN q /\ Tail(q)[j] = q[j + 1] /\ i + 1 < j + 1
    BY <1>2
  <2> QED BY <2>1
<1>3. ASSUME q # <<>>, Head(q) \in M, NEW j \in DOMAIN Tail(q)
      PROVE  Tail(q)[j] \notin N
  <2>1. 1 \in DOMAIN q /\ q[1] \in M /\ j + 1 \in DOMAIN q /\ 1 < j + 1
        /\ Tail(q)[j] = q[j + 1]
    BY <1>3
  <2> QED BY <2>1
<1> QED BY <1>1, <1>2, <1>3

\* The requests that begin something of the current source, the one that ends
\* it, as a message and as a deferred action, and all other messages and actions.
Openings == {m \in PlayerMessage : m.what \in {"Prepare", "Start"}}
Resets == {m \in PlayerMessage : m.what = "Reset"}
ResetActs == {a \in DeferredAction : a.act = "Reset"}
SessionRequests == Openings \cup Resets
Casual == PlayerMessage \ SessionRequests
CasualActs == DeferredAction \ ResetActs

ResetWaits == Contains(playerQueue, Resets) \/ Contains(mDeferredActions, ResetActs)

\* There is a source whenever something has been started or is asked to begin.
\* A reset is the client's last request: it waits, once, while the driver is in
\* the reset, and nothing that needs the source comes behind it.
SessionInv ==
    Alive => /\ mStarted => mSource # "NULL"
             /\ mSource = "NULL" => driver \in {"IDLE", "SET_DATASOURCE_PENDING"}
             /\ Contains(playerQueue, Openings) => mSource # "NULL"
             /\ ResetWaits => driver = "RESET_IN_PROGRESS"
             /\ Contains(mDeferredActions, ResetActs) => ~Contains(playerQueue, SessionRequests)
             /\ NothingBehind(playerQueue, Resets, SessionRequests)
             /\ NothingBehind(mDeferredActions, ResetActs, ResetActs)

\* No scan is of a generation to come, and none of the current one is on its way
\* while there is no source.
ScanOfSource(g) ==
    g <= mScanSourcesGeneration /\ (mSource = "NULL" => g # mScanSourcesGeneration)
Sourced == {m \in PlayerMessage : m.what = "ScanSources" => ScanOfSource(m.gen)}
ScanInv ==
    Alive => (\A g \in scanTimer : ScanOfSource(g)) /\ playerQueue \in Seq(Sourced)

\* What a step that posts no such request does to the queue and to the actions.
QueueFrame ==
    /\ \A M \in {Openings, Resets, SessionRequests} :
          Contains(playerQueue', M) => Contains(playerQueue, M)
    /\ NothingBehind(playerQueue, Resets, SessionRequests)
          => NothingBehind(playerQueue', Resets, SessionRequests)
ActionFrame ==
    /\ Contains(mDeferredActions', ResetActs) => Contains(mDeferredActions, ResetActs)
    /\ NothingBehind(mDeferredActions, ResetActs, ResetActs)
          => NothingBehind(mDeferredActions', ResetActs, ResetActs)

\* Such a step keeps the invariant unless it starts without a source, clears the
\* source, or takes the driver out of a reset.
LEMMA SessionFrame ==
    ASSUME SessionInv, Alive' => Alive, QueueFrame, ActionFrame,
           mStarted' => mStarted \/ mSource # "NULL",
           mSource' = "NULL" => mSource = "NULL",
           \/ driver' = driver
           \/ /\ driver # "RESET_IN_PROGRESS"
              /\ mSource' # "NULL" \/ driver' \in {"IDLE", "SET_DATASOURCE_PENDING"}
    PROVE  SessionInv'
<1> SUFFICES ASSUME Alive'
             PROVE  /\ mStarted' => mSource' # "NULL"
                    /\ mSource' = "NULL" => driver' \in {"IDLE", "SET_DATASOURCE_PENDING"}
                    /\ Contains(playerQueue', Openings) => mSource' # "NULL"
                    /\ ResetWaits' => driver' = "RESET_IN_PROGRESS"
                    /\ Contains(mDeferredActions', ResetActs)
                         => ~Contains(playerQueue', SessionRequests)
                    /\ NothingBehind(playerQueue', Resets, SessionRequests)
                    /\ NothingBehind(mDeferredActions', ResetActs, ResetActs)
  BY DEF SessionInv, Openings, Resets, ResetActs, SessionRequests
<1>1. ResetWaits' => ResetWaits
  BY DEF ResetWaits, QueueFrame, ActionFrame, Resets, ResetActs
<1> QED BY <1>1 DEF SessionInv, QueueFrame, ActionFrame

LEMMA CasualBehind ==
    ASSUME NEW q \in Seq(PlayerMessage), NEW r \in Seq(Casual)
    PROVE  /\ \A M \in {Openings, Resets, SessionRequests} : Contains(q \o r, M) => Contains(q, M)
           /\ NothingBehind(q, Resets, SessionRequests)
                 => NothingBehind(q \o r, Resets, SessionRequests)
<1>1. r \in Seq(PlayerMessage)
  BY DEF Casual
<1>2. ASSUME NEW M, M \subseteq SessionRequests
      PROVE  ~Contains(r, M)
  <2>1. \A i \in DOMAIN r : r[i] \in Casual
    OBVIOUS
  <2> QED BY <1>2, <2>1 DEF Contains, Casual
<1>3. \A M \in {Openings, Resets, SessionRequests} : M \subseteq SessionRequests
  BY DEF SessionRequests
<1>4. NothingBehind(r, Resets, SessionRequests)
  <2>1. ~Contains(r, Resets)
    BY <1>2, <1>3
  <2> QED BY <2>1 DEF NothingBehind, Contains
<1>5. \A M : Contains(q \o r, M) => Contains(q, M) \/ Contains(r, M)
  BY <1>1, ContainsOnlyLemma
<1>6. NothingBehind(q, Resets, SessionRequests)
         => NothingBehind(q \o r, Resets, SessionRequests)
  BY <1>1, <1>2, <1>3, <1>4, NothingBehindLemma
<1> QED BY <1>2, <1>3, <1>5, <1>6

LEMMA CasualPost ==
    ASSUME TypeOK,
           \/ UNCHANGED playerQueue
           \/ \E r \in Seq(Casual) : playerQueue' = playerQueue \o r
           \/ \E m \in Casual : playerQueue' = Append(playerQueue, m)
    PROVE  QueueFrame
<1>1. playerQueue \in Seq(PlayerMessage)
  BY DEF TypeOK, QueueTypeOK
<1>2. CASE UNCHANGED playerQueue
  BY <1>2 DEF QueueFrame
<1>3. CASE \E r \in Seq(Casual) : playerQueue' = playerQueue \o r
  BY <1>1, <1>3, CasualBehind DEF QueueFrame
<1>4. CASE \E m \in Casual : playerQueue' = Append(playerQueue, m)
  <2>1. PICK m \in Casual : playerQueue' = Append(playerQueue, m)
    BY <1>4
  <2>2. <<m>> \in Seq(Casual) /\ playerQueue' = playerQueue \o <<m>>
    BY <1>1, <2>1
  <2> QED BY <1>3, <2>2
<1> QED BY <1>2, <1>3, <1>4

\* Taking a message is such a step; what was taken, was there.
LEMMA TakingFrame ==
    ASSUME TypeOK, looper = "idle", playerQueue # <<>>, playerQueue' = Tail(playerQueue)
    PROVE  /\ QueueFrame /\ Alive /\ playerQueue \in Seq(PlayerMessage)
           /\ Received \in PlayerMessage
           /\ \A M : Received \in M => Contains(playerQueue, M)
<1>1. playerQueue \in Seq(PlayerMessage)
  BY DEF TypeOK, QueueTypeOK
<1>2. \A M : Contains(playerQueue', M) => Contains(playerQueue, M)
  BY <1>1, ContainsOnlyLemma
<1>3. NothingBehind(playerQueue, Resets, SessionRequests)
        => NothingBehind(playerQueue', Resets, SessionRequests)
  BY <1>1, NothingBehindLemma
<1>4. \A M : Received \in M => Contains(playerQueue, M)
  BY <1>1, ContainsOnlyLemma DEF Received
<1> QED BY <1>1, <1>2, <1>3, <1>4 DEF QueueFrame, Alive, AbortStates, Received

LEMMA CasualDefer ==
    ASSUME TypeOK,
           \/ UNCHANGED mDeferredActions
           \/ \E r \in Seq(CasualActs) : mDeferredActions' = mDeferredActions \o r
           \/ mDeferredActions # <<>> /\ mDeferredActions' = Tail(mDeferredActions)
    PROVE  ActionFrame
<1>1. mDeferredActions \in Seq(DeferredAction)
  BY DEF TypeOK, DeferredTypeOK
<1>2. CASE UNCHANGED mDeferredActions
  BY <1>2 DEF ActionFrame
<1>3. CASE \E r \in Seq(CasualActs) : mDeferredActions' = mDeferredActions \o r
  <2>1. PICK r \in Seq(CasualActs) : mDeferredActions' = mDeferredActions \o r
    BY <1>3
  <2>2. r \in Seq(DeferredAction)
    BY DEF CasualActs
  <2>3. ~Contains(r, ResetActs)
    <3>1. \A i \in DOMAIN r : r[i] \in CasualActs
      OBVIOUS
    <3> QED BY <3>1 DEF Contains, CasualActs
  <2>4. NothingBehind(r, ResetActs, ResetActs)
    BY <2>3 DEF NothingBehind, Contains
  <2>5. Contains(mDeferredActions', ResetActs) => Contains(mDeferredActions, ResetActs)
    BY <1>1, <2>1, <2>2, <2>3, ContainsOnlyLemma
  <2>6. NothingBehind(mDeferredActions, ResetActs, ResetActs)
           => NothingBehind(mDeferredActions', ResetActs, ResetActs)
    BY <1>1, <2>1, <2>2, <2>3, <2>4, NothingBehindLemma
  <2> QED BY <2>5, <2>6 DEF ActionFrame
<1>4. CASE mDeferredActions # <<>> /\ mDeferredActions' = Tail(mDeferredActions)
  <2>1. Contains(mDeferredActions', ResetActs) => Contains(mDeferredActions, ResetActs)
    BY <1>1, <1>4, ContainsOnlyLemma
  <2>2. NothingBehind(mDeferredActions, ResetActs, ResetActs)
           => NothingBehind(mDeferredActions', ResetActs, ResetActs)
    BY <1>1, <1>4, NothingBehindLemma
  <2> QED BY <2>1, <2>2 DEF ActionFrame
<1> QED BY <1>2, <1>3, <1>4

\* Scans stay of the source they are of.
LEMMA ScanFrame ==
    ASSUME ScanInv, Alive' => Alive, mSource' = "NULL" => mSource = "NULL",
           UNCHANGED mScanSourcesGeneration,
           Alive' => \A g \in scanTimer' : g \in scanTimer \/ ScanOfSource(g),
           Alive' => (playerQueue \in Seq(Sourced) => playerQueue' \in Seq(Sourced))
    PROVE  ScanInv'
<1> SUFFICES ASSUME Alive'
             PROVE  (\A g \in scanTimer' : ScanOfSource(g)') /\ playerQueue' \in Seq(Sourced')
  BY DEF ScanInv
<1>1. \A g : ScanOfSource(g) => ScanOfSource(g)'
  BY DEF ScanOfSource
<1>2. Sourced \subseteq Sourced'
  BY <1>1 DEF Sourced
<1>3. playerQueue' \in Seq(Sourced)
  BY DEF ScanInv
<1>4. playerQueue' \in Seq(Sourced')
  BY <1>2, <1>3
<1> QED BY <1>1, <1>4 DEF ScanInv

\* A step that makes the scans obsolete.
LEMMA ObsoleteScans ==
    ASSUME TypeOK, ScanInv, Alive' => Alive, ForgetScans, UNCHANGED playerQueue
    PROVE  ScanInv'
<1> SUFFICES ASSUME Alive'
             PROVE  (\A g \in scanTimer' : ScanOfSource(g)') /\ playerQueue' \in Seq(Sourced')
  BY DEF ScanInv
<1>1. \A g \in Nat : ScanOfSource(g) => ScanOfSource(g)'
  BY DEF ScanOfSource, ForgetScans, TypeOK, ScanTypeOK
<1>2. Sourced \subseteq Sourced'
  BY <1>1 DEF Sourced, PlayerMessage
<1>3. playerQueue' \in Seq(Sourced')
  BY <1>2 DEF ScanInv
<1> QED BY <1>1, <1>3 DEF ScanInv, ForgetScans, TypeOK, ScanTypeOK

\* Where there is no source, nothing that needs one is under way.
SourceInv == SessionInv /\ ScanInv

LEMMA MessageKinds ==
    ASSUME NEW w \in PlayerWhat, NEW f \in BOOLEAN
    PROVE  /\ w \notin {"Prepare", "Start", "Reset"} => Message(w, f) \in Casual
           /\ w \in {"Prepare", "Start"} => Message(w, f) \in Openings
           /\ w = "Reset" => Message(w, f) \in Resets
           /\ w # "ScanSources" => Message(w, f) \in Sourced
           /\ \A s \in Streams :
                 w = "QueueDecoderShutdown" => Notification(w, s, 0, f) \in Casual \cap Sourced
<1>1. Message(w, f) \in PlayerMessage /\ Message(w, f).what = w
  BY MessageType DEF Message
<1>2. ASSUME NEW s \in Streams
      PROVE  Notification(w, s, 0, f) \in PlayerMessage /\ Notification(w, s, 0, f).what = w
  BY NotificationType DEF Notification
<1> QED BY <1>1, <1>2 DEF Casual, Openings, Resets, SessionRequests, Sourced

LEMMA SourcedPost ==
    ASSUME TypeOK, ScanInv, NEW m \in Sourced, playerQueue' = Append(playerQueue, m),
           UNCHANGED <<looper, mScanSourcesGeneration, scanTimer>>,
           mSource' = "NULL" => mSource = "NULL"
    PROVE  ScanInv'
<1>1. playerQueue \in Seq(Sourced) => playerQueue' \in Seq(Sourced)
  OBVIOUS
<1>2. Alive' => Alive
  BY DEF Alive
<1> QED BY <1>1, <1>2, ScanFrame

\* A request that begins something is made when there is a source and no reset.
LEMMA OpeningKeeps ==
    ASSUME TypeOK, SessionInv, NEW m \in Openings, playerQueue' = Append(playerQueue, m),
           UNCHANGED <<looper, mSource, mStarted, mDeferredActions>>,
           driver \notin {"IDLE", "SET_DATASOURCE_PENDING", "RESET_IN_PROGRESS"},
           driver' # "RESET_IN_PROGRESS"
    PROVE  SessionInv'
<1> SUFFICES ASSUME Alive
             PROVE  SessionInv'
  BY DEF SessionInv, Alive
<1>1. mSource # "NULL" /\ ~ResetWaits
  BY DEF SessionInv
<1>2. playerQueue \in Seq(PlayerMessage) /\ <<m>> \in Seq(PlayerMessage)
      /\ playerQueue' = playerQueue \o <<m>>
  BY DEF TypeOK, QueueTypeOK, Openings
<1>3. ~Contains(<<m>>, Resets) /\ NothingBehind(<<m>>, Resets, SessionRequests)
  BY DEF Contains, NothingBehind, Resets, Openings
<1>4. ~Contains(playerQueue', Resets)
  <2>1. Contains(playerQueue \o <<m>>, Resets)
          => Contains(playerQueue, Resets) \/ Contains(<<m>>, Resets)
    BY <1>2, ContainsOnlyLemma
  <2> QED BY <1>1, <1>2, <1>3, <2>1 DEF ResetWaits
<1>5. NothingBehind(playerQueue', Resets, SessionRequests)
  BY <1>4 DEF NothingBehind, Contains
<1> QED BY <1>1, <1>4, <1>5 DEF SessionInv, ResetWaits, Alive, Openings, Resets, ResetActs,
                          SessionRequests

LEMMA ResetRequestKeeps ==
    ASSUME TypeOK, SessionInv, NEW m \in Resets, playerQueue' = Append(playerQueue, m),
           UNCHANGED <<looper, mSource, mStarted, mDeferredActions>>,
           driver \notin {"IDLE", "SET_DATASOURCE_PENDING", "RESET_IN_PROGRESS"},
           driver' = "RESET_IN_PROGRESS"
    PROVE  SessionInv'
<1> SUFFICES ASSUME Alive
             PROVE  SessionInv'
  BY DEF SessionInv, Alive
<1>1. mSource # "NULL" /\ ~ResetWaits
  BY DEF SessionInv
<1>2. playerQueue \in Seq(PlayerMessage) /\ <<m>> \in Seq(PlayerMessage)
      /\ playerQueue' = playerQueue \o <<m>>
  BY DEF TypeOK, QueueTypeOK, Resets
<1>3. NothingBehind(<<m>>, Resets, SessionRequests)
  BY DEF NothingBehind
<1>4. NothingBehind(playerQueue', Resets, SessionRequests)
  BY <1>1, <1>2, <1>3, NothingBehindLemma DEF ResetWaits, SessionInv
<1> QED
  BY <1>1, <1>4 DEF SessionInv, ResetWaits, Alive, Openings, Resets, ResetActs, SessionRequests

LEMMA ClientKeepsSession ==
    ASSUME TypeOK, SourceInv, ClientStep
    PROVE  SourceInv'
<1> DEFINE posts(m) == /\ playerQueue' = Append(playerQueue, m)
                       /\ UNCHANGED <<looper, mSource, mStarted, mDeferredActions,
                                      mScanSourcesGeneration, scanTimer>>
<1>1. \A m : Call(m) => posts(m)
  BY DEF Call, playerVarsButSurface, pauseVars, scanVars
<1> HIDE DEF posts
<1>2. ASSUME NEW m \in Casual \cap Sourced, posts(m),
             \/ driver' = driver
             \/ /\ driver # "RESET_IN_PROGRESS"
                /\ \/ driver \notin {"IDLE", "SET_DATASOURCE_PENDING"}
                   \/ driver' \in {"IDLE", "SET_DATASOURCE_PENDING"}
      PROVE  SourceInv'
  <2>1. /\ playerQueue' = Append(playerQueue, m)
        /\ UNCHANGED <<looper, mSource, mStarted, mDeferredActions,
                       mScanSourcesGeneration, scanTimer>>
    BY <1>2 DEF posts
  <2>2. QueueFrame /\ ActionFrame /\ (Alive' => Alive)
    BY <2>1, CasualPost, CasualDefer DEF Alive
  <2>3. ScanInv'
    BY <2>1, SourcedPost DEF SourceInv
  <2>4. CASE Alive
    <3>1. mSource = "NULL" => driver \in {"IDLE", "SET_DATASOURCE_PENDING"}
      BY <2>4 DEF SourceInv, SessionInv
    <3> QED BY <1>2, <2>1, <2>2, <2>3, <3>1, SessionFrame DEF SourceInv
  <2>5. CASE ~Alive
    BY <2>2, <2>3, <2>5 DEF SourceInv, SessionInv
  <2> QED BY <2>4, <2>5
<1>3. \A w \in {"SetDataSource", "Pause", "Seek", "SetVideoNativeWindow"}, f \in BOOLEAN :
         Message(w, f) \in Casual \cap Sourced
  BY MessageKinds DEF PlayerWhat
<1>4. CASE ClientSetDataSource
  <2>1. \E f \in BOOLEAN : posts(Message("SetDataSource", f))
    BY <1>1, <1>4 DEF ClientSetDataSource
  <2> QED BY <1>2, <1>3, <1>4, <2>1 DEF ClientSetDataSource
<1>5. CASE ClientPause
  <2>1. posts(Message("Pause", FALSE))
    BY <1>1, <1>5 DEF ClientPause
  <2> QED BY <1>2, <1>3, <1>5, <2>1 DEF ClientPause
<1>6. CASE ClientSeek
  <2>1. \E f \in BOOLEAN : posts(Message("Seek", f))
    BY <1>1, <1>6 DEF ClientSeek
  <2> QED BY <1>2, <1>3, <1>6, <2>1 DEF ClientSeek
<1>7. CASE ClientSetSurface
  <2>1. \E f \in BOOLEAN : posts(Message("SetVideoNativeWindow", f))
    BY <1>1, <1>7 DEF ClientSetSurface
  <2> QED BY <1>2, <1>3, <1>7, <2>1 DEF ClientSetSurface
<1>8. CASE ClientPrepare \/ ClientStart
  <2>1. PICK w \in {"Prepare", "Start"} : posts(Message(w, FALSE))
    BY <1>1, <1>8 DEF ClientPrepare, ClientStart
  <2>2. Message(w, FALSE) \in Openings \cap Sourced
    BY MessageKinds DEF PlayerWhat
  <2> DEFINE m == Message(w, FALSE)
  <2>3. m \in Openings /\ m \in Sourced /\ posts(m)
    BY <2>1, <2>2
  <2> HIDE DEF m
  <2>4. /\ driver \notin {"IDLE", "SET_DATASOURCE_PENDING", "RESET_IN_PROGRESS"}
        /\ driver' # "RESET_IN_PROGRESS"
    BY <1>8 DEF ClientPrepare, ClientStart
  <2> QED BY <2>3, <2>4, OpeningKeeps, SourcedPost DEF SourceInv, posts
<1>9. CASE ClientReset
  <2> DEFINE m == Message("Reset", FALSE)
  <2>1. m \in Resets /\ m \in Sourced
    BY MessageKinds DEF PlayerWhat
  <2>2. posts(m)
    BY <1>1, <1>9 DEF ClientReset
  <2> HIDE DEF m
  <2>3. /\ driver \notin {"IDLE", "SET_DATASOURCE_PENDING", "RESET_IN_PROGRESS"}
        /\ driver' = "RESET_IN_PROGRESS"
    BY <1>9 DEF ClientReset
  <2> QED BY <2>1, <2>2, <2>3, ResetRequestKeeps, SourcedPost DEF SourceInv, posts
<1> QED BY <1>4, <1>5, <1>6, <1>7, <1>8, <1>9 DEF ClientStep

\* A source posts while it is the current one, or its answer once it is not.
LEMMA SourceKeepsSession ==
    ASSUME TypeOK, SourceInv, SourceStep
    PROVE  SourceInv'
<1> DEFINE posts(m) == /\ playerQueue' = Append(playerQueue, m)
                       /\ UNCHANGED <<driver, looper, mStarted, mDeferredActions,
                                      mScanSourcesGeneration, scanTimer>>
                       /\ mSource' = "NULL" => mSource = "NULL"
<1>1. \A m : \A state \in SourceStates \ {"NULL"} : SourcePosts(m, state) => posts(m)
  BY DEF SourcePosts, driverVars, pauseVars, scanVars, SourceStates
<1>2. SourceStates \ {"NULL"} = {"idle", "preparing", "awaiting", "buffering"}
  BY DEF SourceStates
<1> HIDE DEF posts
<1>3. \A w \in {"Prepared", "InstantiateSecureDecoders", "PauseOnBufferingStart",
                "ResumeOnBufferingEnd"}, f \in BOOLEAN :
         Message(w, f) \in Casual \cap Sourced
  BY MessageKinds DEF PlayerWhat
<1>4. \A s \in Streams, f \in BOOLEAN :
         Notification("QueueDecoderShutdown", s, 0, f) \in Casual \cap Sourced
  BY MessageKinds DEF PlayerWhat
<1>5. \E m \in Casual \cap Sourced : posts(m)
  <2>1. CASE SourcePrepared \/ SourcePrepareError
    BY <1>1, <1>2, <1>3, <2>1 DEF SourcePrepared, SourcePrepareError
  <2>2. CASE SourceInstantiateSecureDecoders
    BY <1>1, <1>2, <1>3, <2>2 DEF SourceInstantiateSecureDecoders
  <2>3. CASE SourcePauseOnBuffering \/ SourceResumeOnBuffering
    BY <1>1, <1>2, <1>3, <2>3 DEF SourcePauseOnBuffering, SourceResumeOnBuffering
  <2>4. CASE SourceQueueDecoderShutdown
    BY <1>1, <1>2, <1>4, <2>4 DEF SourceQueueDecoderShutdown
  <2>5. CASE OldSourcePrepared
    <3>1. \E f \in BOOLEAN : posts(Message("Prepared", f))
      BY <2>5 DEF OldSourcePrepared, posts, driverVars, pauseVars, scanVars
    <3> QED BY <1>3, <3>1
  <2> QED BY <2>1, <2>2, <2>3, <2>4, <2>5 DEF SourceStep
<1>6. PICK m \in Casual \cap Sourced : posts(m)
  BY <1>5
<1>7. QueueFrame /\ ActionFrame /\ (Alive' => Alive)
  BY <1>6, CasualPost, CasualDefer DEF Alive, posts
<1> QED BY <1>6, <1>7, SessionFrame, SourcedPost DEF SourceInv, posts

\* Taking a message leaves the scans that are queued, and the one taken is of
\* the source.
LEMMA TakingScans ==
    ASSUME TypeOK, ScanInv, looper = "idle", playerQueue # <<>>
    PROVE  /\ playerQueue \in Seq(Sourced) => Tail(playerQueue) \in Seq(Sourced)
           /\ Received.what = "ScanSources" => ScanOfSource(Received.gen)
<1>1. playerQueue \in Seq(Sourced)
  BY DEF ScanInv, Alive, AbortStates
<1>2. Tail(playerQueue) \in Seq(Sourced) /\ Received \in Sourced
  BY <1>1 DEF Received
<1> QED BY <1>2 DEF Sourced

\* A handler that leaves the session alone.
LEMMA HandlerFrameKeeps ==
    ASSUME TypeOK, SourceInv, looper = "idle", playerQueue # <<>>, playerQueue' = Tail(playerQueue),
           UNCHANGED mScanSourcesGeneration,
           \A g \in scanTimer' :
              g \in scanTimer \/ (Received.what = "ScanSources" /\ g = Received.gen),
           ActionFrame,
           mStarted' => mStarted,
           mSource' = "NULL" => mSource = "NULL",
           \/ driver' = driver
           \/ /\ driver # "RESET_IN_PROGRESS"
              /\ mSource' # "NULL" \/ driver' \in {"IDLE", "SET_DATASOURCE_PENDING"}
    PROVE  SourceInv'
<1>1. QueueFrame /\ Alive
  BY TakingFrame
<1>2. SessionInv'
  BY <1>1, SessionFrame DEF SourceInv
<1>3. ScanInv'
  BY <1>1, TakingScans, ScanFrame DEF SourceInv
<1> QED BY <1>2, <1>3 DEF SourceInv

LEMMA RequestLists ==
    /\ \A f \in BOOLEAN : SeekActions(f) \in Seq(CasualActs)
    /\ \A window, refresh \in BOOLEAN : SurfaceActions(window, refresh) \in Seq(CasualActs)
    /\ \A cmd \in [Streams -> FlushCommand] : FlushAction(cmd) \in CasualActs
    /\ \A f \in BOOLEAN : /\ Action("ScanSources", f) \in CasualActs
                          /\ Action("PostMessage", f) \in CasualActs
<1>1. \A cmd \in [Streams -> FlushCommand] : FlushAction(cmd) \in CasualActs
  BY FlushActionType DEF CasualActs, ResetActs, FlushAction
<1>2. /\ FlushAction(ForAll("FLUSH")) \in CasualActs
      /\ FlushAction([ForAll("FLUSH") EXCEPT !["video"] = "SHUTDOWN"]) \in CasualActs
  BY <1>1, CommandTypes DEF FlushCommand, Streams
<1>3. ASSUME NEW f \in BOOLEAN,
             NEW a \in {"Seek", "ResumeDecoder", "SetSurface", "ScanSources", "PostMessage"}
      PROVE  Action(a, f) \in CasualActs
  BY ActionType DEF CasualActs, ResetActs, Action
<1>4. ASSUME NEW f \in BOOLEAN
      PROVE  SeekActions(f) \in Seq(CasualActs)
  <2> DEFINE x == Action("Seek", f)
             y == Action("ResumeDecoder", f)
             z == FlushAction(ForAll("FLUSH"))
  <2>1. x \in CasualActs /\ y \in CasualActs /\ z \in CasualActs
    BY <1>2, <1>3
  <2>2. SeekActions(f) = <<z, x, y>>
    BY DEF SeekActions
  <2> HIDE DEF x, y, z
  <2> QED BY <2>1, <2>2
<1>5. ASSUME NEW window \in BOOLEAN, NEW refresh \in BOOLEAN
      PROVE  SurfaceActions(window, refresh) \in Seq(CasualActs)
  <2> DEFINE a == FlushAction([ForAll("FLUSH") EXCEPT !["video"] = "SHUTDOWN"])
             b == Action("SetSurface", window)
             c == Action("Seek", FALSE)
             d == Action("ScanSources", FALSE)
             e == Action("ResumeDecoder", FALSE)
             r == IF window THEN (IF refresh THEN <<c>> ELSE <<>>) \o <<d>> ELSE <<>>
  <2>1. /\ a \in CasualActs /\ b \in CasualActs /\ c \in CasualActs /\ d \in CasualActs
        /\ e \in CasualActs
    BY <1>2, <1>3
  <2>2. SurfaceActions(window, refresh) = <<a, b>> \o r \o <<e>>
    BY DEF SurfaceActions, RefreshActions
  <2> HIDE DEF a, b, c, d, e
  <2>3. (IF refresh THEN <<c>> ELSE <<>>) \in Seq(CasualActs) /\ <<d>> \in Seq(CasualActs)
        /\ <<a, b>> \in Seq(CasualActs) /\ <<e>> \in Seq(CasualActs)
    BY <2>1
  <2>4. r \in Seq(CasualActs)
    BY <2>3
  <2> HIDE DEF r
  <2>5. <<a, b>> \o r \in Seq(CasualActs)
    BY <2>3, <2>4, ConcatenationType
  <2> QED BY <2>2, <2>3, <2>5, ConcatenationType
<1> QED BY <1>1, <1>3, <1>4, <1>5

LEMMA DeferCasually ==
    ASSUME TypeOK, NEW r \in Seq(CasualActs), Defer(r)
    PROVE  ActionFrame
  BY CasualDefer DEF Defer

\* Handlers that neither defer anything nor change the session.
LEMMA PlainHandlerKeeps ==
    ASSUME TypeOK, SourceInv,
           \/ OnPrepare \/ OnStartResumes \/ OnPause \/ OnSetVideoNativeWindowAtOnce
           \/ OnScanSourcesStale \/ OnSourceNotifyGone \/ OnInstantiateSecureDecoders
           \/ OnPauseOnBufferingStart \/ OnResumeOnBufferingEnd \/ OnNotifyStale
           \/ OnFlushCompleted \/ OnRendererFlushComplete \/ OnShutdownCompleted
           \/ OnResumeCompleted \/ OnErrorIgnored \/ OnErrorWhileFlushing \/ OnErrorWhenFlushed
           \/ OnAudioOffloadTearDown
    PROVE  SourceInv'
<1> DEFINE plain == /\ looper = "idle" /\ playerQueue # <<>> /\ playerQueue' = Tail(playerQueue)
                    /\ UNCHANGED <<driver, mScanSourcesGeneration, scanTimer, mStarted,
                                   mDeferredActions>>
                    /\ mSource' = "NULL" => mSource = "NULL"
<1>1. plain
  <2> USE DEF Receive, ReceiveFromDecoder, driverVars, scanVars, pauseVars, configVars
  <2>1. CASE OnPrepare
    BY <2>1 DEF OnPrepare
  <2>2. CASE OnStartResumes
    BY <2>2 DEF OnStartResumes
  <2>3. CASE OnPause \/ OnSetVideoNativeWindowAtOnce
    BY <2>3 DEF OnPause, OnSetVideoNativeWindowAtOnce, InstallWindow
  <2>4. CASE OnScanSourcesStale \/ OnSourceNotifyGone \/ OnInstantiateSecureDecoders
    BY <2>4 DEF OnScanSourcesStale, OnSourceNotifyGone, OnInstantiateSecureDecoders, playerVars,
      playerVarsButSurface
  <2>5. CASE OnPauseOnBufferingStart \/ OnResumeOnBufferingEnd
    BY <2>5 DEF OnPauseOnBufferingStart, OnResumeOnBufferingEnd
  <2>6. CASE OnNotifyStale
    BY <2>6 DEF OnNotifyStale, playerVars, playerVarsButSurface
  <2>7. CASE OnFlushCompleted \/ OnRendererFlushComplete \/ OnResumeCompleted
    BY <2>7 DEF OnFlushCompleted, OnRendererFlushComplete, OnResumeCompleted
  <2>8. CASE OnShutdownCompleted
    BY <2>8 DEF OnShutdownCompleted
  <2>9. CASE OnErrorIgnored
    BY <2>9 DEF OnErrorIgnored, playerVars, playerVarsButSurface
  <2>10. CASE OnErrorWhileFlushing \/ OnErrorWhenFlushed
    BY <2>10 DEF OnErrorWhileFlushing, OnErrorWhenFlushed, ReceiveError
  <2>11. CASE OnAudioOffloadTearDown
    BY <2>11 DEF OnAudioOffloadTearDown
  <2> QED BY <2>1, <2>2, <2>3, <2>4, <2>5, <2>6, <2>7, <2>8, <2>9, <2>10, <2>11
<1>2. ActionFrame
  BY <1>1, CasualDefer
<1> QED BY <1>1, <1>2, HandlerFrameKeeps

\* Handlers that defer actions other than a reset.
LEMMA DeferringHandlerKeeps ==
    ASSUME TypeOK, SourceInv,
           \/ OnSeek \/ OnSetVideoNativeWindow \/ OnPrepared \/ OnQueueDecoderShutdown
           \/ OnInputDiscontinuity \/ OnErrorWhenNotFlushing
    PROVE  SourceInv'
<1> DEFINE plain == /\ looper = "idle" /\ playerQueue # <<>> /\ playerQueue' = Tail(playerQueue)
                    /\ UNCHANGED <<mScanSourcesGeneration, scanTimer, mStarted, mSource>>
                    /\ \/ driver' = driver
                       \/ driver # "RESET_IN_PROGRESS" /\ mSource' # "NULL"
<1> USE DEF Receive, ReceiveFromDecoder, driverVars, scanVars, pauseVars, configVars
<1>1. \A w : Receive(w) => Received \in PlayerMessage
  BY ReceiveType
<1>2. CASE OnSeek
  <2>1. Received.flag \in BOOLEAN
    BY <1>1, <1>2 DEF OnSeek, PlayerMessage
  <2>2. ActionFrame
    BY <1>2, <2>1, RequestLists, DeferCasually DEF OnSeek
  <2>3. plain
    BY <1>2 DEF OnSeek
  <2> QED BY <2>2, <2>3, HandlerFrameKeeps
<1>3. CASE OnSetVideoNativeWindow
  <2>1. Received.flag \in BOOLEAN
    BY <1>1, <1>3 DEF OnSetVideoNativeWindow, PlayerMessage
  <2>2. PICK position \in BOOLEAN : Defer(SurfaceActions(Received.flag, mStarted /\ position))
    BY <1>3 DEF OnSetVideoNativeWindow
  <2>3. SurfaceActions(Received.flag, mStarted /\ position) \in Seq(CasualActs)
    <3>1. (mStarted /\ position) \in BOOLEAN
      OBVIOUS
    <3> QED BY <2>1, <3>1, RequestLists, Zenon
  <2>4. ActionFrame
    BY <2>2, <2>3, DeferCasually, Zenon
  <2>5. plain
    BY <1>3 DEF OnSetVideoNativeWindow
  <2> QED BY <2>4, <2>5, HandlerFrameKeeps
<1>4. CASE OnPrepared
  <2>1. <<FlushAction(ForAll("SHUTDOWN"))>> \in Seq(CasualActs)
    <3>1. FlushAction(ForAll("SHUTDOWN")) \in CasualActs
      BY RequestLists, CommandTypes DEF FlushCommand, Streams
    <3> QED BY <3>1
  <2>2. ActionFrame
    BY <1>4, <2>1, CasualDefer, DeferCasually DEF OnPrepared
  <2>3. plain
    BY <1>4 DEF OnPrepared
  <2> QED BY <2>2, <2>3, HandlerFrameKeeps
<1>5. CASE OnQueueDecoderShutdown
  <2> DEFINE cmd == IF Received.flag THEN ForAll("SHUTDOWN")
                    ELSE ForOnly(Received.stream, "SHUTDOWN")
             a == FlushAction(cmd)
             b == Action("ScanSources", FALSE)
             c == Action("PostMessage", FALSE)
  <2>1. Received.stream \in Streams
    BY <1>1, <1>5 DEF OnQueueDecoderShutdown, PlayerMessage
  <2>2. cmd \in [Streams -> FlushCommand]
    BY <2>1, CommandTypes DEF FlushCommand
  <2>3. a \in CasualActs /\ b \in CasualActs /\ c \in CasualActs
    <3> HIDE DEF cmd
    <3> QED BY <2>2, RequestLists
  <2>4. Defer(<<a, b, c>>)
    BY <1>5 DEF OnQueueDecoderShutdown
  <2>5. ActionFrame
    <3> HIDE DEF a, b, c
    <3>1. <<a, b, c>> \in Seq(CasualActs)
      BY <2>3
    <3> QED BY <2>4, <3>1, DeferCasually
  <2>6. plain
    BY <1>5 DEF OnQueueDecoderShutdown
  <2> QED BY <2>5, <2>6, HandlerFrameKeeps
<1>6. CASE OnInputDiscontinuity
  <2> DEFINE a == Action("ScanSources", FALSE)
  <2>1. a \in CasualActs
    BY RequestLists
  <2>2. Defer(<<a>>)
    BY <1>6 DEF OnInputDiscontinuity
  <2>3. ActionFrame
    <3> HIDE DEF a
    <3>1. <<a>> \in Seq(CasualActs)
      BY <2>1
    <3> QED BY <2>2, <3>1, DeferCasually
  <2>4. plain
    BY <1>6 DEF OnInputDiscontinuity
  <2> QED BY <2>3, <2>4, HandlerFrameKeeps
<1>7. CASE OnErrorWhenNotFlushing
  <2> DEFINE a == FlushAction(ForOnly(Received.stream, "SHUTDOWN"))
  <2>1. Received.stream \in Streams
    BY <1>1, <1>7 DEF OnErrorWhenNotFlushing, ReceiveError, PlayerMessage
  <2>2. a \in CasualActs
    BY <2>1, RequestLists, CommandTypes DEF FlushCommand
  <2>3. Defer(<<a>>)
    BY <1>7 DEF OnErrorWhenNotFlushing
  <2>4. ActionFrame
    <3> HIDE DEF a
    <3>1. <<a>> \in Seq(CasualActs)
      BY <2>2
    <3> QED BY <2>3, <3>1, DeferCasually
  <2>5. plain
    BY <1>7 DEF OnErrorWhenNotFlushing, ReceiveError
  <2> QED BY <2>4, <2>5, HandlerFrameKeeps
<1> QED BY <1>2, <1>3, <1>4, <1>5, <1>6, <1>7

LEMMA SetDataSourceKeeps ==
    ASSUME TypeOK, SourceInv, OnSetDataSource
    PROVE  SourceInv'
<1>1. /\ looper = "idle" /\ playerQueue # <<>> /\ playerQueue' = Tail(playerQueue)
      /\ UNCHANGED <<mScanSourcesGeneration, scanTimer, mStarted, mDeferredActions>>
      /\ mSource' # "NULL" \/ driver' \in {"IDLE", "SET_DATASOURCE_PENDING"}
      /\ (mSource = "NULL" /\ driver = "SET_DATASOURCE_PENDING") \/ looper' = "abortDriver"
  BY DEF OnSetDataSource, Receive, Check, scanVars, pauseVars
<1>2. CASE mSource = "NULL" /\ driver = "SET_DATASOURCE_PENDING"
  BY <1>1, <1>2, CasualDefer, HandlerFrameKeeps
<1>3. CASE looper' = "abortDriver"
  BY <1>3 DEF SourceInv, SessionInv, ScanInv, Alive, AbortStates
<1> QED BY <1>1, <1>2, <1>3

\* The reset that is taken is the only one, and nothing that needs the source
\* is behind it.
LEMMA ResetHandlerKeeps ==
    ASSUME TypeOK, SourceInv, OnReset
    PROVE  SourceInv'
<1>1. /\ looper = "idle" /\ playerQueue # <<>> /\ playerQueue' = Tail(playerQueue)
      /\ Received.what = "Reset" /\ Defer(ResetActions)
      /\ UNCHANGED <<mScanSourcesGeneration, scanTimer, mStarted, mSource, driver>>
  BY DEF OnReset, Receive, scanVars, pauseVars, driverVars, configVars
<1>2. QueueFrame /\ Alive /\ Received \in Resets /\ Contains(playerQueue, Resets)
  BY <1>1, TakingFrame DEF Resets
<1>3. ~Contains(playerQueue', SessionRequests)
  <2>1. NothingBehind(playerQueue, Resets, SessionRequests) /\ playerQueue \in Seq(PlayerMessage)
    BY <1>2 DEF SourceInv, SessionInv, TypeOK, QueueTypeOK
  <2> QED BY <1>1, <1>2, <2>1, NothingBehindLemma DEF Received
<1>4. driver = "RESET_IN_PROGRESS" /\ ~Contains(mDeferredActions, ResetActs)
  BY <1>2 DEF SourceInv, SessionInv, ResetWaits, Contains, SessionRequests
<1>5. NothingBehind(mDeferredActions', ResetActs, ResetActs)
  <2>1. ResetActions \in Seq(DeferredAction) /\ mDeferredActions \in Seq(DeferredAction)
    BY ActionListType DEF TypeOK, DeferredTypeOK
  <2>2. NothingBehind(ResetActions, ResetActs, ResetActs)
    BY DEF NothingBehind, ResetActions, ResetActs, FlushAction
  <2>3. NothingBehind(mDeferredActions, ResetActs, ResetActs)
    BY <1>2 DEF SourceInv, SessionInv
  <2>4. NothingBehind(mDeferredActions \o ResetActions, ResetActs, ResetActs)
    BY <1>4, <2>1, <2>2, <2>3, NothingBehindLemma
  <2> QED BY <1>1, <2>4 DEF Defer
<1>6. ~Contains(playerQueue', Resets) /\ ~Contains(playerQueue', Openings)
  BY <1>3 DEF Contains, SessionRequests
<1>7. SessionInv'
  <2>1. /\ Openings' = Openings /\ Resets' = Resets /\ ResetActs' = ResetActs
        /\ SessionRequests' = SessionRequests
    BY DEF Openings, Resets, ResetActs, SessionRequests
  <2>2. NothingBehind(playerQueue', Resets, SessionRequests)
    BY <1>2 DEF QueueFrame, SourceInv, SessionInv
  <2>3. mSource # "NULL"
    BY <1>2, <1>4 DEF SourceInv, SessionInv
  <2> QED BY <1>1, <1>3, <1>4, <1>5, <1>6, <2>1, <2>2, <2>3 DEF SessionInv
<1>8. ScanInv'
  BY <1>1, <1>2, TakingScans, ScanFrame DEF SourceInv
<1> QED BY <1>7, <1>8 DEF SourceInv

LEMMA ScanMessageKinds ==
    ASSUME NEW g \in Nat
    PROVE  /\ [Message("ScanSources", FALSE) EXCEPT !.gen = g] \in Casual
           /\ ScanOfSource(g) => [Message("ScanSources", FALSE) EXCEPT !.gen = g] \in Sourced
<1> DEFINE m == [Message("ScanSources", FALSE) EXCEPT !.gen = g]
<1>1. m \in PlayerMessage
  BY ScanMessageType
<1>2. m.what = "ScanSources" /\ m.gen = g
  BY DEF Message
<1> HIDE DEF m
<1>3. m \in Casual /\ (ScanOfSource(g) => m \in Sourced)
  BY <1>1, <1>2 DEF Casual, Openings, Resets, SessionRequests, Sourced
<1> QED BY <1>3 DEF m

\* What postScanSources() posts while there is a source.
LEMMA PostScanSourcesFrame ==
    ASSUME TypeOK, NEW q \in Seq(PlayerMessage), PostScanSources(q), mSource # "NULL"
    PROVE  /\ UNCHANGED <<mScanSourcesGeneration, scanTimer>>
           /\ q \in Seq(Sourced) => playerQueue' \in Seq(Sourced)
           /\ \E r \in Seq(Casual) : playerQueue' = q \o r
<1> DEFINE scan == [Message("ScanSources", FALSE) EXCEPT !.gen = mScanSourcesGeneration]
<1>1. scan \in Casual /\ scan \in Sourced
  <2>1. mScanSourcesGeneration \in Nat /\ ScanOfSource(mScanSourcesGeneration)
    BY DEF TypeOK, ScanTypeOK, ScanOfSource
  <2> QED BY <2>1, ScanMessageKinds
<1>2. /\ UNCHANGED <<mScanSourcesGeneration, scanTimer>>
      /\ playerQueue' = q \/ playerQueue' = Append(q, scan)
  BY DEF PostScanSources, scanVars
<1> HIDE DEF scan
<1>3. /\ <<>> \in Seq(Casual) /\ <<scan>> \in Seq(Casual)
      /\ q \o <<>> = q /\ Append(q, scan) = q \o <<scan>>
  BY <1>1
<1>4. \E r \in Seq(Casual) : playerQueue' = q \o r
  BY <1>2, <1>3
<1>5. q \in Seq(Sourced) => Append(q, scan) \in Seq(Sourced)
  BY <1>1
<1> QED BY <1>2, <1>4, <1>5

\* A start is only taken while there is a source.
LEMMA StartKeeps ==
    ASSUME TypeOK, SourceInv, OnStart
    PROVE  SourceInv' /\ mSource # "NULL"
<1>1. /\ looper = "idle" /\ playerQueue # <<>> /\ Received.what = "Start"
      /\ PostScanSources(Tail(playerQueue))
      /\ UNCHANGED <<mDeferredActions, mSource, driver>>
  BY DEF OnStart, driverVars
<1>2. playerQueue \in Seq(PlayerMessage) /\ Tail(playerQueue) \in Seq(PlayerMessage) /\ Alive
  BY <1>1 DEF TypeOK, QueueTypeOK, Alive, AbortStates
<1>3. Received \in Openings
  BY <1>1, <1>2 DEF Openings, Received
<1>4. mSource # "NULL"
  <2>1. Contains(playerQueue, Openings)
    BY <1>1, <1>2, <1>3, ContainsOnlyLemma DEF Received
  <2> QED BY <1>2, <2>1 DEF SourceInv, SessionInv
<1>5. /\ UNCHANGED <<mScanSourcesGeneration, scanTimer>>
      /\ Tail(playerQueue) \in Seq(Sourced) => playerQueue' \in Seq(Sourced)
      /\ \E r \in Seq(Casual) : playerQueue' = Tail(playerQueue) \o r
  BY <1>1, <1>2, <1>4, PostScanSourcesFrame
<1>6. QueueFrame
  <2> DEFINE q == Tail(playerQueue)
  <2>1. /\ \A M : Contains(q, M) => Contains(playerQueue, M)
        /\ NothingBehind(playerQueue, Resets, SessionRequests)
              => NothingBehind(q, Resets, SessionRequests)
    BY <1>1, <1>2, ContainsOnlyLemma, NothingBehindLemma
  <2>2. q \in Seq(PlayerMessage) /\ \E r \in Seq(Casual) : playerQueue' = q \o r
    BY <1>2, <1>5
  <2> HIDE DEF q
  <2>3. /\ \A M \in {Openings, Resets, SessionRequests} :
             Contains(playerQueue', M) => Contains(q, M)
        /\ NothingBehind(q, Resets, SessionRequests)
              => NothingBehind(playerQueue', Resets, SessionRequests)
    BY <2>2, CasualBehind
  <2> QED BY <2>1, <2>3 DEF QueueFrame
<1>7. ActionFrame
  BY <1>1, CasualDefer
<1>8. SessionInv'
  BY <1>1, <1>2, <1>4, <1>6, <1>7, SessionFrame DEF SourceInv
<1>9. ScanInv'
  BY <1>1, <1>2, <1>5, TakingScans, ScanFrame DEF SourceInv
<1> QED BY <1>4, <1>8, <1>9 DEF SourceInv

LEMMA ScanHandlerKeeps ==
    ASSUME TypeOK, SourceInv, OnScanSources \/ OnScanSourcesWaits
    PROVE  SourceInv'
<1>1. /\ looper = "idle" /\ playerQueue # <<>> /\ playerQueue' = Tail(playerQueue)
      /\ Received.what = "ScanSources"
      /\ UNCHANGED <<mScanSourcesGeneration, mStarted, mSource, driver, mDeferredActions>>
  BY DEF OnScanSources, OnScanSourcesWaits, Receive, pauseVars, driverVars, configVars
<1>2. scanTimer' = scanTimer \/ scanTimer' = scanTimer \cup {Received.gen}
  <2>1. CASE OnScanSources
    <3>1. \E again \in BOOLEAN :
             scanTimer' = IF again THEN scanTimer \cup {Received.gen} ELSE scanTimer
      BY <2>1, Zenon DEF OnScanSources
    <3> QED BY <3>1
  <2>2. CASE OnScanSourcesWaits
    BY <2>2 DEF OnScanSourcesWaits
  <2> QED BY <2>1, <2>2
<1> QED BY <1>1, <1>2, CasualDefer, HandlerFrameKeeps

\* A deferred action other than the reset.
LEMMA ActionKeeps ==
    ASSUME TypeOK, SourceInv,
           \/ DeferredDone \/ PerformDecoderFlush \/ PerformSeek \/ PerformSetSurface
           \/ PerformResumeDecoders \/ PerformScanSources \/ PerformPostMessage
           \/ OnAudioSinkClosed
    PROVE  SourceInv'
<1>1. /\ looper \in {"deferred", "tearError", "tearTimeout"}
      /\ UNCHANGED <<driver, mSource, mStarted>>
      /\ \/ UNCHANGED mDeferredActions
         \/ mDeferredActions # <<>> /\ mDeferredActions' = Tail(mDeferredActions)
  <2> USE DEF Execute, driverVars, configVars, pauseVars
  <2>1. CASE DeferredDone \/ PerformPostMessage \/ PerformSeek
    BY <2>1 DEF DeferredDone, PerformPostMessage, PerformSeek
  <2>2. CASE PerformDecoderFlush
    BY <2>2 DEF PerformDecoderFlush
  <2>3. CASE PerformSetSurface \/ PerformResumeDecoders \/ PerformScanSources
    BY <2>3 DEF PerformSetSurface, PerformResumeDecoders, PerformScanSources
  <2>4. CASE OnAudioSinkClosed
    BY <2>4 DEF OnAudioSinkClosed
  <2> QED BY <2>1, <2>2, <2>3, <2>4
<1>2. Alive /\ ActionFrame
  BY <1>1, CasualDefer DEF Alive, AbortStates
<1>3. \/ UNCHANGED playerQueue /\ UNCHANGED <<mScanSourcesGeneration, scanTimer>>
      \/ UNCHANGED playerQueue /\ ForgetScans
      \/ PerformScanSources /\ mStarted /\ PostScanSources(playerQueue)
  <2>1. CASE DeferredDone \/ PerformPostMessage \/ PerformSeek
    BY <2>1 DEF DeferredDone, PerformPostMessage, PerformSeek, scanVars
  <2>2. CASE PerformDecoderFlush
    BY <2>2 DEF PerformDecoderFlush, scanVars
  <2>3. CASE PerformSetSurface \/ PerformResumeDecoders
    BY <2>3 DEF PerformSetSurface, PerformResumeDecoders, scanVars
  <2>4. CASE PerformScanSources
    BY <2>4 DEF PerformScanSources, scanVars
  <2>5. CASE OnAudioSinkClosed
    BY <2>5 DEF OnAudioSinkClosed, scanVars
  <2> QED BY <2>1, <2>2, <2>3, <2>4, <2>5
<1>4. CASE UNCHANGED playerQueue /\ UNCHANGED <<mScanSourcesGeneration, scanTimer>>
  <2>1. QueueFrame
    BY <1>4, CasualPost
  <2>2. SessionInv'
    BY <1>1, <1>2, <2>1, SessionFrame DEF SourceInv
  <2>3. ScanInv'
    BY <1>1, <1>2, <1>4, ScanFrame DEF SourceInv
  <2> QED BY <2>2, <2>3 DEF SourceInv
<1>5. CASE UNCHANGED playerQueue /\ ForgetScans
  <2>1. QueueFrame
    BY <1>5, CasualPost
  <2>2. SessionInv'
    BY <1>1, <1>2, <2>1, SessionFrame DEF SourceInv
  <2>3. ScanInv'
    BY <1>2, <1>5, ObsoleteScans DEF SourceInv
  <2> QED BY <2>2, <2>3 DEF SourceInv
<1>6. CASE mStarted /\ PostScanSources(playerQueue)
  <2>1. mSource # "NULL" /\ playerQueue \in Seq(PlayerMessage)
    BY <1>2, <1>6 DEF SourceInv, SessionInv, TypeOK, QueueTypeOK
  <2>2. /\ UNCHANGED <<mScanSourcesGeneration, scanTimer>>
        /\ playerQueue \in Seq(Sourced) => playerQueue' \in Seq(Sourced)
        /\ \E r \in Seq(Casual) : playerQueue' = playerQueue \o r
    BY <1>6, <2>1, PostScanSourcesFrame
  <2>3. QueueFrame
    BY <2>2, CasualPost
  <2>4. SessionInv'
    BY <1>1, <1>2, <2>3, SessionFrame DEF SourceInv
  <2>5. ScanInv'
    BY <1>1, <1>2, <2>2, ScanFrame DEF SourceInv
  <2> QED BY <2>4, <2>5 DEF SourceInv
<1> QED BY <1>3, <1>4, <1>5, <1>6

\* performReset() clears the source when nothing that needs it is waiting.
LEMMA ResetKeeps ==
    ASSUME TypeOK, SourceInv, PerformReset
    PROVE  SourceInv'
<1>1. /\ looper = "deferred" /\ mDeferredActions # <<>> /\ Head(mDeferredActions).act = "Reset"
      /\ mDeferredActions' = Tail(mDeferredActions) /\ UNCHANGED playerQueue
      /\ ForgetScans /\ driver' = "IDLE" /\ mStarted' = FALSE
  BY DEF PerformReset, Execute, Next1, StopPlayer
<1>2. Alive /\ mDeferredActions \in Seq(DeferredAction) /\ Head(mDeferredActions) \in ResetActs
  BY <1>1 DEF Alive, AbortStates, TypeOK, DeferredTypeOK, ResetActs
<1>3. /\ Contains(mDeferredActions, ResetActs)
      /\ NothingBehind(mDeferredActions, ResetActs, ResetActs)
  BY <1>1, <1>2, ContainsOnlyLemma DEF SourceInv, SessionInv
<1>4. /\ ~Contains(mDeferredActions', ResetActs)
      /\ NothingBehind(mDeferredActions', ResetActs, ResetActs)
  BY <1>1, <1>2, <1>3, NothingBehindLemma
<1>5. ~Contains(playerQueue, SessionRequests) /\ NothingBehind(playerQueue, Resets, SessionRequests)
  BY <1>2, <1>3 DEF SourceInv, SessionInv
<1>6. ~Contains(playerQueue, Openings) /\ ~Contains(playerQueue, Resets)
  BY <1>5 DEF Contains, SessionRequests
<1>7. SessionInv'
  <2>1. /\ Openings' = Openings /\ Resets' = Resets /\ ResetActs' = ResetActs
        /\ SessionRequests' = SessionRequests
    BY DEF Openings, Resets, ResetActs, SessionRequests
  <2> QED BY <1>1, <1>4, <1>5, <1>6, <2>1 DEF SessionInv, ResetWaits
<1>8. ScanInv'
  BY <1>1, <1>2, ObsoleteScans DEF SourceInv
<1> QED BY <1>7, <1>8 DEF SourceInv

\* What the other loopers post is no request of the session.
LEMMA NotificationKeeps ==
    ASSUME TypeOK, SourceInv, NEW r \in Seq(Casual), r \in Seq(Sourced),
           playerQueue' = playerQueue \o r,
           UNCHANGED <<looper, mScanSourcesGeneration, driver, mSource, mStarted,
                       mDeferredActions>>,
           scanTimer' \subseteq scanTimer
    PROVE  SourceInv'
<1>1. QueueFrame /\ ActionFrame /\ (Alive' => Alive)
  BY CasualPost, CasualDefer DEF Alive
<1>2. SessionInv'
  BY <1>1, SessionFrame DEF SourceInv
<1>3. playerQueue \in Seq(Sourced) => playerQueue' \in Seq(Sourced)
  OBVIOUS
<1>4. ScanInv'
  BY <1>1, <1>3, ScanFrame DEF SourceInv
<1> QED BY <1>2, <1>4 DEF SourceInv

LEMMA ScanTimerKeeps ==
    ASSUME TypeOK, SourceInv, ScanTimer
    PROVE  SourceInv'
<1>1. PICK gen \in scanTimer :
         /\ scanTimer' = scanTimer \ {gen}
         /\ playerQueue' = Append(playerQueue, [Message("ScanSources", FALSE) EXCEPT !.gen = gen])
         /\ UNCHANGED <<looper, mScanSourcesGeneration, driver, mSource, mStarted,
                        mDeferredActions>>
  BY Zenon DEF ScanTimer, driverVars, pauseVars, configVars
<1>2. CASE Alive
  <2> DEFINE scan == [Message("ScanSources", FALSE) EXCEPT !.gen = gen]
  <2>1. gen \in Nat /\ ScanOfSource(gen)
    BY <1>2 DEF SourceInv, ScanInv, TypeOK, ScanTypeOK
  <2>2. scan \in Casual /\ scan \in Sourced
    BY <2>1, ScanMessageKinds
  <2>3. playerQueue' = Append(playerQueue, scan)
    BY <1>1
  <2> HIDE DEF scan
  <2>4. /\ <<scan>> \in Seq(Casual) /\ <<scan>> \in Seq(Sourced)
        /\ playerQueue' = playerQueue \o <<scan>>
    BY <2>2, <2>3 DEF TypeOK, QueueTypeOK
  <2> QED BY <1>1, <2>4, NotificationKeeps
<1>3. CASE ~Alive
  BY <1>1, <1>3 DEF SourceInv, SessionInv, ScanInv, Alive
<1> QED BY <1>2, <1>3

LEMMA NotificationKinds ==
    \A r : r \in Seq(DecoderNotification) \/ r \in Seq(RendererNotification)
              => r \in Seq(Casual) /\ r \in Seq(Sourced)
<1>1. /\ DecoderNotification \subseteq Casual \cap Sourced
      /\ RendererNotification \subseteq Casual \cap Sourced
  BY DEF DecoderNotification, RendererNotification, DecoderNotify, RendererNotify, Casual, Sourced,
    SessionRequests, Openings, Resets
<1> QED BY <1>1

LEMMA NextKeepsSession ==
    ASSUME TypeOK, SourceInv, [Next]_vars
    PROVE  SourceInv'
<1>1. CASE ClientStep \/ SourceStep
  BY <1>1, ClientKeepsSession, SourceKeepsSession
<1>2. CASE PlayerStep
  BY <1>2, SetDataSourceKeeps, ResetHandlerKeeps, StartKeeps, ScanHandlerKeeps, PlainHandlerKeeps,
    DeferringHandlerKeeps, ActionKeeps, ResetKeeps DEF PlayerStep, MessageStep, DeferredStep
<1>3. CASE RendererLoop \/ RendererPauseTimeout \/ HALTearsDown
  BY <1>3, RendererPosts, NotificationKinds, NotificationKeeps DEF scanVars
<1>4. CASE ScanTimer
  BY <1>4, ScanTimerKeeps
<1>5. CASE \E s \in Streams : DecoderMessageStep(s) \/ DecoderPulls(s) \/ DecoderOutputs(s)
                               \/ DecoderFails(s) \/ PassThroughDiscontinuity(s)
  BY <1>5, DecoderPosts, NotificationKinds, NotificationKeeps DEF scanVars
<1>6. CASE UNCHANGED vars
  <2>1. UNCHANGED <<looper, mScanSourcesGeneration, scanTimer, driver, mSource, mStarted,
                    mDeferredActions, playerQueue>>
    BY <1>6 DEF vars, playerVars, playerVarsButSurface, driverVars, pauseVars, scanVars
  <2>2. /\ <<>> \in Seq(Casual) /\ <<>> \in Seq(Sourced)
        /\ playerQueue' = playerQueue \o <<>>
    BY <2>1 DEF TypeOK, QueueTypeOK
  <2> QED BY <2>1, <2>2, NotificationKeeps
<1> QED BY <1>1, <1>2, <1>3, <1>4, <1>5, <1>6 DEF Next, Environment

\* The four handlers that use the source find it.
LEMMA SourceIsThere ==
    ASSUME TypeOK, SourceInv, NoUseAfterReset, PlayerStep
    PROVE  NoUseAfterReset'
<1> USE DEF NoUseAfterReset, Check
<1>1. CASE OnPrepare
  <2>1. looper = "idle" /\ playerQueue # <<>> /\ playerQueue' = Tail(playerQueue)
        /\ Received.what = "Prepare"
    BY <1>1 DEF OnPrepare, Receive
  <2>2. Alive /\ Received \in Openings /\ Contains(playerQueue, Openings)
    BY <2>1, TakingFrame DEF Openings
  <2> QED BY <1>1, <2>2 DEF OnPrepare, SourceInv, SessionInv
<1>2. CASE OnStart
  BY <1>2, StartKeeps DEF OnStart
<1>3. CASE OnStartResumes \/ OnResumeOnBufferingEnd
  <2>1. looper = "idle" /\ Alive
    BY <1>3 DEF OnStartResumes, OnResumeOnBufferingEnd, Receive, Alive, AbortStates
  <2>2. mStarted => mSource # "NULL"
    BY <2>1 DEF SourceInv, SessionInv
  <2>3. looper' = looper \/ (mStarted /\ Resume)
    BY <1>3 DEF OnStartResumes, OnResumeOnBufferingEnd, BufferingResumes
  <2> QED BY <2>1, <2>2, <2>3 DEF Resume
<1>4. CASE OnScanSources
  <2>1. looper = "idle" /\ playerQueue # <<>> /\ Received.what = "ScanSources"
        /\ Received.gen = mScanSourcesGeneration
        /\ looper' = Check(mSource # "NULL", "abortNullSource", "idle")
    BY <1>4 DEF OnScanSources, Receive
  <2>2. ScanOfSource(mScanSourcesGeneration)
    BY <2>1, TakingScans DEF SourceInv
  <2> QED BY <2>1, <2>2 DEF ScanOfSource
<1>5. CASE PlayerStep /\ ~OnPrepare /\ ~OnStart /\ ~OnStartResumes /\ ~OnResumeOnBufferingEnd
           /\ ~OnScanSources
  <2>1. CASE \/ OnSetDataSource \/ OnPause \/ OnSeek \/ OnReset \/ OnSetVideoNativeWindowAtOnce
             \/ OnSetVideoNativeWindow \/ OnScanSourcesStale \/ OnScanSourcesWaits
    BY <2>1 DEF OnSetDataSource, OnPause, OnSeek, OnReset, OnSetVideoNativeWindowAtOnce,
      OnSetVideoNativeWindow, OnScanSourcesStale, OnScanSourcesWaits, Defer, playerVars, playerVarsButSurface
  <2>2. CASE \/ OnSourceNotifyGone \/ OnPrepared \/ OnInstantiateSecureDecoders
             \/ OnPauseOnBufferingStart \/ OnQueueDecoderShutdown \/ OnNotifyStale
             \/ OnInputDiscontinuity
    BY <2>2 DEF OnSourceNotifyGone, OnPrepared, OnInstantiateSecureDecoders, OnPauseOnBufferingStart,
      OnQueueDecoderShutdown, OnNotifyStale, OnInputDiscontinuity, Defer, playerVars, playerVarsButSurface
  <2>3. CASE OnFlushCompleted \/ OnRendererFlushComplete
    <3>1. PICK s, party : HandleFlushComplete(s, party)
      BY <2>3 DEF OnFlushCompleted, OnRendererFlushComplete
    <3>2. looper' \in {"abortNullDecoder", "abortFlushState", "deferred", "idle"}
      BY <3>1, Zenon DEF HandleFlushComplete, FinishFlushIfPossible
    <3> QED BY <3>2
  <2>4. CASE OnShutdownCompleted
    <3>1. looper' \in {"abortShutdownState", "deferred", "idle"}
      BY <2>4, Zenon DEF OnShutdownCompleted, FinishFlushIfPossible
    <3> QED BY <3>1
  <2>5. CASE OnResumeCompleted \/ OnErrorIgnored \/ OnErrorWhenNotFlushing
    BY <2>5 DEF OnResumeCompleted, OnErrorIgnored, OnErrorWhenNotFlushing, Defer, playerVars,
      playerVarsButSurface
  <2>6. CASE OnErrorWhileFlushing \/ OnErrorWhenFlushed
    BY <2>6 DEF OnErrorWhileFlushing, OnErrorWhenFlushed, FinishFlushIfPossible
  <2>7. CASE OnAudioOffloadTearDown \/ OnAudioSinkClosed
    BY <2>7 DEF OnAudioOffloadTearDown, OnAudioSinkClosed
  <2>8. CASE DeferredStep
    BY <2>8 DEF DeferredStep, DeferredDone, PerformDecoderFlush, PerformSeek, PerformSetSurface,
      PerformResumeDecoders, PerformScanSources, PerformPostMessage, PerformReset
  <2> QED BY <1>5, <2>1, <2>2, <2>3, <2>4, <2>5, <2>6, <2>7, <2>8 DEF PlayerStep, MessageStep
<1> QED BY <1>1, <1>2, <1>3, <1>4, <1>5

LEMMA OthersLeaveTheLooper ==
    ASSUME TypeOK, [Next]_vars, ~PlayerStep
    PROVE  UNCHANGED looper
<1>1. CASE ClientStep \/ SourceStep
  BY <1>1, CallStepPosts
<1>2. CASE RendererLoop \/ RendererPauseTimeout \/ HALTearsDown
  BY <1>2, RendererPosts
<1>3. CASE ScanTimer
  BY <1>3, Zenon DEF ScanTimer
<1>4. CASE \E s \in Streams : DecoderMessageStep(s) \/ DecoderPulls(s) \/ DecoderOutputs(s)
                               \/ DecoderFails(s) \/ PassThroughDiscontinuity(s)
  BY <1>4, DecoderPosts
<1>5. CASE UNCHANGED vars
  BY <1>5 DEF vars, playerVars, playerVarsButSurface
<1> QED BY <1>1, <1>2, <1>3, <1>4, <1>5 DEF Next, Environment

\* No handler meets a source that performReset() has cleared, or that was never
\* set: a start, a preparation, a scan and the end of a buffering pause are only
\* taken while there is one, whatever the loopers and the timer had posted when
\* the reset began.
THEOREM SourceIsNotUsedAfterReset == Spec => []NoUseAfterReset
<1>1. Init => SourceInv /\ NoUseAfterReset
  <2>1. <<>> \in Seq(Sourced)
    OBVIOUS
  <2> QED
    BY <2>1 DEF Init, SourceInv, SessionInv, ScanInv, NoUseAfterReset, Contains, NothingBehind, ResetWaits
<1>2. TypeOK /\ SourceInv /\ NoUseAfterReset /\ [Next]_vars => SourceInv' /\ NoUseAfterReset'
  <2> SUFFICES ASSUME TypeOK, SourceInv, NoUseAfterReset, [Next]_vars
               PROVE  SourceInv' /\ NoUseAfterReset'
    OBVIOUS
  <2>1. SourceInv'
    BY NextKeepsSession
  <2>2. NoUseAfterReset'
    BY SourceIsThere, OthersLeaveTheLooper DEF NoUseAfterReset
  <2> QED BY <2>1, <2>2
<1> QED BY <1>1, <1>2, TypeCorrect, PTL DEF Spec

-----------------------------------------------------------------------------
(* The pause state of the renderer.                                        *)

PauseOrders == {"Pause", "Resume"}

\* The queue q holds no order to pause or resume; the last one it holds is w.
NoOrderIn(q) == \A i \in DOMAIN q : q[i].what \notin PauseOrders
NoOrderBehind(q, i) == \A j \in DOMAIN q : j > i => q[j].what \notin PauseOrders
LastOrderIs(q, w) ==
    \A i \in DOMAIN q :
       q[i].what \in PauseOrders /\ NoOrderBehind(q, i) => q[i].what = w

OrderOfPlayer == IF mPaused THEN "Pause" ELSE "Resume"

\* The renderer is in the player's pause state once it has carried out the
\* orders on their way to it.
PauseInv ==
    Alive /\ mRenderer =>
      /\ NoOrderIn(renderer.queue) => renderer.paused = mPaused
      /\ LastOrderIs(renderer.queue, OrderOfPlayer)

LEMMA OrderPosted ==
    ASSUME NEW q \in Seq(RendererMessage), NEW m \in RendererMessage,
           m.what \in PauseOrders
    PROVE  /\ ~NoOrderIn(Append(q, m))
           /\ LastOrderIs(Append(q, m), m.what)
<1> DEFINE a == Append(q, m)
<1>1. /\ DOMAIN a = 1 .. Len(q) + 1 /\ Len(q) \in Nat
      /\ a[Len(q) + 1] = m
  OBVIOUS
<1> HIDE DEF a
<1>2. ~NoOrderIn(a)
  BY <1>1 DEF NoOrderIn
<1>3. LastOrderIs(a, m.what)
  <2> SUFFICES ASSUME NEW i \in DOMAIN a, a[i].what \in PauseOrders,
                      NoOrderBehind(a, i)
               PROVE  a[i].what = m.what
    BY DEF LastOrderIs
  <2>1. ~(Len(q) + 1 > i)
    BY <1>1 DEF NoOrderBehind
  <2>2. i = Len(q) + 1
    BY <1>1, <2>1
  <2> QED BY <1>1, <2>2
<1> QED BY <1>2, <1>3 DEF a

LEMMA OtherPosted ==
    ASSUME NEW q \in Seq(RendererMessage), NEW m \in RendererMessage,
           m.what \notin PauseOrders
    PROVE  /\ NoOrderIn(Append(q, m)) => NoOrderIn(q)
           /\ \A w : LastOrderIs(q, w) => LastOrderIs(Append(q, m), w)
<1> DEFINE a == Append(q, m)
<1>1. /\ DOMAIN q = 1 .. Len(q) /\ DOMAIN a = 1 .. Len(q) + 1 /\ Len(q) \in Nat
      /\ a[Len(q) + 1] = m
      /\ \A i \in DOMAIN q : a[i] = q[i]
  OBVIOUS
<1> HIDE DEF a
<1>2. NoOrderIn(a) => NoOrderIn(q)
  BY <1>1 DEF NoOrderIn
<1>3. ASSUME NEW w, LastOrderIs(q, w)
      PROVE  LastOrderIs(a, w)
  <2> SUFFICES ASSUME NEW i \in DOMAIN a, a[i].what \in PauseOrders,
                      NoOrderBehind(a, i)
               PROVE  a[i].what = w
    BY DEF LastOrderIs
  <2>1. i \in DOMAIN q
    BY <1>1 DEF NoOrderBehind
  <2>2. NoOrderBehind(q, i)
    BY <1>1 DEF NoOrderBehind
  <2> QED BY <1>1, <1>3, <2>1, <2>2 DEF LastOrderIs
<1> QED BY <1>2, <1>3 DEF a

\* What the renderer leaves in its queue.
LEMMA OrderTaken ==
    ASSUME NEW q \in Seq(RendererMessage), q # <<>>
    PROVE  /\ \A w : LastOrderIs(q, w) => LastOrderIs(Tail(q), w)
           /\ Head(q).what \notin PauseOrders /\ NoOrderIn(Tail(q)) => NoOrderIn(q)
           /\ Head(q).what \in PauseOrders /\ NoOrderIn(Tail(q)) =>
                \A w : LastOrderIs(q, w) => Head(q).what = w
<1> DEFINE t == Tail(q)
<1>1. /\ DOMAIN q = 1 .. Len(q) /\ DOMAIN t = 1 .. Len(q) - 1 /\ Len(q) \in Nat /\ Len(q) > 0
      /\ Head(q) = q[1]
      /\ \A i \in DOMAIN t : t[i] = q[i + 1]
  OBVIOUS
<1> HIDE DEF t
<1>2. ASSUME NEW w, LastOrderIs(q, w)
      PROVE  LastOrderIs(t, w)
  <2> SUFFICES ASSUME NEW i \in DOMAIN t, t[i].what \in PauseOrders,
                      NoOrderBehind(t, i)
               PROVE  t[i].what = w
    BY DEF LastOrderIs
  <2>1. i + 1 \in DOMAIN q /\ q[i + 1].what \in PauseOrders
    BY <1>1
  <2>2. ASSUME NEW j \in DOMAIN q, j > i + 1
        PROVE  q[j].what \notin PauseOrders
    <3>1. j - 1 \in DOMAIN t /\ j - 1 > i /\ t[j - 1] = q[j]
      BY <1>1, <2>2
    <3> QED BY <3>1 DEF NoOrderBehind
  <2>3. q[i + 1].what = w
    BY <1>2, <2>1, <2>2 DEF LastOrderIs, NoOrderBehind
  <2> QED BY <1>1, <2>3
<1>3. ASSUME NoOrderIn(t), NEW i \in DOMAIN q, i > 1
      PROVE  q[i].what \notin PauseOrders
  <2>1. i - 1 \in DOMAIN t /\ t[i - 1] = q[i]
    BY <1>1, <1>3
  <2> QED BY <1>3, <2>1 DEF NoOrderIn
<1>4. Head(q).what \notin PauseOrders /\ NoOrderIn(t) => NoOrderIn(q)
  BY <1>1, <1>3 DEF NoOrderIn
<1>5. ASSUME Head(q).what \in PauseOrders, NoOrderIn(t), NEW w, LastOrderIs(q, w)
      PROVE  Head(q).what = w
  <2>1. 1 \in DOMAIN q /\ q[1].what \in PauseOrders
    BY <1>1, <1>5
  <2>2. NoOrderBehind(q, 1)
    BY <1>3, <1>5 DEF NoOrderBehind
  <2> QED BY <1>1, <1>5, <2>1, <2>2 DEF LastOrderIs
<1> QED BY <1>2, <1>4, <1>5 DEF t

\* The renderer r2 is as r1 is, to its pause state and to the orders for it.
KeepsOrders(r1, r2) ==
    /\ r2.paused = r1.paused
    /\ NoOrderIn(r2.queue) => NoOrderIn(r1.queue)
    /\ \A w : LastOrderIs(r1.queue, w) => LastOrderIs(r2.queue, w)

LEMMA KeepsOrdersTwice ==
    ASSUME NEW r1, NEW r2, NEW r3, KeepsOrders(r1, r2), KeepsOrders(r2, r3)
    PROVE  KeepsOrders(r1, r3)
  BY DEF KeepsOrders

LEMMA SameQueueKeepsOrders ==
    ASSUME NEW r1, NEW r2, r2.paused = r1.paused, r2.queue = r1.queue
    PROVE  KeepsOrders(r1, r2)
  BY DEF KeepsOrders

LEMMA WithMediaKeepsOrders ==
    ASSUME NEW r \in RendererState, NEW S
    PROVE  KeepsOrders(r, WithMedia(r, S))
<1>1. WithMedia(r, S).paused = r.paused /\ WithMedia(r, S).queue = r.queue
  BY DEF WithMedia, RendererState
<1> QED BY <1>1, SameQueueKeepsOrders

LEMMA OpenSinkKeepsOrders ==
    ASSUME NEW r \in RendererState, NEW opened \in BOOLEAN
    PROVE  KeepsOrders(r, OpenOffloadSink(r, opened))
<1>1. /\ OpenOffloadSink(r, opened).paused = r.paused
      /\ OpenOffloadSink(r, opened).queue = r.queue
  BY DEF OpenOffloadSink, RendererState
<1> QED BY <1>1, SameQueueKeepsOrders

LEMMA PostingKeepsOrders ==
    ASSUME NEW r \in RendererState,
           NEW w \in {"CloseAudioSink", "DisableOffloadAudio", "AudioOffloadTearDown"}
    PROVE  KeepsOrders(r, ToRenderer(r, w))
<1>1. RendererMsg(w, "audio") \in RendererMessage /\ RendererMsg(w, "audio").what \notin PauseOrders
  BY DEF RendererMsg, RendererMessage, Streams, PauseOrders
<1>2. /\ ToRenderer(r, w).queue = Append(r.queue, RendererMsg(w, "audio"))
      /\ ToRenderer(r, w).paused = r.paused /\ r.queue \in Seq(RendererMessage)
  BY DEF ToRenderer, RendererState
<1> QED BY <1>1, <1>2, OtherPosted DEF KeepsOrders

LEMMA FlushKeepsOrders ==
    ASSUME NEW r \in RendererState, NEW s \in Streams, NEW notify \in BOOLEAN
    PROVE  KeepsOrders(r, RendererFlush(r, s, notify))
<1>1. RendererMsg("Flush", s) \in RendererMessage /\ RendererMsg("Flush", s).what \notin PauseOrders
  BY DEF RendererMsg, RendererMessage, Streams, PauseOrders
<1>2. /\ RendererFlush(r, s, notify).queue
            = IF r.flushing[s] THEN r.queue ELSE Append(r.queue, RendererMsg("Flush", s))
      /\ RendererFlush(r, s, notify).paused = r.paused /\ r.queue \in Seq(RendererMessage)
  BY DEF RendererFlush, RendererState
<1> QED BY <1>1, <1>2, OtherPosted DEF KeepsOrders

LEMMA PauseStateFrame ==
    ASSUME PauseInv, Alive' => Alive, mRenderer' => mRenderer, UNCHANGED mPaused,
           KeepsOrders(renderer, renderer')
    PROVE  PauseInv'
<1>1. OrderOfPlayer' = OrderOfPlayer
  BY DEF OrderOfPlayer
<1> QED BY <1>1 DEF PauseInv, KeepsOrders

\* The order that a change of mPaused posts.
LEMMA OrderIsObeyed ==
    ASSUME NEW r \in RendererState, NEW w \in PauseOrders,
           mRenderer' => renderer' = ToRenderer(r, w), w = OrderOfPlayer'
    PROVE  PauseInv'
<1>1. RendererMsg(w, "audio") \in RendererMessage /\ RendererMsg(w, "audio").what = w
  BY DEF RendererMsg, RendererMessage, Streams, PauseOrders
<1>2. /\ ToRenderer(r, w).queue = Append(r.queue, RendererMsg(w, "audio"))
      /\ r.queue \in Seq(RendererMessage)
  BY DEF ToRenderer, RendererState
<1>3. /\ ~NoOrderIn(ToRenderer(r, w).queue)
      /\ LastOrderIs(ToRenderer(r, w).queue, w)
  BY <1>1, <1>2, OrderPosted
<1> QED BY <1>3 DEF PauseInv

\* The player pauses and resumes its renderer as itself.
LEMMA PlayerOrders ==
    ASSUME TypeOK, PauseInv,
           OnStartResumes \/ OnPause \/ OnPauseOnBufferingStart \/ OnResumeOnBufferingEnd
    PROVE  PauseInv'
<1>1. renderer \in RendererState
  BY DEF TypeOK, RendererTypeOK
<1>2. UNCHANGED mRenderer /\ looper = "idle"
  BY DEF OnStartResumes, OnPause, OnPauseOnBufferingStart, OnResumeOnBufferingEnd, objectVars, Receive
<1>3. CASE UNCHANGED <<mPaused, renderer>>
  <2>1. KeepsOrders(renderer, renderer')
    BY <1>3, SameQueueKeepsOrders
  <2>2. Alive
    BY <1>2 DEF Alive, AbortStates
  <2> QED BY <1>2, <1>3, <2>1, <2>2, PauseStateFrame
<1>4. CASE Pause
  <2>1. mRenderer' => renderer' = ToRenderer(renderer, "Pause")
    BY <1>2, <1>4 DEF Pause
  <2>2. OrderOfPlayer' = "Pause"
    BY <1>4 DEF Pause, OrderOfPlayer
  <2> QED BY <1>1, <2>1, <2>2, OrderIsObeyed DEF PauseOrders
<1>5. CASE Resume
  <2>1. PICK S : mRenderer => renderer' = ToRenderer(WithMedia(renderer, S), "Resume")
    BY <1>5 DEF Resume
  <2>2. WithMedia(renderer, S) \in RendererState
    BY <1>1, WithMediaType
  <2>3. OrderOfPlayer' = "Resume"
    BY <1>5 DEF Resume, OrderOfPlayer
  <2> QED BY <1>2, <2>1, <2>2, <2>3, OrderIsObeyed DEF PauseOrders
<1> QED
  BY <1>3, <1>4, <1>5 DEF OnStartResumes, OnPause, OnPauseOnBufferingStart, OnResumeOnBufferingEnd

\* A new renderer is not paused, and waits for no order.
LEMMA NewRendererIsNotPaused ==
    ASSUME OnStart, ~mPaused
    PROVE  PauseInv'
<1>1. mPaused' = FALSE
  BY DEF OnStart
<1>2. renderer'.queue = <<>> /\ renderer'.paused = FALSE
  BY DEF OnStart, NewRenderer
<1>3. LastOrderIs(renderer'.queue, OrderOfPlayer')
  BY <1>2 DEF LastOrderIs
<1> QED BY <1>1, <1>2, <1>3 DEF PauseInv

\* What the other handlers leave of the renderer.
LEMMA HandlersKeepOrders ==
    ASSUME TypeOK, PlayerStep, ~OnStart, ~OnStartResumes, ~OnPause,
           ~OnPauseOnBufferingStart, ~OnResumeOnBufferingEnd, ~PerformReset
    PROVE  KeepsOrders(renderer, renderer') /\ UNCHANGED mRenderer
<1>1. renderer \in RendererState
  BY DEF TypeOK, RendererTypeOK
<1>2. UNCHANGED renderer => KeepsOrders(renderer, renderer')
  BY SameQueueKeepsOrders
<1>3. CASE DeferredStep
  BY <1>2, <1>3 DEF DeferredStep, DeferredDone, PerformDecoderFlush, PerformSeek, PerformSetSurface,
    PerformResumeDecoders, PerformScanSources, PerformPostMessage, objectVars
<1>4. CASE OnAudioOffloadTearDown
  BY <1>1, <1>4, PostingKeepsOrders DEF OnAudioOffloadTearDown, objectVars
<1>5. CASE OnAudioSinkClosed
  <2> DEFINE audio    == RendererFlush(renderer, "audio", FALSE)
             flushed  == IF mDecoder["video"] = "NULL" THEN audio
                         ELSE RendererFlush(audio, "video", FALSE)
             media    == WithMedia(flushed, Formats)
  <2>1. renderer' = flushed \/ renderer' = ToRenderer(media, "DisableOffloadAudio")
    BY <1>5, Zenon DEF OnAudioSinkClosed
  <2>2. audio \in RendererState /\ KeepsOrders(renderer, audio)
    BY <1>1, RendererFlushType, FlushKeepsOrders DEF Streams
  <2> HIDE DEF audio
  <2>3. /\ RendererFlush(audio, "video", FALSE) \in RendererState
        /\ KeepsOrders(audio, RendererFlush(audio, "video", FALSE))
    BY <2>2, RendererFlushType, FlushKeepsOrders DEF Streams
  <2>4. KeepsOrders(renderer, RendererFlush(audio, "video", FALSE))
    BY <2>2, <2>3, KeepsOrdersTwice
  <2>5. flushed \in RendererState /\ KeepsOrders(renderer, flushed)
    BY <2>2, <2>3, <2>4
  <2> HIDE DEF flushed
  <2>6. media \in RendererState /\ KeepsOrders(flushed, media)
    BY <2>5, WithMediaType, WithMediaKeepsOrders
  <2> HIDE DEF media
  <2>7. KeepsOrders(media, ToRenderer(media, "DisableOffloadAudio"))
    BY <2>6, PostingKeepsOrders
  <2>8. KeepsOrders(renderer, ToRenderer(media, "DisableOffloadAudio"))
    BY <2>5, <2>6, <2>7, KeepsOrdersTwice
  <2>9. UNCHANGED mRenderer
    BY <1>5, Zenon DEF OnAudioSinkClosed
  <2> QED BY <2>1, <2>5, <2>8, <2>9
<1>6. CASE OnScanSources
  <2>1. PICK found \in SUBSET Formats, opened \in BOOLEAN :
           LET missing == {s \in found : /\ mDecoder[s] = "NULL"
                                         /\ s = "video" => mNativeWindow}
               tries   == CanOffload /\ "audio" \in missing
           IN renderer' = WithMedia(IF tries
                 THEN OpenOffloadSink([renderer EXCEPT !.offload = @ \/ ~mOffloadAudio], opened)
                 ELSE renderer, missing)
    BY <1>6, Zenon DEF OnScanSources
  <2> DEFINE r == [renderer EXCEPT !.offload = @ \/ ~mOffloadAudio]
             missing == {s \in found : /\ mDecoder[s] = "NULL"
                                       /\ s = "video" => mNativeWindow}
             tries   == CanOffload /\ "audio" \in missing
  <2>2. r \in RendererState /\ r.paused = renderer.paused /\ r.queue = renderer.queue
    BY DEF TypeOK, RendererTypeOK, RendererState, ConfigTypeOK
  <2>3. \/ renderer' = WithMedia(OpenOffloadSink(r, opened), missing)
        \/ renderer' = WithMedia(renderer, missing)
    BY <2>1, Zenon
  <2> HIDE DEF r, missing, tries
  <2> DEFINE o == OpenOffloadSink(r, opened)
  <2>4. o \in RendererState /\ KeepsOrders(renderer, r) /\ KeepsOrders(r, o)
    BY <2>2, OpenOffloadSinkType, OpenSinkKeepsOrders, SameQueueKeepsOrders
  <2> HIDE DEF o
  <2>5. KeepsOrders(renderer, o)
    BY <2>4, KeepsOrdersTwice
  <2>6. KeepsOrders(o, WithMedia(o, missing)) /\ KeepsOrders(renderer, WithMedia(renderer, missing))
    BY <1>1, <2>4, WithMediaKeepsOrders
  <2>7. KeepsOrders(renderer, WithMedia(o, missing))
    BY <2>5, <2>6, KeepsOrdersTwice
  <2>8. UNCHANGED mRenderer
    BY <1>6, Zenon DEF OnScanSources
  <2> QED BY <2>3, <2>6, <2>7, <2>8 DEF o
<1>7. CASE MessageStep /\ ~OnAudioOffloadTearDown /\ ~OnScanSources
  <2>1. UNCHANGED <<renderer, mRenderer>>
    BY <1>7 DEF MessageStep, OnSetDataSource, OnPrepare, OnSeek, OnReset, OnSetVideoNativeWindowAtOnce,
      OnSetVideoNativeWindow, OnScanSourcesStale, OnScanSourcesWaits, OnSourceNotifyGone, OnPrepared,
      OnInstantiateSecureDecoders, OnQueueDecoderShutdown, OnNotifyStale, OnInputDiscontinuity,
      OnFlushCompleted, OnRendererFlushComplete, OnShutdownCompleted, OnResumeCompleted, OnErrorIgnored,
      OnErrorWhenNotFlushing, OnErrorWhileFlushing, OnErrorWhenFlushed, ReceiveError, playerVars,
      playerVarsButSurface, objectVars
  <2> QED BY <1>2, <2>1
<1> QED BY <1>3, <1>4, <1>5, <1>6, <1>7 DEF PlayerStep

LEMMA PlayerIsAlive ==
    ASSUME PlayerStep
    PROVE  Alive
<1>1. CASE MessageStep
  BY <1>1 DEF MessageStep, OnSetDataSource, OnPrepare, OnStart, OnStartResumes, OnPause, OnSeek, OnReset,
    OnSetVideoNativeWindowAtOnce, OnSetVideoNativeWindow, OnScanSourcesStale, OnScanSourcesWaits,
    OnScanSources, OnSourceNotifyGone, OnPrepared, OnInstantiateSecureDecoders, OnPauseOnBufferingStart,
    OnResumeOnBufferingEnd, OnQueueDecoderShutdown, OnNotifyStale, OnInputDiscontinuity, OnFlushCompleted,
    OnRendererFlushComplete, OnShutdownCompleted, OnResumeCompleted, OnErrorIgnored, OnErrorWhenNotFlushing,
    OnErrorWhileFlushing, OnErrorWhenFlushed, ReceiveError, OnAudioOffloadTearDown, ReceiveFromDecoder,
    Receive, Alive, AbortStates
<1>2. CASE DeferredStep
  BY <1>2 DEF DeferredStep, DeferredDone, PerformDecoderFlush, PerformSeek, PerformSetSurface,
    PerformResumeDecoders, PerformScanSources, PerformPostMessage, PerformReset, Execute, Alive, AbortStates
<1>3. CASE OnAudioSinkClosed
  BY <1>3 DEF OnAudioSinkClosed, Alive, AbortStates
<1> QED BY <1>1, <1>2, <1>3 DEF PlayerStep

LEMMA PlayerKeepsPauseState ==
    ASSUME TypeOK, PauseInv, PlayerStep, OnStart => ~mPaused
    PROVE  PauseInv'
<1>1. CASE OnStart
  BY <1>1, NewRendererIsNotPaused
<1>2. CASE OnStartResumes \/ OnPause \/ OnPauseOnBufferingStart \/ OnResumeOnBufferingEnd
  BY <1>2, PlayerOrders
<1>3. CASE PerformReset
  <2>1. ~mRenderer'
    BY <1>3 DEF PerformReset
  <2> QED BY <2>1 DEF PauseInv
<1>4. CASE /\ ~OnStart /\ ~OnStartResumes /\ ~OnPause /\ ~OnPauseOnBufferingStart
           /\ ~OnResumeOnBufferingEnd /\ ~PerformReset
  <2>1. KeepsOrders(renderer, renderer') /\ UNCHANGED mRenderer
    BY <1>4, HandlersKeepOrders
  <2>2. UNCHANGED mPaused
    BY <1>4, PauseFrame DEF Next
  <2>3. Alive
    BY PlayerIsAlive
  <2> QED BY <2>1, <2>2, <2>3, PauseStateFrame
<1> QED BY <1>1, <1>2, <1>3, <1>4

\* The renderer obeys.
LEMMA RendererObeys ==
    ASSUME TypeOK, PauseInv, RendererPauses \/ RendererResumes
    PROVE  PauseInv'
<1> DEFINE q == renderer.queue
<1>1. /\ renderer \in RendererState /\ q \in Seq(RendererMessage) /\ q # <<>>
      /\ UNCHANGED <<looper, mPaused, mRenderer>>
  BY DEF TypeOK, RendererTypeOK, RendererState, RendererPauses, RendererResumes, RendererReceives,
    RendererStep, playerVars, playerVarsButSurface, objectVars, pauseVars
<1>2. /\ renderer'.queue = Tail(q)
      /\ \/ Head(q).what = "Pause" /\ renderer'.paused = TRUE
         \/ Head(q).what = "Resume" /\ renderer'.paused = FALSE
  BY <1>1 DEF RendererPauses, RendererResumes, RendererReceives, RendererStep, RendererHandled, RendererState
<1>3. Head(q).what \in PauseOrders
  BY <1>2 DEF PauseOrders
<1>4. OrderOfPlayer' = OrderOfPlayer /\ Alive' = Alive
  BY <1>1 DEF OrderOfPlayer, Alive
<1> HIDE DEF q
<1> SUFFICES ASSUME Alive, mRenderer
             PROVE  /\ NoOrderIn(Tail(q)) => renderer'.paused = mPaused
                    /\ LastOrderIs(Tail(q), OrderOfPlayer)
  BY <1>1, <1>2, <1>4 DEF PauseInv
<1>5. LastOrderIs(q, OrderOfPlayer)
  BY DEF PauseInv, q
<1>6. LastOrderIs(Tail(q), OrderOfPlayer)
  BY <1>1, <1>5, OrderTaken
<1>7. NoOrderIn(Tail(q)) => Head(q).what = OrderOfPlayer
  BY <1>1, <1>3, <1>5, OrderTaken
<1>8. NoOrderIn(Tail(q)) => renderer'.paused = mPaused
  BY <1>2, <1>7 DEF OrderOfPlayer, TypeOK, PauseTypeOK
<1> QED BY <1>6, <1>8

LEMMA TakingKeepsOrders ==
    ASSUME NEW r1 \in RendererState, NEW r2, r1.queue # <<>>,
           Head(r1.queue).what \notin PauseOrders,
           r2.queue = Tail(r1.queue), r2.paused = r1.paused
    PROVE  KeepsOrders(r1, r2)
<1>1. r1.queue \in Seq(RendererMessage)
  BY DEF RendererState
<1> QED BY <1>1, OrderTaken DEF KeepsOrders

LEMMA RendererKeepsOrders ==
    ASSUME TypeOK, RendererLoop \/ RendererPauseTimeout \/ HALTearsDown,
           ~RendererPauses, ~RendererResumes
    PROVE  KeepsOrders(renderer, renderer')
<1>1. renderer \in RendererState
  BY DEF TypeOK, RendererTypeOK
<1>2. CASE RendererFlushes \/ RendererClosesSink \/ RendererDisablesOffload \/ RendererTearsDown
  <2>1. renderer.queue # <<>> /\ Head(renderer.queue).what \notin PauseOrders
    BY <1>2 DEF RendererFlushes, RendererClosesSink, RendererDisablesOffload, RendererTearsDown,
      RendererReceives, PauseOrders
  <2>2. renderer'.queue = Tail(renderer.queue) /\ renderer'.paused = renderer.paused
    BY <1>1, <1>2 DEF RendererFlushes, RendererClosesSink, RendererDisablesOffload, RendererTearsDown,
      TearDown, RendererStep, RendererHandled, RendererState
  <2> QED BY <1>1, <2>1, <2>2, TakingKeepsOrders
<1>3. CASE RendererPauseTimeout
  <2>1. renderer'.queue = renderer.queue /\ renderer'.paused = renderer.paused
    BY <1>1, <1>3 DEF RendererPauseTimeout, TearDown, RendererStep, RendererState
  <2> QED BY <2>1, SameQueueKeepsOrders
<1>4. CASE HALTearsDown
  BY <1>1, <1>4, PostingKeepsOrders DEF HALTearsDown, RendererStep
<1> QED BY <1>2, <1>3, <1>4 DEF RendererLoop

LEMMA DecodersKeepOrders ==
    ASSUME TypeOK, NEW s \in Streams,
           DecoderMessageStep(s) \/ DecoderPulls(s) \/ DecoderOutputs(s)
             \/ DecoderFails(s) \/ PassThroughDiscontinuity(s)
    PROVE  KeepsOrders(renderer, renderer')
<1>1. renderer \in RendererState
  BY DEF TypeOK, RendererTypeOK
<1>2. UNCHANGED renderer => KeepsOrders(renderer, renderer')
  BY SameQueueKeepsOrders
<1>3. CASE \/ DecoderConfigures(s) \/ DecoderResumes(s) \/ DecoderShutsDown(s)
           \/ DecoderPulls(s) \/ DecoderOutputs(s) \/ DecoderFails(s)
  BY <1>2, <1>3, Zenon DEF DecoderConfigures, DecoderResumes, DecoderShutsDown, DecoderPulls, DecoderOutputs,
    DecoderFails
<1>4. CASE PassThroughConfigures(s)
  <2>1. \E opened \in BOOLEAN : renderer' = OpenOffloadSink(renderer, opened)
    BY <1>4, Zenon DEF PassThroughConfigures
  <2> QED BY <1>1, <2>1, OpenSinkKeepsOrders
<1>5. CASE DecoderFlushes(s)
  <2>1. renderer' = RendererFlush(renderer, s, TRUE)
    BY <1>5 DEF DecoderFlushes
  <2> QED BY <1>1, <2>1, FlushKeepsOrders
<1>6. CASE PassThroughDiscontinuity(s)
  <2>1. PICK timeChange \in BOOLEAN :
           renderer' = IF timeChange THEN RendererFlush(renderer, s, FALSE) ELSE renderer
    BY <1>6, Zenon DEF PassThroughDiscontinuity
  <2> QED BY <1>1, <1>2, <2>1, FlushKeepsOrders
<1> QED BY <1>3, <1>4, <1>5, <1>6 DEF DecoderMessageStep

\* Only the player's own thread creates and drops a renderer.
LEMMA OthersLeaveTheRenderer ==
    ASSUME [Next]_vars, ~PlayerStep
    PROVE  UNCHANGED mRenderer
<1> USE DEF objectVars
<1>1. CASE ClientStep
  BY <1>1 DEF ClientStep, ClientSetDataSource, ClientPrepare, ClientStart, ClientPause, ClientSeek,
    ClientSetSurface, ClientReset, Call, playerVarsButSurface
<1>2. CASE SourceStep
  <2>1. \A m, state : SourcePosts(m, state) => UNCHANGED mRenderer
    BY DEF SourcePosts
  <2>2. CASE OldSourcePrepared
    BY <2>2, Zenon DEF OldSourcePrepared
  <2> QED BY <1>2, <2>1, <2>2, Zenon
       DEF SourceStep, SourcePrepared, SourcePrepareError, SourceInstantiateSecureDecoders,
           SourcePauseOnBuffering, SourceResumeOnBuffering, SourceQueueDecoderShutdown
<1>3. CASE RendererLoop \/ Environment
           \/ \E s \in Streams : DecoderMessageStep(s) \/ DecoderPulls(s) \/ DecoderOutputs(s)
  <2>1. \A r, notifies : RendererStep(r, notifies) => UNCHANGED mRenderer
    BY DEF RendererStep, playerVars, playerVarsButSurface
  <2>2. \A s, d, notifies : DecoderStep(s, d, notifies) => UNCHANGED mRenderer
    BY DEF DecoderStep, playerVars, playerVarsButSurface
  <2>3. CASE RendererLoop \/ RendererPauseTimeout \/ HALTearsDown
    BY <2>1, <2>3, Zenon DEF RendererLoop, RendererFlushes, RendererPauses, RendererResumes,
      RendererClosesSink, RendererDisablesOffload, RendererTearsDown, TearDown, RendererPauseTimeout,
      HALTearsDown
  <2>4. CASE ScanTimer
    BY <2>4, Zenon DEF ScanTimer
  <2>5. CASE \E s \in Streams : DecoderMessageStep(s) \/ DecoderPulls(s) \/ DecoderOutputs(s)
                                 \/ DecoderFails(s) \/ PassThroughDiscontinuity(s)
    BY <2>2, <2>5, Zenon DEF DecoderFails, PassThroughDiscontinuity, DecoderMessageStep, DecoderConfigures,
      PassThroughConfigures, DecoderFlushes, DecoderResumes, DecoderShutsDown, DecoderPulls, DecoderOutputs
  <2> QED BY <1>3, <2>3, <2>4, <2>5 DEF Environment
<1>4. CASE UNCHANGED vars
  BY <1>4 DEF vars, playerVars, playerVarsButSurface
<1> QED BY <1>1, <1>2, <1>3, <1>4 DEF Next

\* No session is started while mPaused is still set from the one before:
\* onStart() leaves mPaused as it is, and gives the player a renderer that is
\* not paused.
StartsUnpaused == [][OnStart => ~mPaused]_vars

\* A start that finds mPaused set is the only way for the renderer to fall out
\* of the player's pause state: pauses and resumes of the client and of the
\* source's buffering reach it in the order in which they changed mPaused, and
\* no flush, tear down or change of the sink loses one or changes what it does.
THEOREM PausedAsThePlayer == Spec /\ StartsUnpaused => []RendererFollowsPause
<1>1. Init => PauseInv
  BY DEF Init, PauseInv
<1>2. TypeOK /\ PauseInv /\ [Next]_vars /\ [OnStart => ~mPaused]_vars => PauseInv'
  <2> SUFFICES ASSUME TypeOK, PauseInv, [Next]_vars, [OnStart => ~mPaused]_vars
               PROVE  PauseInv'
    OBVIOUS
  <2>1. CASE PlayerStep /\ ~UNCHANGED vars
    BY <2>1, PlayerKeepsPauseState
  <2>2. CASE RendererPauses \/ RendererResumes
    BY <2>2, RendererObeys
  <2>3. CASE UNCHANGED vars
    <3>1. KeepsOrders(renderer, renderer') /\ UNCHANGED <<looper, mRenderer, mPaused>>
      BY <2>3, SameQueueKeepsOrders DEF vars, playerVars, playerVarsButSurface, objectVars, pauseVars
    <3> QED BY <3>1, PauseStateFrame DEF Alive
  <2>4. CASE ~PlayerStep /\ ~RendererPauses /\ ~RendererResumes /\ ~UNCHANGED vars
    <3>1. UNCHANGED <<looper, mRenderer>>
      BY <2>4, OthersLeaveTheLooper, OthersLeaveTheRenderer
    <3>2. UNCHANGED mPaused
      BY <2>4, PauseFrame DEF PlayerStep, MessageStep
    <3>3. KeepsOrders(renderer, renderer')
      <4>1. CASE ClientStep \/ SourceStep
        BY <4>1, CallStepPosts, SameQueueKeepsOrders
      <4>2. CASE RendererLoop \/ RendererPauseTimeout \/ HALTearsDown
        BY <2>4, <4>2, RendererKeepsOrders
      <4>3. CASE ScanTimer
        BY <4>3, SameQueueKeepsOrders, Zenon DEF ScanTimer
      <4>4. CASE \E s \in Streams : DecoderMessageStep(s) \/ DecoderPulls(s) \/ DecoderOutputs(s)
                                     \/ DecoderFails(s) \/ PassThroughDiscontinuity(s)
        BY <4>4, DecodersKeepOrders
      <4> QED BY <2>4, <4>1, <4>2, <4>3, <4>4 DEF Next, Environment
    <3> QED BY <3>1, <3>2, <3>3, PauseStateFrame DEF Alive
  <2> QED BY <2>1, <2>2, <2>3, <2>4
<1>3. PauseInv => RendererFollowsPause
  BY DEF PauseInv, RendererFollowsPause, NoOrderIn, PauseOrders
<1> QED BY <1>1, <1>2, <1>3, TypeCorrect, PTL DEF Spec, StartsUnpaused
=============================================================================
