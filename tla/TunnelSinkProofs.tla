-------------------------- MODULE TunnelSinkProofs --------------------------
(* Theorems about TunnelSink, for every number of buffers and packets and    *)
(* every budget.                                                             *)
EXTENDS TunnelSink, Integers, FiniteSetTheorems, SequenceTheorems, WellFoundedInduction, TLAPS

-----------------------------------------------------------------------------
(* Queues, whatever they hold: what is kept of one, and in what order.     *)

\* Induction up to n, with a set of numbers for the predicate.  Of two intervals
\* 1..k and 1..m the shorter is a strict subset of the other, and strict inclusion
\* of finite sets is well-founded: there is a least number that is not in the set.
LEMMA UpTo ==
    ASSUME NEW n \in Nat, NEW A, 0 \in A, \A k \in 0 .. n - 1 : k \in A => k + 1 \in A
    PROVE  n \in A
<1> DEFINE B == {k \in 0 .. n : k \notin A}
           T == {1 .. k : k \in B}
<1>1. SUFFICES ASSUME n \notin A
               PROVE  FALSE
  OBVIOUS
<1>2. T \subseteq FiniteSubsetsOf(Nat) /\ T # {}
  <2>1. \A k \in B : IsFiniteSet(1 .. k) /\ 1 .. k \subseteq Nat
    BY FS_Interval
  <2>2. n \in B
    BY <1>1
  <2> QED BY <2>1, <2>2 DEF FiniteSubsetsOf
<1>3. \E x \in T : \A y \in T : ~(<<y, x>> \in StrictSubsetOrdering(Nat))
  <2> HIDE DEF T
  <2> QED BY <1>2, FS_StrictSubsetOrderingWellFounded, WFMin
<1>4. PICK m \in B : \A y \in T : ~(<<y, 1 .. m>> \in StrictSubsetOrdering(Nat))
  BY <1>3
<1>5. m \in 1 .. n /\ m - 1 \in 0 .. n - 1 /\ (m - 1) + 1 = m /\ m - 1 \in 0 .. n
  OBVIOUS
<1>6. 1 .. m - 1 \in T
  BY <1>5
<1>7. 1 .. m - 1 \subseteq 1 .. m /\ m \in 1 .. m /\ m \notin 1 .. m - 1 /\ 1 .. m \subseteq Nat
  BY <1>5
<1>8. <<1 .. m - 1, 1 .. m>> \in StrictSubsetOrdering(Nat)
  BY <1>7 DEF StrictSubsetOrdering
<1> QED BY <1>4, <1>6, <1>8

\* Kept is what its recursion says.
Step(q, S, f, n) == IF q[n] \in S THEN Append(f[n - 1], q[n]) ELSE f[n - 1]
Keeps(q, S, f, n) == f[0] = <<>> /\ \A k \in 1 .. n : f[k] = Step(q, S, f, k)

LEMMA KeepsExists ==
    ASSUME NEW T, NEW q \in Seq(T), NEW S
    PROVE  \E f \in [0 .. Len(q) -> Seq(T)] : Keeps(q, S, f, Len(q))
<1> DEFINE A == {n \in 0 .. Len(q) : \E f \in [0 .. n -> Seq(T)] : Keeps(q, S, f, n)}
<1>1. Len(q) \in Nat /\ \A n \in 1 .. Len(q) : q[n] \in T
  OBVIOUS
<1>2. 0 \in A
  <2> DEFINE none == [n \in 0 .. 0 |-> <<>>]
  <2>1. none \in [0 .. 0 -> Seq(T)] /\ Keeps(q, S, none, 0) /\ 0 \in 0 .. Len(q)
    BY <1>1 DEF Keeps
  <2> HIDE DEF none
  <2> QED BY <2>1
<1>3. ASSUME NEW n \in 0 .. Len(q) - 1, n \in A
      PROVE  n + 1 \in A
  <2>1. PICK f \in [0 .. n -> Seq(T)] : Keeps(q, S, f, n)
    BY <1>3
  <2> DEFINE last == IF q[n + 1] \in S THEN Append(f[n], q[n + 1]) ELSE f[n]
             g == [k \in 0 .. n + 1 |-> IF k = n + 1 THEN last ELSE f[k]]
  <2>2. last \in Seq(T) /\ n + 1 \in 0 .. Len(q) /\ (n + 1) - 1 = n
    BY <1>1, f[n] \in Seq(T), q[n + 1] \in T
  <2> HIDE DEF last
  <2>3. g \in [0 .. n + 1 -> Seq(T)] /\ g[n + 1] = last /\ \A k \in 0 .. n : g[k] = f[k]
    BY <2>2
  <2> HIDE DEF g
  <2>4. ASSUME NEW k \in 1 .. n + 1
        PROVE  g[k] = Step(q, S, g, k)
    <3>1. CASE k = n + 1
      BY <2>2, <2>3, <3>1 DEF Step, last
    <3>2. CASE k \in 1 .. n
      <4>1. k \in 0 .. n /\ k - 1 \in 0 .. n
        BY <3>2
      <4>2. g[k] = f[k] /\ g[k - 1] = f[k - 1]
        BY <2>3, <4>1
      <4>3. f[k] = Step(q, S, f, k)
        BY <2>1, <3>2 DEF Keeps
      <4> QED BY <4>2, <4>3 DEF Step
    <3> QED BY <3>1, <3>2
  <2>5. Keeps(q, S, g, n + 1)
    BY <2>1, <2>3, <2>4 DEF Keeps
  <2> QED BY <2>2, <2>3, <2>5
<1>4. \A n \in 0 .. Len(q) - 1 : n \in A => n + 1 \in A
  BY <1>3
<1> HIDE DEF A
<1>5. Len(q) \in A
  BY <1>1, <1>2, <1>4, UpTo
<1> QED BY <1>5 DEF A

LEMMA KeptRecursion ==
    ASSUME NEW T, NEW q \in Seq(T), NEW S
    PROVE  \E f : Keeps(q, S, f, Len(q)) /\ Kept(q, S) = f[Len(q)]
<1> DEFINE Body(f) == [n \in 0 .. Len(q) |->
                          IF n = 0 THEN <<>>
                          ELSE IF q[n] \in S THEN Append(f[n - 1], q[n]) ELSE f[n - 1]]
           kept == CHOOSE f : f = Body(f)
<1>1. Kept(q, S) = kept[Len(q)] /\ Len(q) \in Nat
  BY DEF Kept
<1>2. PICK f \in [0 .. Len(q) -> Seq(T)] : Keeps(q, S, f, Len(q))
  BY KeepsExists
<1>3. \A n \in 0 .. Len(q) : f[n] = Body(f)[n]
  BY <1>2, \A n \in 0 .. Len(q) : n = 0 \/ n \in 1 .. Len(q) DEF Keeps, Step
<1>4. f = Body(f)
  BY <1>3
<1>5. kept = Body(kept)
  <2> HIDE DEF Body
  <2> QED BY <1>4
<1> HIDE DEF kept
<1>6. \A n \in 0 .. Len(q) : kept[n] = Body(kept)[n]
  BY <1>5
<1> QED BY <1>1, <1>6 DEF Keeps, Step

\* What is kept is of the queue and of the set.
LEMMA KeptType ==
    ASSUME NEW T, NEW q \in Seq(T), NEW S
    PROVE  Kept(q, S) \in Seq(T \cap S)
<1>1. PICK f : Keeps(q, S, f, Len(q)) /\ Kept(q, S) = f[Len(q)]
  BY KeptRecursion
<1> DEFINE A == {n \in 0 .. Len(q) : f[n] \in Seq(T \cap S)}
<1>2. Len(q) \in Nat /\ \A n \in 1 .. Len(q) : q[n] \in T
  OBVIOUS
<1>3. 0 \in A
  BY <1>1, <1>2, 0 \in 0 .. Len(q), <<>> \in Seq(T \cap S) DEF Keeps
<1>4. ASSUME NEW n \in 0 .. Len(q) - 1, n \in A
      PROVE  n + 1 \in A
  <2>1. n + 1 \in 1 .. Len(q) /\ (n + 1) - 1 = n
    BY <1>2
  <2>2. f[n + 1] = IF q[n + 1] \in S THEN Append(f[n], q[n + 1]) ELSE f[n]
    BY <1>1, <2>1 DEF Keeps, Step
  <2>3. f[n + 1] \in Seq(T \cap S)
    BY <1>2, <1>4, <2>1, <2>2
  <2> QED BY <2>1, <2>3
<1>5. \A n \in 0 .. Len(q) - 1 : n \in A => n + 1 \in A
  BY <1>4
<1> HIDE DEF A
<1>6. Len(q) \in A
  BY <1>2, <1>3, <1>5, UpTo
<1> QED BY <1>1, <1>6 DEF A

LEMMA HeadAndRest ==
    ASSUME NEW T, NEW q \in Seq(T), q # <<>>
    PROVE  /\ q = <<Head(q)>> \o Tail(q)
           /\ <<Head(q)>> \in Seq(T) /\ Tail(q) \in Seq(T) /\ Head(q) \in T
<1> DEFINE one == <<Head(q)>>
           rest == Tail(q)
<1>1. one \in Seq(T) /\ rest \in Seq(T) /\ Head(q) \in T /\ Len(one \o rest) = Len(q)
  OBVIOUS
<1>2. \A i \in 1 .. Len(q) : (one \o rest)[i] = q[i]
  OBVIOUS
<1>3. one \o rest \in Seq(T)
  OBVIOUS
<1> HIDE DEF one, rest
<1>4. q = one \o rest
  BY <1>1, <1>2, <1>3, SeqEqual
<1> QED BY <1>1, <1>4 DEF one, rest

\* (The name keeps the provers from taking \o apart where it is of no use.)
Joined(a, b) == a \o b

LEMMA JoinedToOne ==
    ASSUME NEW T, NEW q \in Seq(T), NEW m \in T
    PROVE  /\ Joined(<<m>>, q) # <<>> /\ Head(Joined(<<m>>, q)) = m
           /\ Tail(Joined(<<m>>, q)) = q
<1> DEFINE j == <<m>> \o q
<1>1. /\ j \in Seq(T) /\ Len(j) = Len(q) + 1 /\ j[1] = m
      /\ \A i \in 1 .. Len(q) : j[i + 1] = q[i]
  OBVIOUS
<1> HIDE DEF j
<1> DEFINE t == Tail(j)
<1>2. j # <<>> /\ Head(j) = m
  BY <1>1
<1>3. t \in Seq(T) /\ Len(t) = Len(q) /\ \A i \in 1 .. Len(q) : t[i] = j[i + 1]
  BY <1>1, <1>2
<1> HIDE DEF t
<1>4. t = q
  BY <1>1, <1>3, SeqEqual
<1> QED BY <1>2, <1>4 DEF t, j, Joined

LEMMA JoinedBasics ==
    ASSUME NEW T, NEW q \in Seq(T)
    PROVE  /\ Joined(q, <<>>) = q /\ Joined(<<>>, q) = q
           /\ \A m \in T : Joined(q, <<m>>) = Append(q, m)
           /\ q # <<>> => q = Joined(<<Head(q)>>, Tail(q))
           /\ \A m : /\ Joined(<<m>>, q) # <<>> /\ Head(Joined(<<m>>, q)) = m
                     /\ Tail(Joined(<<m>>, q)) = q
<1>1. Joined(q, <<>>) = q /\ Joined(<<>>, q) = q
  BY DEF Joined
<1>2. \A m \in T : Joined(q, <<m>>) = Append(q, m)
  BY AppendIsConcat DEF Joined
<1>3. q # <<>> => q = Joined(<<Head(q)>>, Tail(q))
  BY HeadAndRest DEF Joined
<1>4. ASSUME NEW m
      PROVE  /\ Joined(<<m>>, q) # <<>> /\ Head(Joined(<<m>>, q)) = m
             /\ Tail(Joined(<<m>>, q)) = q
  <2> DEFINE U == T \cup {m}
  <2>1. q \in Seq(U) /\ m \in U
    OBVIOUS
  <2> HIDE DEF U
  <2> QED BY <2>1, JoinedToOne
<1> QED BY <1>1, <1>2, <1>3, <1>4

-----------------------------------------------------------------------------
(* How often an index is in a list, when the list grows and shrinks.        *)

LEMMA PositionsCount ==
    ASSUME NEW n \in Nat, NEW S \in SUBSET (1..n)
    PROVE  /\ IsFiniteSet(S) /\ Cardinality(S) \in Nat
           /\ Cardinality(S \cup {n + 1}) = Cardinality(S) + 1
           /\ Cardinality({k + 1 : k \in S}) = Cardinality(S)
           /\ Cardinality({k + 1 : k \in S} \cup {1}) = Cardinality(S) + 1
<1>1. IsFiniteSet(S) /\ Cardinality(S) \in Nat
  <2>1. IsFiniteSet(1..n)
    BY FS_Interval
  <2>2. IsFiniteSet(S)
    BY <2>1, FS_Subset
  <2> QED BY <2>2, FS_CardinalityType
<1>2. n + 1 \notin S
  OBVIOUS
<1>3. Cardinality(S \cup {n + 1}) = Cardinality(S) + 1
  BY <1>1, <1>2, FS_AddElement
<1> DEFINE T == {k + 1 : k \in S}
           f == [k \in S |-> k + 1]
<1>4. f \in [S -> T] /\ (\A a, b \in S : f[a] = f[b] => a = b) /\ (\A t \in T : \E a \in S : f[a] = t)
  OBVIOUS
<1>5. f \in Bijection(S, T)
  BY <1>4 DEF Bijection, Injection, Surjection, IsInjective
<1>6. IsFiniteSet(T) /\ Cardinality(T) = Cardinality(S)
  BY <1>1, <1>5, FS_Bijection DEF ExistsBijection
<1>7. 1 \notin T
  OBVIOUS
<1> HIDE DEF T
<1>8. Cardinality(T \cup {1}) = Cardinality(T) + 1
  BY <1>6, <1>7, FS_AddElement
<1> QED BY <1>1, <1>3, <1>6, <1>8 DEF T

\* The same of the positions where what the elements are looked at for is i.
At(keys, i) == {k \in DOMAIN keys : keys[k] = i}

LEMMA GrownCount ==
    ASSUME NEW n \in Nat, NEW a, NEW b, NEW i, DOMAIN a = 1..n, DOMAIN b = 1..(n + 1),
           \A k \in 1..n : b[k] = a[k]
    PROVE  /\ Cardinality(At(a, i)) \in Nat
           /\ Cardinality(At(b, i)) = Cardinality(At(a, i)) + (IF b[n + 1] = i THEN 1 ELSE 0)
<1>1. At(a, i) \in SUBSET (1..n)
  BY DEF At
<1>2. /\ Cardinality(At(a, i)) \in Nat
      /\ Cardinality(At(a, i) \cup {n + 1}) = Cardinality(At(a, i)) + 1
  BY <1>1, PositionsCount
<1>3. CASE b[n + 1] = i
  <2>1. At(b, i) = At(a, i) \cup {n + 1}
    BY <1>3 DEF At
  <2> QED BY <1>2, <1>3, <2>1
<1>4. CASE b[n + 1] # i
  <2>1. At(b, i) = At(a, i)
    BY <1>4 DEF At
  <2> QED BY <1>2, <1>4, <2>1
<1> QED BY <1>3, <1>4

LEMMA ShrunkCount ==
    ASSUME NEW n \in Nat, NEW a, NEW b, NEW i, DOMAIN a = 1..n, DOMAIN b = 1..(n + 1),
           \A k \in 1..n : a[k] = b[k + 1]
    PROVE  /\ Cardinality(At(a, i)) \in Nat
           /\ Cardinality(At(b, i)) = Cardinality(At(a, i)) + (IF b[1] = i THEN 1 ELSE 0)
<1> DEFINE T == {k + 1 : k \in At(a, i)}
<1>1. At(a, i) \in SUBSET (1..n)
  BY DEF At
<1>2. \A k \in 2..(n + 1) : k - 1 \in 1..n /\ b[k] = a[k - 1]
  OBVIOUS
<1>3. \A k : k \in T <=> k \in 2..(n + 1) /\ b[k] = i
  <2>1. ASSUME NEW k \in T
        PROVE  k \in 2..(n + 1) /\ b[k] = i
    BY DEF At
  <2>2. ASSUME NEW k \in 2..(n + 1), b[k] = i
        PROVE  k \in T
    <3>1. k - 1 \in At(a, i) /\ (k - 1) + 1 = k
      BY <1>2, <2>2 DEF At
    <3> QED BY <3>1
  <2> QED BY <2>1, <2>2
<1>4. /\ Cardinality(At(a, i)) \in Nat /\ Cardinality(T) = Cardinality(At(a, i))
      /\ Cardinality(T \cup {1}) = Cardinality(At(a, i)) + 1
  BY <1>1, PositionsCount
<1> HIDE DEF T
<1>5. CASE b[1] = i
  <2>1. At(b, i) = T \cup {1}
    BY <1>3, <1>5 DEF At
  <2> QED BY <1>5, <1>4, <2>1
<1>6. CASE b[1] # i
  <2>1. At(b, i) = T
    BY <1>3, <1>6 DEF At
  <2> QED BY <1>6, <1>4, <2>1
<1> QED BY <1>5, <1>6

\* Lists of indices.
LEMMA IndexAppended ==
    ASSUME NEW q \in Seq(Indices), NEW x \in Indices, NEW i
    PROVE  /\ Append(q, x) \in Seq(Indices) /\ Occurrences(q, i) \in Nat
           /\ Occurrences(Append(q, x), i) = Occurrences(q, i) + (IF x = i THEN 1 ELSE 0)
<1> DEFINE r == Append(q, x)
           n == Len(q)
<1>1. r \in Seq(Indices) /\ n \in Nat /\ DOMAIN q = 1..n /\ DOMAIN r = 1..(n + 1)
        /\ r[n + 1] = x /\ \A k \in 1..n : r[k] = q[k]
  OBVIOUS
<1> HIDE DEF r, n
<1>2. /\ Cardinality(At(q, i)) \in Nat
      /\ Cardinality(At(r, i)) = Cardinality(At(q, i)) + (IF r[n + 1] = i THEN 1 ELSE 0)
  BY <1>1, GrownCount
<1> QED BY <1>1, <1>2 DEF Occurrences, At, r

LEMMA IndexTaken ==
    ASSUME NEW q \in Seq(Indices), q # <<>>, NEW i
    PROVE  /\ Tail(q) \in Seq(Indices) /\ Head(q) \in Indices /\ Occurrences(Tail(q), i) \in Nat
           /\ Occurrences(q, i) = Occurrences(Tail(q), i) + (IF Head(q) = i THEN 1 ELSE 0)
<1> DEFINE r == Tail(q)
           n == Len(q) - 1
<1>1. r \in Seq(Indices) /\ n \in Nat /\ DOMAIN r = 1..n /\ DOMAIN q = 1..(n + 1)
        /\ Head(q) = q[1] /\ Head(q) \in Indices /\ \A k \in 1..n : r[k] = q[k + 1]
  OBVIOUS
<1> HIDE DEF r, n
<1>2. Cardinality(At(r, i)) \in Nat
          /\ Cardinality(At(q, i)) = Cardinality(At(r, i)) + (IF q[1] = i THEN 1 ELSE 0)
  <2>1. n \in Nat /\ DOMAIN r = 1..n /\ DOMAIN q = 1..(n + 1) /\ \A k \in 1..n : r[k] = q[k + 1]
    BY <1>1
  <2> QED BY <2>1, ShrunkCount
<1> QED BY <1>1, <1>2 DEF Occurrences, At, r

-----------------------------------------------------------------------------
(* Queues of the listener's entries.                                        *)

IsEntry(e) ==
    /\ e = [index |-> e.index, packet |-> e.packet, left |-> e.left]
    /\ e.index \in 0 .. NumBuffers

Entries(q) ==
    /\ q \in Seq({q[k] : k \in DOMAIN q})
    /\ \A k \in DOMAIN q : IsEntry(q[k])

Keys(q) == [k \in DOMAIN q |-> q[k].index]

LEMMA HoldingIsCount ==
    ASSUME NEW q, NEW i
    PROVE  Holding(q, i) = Cardinality(At(Keys(q), i))
<1>1. {k \in DOMAIN q : q[k].index = i} = At(Keys(q), i)
  BY DEF At, Keys
<1> QED BY <1>1 DEF Holding

LEMMA EntryAppended ==
    ASSUME NEW q, Entries(q), NEW e, IsEntry(e), NEW i
    PROVE  /\ Entries(Append(q, e)) /\ Holding(q, i) \in Nat
           /\ Holding(Append(q, e), i) = Holding(q, i) + (IF e.index = i THEN 1 ELSE 0)
<1> DEFINE S == {q[k] : k \in DOMAIN q} \cup {e}
           r == Append(q, e)
<1>1. q \in Seq(S)
  BY DEF Entries
<1>2. e \in S
  OBVIOUS
<1> HIDE DEF S
<1>3. r \in Seq(S) /\ Len(q) \in Nat /\ DOMAIN q = 1..Len(q) /\ DOMAIN r = 1..(Len(q) + 1)
        /\ r[Len(q) + 1] = e /\ Len(r) = Len(q) + 1 /\ \A k \in 1..Len(q) : r[k] = q[k]
  BY <1>1, <1>2
<1> HIDE DEF r
<1>4. Entries(r)
  <2>1. r \in Seq({r[k] : k \in DOMAIN r})
    BY <1>3
  <2>2. ASSUME NEW k \in DOMAIN r
        PROVE  IsEntry(r[k])
    <3>1. CASE k \in 1..Len(q)
      BY <1>3, <3>1 DEF Entries
    <3>2. CASE k \notin 1..Len(q)
      <4>1. r[k] = e
        BY <1>3, <3>2
      <4> QED BY <4>1
    <3> QED BY <3>1, <3>2
  <2> QED BY <2>1, <2>2 DEF Entries
<1>5. DOMAIN Keys(q) = 1..Len(q) /\ DOMAIN Keys(r) = 1..(Len(q) + 1)
        /\ Keys(r)[Len(q) + 1] = e.index /\ \A k \in 1..Len(q) : Keys(r)[k] = Keys(q)[k]
  BY <1>3 DEF Keys
<1>6. Cardinality(At(Keys(q), i)) \in Nat
        /\ Cardinality(At(Keys(r), i)) = Cardinality(At(Keys(q), i)) + (IF e.index = i THEN 1 ELSE 0)
  BY <1>3, <1>5, GrownCount
<1> QED BY <1>4, <1>6, HoldingIsCount DEF r

LEMMA EntryTaken ==
    ASSUME NEW q, Entries(q), q # <<>>, NEW i
    PROVE  /\ Entries(Tail(q)) /\ IsEntry(Head(q)) /\ Holding(Tail(q), i) \in Nat
           /\ Holding(q, i) = Holding(Tail(q), i) + (IF Head(q).index = i THEN 1 ELSE 0)
<1> DEFINE S == {q[k] : k \in DOMAIN q}
           r == Tail(q)
           n == Len(q) - 1
<1>1. q \in Seq(S)
  BY DEF Entries
<1> HIDE DEF S
<1>2. r \in Seq(S) /\ n \in Nat /\ DOMAIN r = 1..n /\ DOMAIN q = 1..(n + 1) /\ Len(r) = n
        /\ Head(q) = q[1] /\ \A k \in 1..n : r[k] = q[k + 1]
  BY <1>1
<1> HIDE DEF r, n
<1>3. Entries(r)
  <2>1. r \in Seq({r[k] : k \in DOMAIN r})
    BY <1>2
  <2>2. \A k \in DOMAIN r : k + 1 \in DOMAIN q
    BY <1>2
  <2> QED BY <1>2, <2>1, <2>2 DEF Entries
<1>4. IsEntry(Head(q))
  BY <1>2 DEF Entries
<1>5. DOMAIN Keys(r) = 1..n /\ DOMAIN Keys(q) = 1..(n + 1)
        /\ Keys(q)[1] = Head(q).index /\ \A k \in 1..n : Keys(r)[k] = Keys(q)[k + 1]
  BY <1>2 DEF Keys
<1>6. Cardinality(At(Keys(r), i)) \in Nat
        /\ Cardinality(At(Keys(q), i)) = Cardinality(At(Keys(r), i)) + (IF Head(q).index = i THEN 1 ELSE 0)
  BY <1>2, <1>5, ShrunkCount
<1> QED BY <1>3, <1>4, <1>6, HoldingIsCount DEF r

\* The first entry is read on.
LEMMA EntryReplaced ==
    ASSUME NEW q, Entries(q), q # <<>>, NEW e, IsEntry(e), e.index = Head(q).index, NEW i
    PROVE  LET r == <<e>> \o Tail(q)
           IN  Entries(r) /\ Holding(r, i) = Holding(q, i)
<1> DEFINE S == {q[k] : k \in DOMAIN q} \cup {e}
           r == <<e>> \o Tail(q)
<1>1. q \in Seq(S)
  BY DEF Entries
<1>2. e \in S
  OBVIOUS
<1> HIDE DEF S
<1>3. <<e>> \in Seq(S) /\ Tail(q) \in Seq(S) /\ Len(<<e>>) = 1 /\ Len(Tail(q)) = Len(q) - 1
        /\ Len(q) \in Nat \ {0} /\ (\A k \in 1 .. Len(q) - 1 : Tail(q)[k] = q[k + 1])
        /\ Head(q) = q[1] /\ DOMAIN q = 1..Len(q)
  BY <1>1, <1>2
<1>4. r \in Seq(S) /\ Len(r) = Len(q) /\ DOMAIN r = 1..Len(q) /\ r[1] = e
        /\ \A k \in 2..Len(q) : r[k] = q[k]
  BY <1>3
<1> HIDE DEF r
<1>5. Entries(r)
  <2>1. r \in Seq({r[k] : k \in DOMAIN r})
    BY <1>4
  <2> QED BY <1>3, <1>4, <2>1 DEF Entries
<1>6. Keys(r) = Keys(q)
  <2>1. \A k \in 1..Len(q) : r[k].index = q[k].index
    BY <1>3, <1>4
  <2> QED BY <1>3, <1>4, <2>1 DEF Keys
<1> QED BY <1>5, <1>6, HoldingIsCount DEF r

-----------------------------------------------------------------------------
(* The invariant: an index is nowhere before the start, in one place after. *)

InUse == IF session = "started" THEN 1 ELSE 0

IsPlaced(i) ==
    /\ Occurrences(toSource, i) \in Nat /\ Occurrences(mIndicesAvailable, i) \in Nat
    /\ Holding(toListener, i) \in Nat /\ Holding(mQueue, i) \in Nat
    /\ Occurrences(toSource, i) + Occurrences(mIndicesAvailable, i)
       + Holding(toListener, i) + Holding(mQueue, i) = InUse

ListTypeOK ==
    /\ toSource \in Seq(Indices) /\ mIndicesAvailable \in Seq(Indices)
    /\ Entries(toListener) /\ Entries(mQueue)

Circulates == ListTypeOK /\ \A i \in Indices : IsPlaced(i)

LEMMA EmptyLists ==
    /\ Entries(<<>>) /\ <<>> \in Seq(Indices)
    /\ \A i : Holding(<<>>, i) = 0 /\ Occurrences(<<>>, i) = 0
<1>1. DOMAIN <<>> = {}
  OBVIOUS
<1>2. \A i : {k \in DOMAIN <<>> : <<>>[k].index = i} = {} /\ {k \in DOMAIN <<>> : <<>>[k] = i} = {}
  BY <1>1
<1>3. \A i : Holding(<<>>, i) = 0 /\ Occurrences(<<>>, i) = 0
  BY <1>2, FS_EmptySet DEF Holding, Occurrences
<1>4. Entries(<<>>)
  BY <1>1 DEF Entries
<1> QED BY <1>3, <1>4

LEMMA AllBuffers ==
    LET q == [i \in Indices |-> i]
    IN  q \in Seq(Indices) /\ \A i \in Indices : Occurrences(q, i) = 1
<1> DEFINE q == [i \in Indices |-> i]
<1>1. q \in Seq(Indices)
  BY SizesAssumption DEF Indices
<1>2. ASSUME NEW i \in Indices
      PROVE  Occurrences(q, i) = 1
  <2>1. {k \in DOMAIN q : q[k] = i} = {i}
    OBVIOUS
  <2> QED BY <2>1, FS_Singleton DEF Occurrences
<1> QED BY <1>1, <1>2

LEMMA InitCirculates == Init => Circulates
<1> SUFFICES ASSUME Init PROVE Circulates
  OBVIOUS
<1>1. toSource = <<>> /\ mIndicesAvailable = <<>> /\ toListener = <<>> /\ mQueue = <<>>
        /\ InUse = 0
  BY DEF Init, InUse
<1> QED BY <1>1, EmptyLists DEF Circulates, ListTypeOK, IsPlaced

LEMMA NothingMoves ==
    ASSUME Circulates, UNCHANGED <<toSource, mIndicesAvailable, toListener, mQueue>>,
           session' = session \/ (session = "none" /\ session' = "created")
    PROVE  Circulates'
<1>1. InUse' = InUse
  BY DEF InUse
<1> QED BY <1>1 DEF Circulates, ListTypeOK, IsPlaced

\* The binder thread takes an index that was given back.
LEMMA AvailableKeeps ==
    ASSUME Circulates, OnBufferAvailable
    PROVE  Circulates'
<1> DEFINE x == Head(toSource)
<1>1. toSource # <<>> /\ toSource' = Tail(toSource)
        /\ mIndicesAvailable' = Append(mIndicesAvailable, x)
        /\ UNCHANGED <<toListener, mQueue, session>>
  BY DEF OnBufferAvailable, readerVars
<1>2. toSource \in Seq(Indices) /\ mIndicesAvailable \in Seq(Indices)
  BY DEF Circulates, ListTypeOK
<1>3. x \in Indices /\ toSource' \in Seq(Indices)
        /\ \A i : /\ Occurrences(toSource', i) \in Nat
                  /\ Occurrences(toSource, i) = Occurrences(toSource', i)
                                                + (IF x = i THEN 1 ELSE 0)
  BY <1>1, <1>2, IndexTaken
<1> HIDE DEF x
<1>4. mIndicesAvailable' \in Seq(Indices)
        /\ \A i : Occurrences(mIndicesAvailable', i) = Occurrences(mIndicesAvailable, i)
                                                       + (IF x = i THEN 1 ELSE 0)
  BY <1>1, <1>2, <1>3, IndexAppended
<1>5. InUse' = InUse
  BY <1>1 DEF InUse
<1>6. ListTypeOK'
  BY <1>1, <1>3, <1>4 DEF Circulates, ListTypeOK
<1>7. ASSUME NEW i \in Indices
      PROVE  IsPlaced(i)'
  <2>1. IsPlaced(i)
    BY DEF Circulates
  <2>2. /\ Occurrences(toSource', i) \in Nat
        /\ Occurrences(toSource, i) = Occurrences(toSource', i) + (IF x = i THEN 1 ELSE 0)
        /\ Occurrences(mIndicesAvailable', i) = Occurrences(mIndicesAvailable, i)
                                           + (IF x = i THEN 1 ELSE 0)
    BY <1>3, <1>4
  <2>3. Holding(toListener', i) = Holding(toListener, i) /\ Holding(mQueue', i) = Holding(mQueue, i)
    BY <1>1
  <2>4. CASE x = i
    BY <1>5, <2>1, <2>2, <2>3, <2>4 DEF IsPlaced
  <2>5. CASE x # i
    BY <1>5, <2>1, <2>2, <2>3, <2>5 DEF IsPlaced
  <2> QED BY <2>4, <2>5
<1> QED BY <1>6, <1>7 DEF Circulates

\* A packet is copied into an available buffer; the discontinuity has none.
LEMMA ReturnsKeeps ==
    ASSUME Circulates, NEW t \in Threads, Returns(t)
    PROVE  Circulates'
<1> DEFINE x == Head(mIndicesAvailable)
           e == [index |-> x, packet |-> Head(Fresh).packet, left |-> Chunks]
           q == IF mDequeued THEN toListener ELSE Append(toListener, Discontinuity)
<1>1. mIndicesAvailable # <<>> /\ mIndicesAvailable' = Tail(mIndicesAvailable)
        /\ UNCHANGED <<toSource, mQueue, session>>
  BY DEF Returns, readerVars
<1>2. mIndicesAvailable \in Seq(Indices) /\ Entries(toListener)
  BY DEF Circulates, ListTypeOK
<1>3. x \in Indices /\ mIndicesAvailable' \in Seq(Indices)
        /\ \A i : /\ Occurrences(mIndicesAvailable', i) \in Nat
                  /\ Occurrences(mIndicesAvailable, i) = Occurrences(mIndicesAvailable', i)
                                                         + (IF x = i THEN 1 ELSE 0)
  BY <1>1, <1>2, IndexTaken
<1> HIDE DEF x
<1>4. IsEntry(e) /\ e.index = x
  BY <1>3, SizesAssumption DEF IsEntry, Indices
<1>5. IsEntry(Discontinuity) /\ Discontinuity.index = 0
  BY SizesAssumption DEF IsEntry, Discontinuity
<1>6. Entries(q) /\ \A i \in Indices : Holding(q, i) = Holding(toListener, i)
  <2>1. \A i \in Indices : i # 0
    BY DEF Indices
  <2>2. CASE mDequeued
    BY <1>2, <2>2
  <2>3. CASE ~mDequeued
    <3>1. q = Append(toListener, Discontinuity)
      BY <2>3
    <3>2. Entries(q)
            /\ \A i : /\ Holding(toListener, i) \in Nat
                      /\ Holding(q, i) = Holding(toListener, i)
                                         + (IF Discontinuity.index = i THEN 1 ELSE 0)
      BY <1>2, <1>5, <3>1, EntryAppended
    <3> QED BY <1>5, <2>1, <3>2
  <2> QED BY <2>2, <2>3
<1>7. toListener' = Append(q, e)
  <2>1. PICK S : toListener \in Seq(S) /\ Discontinuity \in S /\ e \in S
    <3>1. toListener \in Seq({toListener[k] : k \in DOMAIN toListener} \cup {Discontinuity, e})
      BY <1>2 DEF Entries
    <3> QED BY <3>1
  <2>2. toListener' = (toListener \o (IF mDequeued THEN <<>> ELSE <<Discontinuity>>)) \o <<e>>
    BY DEF Returns, x
  <2> HIDE DEF e
  <2>3. toListener \o (IF mDequeued THEN <<>> ELSE <<Discontinuity>>) = q /\ q \in Seq(S)
    BY <2>1
  <2> HIDE DEF q
  <2>4. q \o <<e>> = Append(q, e)
    BY <2>1, <2>3
  <2> QED BY <2>2, <2>3, <2>4
<1> HIDE DEF q, e
<1>8. Entries(toListener')
        /\ \A i : Holding(toListener', i) = Holding(q, i) + (IF x = i THEN 1 ELSE 0)
  BY <1>4, <1>6, <1>7, EntryAppended
<1>9. InUse' = InUse
  BY <1>1 DEF InUse
<1>10. ListTypeOK'
  BY <1>1, <1>3, <1>8 DEF Circulates, ListTypeOK
<1>11. ASSUME NEW i \in Indices
      PROVE  IsPlaced(i)'
  <2>1. IsPlaced(i)
    BY DEF Circulates
  <2>2. /\ Occurrences(mIndicesAvailable', i) \in Nat
        /\ Occurrences(mIndicesAvailable, i) = Occurrences(mIndicesAvailable', i)
                                             + (IF x = i THEN 1 ELSE 0)
        /\ Holding(q, i) = Holding(toListener, i)
        /\ Holding(toListener', i) = Holding(q, i) + (IF x = i THEN 1 ELSE 0)
    BY <1>3, <1>6, <1>8
  <2>3. CASE x = i
    BY <1>1, <1>9, <2>1, <2>2, <2>3 DEF IsPlaced
  <2>4. CASE x # i
    BY <1>1, <1>9, <2>1, <2>2, <2>4 DEF IsPlaced
  <2> QED BY <2>3, <2>4
<1> QED BY <1>10, <1>11 DEF Circulates

\* Every buffer is handed to the sink.
LEMMA StartKeeps ==
    ASSUME Circulates, Start
    PROVE  Circulates'
<1>1. toSource' = [i \in Indices |-> i] /\ UNCHANGED <<mIndicesAvailable, toListener, mQueue>>
        /\ InUse = 0 /\ InUse' = 1
  BY DEF Start, InUse
<1>2. toSource' \in Seq(Indices) /\ \A i \in Indices : Occurrences(toSource', i) = 1
  BY <1>1, AllBuffers
<1>3. ListTypeOK'
  BY <1>1, <1>2 DEF Circulates, ListTypeOK
<1>4. ASSUME NEW i \in Indices
      PROVE  IsPlaced(i)'
  <2>1. IsPlaced(i)
    BY DEF Circulates
  <2>2. Occurrences(toSource', i) = 1
    BY <1>2
  <2> QED BY <1>1, <2>1, <2>2 DEF IsPlaced
<1> QED BY <1>3, <1>4 DEF Circulates

LEMMA ListenerKeeps ==
    ASSUME Circulates, ListenerQueues
    PROVE  Circulates'
<1> DEFINE e == Head(toListener)
<1>1. toListener # <<>> /\ toListener' = Tail(toListener) /\ mQueue' = Append(mQueue, e)
        /\ UNCHANGED <<toSource, mIndicesAvailable, session>>
  BY DEF ListenerQueues, streamVars
<1>2. Entries(toListener) /\ Entries(mQueue)
  BY DEF Circulates, ListTypeOK
<1>3. IsEntry(e) /\ Entries(toListener')
        /\ \A i : /\ Holding(toListener', i) \in Nat
                  /\ Holding(toListener, i) = Holding(toListener', i)
                                              + (IF e.index = i THEN 1 ELSE 0)
  BY <1>1, <1>2, EntryTaken
<1> HIDE DEF e
<1>4. Entries(mQueue')
        /\ \A i : Holding(mQueue', i) = Holding(mQueue, i) + (IF e.index = i THEN 1 ELSE 0)
  BY <1>1, <1>2, <1>3, EntryAppended
<1>5. InUse' = InUse
  BY <1>1 DEF InUse
<1>6. ListTypeOK'
  BY <1>1, <1>3, <1>4 DEF Circulates, ListTypeOK
<1>7. ASSUME NEW i \in Indices
      PROVE  IsPlaced(i)'
  <2>1. IsPlaced(i)
    BY DEF Circulates
  <2>2. /\ Holding(toListener', i) \in Nat
        /\ Holding(toListener, i) = Holding(toListener', i) + (IF e.index = i THEN 1 ELSE 0)
        /\ Holding(mQueue', i) = Holding(mQueue, i) + (IF e.index = i THEN 1 ELSE 0)
    BY <1>3, <1>4
  <2>3. /\ Occurrences(toSource', i) = Occurrences(toSource, i)
        /\ Occurrences(mIndicesAvailable', i) = Occurrences(mIndicesAvailable, i)
    BY <1>1
  <2>4. CASE e.index = i
    <3>1. /\ Holding(toListener', i) \in Nat
          /\ Holding(toListener, i) = Holding(toListener', i) + 1
          /\ Holding(mQueue', i) = Holding(mQueue, i) + 1
      BY <2>2, <2>4
    <3> QED BY <1>5, <2>1, <2>3, <3>1 DEF IsPlaced
  <2>5. CASE e.index # i
    <3>1. /\ Holding(toListener', i) \in Nat
          /\ Holding(toListener, i) = Holding(toListener', i) + 0
          /\ Holding(mQueue', i) = Holding(mQueue, i) + 0
      BY <2>2, <2>5
    <3> QED BY <1>5, <2>1, <2>3, <3>1 DEF IsPlaced
  <2> QED BY <2>4, <2>5
<1> QED BY <1>6, <1>7 DEF Circulates

LEMMA DiscontinuityKeeps ==
    ASSUME Circulates, ReadsDiscontinuity
    PROVE  Circulates'
<1>1. mQueue # <<>> /\ Head(mQueue).index = 0 /\ mQueue' = Tail(mQueue)
        /\ UNCHANGED <<toSource, mIndicesAvailable, toListener, session>>
  BY DEF ReadsDiscontinuity, Reads, streamVars, callVars
<1>2. Entries(mQueue)
  BY DEF Circulates, ListTypeOK
<1>3. Entries(mQueue') /\ \A i \in Indices : Holding(mQueue', i) = Holding(mQueue, i)
  <2>1. \A i \in Indices : i # 0
    BY DEF Indices
  <2>2. Entries(mQueue')
          /\ \A i : /\ Holding(mQueue', i) \in Nat
                    /\ Holding(mQueue, i) = Holding(mQueue', i)
                                            + (IF Head(mQueue).index = i THEN 1 ELSE 0)
    BY <1>1, <1>2, EntryTaken
  <2> QED BY <1>1, <2>1, <2>2
<1>4. InUse' = InUse
  BY <1>1 DEF InUse
<1>5. ListTypeOK'
  BY <1>1, <1>3 DEF Circulates, ListTypeOK
<1>6. ASSUME NEW i \in Indices
      PROVE  IsPlaced(i)'
  <2>1. IsPlaced(i)
    BY DEF Circulates
  <2>2. Holding(mQueue', i) = Holding(mQueue, i)
    BY <1>3
  <2> QED BY <1>1, <1>4, <2>1, <2>2 DEF IsPlaced
<1> QED BY <1>5, <1>6 DEF Circulates

\* The last transport stream packet of a buffer gives it back.
LEMMA PacketKeeps ==
    ASSUME Circulates, ReadsPacket
    PROVE  Circulates'
<1> DEFINE e == Head(mQueue)
           f == [e EXCEPT !.left = @ - 1]
<1>1. mQueue # <<>> /\ e.index # 0 /\ UNCHANGED <<mIndicesAvailable, toListener, session>>
  BY DEF ReadsPacket, Reads, streamVars
<1>2. toSource \in Seq(Indices) /\ Entries(mQueue)
  BY DEF Circulates, ListTypeOK
<1>3. IsEntry(e) /\ Entries(Tail(mQueue))
        /\ \A i : /\ Holding(Tail(mQueue), i) \in Nat
                  /\ Holding(mQueue, i) = Holding(Tail(mQueue), i)
                                          + (IF e.index = i THEN 1 ELSE 0)
  BY <1>1, <1>2, EntryTaken
<1>4. \/ mQueue' = Tail(mQueue) /\ toSource' = Append(toSource, e.index)
      \/ mQueue' = <<f>> \o Tail(mQueue) /\ UNCHANGED toSource
  <2>1. IF e.left = 1
        THEN mQueue' = Tail(mQueue) /\ toSource' = Append(toSource, e.index)
        ELSE mQueue' = <<f>> \o Tail(mQueue) /\ UNCHANGED toSource
    BY Zenon DEF ReadsPacket
  <2> HIDE DEF e, f
  <2> QED BY <2>1
<1>5. InUse' = InUse
  BY <1>1 DEF InUse
<1>6. CASE mQueue' = Tail(mQueue) /\ toSource' = Append(toSource, e.index)
  <2> HIDE DEF e
  <2>1. e.index \in Indices
    BY <1>1, <1>3, SizesAssumption DEF IsEntry, Indices
  <2>2. toSource' \in Seq(Indices)
          /\ \A i : Occurrences(toSource', i) = Occurrences(toSource, i)
                                                + (IF e.index = i THEN 1 ELSE 0)
    BY <1>2, <1>6, <2>1, IndexAppended
  <2>3. ListTypeOK'
    BY <1>1, <1>3, <1>6, <2>2 DEF Circulates, ListTypeOK
  <2>4. ASSUME NEW i \in Indices
        PROVE  IsPlaced(i)'
    <3>1. IsPlaced(i)
      BY DEF Circulates
    <3>2. /\ Holding(mQueue', i) \in Nat
          /\ Holding(mQueue, i) = Holding(mQueue', i) + (IF e.index = i THEN 1 ELSE 0)
          /\ Occurrences(toSource', i) = Occurrences(toSource, i)
                                         + (IF e.index = i THEN 1 ELSE 0)
      BY <1>3, <1>6, <2>2
    <3> QED BY <1>1, <1>5, <3>1, <3>2 DEF IsPlaced
  <2> QED BY <2>3, <2>4 DEF Circulates
<1>7. CASE mQueue' = <<f>> \o Tail(mQueue) /\ UNCHANGED toSource
  <2>1. IsEntry(f) /\ f.index = e.index
    <3> HIDE DEF e
    <3>1. f = [index |-> e.index, packet |-> e.packet, left |-> e.left - 1]
      BY <1>3 DEF IsEntry
    <3> HIDE DEF f
    <3> QED BY <1>3, <3>1 DEF IsEntry
  <2> HIDE DEF f
  <2>2. Entries(mQueue') /\ \A i : Holding(mQueue', i) = Holding(mQueue, i)
    BY <1>1, <1>2, <1>7, <2>1, EntryReplaced
  <2> QED BY <1>1, <1>5, <1>7, <2>2 DEF Circulates, ListTypeOK, IsPlaced
<1> QED BY <1>4, <1>6, <1>7

LEMMA NextCirculates == Circulates /\ [Next]_vars => Circulates'
<1> SUFFICES ASSUME Circulates, [Next]_vars
             PROVE  Circulates'
  OBVIOUS
<1>1. CASE NetworkNext
  BY <1>1, NothingMoves DEF NetworkNext, Lose, Arrive, streamVars, callVars, readerVars
<1>2. CASE AttemptAges
  BY <1>2, NothingMoves DEF AttemptAges, streamVars, callVars, readerVars
<1>3. CASE PacketLost
  BY <1>3, NothingMoves DEF PacketLost, streamVars, callVars, readerVars
<1>4. CASE QueueBuffer
  BY <1>4, NothingMoves DEF QueueBuffer, callVars, readerVars
<1>5. ASSUME NEW t \in Threads, Work(t)
      PROVE  Circulates'
  <2>1. CASE Returns(t)
    BY <2>1, ReturnsKeeps
  <2>2. CASE ReturnsNothing(t)
    BY <2>2, NothingMoves DEF ReturnsNothing, streamVars, callVars, readerVars
  <2>3. CASE Lock(t) \/ NoIndexLeft(t)
    BY <2>3, NothingMoves DEF Lock, NoIndexLeft, streamVars, callVars, readerVars
  <2> QED BY <1>5, <2>1, <2>2, <2>3
       DEF Work, FindsNothing, ReturnsNext, FirstFailure, Waits, GivesUp
<1>6. CASE OnBufferAvailable
  BY <1>6, AvailableKeeps
<1>7. CASE ListenerNext
  BY <1>7, StartKeeps, ListenerKeeps DEF ListenerNext
<1>8. CASE OnReadBuffer \/ ReadingEnds
  BY <1>8, NothingMoves DEF OnReadBuffer, ReadingEnds, streamVars, callVars
<1>9. CASE ReadsDiscontinuity \/ ReadsPacket
  BY <1>9, DiscontinuityKeeps, PacketKeeps
<1>10. CASE UNCHANGED vars
  BY <1>10, NothingMoves DEF vars, streamVars, callVars, readerVars
<1> QED BY <1>1, <1>2, <1>3, <1>4, <1>5, <1>6, <1>7, <1>8, <1>9, <1>10
     DEF Next, LooperNext, BinderNext, ReaderNext, Threads

\* Each of the shared buffers is in one place, on its way to the sink, put down as
\* available, on its way to the listener or in its queue, whatever packets are
\* lost, doubled or late and whichever thread is faster: none is lost, none is
\* given out while it is read.
THEOREM BuffersAreKept == Spec => []BuffersCirculate
<1>1. Circulates => BuffersCirculate
  BY DEF Circulates, IsPlaced, BuffersCirculate, InUse
<1> QED BY <1>1, InitCirculates, NextCirculates, PTL DEF Spec

-----------------------------------------------------------------------------
(* Types.                                                                   *)

LEMMA InitTypeOK == Init => TypeOK
<1> SUFFICES ASSUME Init PROVE TypeOK
  OBVIOUS
<1>1. <<>> \in Seq(SinkMessage) /\ <<>> \in Seq(Numbered) /\ <<>> \in Seq(Indices) /\ <<>> \in Seq(Entry)
  OBVIOUS
<1>2. NetworkTypeOK
  BY EnvironmentAssumption DEF Init, NetworkTypeOK
<1>3. source \in SourceState
  BY NumbersAssumption DEF Init, SourceState, NoSource
<1>4. SinkTypeOK
  BY <1>1, <1>3 DEF Init, SinkTypeOK
<1>5. RendererTypeOK /\ StreamTypeOK /\ CallTypeOK
  BY <1>1 DEF Init, RendererTypeOK, StreamTypeOK, CallTypeOK
<1>6. ReaderTypeOK
  <2>1. 0 \in 0 .. NumPackets /\ Chunks \in 1 .. Chunks /\ 0 \in 0 .. ReadLimit
    BY SizesAssumption, EnvironmentAssumption
  <2> QED BY <1>1, <2>1 DEF Init, ReaderTypeOK
<1> QED BY <1>2, <1>4, <1>5, <1>6 DEF TypeOK

LEMMA SequenceNumbers ==
    ASSUME NetworkTypeOK, NEW p \in Packets
    PROVE  SeqNo(p) \in 0 .. SeqMod - 1
BY NumbersAssumption, EnvironmentAssumption DEF NetworkTypeOK, SeqNo, Packets

\* An EXCEPT of several fields is one of each after the other.
WithMaxSeq(s, x)    == [s EXCEPT !.mMaxSeq = x]
WithCycles(s, x)    == [s EXCEPT !.mCycles = x]
WithBadSeq(s, x)    == [s EXCEPT !.mBadSeq = x]
WithProbation(s, x) == [s EXCEPT !.mProbation = x]

LEMMA FieldTypes ==
    ASSUME NEW s \in SourceState
    PROVE  /\ \A x \in 0 .. SeqMod - 1 : WithMaxSeq(s, x) \in SourceState
           /\ \A x \in Nat : WithCycles(s, x) \in SourceState
           /\ \A x \in 0 .. SeqMod + 1 : WithBadSeq(s, x) \in SourceState
           /\ \A x \in 0 .. MinSequential : WithProbation(s, x) \in SourceState
BY DEF WithMaxSeq, WithCycles, WithBadSeq, WithProbation, SourceState

LEMMA UpdateSeqType ==
    ASSUME NEW s \in SourceState, NEW seq \in 0 .. SeqMod - 1
    PROVE  InitSeq(s, seq) \in SourceState /\ UpdateSeq(s, seq) \in SourceState
<1>1. /\ SeqMod \in Nat \ {0} /\ MinSequential \in Nat \ {0} /\ SeqMod + 1 \in 0 .. SeqMod + 1
      /\ 0 \in 0 .. MinSequential /\ MinSequential - 1 \in 0 .. MinSequential /\ 0 \in Nat
  BY NumbersAssumption
<1>2. s.mCycles \in Nat /\ s.mProbation \in 0 .. MinSequential
  BY DEF SourceState
<1>3. InitSeq(s, seq) \in SourceState
  <2>1. InitSeq(s, seq) = WithBadSeq(WithCycles(WithMaxSeq(s, seq), 0), SeqMod + 1)
    BY DEF InitSeq, WithBadSeq, WithCycles, WithMaxSeq
  <2> QED BY <1>1, <2>1, FieldTypes
<1>4. ASSUME s.mProbation > 0
      PROVE  Probation(s, seq) \in SourceState
  <2>1. s.mProbation - 1 \in 0 .. MinSequential
    BY <1>1, <1>2, <1>4
  <2>2. Probation(s, seq) \in {WithProbation(InitSeq(s, seq), 0),
                               WithMaxSeq(WithProbation(s, s.mProbation - 1), seq),
                               WithMaxSeq(WithProbation(s, MinSequential - 1), seq)}
    BY DEF Probation, WithProbation, WithMaxSeq
  <2> QED BY <1>1, <1>3, <2>1, <2>2, FieldTypes
<1>5. InOrder(s, seq) \in SourceState
  <2>1. InOrder(s, seq) \in {WithCycles(WithMaxSeq(s, seq), s.mCycles + SeqMod),
                             WithCycles(WithMaxSeq(s, seq), s.mCycles)}
    BY DEF InOrder, WithCycles, WithMaxSeq
  <2>2. s.mCycles + SeqMod \in Nat
    BY <1>1, <1>2
  <2> QED BY <1>2, <2>1, <2>2, FieldTypes
<1>6. LargeJump(s, seq) \in SourceState
  <2>1. (seq + 1) % SeqMod \in 0 .. SeqMod + 1
    BY <1>1
  <2>2. LargeJump(s, seq) \in {InitSeq(s, seq), WithBadSeq(s, (seq + 1) % SeqMod)}
    BY DEF LargeJump, WithBadSeq
  <2> QED BY <1>3, <2>1, <2>2, FieldTypes
<1> QED BY <1>3, <1>4, <1>5, <1>6 DEF UpdateSeq

LEMMA NewSourceType ==
    ASSUME NEW seq \in 0 .. SeqMod - 1
    PROVE  NewSource(seq) \in SourceState
<1> DEFINE before == (seq - 1) % SeqMod
<1>1. /\ before \in 0 .. SeqMod - 1 /\ SeqMod + 1 \in 0 .. SeqMod + 1 /\ SeqMod - 1 \in Nat
      /\ MinSequential \in 0 .. MinSequential
  BY NumbersAssumption
<1> HIDE DEF before
<1>2. NoSource \in SourceState
  BY NumbersAssumption DEF NoSource, SourceState
<1>3. InitSeq(NoSource, seq) \in SourceState
  BY <1>2, UpdateSeqType
<1>4. \A s \in SourceState : [s EXCEPT !.known = TRUE] \in SourceState
  BY DEF SourceState
<1>5. NewSource(seq) =
        WithProbation(WithMaxSeq([InitSeq(NoSource, seq) EXCEPT !.known = TRUE], before), MinSequential)
  BY DEF NewSource, WithProbation, WithMaxSeq, before
<1> QED BY <1>1, <1>3, <1>4, <1>5, FieldTypes

LEMMA SpendType ==
    ASSUME NetworkTypeOK, NEW e \in BoundedEvents, Spend(e)
    PROVE  budget' \in [BoundedEvents -> 0 .. NumPackets]
<1>1. budget \in [BoundedEvents -> 0 .. NumPackets] /\ NumPackets \in Nat
  BY EnvironmentAssumption DEF NetworkTypeOK
<1>2. budget[e] > 0 /\ budget' = [budget EXCEPT ![e] = budget[e] - 1]
  BY DEF Spend
<1>3. budget[e] - 1 \in 0 .. NumPackets
  BY <1>1, <1>2
<1> QED BY <1>1, <1>2, <1>3

LEMMA NetworkTypes ==
    ASSUME TypeOK, NetworkNext
    PROVE  TypeOK'
<1>1. NetworkTypeOK /\ SinkTypeOK
  BY DEF TypeOK
<1>2. budget["packet"] \in 0 .. NumPackets /\ NumPackets \in Nat /\ sent \in 0 .. NumPackets
  BY <1>1, EnvironmentAssumption DEF NetworkTypeOK, BoundedEvents
<1>3. UNCHANGED <<rendererVars, streamVars, callVars, readerVars>>
  BY DEF NetworkNext, Lose, Arrive
<1>4. RendererTypeOK' /\ StreamTypeOK' /\ CallTypeOK' /\ ReaderTypeOK'
  BY <1>3 DEF TypeOK, RendererTypeOK, StreamTypeOK, CallTypeOK, ReaderTypeOK, rendererVars, streamVars,
    callVars, readerVars
<1>5. CASE Lose
  <2>1. /\ sent < budget["packet"] /\ sent' = sent + 1 /\ network' \subseteq network \cup {sent'}
        /\ UNCHANGED <<first, newest, wrapsWell, sinkVars>>
    BY <1>5 DEF Lose
  <2>2. budget' \in [BoundedEvents -> 0 .. NumPackets]
    BY <1>1, <1>5, SpendType DEF Lose, BoundedEvents
  <2>3. sent' \in 0 .. NumPackets /\ newest' \in 0 .. sent' /\ network' \subseteq 1 .. sent'
    BY <1>1, <1>2, <2>1 DEF NetworkTypeOK
  <2>4. NetworkTypeOK'
    BY <1>1, <2>1, <2>2, <2>3 DEF NetworkTypeOK
  <2>5. SinkTypeOK'
    BY <1>1, <2>1 DEF SinkTypeOK, sinkVars
  <2> QED BY <1>4, <2>4, <2>5 DEF TypeOK
<1>6. ASSUME NEW p \in Packets, Arrive(p)
      PROVE  TypeOK'
  <2>1. /\ p \in network \/ (p = sent + 1 /\ sent < budget["packet"])
        /\ newest' = (IF p > newest THEN p ELSE newest)
        /\ sent' = (IF p > sent THEN p ELSE sent)
        /\ network' \subseteq network \cup {p}
        /\ UNCHANGED <<first, worker>>
    BY <1>6 DEF Arrive
  <2>2. budget' \in [BoundedEvents -> 0 .. NumPackets]
    BY <1>1, <1>6, SpendType DEF Arrive, BoundedEvents, NetworkTypeOK
  <2>3. p \in 1 .. NumPackets
    BY DEF Packets
  <2>4. sent' \in 0 .. NumPackets /\ newest' \in 0 .. sent' /\ network' \subseteq 1 .. sent'
    BY <1>1, <1>2, <2>1, <2>3 DEF NetworkTypeOK
  <2>9. wrapsWell' \in BOOLEAN
    <3>1. wrapsWell' = (wrapsWell /\ WrapsWell(p))
      BY <1>6 DEF Arrive
    <3> QED BY <3>1
  <2>5. NetworkTypeOK'
    BY <1>1, <2>1, <2>2, <2>4, <2>9 DEF NetworkTypeOK
  <2>6. SeqNo(p) \in 0 .. SeqMod - 1
    BY <1>1, SequenceNumbers
  <2>7. source' \in SourceState
    <3>1. source' = IF source.known THEN UpdateSeq(source, SeqNo(p)) ELSE NewSource(SeqNo(p))
      BY <1>6 DEF Arrive
    <3> QED BY <1>1, <2>6, <3>1, UpdateSeqType, NewSourceType DEF SinkTypeOK
  <2>8. inbox' \in Seq(SinkMessage)
    <3> DEFINE e == SeqNo(p) + IF source.mProbation > 0 THEN source.mCycles ELSE source'.mCycles
    <3>1. inbox' = IF source.known /\ Dropped(source, SeqNo(p)) THEN inbox
                   ELSE Append(inbox, QueueMsg(p, e))
      BY <1>6 DEF Arrive
    <3>2. e \in Nat
      <4>1. source.mCycles \in Nat /\ source'.mCycles \in Nat
        BY <1>1, <2>7 DEF SinkTypeOK, SourceState
      <4> QED BY <2>6, <4>1, NumbersAssumption
    <3> HIDE DEF e
    <3>3. QueueMsg(p, e) \in SinkMessage
      BY <3>2 DEF QueueMsg, SinkMessage
    <3> QED BY <1>1, <3>1, <3>3 DEF SinkTypeOK
  <2> QED BY <1>1, <1>4, <2>1, <2>5, <2>7, <2>8 DEF TypeOK, SinkTypeOK
<1> QED BY <1>5, <1>6 DEF NetworkNext

LEMMA InsertedType ==
    ASSUME NEW T, mPackets \in Seq(T), NEW n \in T
    PROVE  Inserted(n) \in Seq(T)
<1> DEFINE a == Kept(mPackets, Earlier(n.ext))
           b == Kept(mPackets, Later(n.ext))
<1>1. a \in Seq(T \cap Earlier(n.ext)) /\ b \in Seq(T \cap Later(n.ext))
  BY KeptType
<1> HIDE DEF a, b
<1>2. a \in Seq(T) /\ b \in Seq(T)
  BY <1>1
<1>3. a \o <<n>> \o b \in Seq(T)
  BY <1>2
<1> QED BY <1>3 DEF Inserted, a, b

LEMMA FreshType ==
    ASSUME NEW T, mPackets \in Seq(T)
    PROVE  /\ Fresh \in Seq(T) /\ Fresh \in Seq(Later(mLastDequeuedExtSeqNo))
           /\ Fresh # <<>> => /\ Head(Fresh) \in T /\ Tail(Fresh) \in Seq(T)
                              /\ Head(Fresh) \in Later(mLastDequeuedExtSeqNo)
<1>1. Fresh \in Seq(T \cap Later(mLastDequeuedExtSeqNo))
  BY KeptType DEF Fresh
<1> HIDE DEF Fresh
<1> QED BY <1>1

LEMMA SinkTypes ==
    ASSUME TypeOK, PacketLost \/ QueueBuffer \/ AttemptAges \/ OnBufferAvailable
    PROVE  TypeOK'
<1>1. /\ NetworkTypeOK /\ SinkTypeOK /\ RendererTypeOK /\ StreamTypeOK /\ CallTypeOK /\ ReaderTypeOK
      /\ worker \in [Threads -> {"idle", "waits", "works"}] /\ inbox \in Seq(SinkMessage)
  BY DEF TypeOK, SinkTypeOK
<1>2. ReaderTypeOK'
  <2>1. UNCHANGED readerVars
    BY DEF PacketLost, QueueBuffer, AttemptAges, OnBufferAvailable
  <2> QED BY <1>1, <2>1 DEF ReaderTypeOK, readerVars
<1>3. CASE PacketLost
  <2>1. /\ inbox # <<>> /\ inbox' = Tail(inbox) /\ network' \subseteq network \cup 1 .. sent
        /\ UNCHANGED <<first, sent, newest, wrapsWell, budget, source, worker, rendererVars, streamVars, callVars>>
    BY <1>3 DEF PacketLost
  <2>2. NetworkTypeOK'
    BY <1>1, <2>1 DEF NetworkTypeOK
  <2>3. inbox' \in Seq(SinkMessage)
    BY <1>1, <2>1
  <2> QED
    BY <1>1, <1>2, <2>1, <2>2, <2>3 DEF TypeOK, SinkTypeOK, RendererTypeOK, StreamTypeOK, CallTypeOK,
      rendererVars, streamVars, callVars
<1>4. CASE QueueBuffer
  <2> DEFINE n == [packet |-> Head(inbox).packet, ext |-> Head(inbox).ext]
  <2>1. /\ inbox # <<>> /\ inbox' = Tail(inbox) /\ Head(inbox).what = "QueueBuffer"
        /\ mPackets' = Inserted(n)
        /\ UNCHANGED <<networkVars, source, mLastDequeuedExtSeqNo, mFirstFailedAttempt,
                       mRequestedRetransmission, gapSeen, mDequeued, mIndicesAvailable, callVars>>
    BY <1>4 DEF QueueBuffer
  <2>2. inbox' \in Seq(SinkMessage) /\ Head(inbox) \in SinkMessage
    BY <1>1, <2>1
  <2>3. n \in Numbered
    BY <2>1, <2>2 DEF SinkMessage, Numbered
  <2> HIDE DEF n
  <2>4. RendererTypeOK'
    BY <1>1, <2>1, <2>3, InsertedType DEF RendererTypeOK
  <2>5. worker' \in [Threads -> {"idle", "waits", "works"}] /\ session' \in {"none", "created", "started"}
    BY <1>1, <1>4 DEF QueueBuffer, StreamTypeOK
  <2> QED BY <1>1, <1>2, <2>1, <2>2, <2>4, <2>5 DEF TypeOK, NetworkTypeOK, SinkTypeOK, StreamTypeOK,
                                              CallTypeOK, networkVars, callVars
<1>5. CASE AttemptAges
  BY <1>1, <1>2, <1>5 DEF AttemptAges, TypeOK, NetworkTypeOK, SinkTypeOK, RendererTypeOK, StreamTypeOK,
    CallTypeOK, networkVars, sinkVars, streamVars, callVars
<1>6. CASE OnBufferAvailable
  <2>1. /\ toSource # <<>> /\ toSource' = Tail(toSource)
        /\ mIndicesAvailable' = Append(mIndicesAvailable, Head(toSource))
        /\ worker' = [worker EXCEPT !["binder"] = "waits"]
        /\ UNCHANGED <<networkVars, source, inbox, rendererVars, session, mDequeued, toListener>>
    BY <1>6 DEF OnBufferAvailable
  <2>2. toSource' \in Seq(Indices) /\ mIndicesAvailable' \in Seq(Indices)
    BY <1>1, <2>1 DEF CallTypeOK, StreamTypeOK
  <2>3. worker' \in [Threads -> {"idle", "waits", "works"}]
    BY <1>1, <2>1
  <2> QED BY <1>1, <1>2, <2>1, <2>2, <2>3 DEF TypeOK, NetworkTypeOK, SinkTypeOK, RendererTypeOK,
                                        StreamTypeOK, CallTypeOK, networkVars, rendererVars
<1> QED BY <1>3, <1>4, <1>5, <1>6

LEMMA WorkTypes ==
    ASSUME TypeOK, NEW t \in Threads, Work(t)
    PROVE  TypeOK'
<1>1. /\ NetworkTypeOK /\ SinkTypeOK /\ RendererTypeOK /\ StreamTypeOK /\ CallTypeOK /\ ReaderTypeOK
      /\ worker \in [Threads -> {"idle", "waits", "works"}] /\ inbox \in Seq(SinkMessage)
      /\ mPackets \in Seq(Numbered)
  BY DEF TypeOK, SinkTypeOK, RendererTypeOK
<1>2. UNCHANGED <<networkVars, source, session, toSource, readerVars>>
  BY DEF Work, Lock, NoIndexLeft, FindsNothing, ReturnsNext, FirstFailure, Waits, GivesUp, ReturnsNothing,
    Returns, sinkVars, streamVars, callVars
<1>3. NetworkTypeOK' /\ ReaderTypeOK' /\ source' \in SourceState
  BY <1>1, <1>2 DEF NetworkTypeOK, ReaderTypeOK, SinkTypeOK, networkVars, readerVars
<1>4. worker' \in [Threads -> {"idle", "waits", "works"}]
  BY <1>1 DEF Work, Lock, NoIndexLeft, FindsNothing, ReturnsNext, FirstFailure, Waits, GivesUp,
    ReturnsNothing, Returns, Unlock, sinkVars
<1>5. CASE Lock(t) \/ NoIndexLeft(t)
  <2>1. UNCHANGED <<inbox, rendererVars, streamVars, callVars>>
    BY <1>5 DEF Lock, NoIndexLeft
  <2> QED
    BY <1>1, <1>3, <1>4, <2>1 DEF TypeOK, SinkTypeOK, RendererTypeOK, StreamTypeOK, CallTypeOK, rendererVars,
      streamVars, callVars
<1>6. CASE FindsNothing(t) \/ FirstFailure(t) \/ Waits(t)
  <2>1. ReturnsNothing(t)
    BY <1>6 DEF FindsNothing, FirstFailure, Waits
  <2>2. mPackets' = Fresh /\ UNCHANGED <<mLastDequeuedExtSeqNo, streamVars, callVars>>
    BY <2>1 DEF ReturnsNothing
  <2>3. mPackets' \in Seq(Numbered)
    BY <1>1, <2>2, FreshType
  <2>4. mFirstFailedAttempt' \in {"none", "recent", "old"}
    BY <1>1, <1>6 DEF FindsNothing, FirstFailure, Waits, RendererTypeOK
  <2>5. mRequestedRetransmission' \in BOOLEAN /\ gapSeen' \in BOOLEAN
    BY <1>1, <1>6 DEF FindsNothing, FirstFailure, Waits, RendererTypeOK
  <2>6. inbox' \in Seq(SinkMessage)
    <3> DEFINE lost == LostMsg((mLastDequeuedExtSeqNo + 1) % SeqMod)
    <3>1. lost \in SinkMessage
      <4>1. mLastDequeuedExtSeqNo + 1 \in Nat
        BY <1>1 DEF RendererTypeOK
      <4>2. (mLastDequeuedExtSeqNo + 1) % SeqMod \in Nat
        BY <4>1, NumbersAssumption
      <4> QED BY <4>2 DEF LostMsg, SinkMessage
    <3>2. inbox' = inbox \/ inbox' = Append(inbox, lost)
      BY <1>6 DEF FindsNothing, FirstFailure, Waits
    <3> HIDE DEF lost
    <3> QED BY <1>1, <3>1, <3>2
  <2>7. RendererTypeOK'
    BY <1>1, <2>2, <2>3, <2>4, <2>5 DEF RendererTypeOK
  <2> QED BY <1>1, <1>3, <1>4, <2>2, <2>6, <2>7 DEF TypeOK, SinkTypeOK, StreamTypeOK, CallTypeOK,
                                         streamVars, callVars
<1>7. CASE ReturnsNext(t) \/ GivesUp(t)
  <2>1. Returns(t) /\ Fresh # <<>>
    BY <1>7 DEF ReturnsNext, GivesUp, NextIsMissing, NextIsThere
  <2> DEFINE e == [index |-> Head(mIndicesAvailable), packet |-> Head(Fresh).packet, left |-> Chunks]
             new == IF mDequeued THEN <<>> ELSE <<Discontinuity>>
  <2>2. /\ mIndicesAvailable # <<>> /\ mPackets' = Tail(Fresh)
        /\ mLastDequeuedExtSeqNo' = Head(Fresh).ext
        /\ mFirstFailedAttempt' = "none" /\ mRequestedRetransmission' = FALSE /\ gapSeen' = FALSE
        /\ mDequeued' = TRUE /\ mIndicesAvailable' = Tail(mIndicesAvailable)
        /\ toListener' = toListener \o new \o <<e>>
        /\ UNCHANGED <<sinkVars, session, toSource>>
    BY <2>1 DEF Returns
  <2>3. Head(Fresh) \in Numbered /\ Tail(Fresh) \in Seq(Numbered)
    BY <1>1, <2>1, FreshType
  <2>4. Head(Fresh).ext \in Nat /\ Head(Fresh).packet \in Packets
    BY <2>3 DEF Numbered
  <2>5. RendererTypeOK'
    BY <2>2, <2>3, <2>4 DEF RendererTypeOK
  <2>6. Head(mIndicesAvailable) \in Indices /\ Tail(mIndicesAvailable) \in Seq(Indices)
    BY <1>1, <2>2 DEF StreamTypeOK
  <2>7. StreamTypeOK'
    BY <1>1, <2>2, <2>6 DEF StreamTypeOK
  <2>8. e \in Entry /\ Discontinuity \in Entry
    BY <2>4, <2>6, SizesAssumption DEF Entry
  <2>9. new \in Seq(Entry)
    BY <2>8
  <2> HIDE DEF e, new
  <2>10. toListener' \in Seq(Entry)
    BY <1>1, <2>2, <2>8, <2>9 DEF CallTypeOK
  <2> QED BY <1>1, <1>3, <1>4, <2>2, <2>5, <2>7, <2>10 DEF TypeOK, SinkTypeOK, CallTypeOK, sinkVars
<1> QED BY <1>5, <1>6, <1>7 DEF Work

LEMMA ListenerTypes ==
    ASSUME TypeOK, ListenerNext
    PROVE  TypeOK'
<1>1. /\ NetworkTypeOK /\ SinkTypeOK /\ RendererTypeOK /\ StreamTypeOK /\ CallTypeOK /\ ReaderTypeOK
  BY DEF TypeOK
<1>2. UNCHANGED <<networkVars, sinkVars, rendererVars, mDequeued, mIndicesAvailable, mFinalResult,
                  synchronised, parsed>>
  BY DEF ListenerNext, Start, ListenerQueues, streamVars
<1>3. NetworkTypeOK' /\ SinkTypeOK' /\ RendererTypeOK'
  BY <1>1, <1>2 DEF NetworkTypeOK, SinkTypeOK, RendererTypeOK, networkVars, sinkVars, rendererVars
<1>4. CASE Start
  <2> DEFINE all == [i \in Indices |-> i]
  <2>1. all \in Seq(Indices)
    BY SizesAssumption DEF Indices
  <2>2. session' = "started" /\ toSource' = all /\ mBuffering' = TRUE /\ reads' = ReadLimit
        /\ UNCHANGED <<toListener, mQueue>>
    BY <1>4 DEF Start
  <2>3. ReadLimit \in 0 .. ReadLimit
    BY SizesAssumption
  <2> HIDE DEF all
  <2> QED BY <1>1, <1>2, <1>3, <2>1, <2>2, <2>3 DEF TypeOK, StreamTypeOK, CallTypeOK, ReaderTypeOK
<1>5. CASE ListenerQueues
  <2>1. /\ toListener # <<>> /\ toListener' = Tail(toListener)
        /\ mQueue' = Append(mQueue, Head(toListener))
        /\ UNCHANGED <<session, toSource, mBuffering, reads>>
    BY <1>5 DEF ListenerQueues, streamVars
  <2>2. toListener' \in Seq(Entry) /\ mQueue' \in Seq(Entry)
    BY <1>1, <2>1 DEF CallTypeOK, ReaderTypeOK
  <2> QED BY <1>1, <1>2, <1>3, <2>1, <2>2 DEF TypeOK, StreamTypeOK, CallTypeOK, ReaderTypeOK
<1> QED BY <1>4, <1>5 DEF ListenerNext

LEMMA ReadsPacketTypes ==
    ASSUME TypeOK, ReadsPacket
    PROVE  /\ mQueue' \in Seq(Entry) /\ toSource' \in Seq(Indices)
           /\ parsed' \in [packet : 0 .. NumPackets, chunk : 1 .. Chunks]
           /\ budget' \in [BoundedEvents -> 0 .. NumPackets]
           /\ mFinalResult' \in {"OK", "error"} /\ reads' \in 0 .. ReadLimit
<1>1. /\ NetworkTypeOK /\ CallTypeOK /\ ReaderTypeOK /\ mQueue \in Seq(Entry)
  BY DEF TypeOK, ReaderTypeOK
<1> DEFINE e == Head(mQueue)
           less == [e EXCEPT !.left = @ - 1]
<1>2. /\ mQueue # <<>> /\ e.index # 0
      /\ parsed' = [packet |-> e.packet, chunk |-> Chunks + 1 - e.left]
      /\ \/ e.left = 1 /\ mQueue' = Tail(mQueue) /\ toSource' = Append(toSource, e.index)
         \/ e.left # 1 /\ mQueue' = <<less>> \o Tail(mQueue) /\ UNCHANGED toSource
  BY DEF ReadsPacket, Reads
<1>3. e \in Entry /\ Tail(mQueue) \in Seq(Entry)
  BY <1>1, <1>2
<1> HIDE DEF e
<1>4. e \in [index : Indices, packet : Packets, left : 1 .. Chunks]
  BY <1>2, <1>3 DEF Entry, Discontinuity
<1>5. e.index \in Indices /\ e.packet \in Packets /\ e.left \in 1 .. Chunks
  BY <1>4
<1>6. /\ Chunks + 1 - e.left \in 1 .. Chunks /\ e.packet \in 0 .. NumPackets
      /\ e.left # 1 => e.left - 1 \in 1 .. Chunks
  BY <1>5, SizesAssumption, EnvironmentAssumption DEF Packets
<1>7. e.left # 1 => less \in Entry
  BY <1>4, <1>6 DEF Entry
<1> HIDE DEF less
<1>8. mQueue' \in Seq(Entry)
  <2>1. CASE e.left = 1
    BY <1>2, <1>3, <2>1
  <2>2. CASE e.left # 1
    <3>1. mQueue' = <<less>> \o Tail(mQueue)
      BY <1>2, <2>2
    <3>2. <<less>> \in Seq(Entry)
      BY <1>7, <2>2
    <3> QED BY <1>3, <3>1, <3>2
  <2> QED BY <2>1, <2>2
<1>9. toSource' \in Seq(Indices)
  <2>1. toSource \in Seq(Indices)
    BY <1>1 DEF CallTypeOK
  <2>2. toSource' = toSource \/ toSource' = Append(toSource, e.index)
    BY <1>2
  <2> QED BY <1>5, <2>1, <2>2
<1>10. parsed' \in [packet : 0 .. NumPackets, chunk : 1 .. Chunks]
  BY <1>2, <1>6
<1>11. budget' \in [BoundedEvents -> 0 .. NumPackets]
  BY <1>1, SpendType DEF ReadsPacket, BoundedEvents, NetworkTypeOK
<1>12. mFinalResult' \in {"OK", "error"}
  BY <1>1 DEF ReadsPacket, ReaderTypeOK
<1>13. reads > 0 /\ (reads' = reads - 1 \/ reads' = 0)
  BY DEF ReadsPacket, Reads
<1>14. reads' \in 0 .. ReadLimit
  BY <1>1, <1>13, SizesAssumption DEF ReaderTypeOK
<1> QED BY <1>8, <1>9, <1>10, <1>11, <1>12, <1>14

LEMMA ReaderTypes ==
    ASSUME TypeOK, ReaderNext
    PROVE  TypeOK'
<1>1. /\ NetworkTypeOK /\ SinkTypeOK /\ RendererTypeOK /\ StreamTypeOK /\ CallTypeOK /\ ReaderTypeOK
      /\ mQueue \in Seq(Entry)
  BY DEF TypeOK, ReaderTypeOK
<1>2. UNCHANGED <<first, sent, network, newest, wrapsWell, sinkVars, rendererVars, streamVars, toListener>>
  BY DEF ReaderNext, OnReadBuffer, ReadsDiscontinuity, ReadsPacket, ReadingEnds, networkVars, callVars
<1>3. SinkTypeOK' /\ RendererTypeOK' /\ StreamTypeOK'
  BY <1>1, <1>2 DEF SinkTypeOK, RendererTypeOK, StreamTypeOK, sinkVars, rendererVars, streamVars
<1>4. mBuffering' \in BOOLEAN /\ synchronised' \in BOOLEAN
  BY <1>1 DEF ReaderNext, OnReadBuffer, ReadsDiscontinuity, ReadsPacket, ReadingEnds, ReaderTypeOK
<1>5. CASE ReadsPacket
  BY <1>1, <1>2, <1>3, <1>4, <1>5, ReadsPacketTypes DEF TypeOK, NetworkTypeOK, CallTypeOK, ReaderTypeOK
<1>6. CASE ~ReadsPacket
  <2>1. UNCHANGED <<budget, toSource, mFinalResult, parsed>>
    BY <1>6 DEF ReaderNext, OnReadBuffer, ReadsDiscontinuity, ReadingEnds, networkVars, callVars
  <2>2. mQueue' = mQueue \/ (mQueue # <<>> /\ mQueue' = Tail(mQueue))
    BY <1>6 DEF ReaderNext, OnReadBuffer, ReadsDiscontinuity, ReadingEnds, Reads
  <2>3. mQueue' \in Seq(Entry)
    BY <1>1, <2>2
  <2>4. reads' \in {0, ReadLimit} \/ (reads > 0 /\ reads' = reads - 1)
    BY <1>6 DEF ReaderNext, OnReadBuffer, ReadsDiscontinuity, ReadingEnds, Reads
  <2>5. reads' \in 0 .. ReadLimit
    BY <1>1, <2>4, SizesAssumption DEF ReaderTypeOK
  <2> QED
    BY <1>1, <1>2, <1>3, <1>4, <2>1, <2>3, <2>5 DEF TypeOK, NetworkTypeOK, CallTypeOK, ReaderTypeOK
<1> QED BY <1>5, <1>6

LEMMA NextTypeOK == TypeOK /\ [Next]_vars => TypeOK'
<1> SUFFICES ASSUME TypeOK, [Next]_vars PROVE TypeOK'
  OBVIOUS
<1>1. CASE UNCHANGED vars
  BY <1>1 DEF vars, TypeOK, NetworkTypeOK, SinkTypeOK, RendererTypeOK, StreamTypeOK, CallTypeOK, ReaderTypeOK,
    networkVars, sinkVars, rendererVars, streamVars, callVars, readerVars
<1> QED BY <1>1, NetworkTypes, SinkTypes, WorkTypes, ListenerTypes, ReaderTypes
     DEF Next, LooperNext, BinderNext, Threads

\* Numbers, messages, queues and entries are well typed: a number never leaves its
\* range, no read is of an empty entry, whatever arrives and however it is numbered.
THEOREM TypeCorrect == Spec => []TypeOK
<1> QED BY InitTypeOK, NextTypeOK, PTL DEF Spec

-----------------------------------------------------------------------------
(* Only missing packets are passed over.                                    *)

\* mPackets is in the order of the extended numbers, each of them once.
Sorted(q) == \A i, j \in DOMAIN q : i < j => q[i].ext < q[j].ext

\* What is kept of a list in order is in order, and nothing is made up or left out.
LEMMA KeptSorted ==
    ASSUME NEW q \in Seq(Numbered), NEW S, Sorted(q)
    PROVE  /\ Sorted(Kept(q, S))
           /\ \A i \in DOMAIN q : q[i] \in S => \E k \in DOMAIN Kept(q, S) : Kept(q, S)[k] = q[i]
<1>1. PICK f : Keeps(q, S, f, Len(q)) /\ Kept(q, S) = f[Len(q)]
  BY KeptRecursion
<1> DEFINE A == {n \in 0 .. Len(q) :
                   /\ f[n] \in Seq(Numbered) /\ Sorted(f[n])
                   /\ \A k \in DOMAIN f[n] : \E i \in 1 .. n : f[n][k] = q[i]
                   /\ \A i \in 1 .. n : q[i] \in S => \E k \in DOMAIN f[n] : f[n][k] = q[i]}
<1>2. Len(q) \in Nat /\ DOMAIN q = 1 .. Len(q) /\ \A n \in 1 .. Len(q) : q[n] \in Numbered
  OBVIOUS
<1>3. 0 \in A
  <2>1. f[0] = <<>> /\ 0 \in 0 .. Len(q)
    BY <1>1, <1>2 DEF Keeps
  <2>2. f[0] \in Seq(Numbered) /\ DOMAIN f[0] = {} /\ 1 .. 0 = {}
    BY <2>1
  <2>3. Sorted(f[0])
    BY <2>2 DEF Sorted
  <2> QED BY <2>1, <2>2, <2>3
<1>4. ASSUME NEW n \in 0 .. Len(q) - 1, n \in A
      PROVE  n + 1 \in A
  <2>1. n + 1 \in 1 .. Len(q) /\ (n + 1) - 1 = n /\ n + 1 \in 0 .. Len(q)
    BY <1>2
  <2> DEFINE a == f[n]
             b == f[n + 1]
             x == q[n + 1]
  <2>2. b = IF x \in S THEN Append(a, x) ELSE a
    BY <1>1, <2>1 DEF Keeps, Step
  <2>3. /\ a \in Seq(Numbered) /\ Sorted(a) /\ x \in Numbered
        /\ \A k \in DOMAIN a : \E i \in 1 .. n : a[k] = q[i]
        /\ \A i \in 1 .. n : q[i] \in S => \E k \in DOMAIN a : a[k] = q[i]
    BY <1>2, <1>4, <2>1
  <2>4. \A i \in 1 .. n : q[i].ext < x.ext
    <3>1. \A i \in 1 .. n : i \in DOMAIN q /\ n + 1 \in DOMAIN q /\ i < n + 1
      BY <1>2, <2>1
    <3> QED BY <3>1 DEF Sorted
  <2>5. \A i \in 1 .. n + 1 : i \in 1 .. n \/ i = n + 1
    BY <2>1
  <2>6. 1 .. n \subseteq 1 .. n + 1 /\ n + 1 \in 1 .. n + 1
    BY <2>1
  <2> HIDE DEF a, b
  <2>7. CASE x \in S
    <3>1. /\ b \in Seq(Numbered) /\ Len(a) \in Nat /\ DOMAIN a = 1 .. Len(a)
          /\ DOMAIN b = 1 .. Len(a) + 1 /\ b[Len(a) + 1] = x
          /\ \A k \in 1 .. Len(a) : b[k] = a[k]
      BY <2>2, <2>3, <2>7
    <3>2. Sorted(b)
      <4> SUFFICES ASSUME NEW i \in DOMAIN b, NEW j \in DOMAIN b, i < j
                   PROVE  b[i].ext < b[j].ext
        BY DEF Sorted
      <4>1. i \in DOMAIN a /\ b[i] = a[i]
        BY <3>1
      <4>2. CASE j = Len(a) + 1
        BY <2>3, <2>4, <3>1, <4>1, <4>2
      <4>3. CASE j # Len(a) + 1
        <5>1. j \in DOMAIN a /\ b[j] = a[j]
          BY <3>1, <4>3
        <5> QED BY <2>3, <4>1, <5>1 DEF Sorted
      <4> QED BY <4>2, <4>3
    <3>3. \A k \in DOMAIN b : \E i \in 1 .. n + 1 : b[k] = q[i]
      <4> SUFFICES ASSUME NEW k \in DOMAIN b PROVE \E i \in 1 .. n + 1 : b[k] = q[i]
        OBVIOUS
      <4>1. CASE k = Len(a) + 1
        BY <2>6, <3>1, <4>1
      <4>2. CASE k # Len(a) + 1
        <5>1. k \in DOMAIN a /\ b[k] = a[k]
          BY <3>1, <4>2
        <5> QED BY <2>3, <2>6, <5>1
      <4> QED BY <4>1, <4>2
    <3>4. \A i \in 1 .. n + 1 : q[i] \in S => \E k \in DOMAIN b : b[k] = q[i]
      <4> SUFFICES ASSUME NEW i \in 1 .. n + 1, q[i] \in S PROVE \E k \in DOMAIN b : b[k] = q[i]
        OBVIOUS
      <4>1. CASE i = n + 1
        <5>1. Len(a) + 1 \in DOMAIN b
          BY <3>1
        <5> QED BY <3>1, <4>1, <5>1
      <4>2. CASE i \in 1 .. n
        <5>1. PICK k \in DOMAIN a : a[k] = q[i]
          BY <2>3, <4>2
        <5>2. k \in DOMAIN b /\ b[k] = q[i]
          BY <3>1, <5>1
        <5> QED BY <5>2
      <4> QED BY <2>5, <4>1, <4>2
    <3> QED BY <2>1, <3>1, <3>2, <3>3, <3>4 DEF b
  <2>8. CASE x \notin S
    <3>1. b = a
      BY <2>2, <2>8
    <3>2. \A k \in DOMAIN b : \E i \in 1 .. n + 1 : b[k] = q[i]
      BY <2>3, <2>6, <3>1
    <3>3. \A i \in 1 .. n + 1 : q[i] \in S => \E k \in DOMAIN b : b[k] = q[i]
      BY <2>3, <2>5, <2>8, <3>1
    <3> QED BY <2>1, <2>3, <3>1, <3>2, <3>3 DEF b
  <2> QED BY <2>7, <2>8
<1>5. \A n \in 0 .. Len(q) - 1 : n \in A => n + 1 \in A
  BY <1>4
<1> HIDE DEF A
<1>6. Len(q) \in A
  BY <1>2, <1>3, <1>5, UpTo
<1> QED BY <1>1, <1>2, <1>6 DEF A

LEMMA InsertedSorted ==
    ASSUME mPackets \in Seq(Numbered), Sorted(mPackets), NEW n \in Numbered
    PROVE  Sorted(Inserted(n))
<1> DEFINE a == Kept(mPackets, Earlier(n.ext))
           b == Kept(mPackets, Later(n.ext))
           r == a \o <<n>> \o b
<1>1. /\ a \in Seq(Numbered \cap Earlier(n.ext)) /\ Sorted(a)
      /\ b \in Seq(Numbered \cap Later(n.ext)) /\ Sorted(b)
  BY KeptType, KeptSorted
<1> HIDE DEF a, b
<1>2. /\ \A i \in DOMAIN a : a[i].ext < n.ext /\ a[i].ext \in Nat
      /\ \A i \in DOMAIN b : n.ext < b[i].ext /\ b[i].ext \in Nat
      /\ n.ext \in Nat
  BY <1>1 DEF Earlier, Later, Numbered
<1>3. a \in Seq(Numbered) /\ b \in Seq(Numbered)
  BY <1>1
<1>4. /\ Len(a) \in Nat /\ Len(b) \in Nat /\ DOMAIN a = 1 .. Len(a) /\ DOMAIN b = 1 .. Len(b)
      /\ DOMAIN r = 1 .. Len(a) + 1 + Len(b) /\ r[Len(a) + 1] = n
      /\ \A i \in 1 .. Len(a) : r[i] = a[i]
      /\ \A i \in 1 .. Len(b) : r[Len(a) + 1 + i] = b[i]
  BY <1>3
<1> HIDE DEF r
<1>5. \A i \in Len(a) + 2 .. Len(a) + 1 + Len(b) :
         i - (Len(a) + 1) \in DOMAIN b /\ r[i] = b[i - (Len(a) + 1)]
  <2> SUFFICES ASSUME NEW i \in Len(a) + 2 .. Len(a) + 1 + Len(b)
               PROVE  i - (Len(a) + 1) \in DOMAIN b /\ r[i] = b[i - (Len(a) + 1)]
    OBVIOUS
  <2>1. i - (Len(a) + 1) \in 1 .. Len(b) /\ Len(a) + 1 + (i - (Len(a) + 1)) = i
    BY <1>4
  <2> QED BY <1>4, <2>1
<1>6. Sorted(r)
  <2> SUFFICES ASSUME NEW i \in DOMAIN r, NEW j \in DOMAIN r, i < j
               PROVE  r[i].ext < r[j].ext
    BY DEF Sorted
  <2>1. CASE j <= Len(a)
    <3>1. i \in DOMAIN a /\ j \in DOMAIN a /\ r[i] = a[i] /\ r[j] = a[j]
      BY <1>4, <2>1
    <3> QED BY <1>1, <3>1 DEF Sorted
  <2>2. CASE j = Len(a) + 1
    <3>1. i \in DOMAIN a /\ r[i] = a[i] /\ r[j] = n
      BY <1>4, <2>2
    <3> QED BY <1>2, <3>1
  <2>3. CASE j > Len(a) + 1
    <3> DEFINE l == j - (Len(a) + 1)
    <3>1. l \in DOMAIN b /\ r[j] = b[l]
      <4>1. j \in Len(a) + 2 .. Len(a) + 1 + Len(b)
        BY <1>4, <2>3
      <4> QED BY <1>5, <4>1
    <3>2. CASE i <= Len(a) + 1
      <4>1. r[i].ext \in Nat /\ r[i].ext <= n.ext
        <5>1. i \in DOMAIN a \/ i = Len(a) + 1
          BY <1>4, <3>2
        <5> QED BY <1>2, <1>4, <5>1
      <4>2. n.ext < r[j].ext /\ r[j].ext \in Nat /\ n.ext \in Nat
        BY <1>2, <3>1
      <4> QED BY <4>1, <4>2
    <3>3. CASE i > Len(a) + 1
      <4> DEFINE k == i - (Len(a) + 1)
      <4>1. i \in Len(a) + 2 .. Len(a) + 1 + Len(b) /\ k < l
        BY <1>4, <3>3
      <4>2. k \in DOMAIN b /\ r[i] = b[k]
        BY <1>5, <4>1
      <4> QED BY <1>1, <3>1, <4>1, <4>2 DEF Sorted
    <3> QED BY <1>4, <3>2, <3>3
  <2> QED BY <1>4, <2>1, <2>2, <2>3
<1> QED BY <1>6 DEF Inserted, r, a, b

LEMMA TailSorted ==
    ASSUME NEW q \in Seq(Numbered), q # <<>>, Sorted(q)
    PROVE  /\ Sorted(Tail(q)) /\ 1 \in DOMAIN q /\ Head(q) = q[1]
           /\ \A k \in DOMAIN q : Head(q).ext <= q[k].ext
<1>1. /\ DOMAIN q = 1 .. Len(q) /\ Len(q) \in Nat \ {0} /\ Head(q) = q[1] /\ 1 \in DOMAIN q
      /\ DOMAIN Tail(q) = 1 .. Len(q) - 1 /\ \A i \in 1 .. Len(q) - 1 : Tail(q)[i] = q[i + 1]
  OBVIOUS
<1>2. Sorted(Tail(q))
  <2>1. \A i \in DOMAIN Tail(q) : i + 1 \in DOMAIN q
    BY <1>1
  <2>2. \A i, j \in DOMAIN Tail(q) : i < j => i + 1 < j + 1
    BY <1>1
  <2> QED BY <1>1, <2>1, <2>2 DEF Sorted
<1>3. \A k \in DOMAIN q : q[k].ext \in Nat
  <2>1. \A k \in DOMAIN q : q[k] \in Numbered
    OBVIOUS
  <2> QED BY <2>1 DEF Numbered
<1>4. \A k \in DOMAIN q : k = 1 \/ 1 < k
  BY <1>1
<1> QED BY <1>1, <1>2, <1>3, <1>4 DEF Sorted

LEMMA FreshSorted ==
    ASSUME mPackets \in Seq(Numbered), Sorted(mPackets)
    PROVE  /\ Sorted(Fresh)
           /\ Fresh # <<>> =>
                 /\ Sorted(Tail(Fresh))
                 /\ \A i \in DOMAIN mPackets :
                       mPackets[i].ext > mLastDequeuedExtSeqNo => mPackets[i].ext >= Head(Fresh).ext
<1>1. /\ Sorted(Fresh)
      /\ \A i \in DOMAIN mPackets :
            mPackets[i] \in Later(mLastDequeuedExtSeqNo)
               => \E k \in DOMAIN Fresh : Fresh[k] = mPackets[i]
  BY KeptSorted DEF Fresh
<1>2. Fresh \in Seq(Numbered)
  BY FreshType
<1> HIDE DEF Fresh
<1>3. ASSUME Fresh # <<>>, NEW i \in DOMAIN mPackets, mPackets[i].ext > mLastDequeuedExtSeqNo
      PROVE  mPackets[i].ext >= Head(Fresh).ext
  <2>1. mPackets[i] \in Later(mLastDequeuedExtSeqNo)
    BY <1>3 DEF Later
  <2>2. PICK k \in DOMAIN Fresh : Fresh[k] = mPackets[i]
    BY <1>1, <2>1
  <2>3. Head(Fresh).ext <= Fresh[k].ext /\ Head(Fresh) \in Numbered /\ Fresh[k] \in Numbered
    BY <1>1, <1>2, <1>3, TailSorted
  <2> QED BY <2>2, <2>3 DEF Numbered
<1> QED BY <1>1, <1>2, <1>3, TailSorted

LEMMA NextIsSorted ==
    ASSUME TypeOK, Sorted(mPackets), [Next]_vars
    PROVE  /\ Sorted(mPackets)'
           /\ \A i \in DOMAIN mPackets :
                 mPackets[i].ext > mLastDequeuedExtSeqNo => mPackets[i].ext >= mLastDequeuedExtSeqNo'
<1>1. mPackets \in Seq(Numbered) /\ inbox \in Seq(SinkMessage) /\ mLastDequeuedExtSeqNo \in Int
  BY DEF TypeOK, RendererTypeOK, SinkTypeOK
<1>2. \A i \in DOMAIN mPackets : mPackets[i].ext \in Nat
  <2>1. \A i \in DOMAIN mPackets : mPackets[i] \in Numbered
    BY <1>1
  <2> QED BY <2>1 DEF Numbered
<1>3. CASE UNCHANGED <<mPackets, mLastDequeuedExtSeqNo>>
  BY <1>1, <1>2, <1>3 DEF Sorted
<1>4. CASE QueueBuffer
  <2> DEFINE n == [packet |-> Head(inbox).packet, ext |-> Head(inbox).ext]
  <2>1. /\ inbox # <<>> /\ Head(inbox).what = "QueueBuffer" /\ mPackets' = Inserted(n)
        /\ UNCHANGED mLastDequeuedExtSeqNo
    BY <1>4 DEF QueueBuffer
  <2>2. Head(inbox) \in SinkMessage
    BY <1>1, <2>1
  <2>3. n \in Numbered
    BY <2>1, <2>2 DEF SinkMessage, Numbered
  <2> HIDE DEF n
  <2>4. Sorted(Inserted(n))
    BY <1>1, <2>3, InsertedSorted
  <2> QED BY <1>1, <1>2, <2>1, <2>4
<1>5. ASSUME NEW t \in Threads, FindsNothing(t) \/ FirstFailure(t) \/ Waits(t)
      PROVE  Sorted(mPackets)' /\ UNCHANGED mLastDequeuedExtSeqNo
  <2>1. mPackets' = Fresh /\ UNCHANGED mLastDequeuedExtSeqNo
    BY <1>5 DEF FindsNothing, FirstFailure, Waits, ReturnsNothing
  <2> QED BY <1>1, <2>1, FreshSorted
<1>6. ASSUME NEW t \in Threads, ReturnsNext(t) \/ GivesUp(t)
      PROVE  /\ Sorted(mPackets)'
             /\ \A i \in DOMAIN mPackets :
                   mPackets[i].ext > mLastDequeuedExtSeqNo => mPackets[i].ext >= mLastDequeuedExtSeqNo'
  <2>1. Fresh # <<>> /\ mPackets' = Tail(Fresh) /\ mLastDequeuedExtSeqNo' = Head(Fresh).ext
    BY <1>6 DEF ReturnsNext, GivesUp, NextIsMissing, NextIsThere, Returns
  <2> QED BY <1>1, <2>1, FreshSorted
<1>7. ASSUME NEW t \in Threads, Work(t)
      PROVE  \/ FindsNothing(t) \/ FirstFailure(t) \/ Waits(t) \/ ReturnsNext(t) \/ GivesUp(t)
             \/ UNCHANGED <<mPackets, mLastDequeuedExtSeqNo>>
  BY <1>7 DEF Work, Lock, NoIndexLeft, rendererVars
<1>8. CASE NetworkNext \/ AttemptAges \/ ListenerNext \/ ReaderNext \/ PacketLost \/ OnBufferAvailable
  BY <1>3, <1>8 DEF NetworkNext, Lose, Arrive, AttemptAges, ListenerNext, Start, ListenerQueues, ReaderNext,
    OnReadBuffer, ReadsDiscontinuity, ReadsPacket, ReadingEnds, PacketLost, OnBufferAvailable, rendererVars
<1>9. CASE UNCHANGED vars
  BY <1>3, <1>9 DEF vars, rendererVars
<1>10. "looper" \in Threads /\ "binder" \in Threads
  BY DEF Threads
<1>11. ASSUME NEW t \in Threads, Work(t)
       PROVE  /\ Sorted(mPackets)'
              /\ \A i \in DOMAIN mPackets :
                   mPackets[i].ext > mLastDequeuedExtSeqNo => mPackets[i].ext >= mLastDequeuedExtSeqNo'
  BY <1>1, <1>2, <1>3, <1>5, <1>6, <1>7, <1>11
<1> QED BY <1>4, <1>8, <1>9, <1>10, <1>11 DEF Next, LooperNext, BinderNext

\* When a packet is returned, no packet that is queued comes between the one returned
\* before and it: only missing packets are passed over, in whatever order packets
\* come, are doubled or sent again, and however long the renderer waits.
THEOREM OnlyMissing == Spec => OnlyMissingIsPassedOver
<1>1. Init => Sorted(mPackets)
  BY DEF Init, Sorted
<1>2. TypeOK /\ Sorted(mPackets) /\ [Next]_vars => Sorted(mPackets)'
  BY NextIsSorted
<1>3. TypeOK /\ Sorted(mPackets) /\ [Next]_vars
      => [\A i \in DOMAIN mPackets :
             mPackets[i].ext > mLastDequeuedExtSeqNo => mPackets[i].ext >= mLastDequeuedExtSeqNo']_vars
  BY NextIsSorted
<1> QED BY <1>1, <1>2, <1>3, TypeCorrect, PTL DEF Spec, OnlyMissingIsPassedOver

-----------------------------------------------------------------------------
(* What is on its way from the sink to the parser.                          *)

\* The entries in the listener's queue and behind them, and the packet last put there.
Line == Joined(mQueue, toListener)
LastOf(q, r) == IF q = <<>> THEN r.packet ELSE q[Len(q)].packet

Unparsed == [packet |-> 0, chunk |-> Chunks]

\* Nothing was dequeued yet, the discontinuity is still to be read, or it was read.
Phases == {"empty", "new", "going"}
Phase == IF ~mDequeued THEN "empty" ELSE IF synchronised THEN "going" ELSE "new"

\* The line q in the phase ph when the parser has seen r: the discontinuity is its
\* head until it is read, the packets are in order behind what was parsed, and only
\* the first may have been begun.
LineOK(q, ph, r) ==
    /\ ph = "empty" => q = <<>>
    /\ ph # "going" => r = Unparsed
    /\ ph = "new" => q # <<>> /\ q[1] = Discontinuity
    /\ \A i \in DOMAIN q : q[i].index = 0 => i = 1 /\ ph = "new"
    /\ \A i, j \in DOMAIN q : i < j => q[i].packet < q[j].packet
    /\ \A i \in DOMAIN q : i > 1 => q[i].left = Chunks
    /\ r.chunk < Chunks => q # <<>>
    /\ q # <<>> /\ q[1].index # 0 =>
         IF r.chunk = Chunks THEN q[1].left = Chunks /\ q[1].packet > r.packet
         ELSE q[1].left = Chunks - r.chunk /\ q[1].packet = r.packet

\* An entry when a chunk of it has been read, what is read of it, and the line then.
Less(e)  == [e EXCEPT !.left = @ - 1]
Piece(e) == [packet |-> e.packet, chunk |-> Chunks + 1 - e.left]
Rest(q)  == IF Head(q).left = 1 THEN Tail(q) ELSE <<Less(Head(q))>> \o Tail(q)

LEMMA EntryFields ==
    /\ \A e \in Entry : /\ e.index \in Nat /\ e.packet \in Nat /\ e.left \in Nat
                        /\ e.index # 0 => e.packet \in Packets /\ e.left \in 1 .. Chunks
                        /\ e.index = 0 => e = Discontinuity
    /\ Discontinuity.index = 0 /\ Discontinuity.packet = 0
<1>1. /\ Discontinuity.index = 0 /\ Discontinuity.packet = 0 /\ Discontinuity.left = 0
  BY DEF Discontinuity
<1>2. ASSUME NEW e \in [index : Indices, packet : Packets, left : 1 .. Chunks]
      PROVE  /\ e.index \in Nat \ {0} /\ e.packet \in Nat /\ e.left \in Nat
             /\ e.packet \in Packets /\ e.left \in 1 .. Chunks
  BY SizesAssumption, EnvironmentAssumption DEF Indices, Packets
<1> QED BY <1>1, <1>2 DEF Entry

LEMMA LineType ==
    ASSUME NEW T, NEW q \in Seq(T), NEW r \in Seq(T)
    PROVE  Joined(q, r) \in Seq(T)
BY DEF Joined

LEMMA LinePassed ==
    ASSUME NEW T, NEW q \in Seq(T), NEW r \in Seq(T), r # <<>>
    PROVE  Joined(Append(q, Head(r)), Tail(r)) = Joined(q, r)
BY DEF Joined

LEMMA LineAppended ==
    ASSUME NEW T, NEW q \in Seq(T), NEW r \in Seq(T), NEW e \in T
    PROVE  Joined(q, Append(r, e)) = Append(Joined(q, r), e)
BY DEF Joined

LEMMA LineHead ==
    ASSUME NEW T, NEW q \in Seq(T), NEW r \in Seq(T), q # <<>>
    PROVE  /\ Joined(q, r) # <<>> /\ Head(Joined(q, r)) = Head(q)
           /\ Joined(Tail(q), r) = Tail(Joined(q, r))
BY DEF Joined

LEMMA LineRest ==
    ASSUME NEW q \in Seq(Entry), NEW r \in Seq(Entry), q # <<>>,
           Head(q).left # 1 => Less(Head(q)) \in Entry
    PROVE  Joined(Rest(q), r) = Rest(Joined(q, r))
<1>1. /\ Joined(q, r) # <<>> /\ Head(Joined(q, r)) = Head(q)
      /\ Joined(Tail(q), r) = Tail(Joined(q, r)) /\ Tail(q) \in Seq(Entry)
  BY LineHead
<1>2. CASE Head(q).left = 1
  BY <1>1, <1>2 DEF Rest
<1>3. CASE Head(q).left # 1
  <2> DEFINE e == Less(Head(q))
  <2>1. e \in Entry
    BY <1>3
  <2> HIDE DEF e
  <2>2. <<e>> \in Seq(Entry)
    BY <2>1
  <2>3. Joined(<<e>> \o Tail(q), r) = <<e>> \o Joined(Tail(q), r)
    BY <1>1, <2>2 DEF Joined
  <2> QED BY <1>1, <1>3, <2>3 DEF Rest, e
<1> QED BY <1>2, <1>3

LEMMA LineGrows ==
    ASSUME NEW q \in Seq(Entry), NEW ph \in Phases, ph # "empty",
           NEW r \in [packet : 0 .. NumPackets, chunk : 1 .. Chunks], LineOK(q, ph, r),
           NEW e \in Entry, e.index # 0, e.left = Chunks, e.packet > LastOf(q, r)
    PROVE  LineOK(Append(q, e), ph, r) /\ LastOf(Append(q, e), r) = e.packet
<1>1. /\ r.packet \in Nat /\ r.chunk \in 1 .. Chunks /\ Chunks \in Nat
      /\ \A i \in DOMAIN q : q[i] \in Entry /\ q[i].packet \in Nat
      /\ e.packet \in Nat
  <2>1. \A i \in DOMAIN q : q[i] \in Entry
    OBVIOUS
  <2> QED BY <2>1, SizesAssumption, EnvironmentAssumption, EntryFields
<1> DEFINE p == Append(q, e)
<1>2. /\ Len(q) \in Nat /\ DOMAIN q = 1 .. Len(q) /\ DOMAIN p = 1 .. Len(q) + 1
      /\ Len(p) = Len(q) + 1 /\ p # <<>> /\ p[Len(q) + 1] = e
      /\ (\A i \in 1 .. Len(q) : p[i] = q[i]) /\ ((q = <<>>) <=> (Len(q) = 0))
  OBVIOUS
<1> HIDE DEF p
<1>3. \A i \in DOMAIN p : i \in DOMAIN q \/ i = Len(q) + 1
  BY <1>2
<1>4. \A i \in DOMAIN q : q[i].packet < e.packet
  <2> SUFFICES ASSUME NEW i \in DOMAIN q PROVE q[i].packet < e.packet
    OBVIOUS
  <2>1. q # <<>> /\ Len(q) \in DOMAIN q /\ (i = Len(q) \/ i < Len(q))
    BY <1>2
  <2>2. q[Len(q)].packet < e.packet
    BY <2>1 DEF LastOf
  <2>3. i < Len(q) => q[i].packet < q[Len(q)].packet
    BY <2>1 DEF LineOK
  <2> QED BY <1>1, <2>1, <2>2, <2>3
<1>5. \A i, j \in DOMAIN p : i < j => p[i].packet < p[j].packet
  <2> SUFFICES ASSUME NEW i \in DOMAIN p, NEW j \in DOMAIN p, i < j
               PROVE  p[i].packet < p[j].packet
    OBVIOUS
  <2>1. i \in DOMAIN q /\ p[i] = q[i]
    BY <1>2
  <2>2. CASE j \in DOMAIN q
    BY <1>2, <2>1, <2>2 DEF LineOK
  <2>3. CASE j = Len(q) + 1
    BY <1>2, <1>4, <2>1, <2>3
  <2> QED BY <1>3, <2>2, <2>3
<1>6. (ph # "going" => r = Unparsed) /\ (ph = "new" => p[1] = Discontinuity)
  BY <1>2 DEF LineOK
<1>7. \A i \in DOMAIN p : p[i].index = 0 => i = 1 /\ ph = "new"
  BY <1>2, <1>3 DEF LineOK
<1>8. \A i \in DOMAIN p : i > 1 => p[i].left = Chunks
  BY <1>2, <1>3 DEF LineOK
<1>9. p[1].index # 0 =>
         IF r.chunk = Chunks THEN p[1].left = Chunks /\ p[1].packet > r.packet
         ELSE p[1].left = Chunks - r.chunk /\ p[1].packet = r.packet
  <2>1. CASE q = <<>>
    <3>1. p[1] = e /\ r.chunk = Chunks /\ e.packet > r.packet
      BY <1>1, <1>2, <2>1 DEF LineOK, LastOf
    <3> QED BY <3>1
  <2>2. CASE q # <<>>
    BY <1>2, <2>2 DEF LineOK
  <2> QED BY <2>1, <2>2
<1>10. LineOK(p, ph, r)
  BY <1>2, <1>5, <1>6, <1>7, <1>8, <1>9 DEF LineOK
<1>11. LastOf(p, r) = e.packet
  BY <1>2 DEF LastOf
<1> QED BY <1>2, <1>10, <1>11 DEF p
LEMMA LineBegins ==
    ASSUME NEW r, LineOK(<<>>, "empty", r),
           NEW e \in Entry, e.index # 0, e.left = Chunks, e.packet > LastOf(<<>>, r)
    PROVE  LineOK(<<Discontinuity, e>>, "new", r) /\ LastOf(<<Discontinuity, e>>, r) = e.packet
<1> DEFINE p == <<Discontinuity, e>>
<1>1. Len(p) = 2 /\ DOMAIN p = 1 .. 2 /\ p[1] = Discontinuity /\ p[2] = e /\ p # <<>>
  OBVIOUS
<1> HIDE DEF p
<1>2. r = Unparsed /\ r.packet = 0 /\ r.chunk = Chunks /\ Chunks \in Nat
  BY SizesAssumption DEF LineOK, Unparsed
<1>3. Discontinuity.index = 0 /\ Discontinuity.packet = 0 /\ 0 < e.packet
  BY <1>2, EntryFields DEF LastOf
<1>4. \A i \in DOMAIN p : i = 1 \/ i = 2
  BY <1>1
<1>5. LineOK(p, "new", r)
  <2>1. \A i, j \in DOMAIN p : i < j => p[i].packet < p[j].packet
    BY <1>1, <1>3, <1>4
  <2>2. \A i \in DOMAIN p : p[i].index = 0 => i = 1
    BY <1>1, <1>2, <1>4
  <2>3. \A i \in DOMAIN p : i > 1 => p[i].left = Chunks
    BY <1>1, <1>4
  <2> QED BY <1>1, <1>2, <1>3, <2>1, <2>2, <2>3 DEF LineOK
<1>6. LastOf(p, r) = e.packet
  BY <1>1 DEF LastOf
<1> QED BY <1>5, <1>6 DEF p

\* A line without its head.
LEMMA TailOfLine ==
    ASSUME NEW q \in Seq(Entry), q # <<>>
    PROVE  /\ Tail(q) \in Seq(Entry) /\ DOMAIN q = 1 .. Len(q) /\ Len(q) \in Nat \ {0}
           /\ Head(q) = q[1] /\ q[1] \in Entry /\ DOMAIN Tail(q) = 1 .. Len(q) - 1
           /\ Len(Tail(q)) = Len(q) - 1
           /\ \A i \in 1 .. Len(q) - 1 : Tail(q)[i] = q[i + 1] /\ i + 1 \in DOMAIN q
           /\ (Tail(q) = <<>>) <=> (Len(q) = 1)
<1>1. /\ Tail(q) \in Seq(Entry) /\ Len(q) \in Nat \ {0} /\ DOMAIN q = 1 .. Len(q)
      /\ Head(q) = q[1] /\ Len(Tail(q)) = Len(q) - 1 /\ DOMAIN Tail(q) = 1 .. Len(q) - 1
      /\ \A i \in 1 .. Len(q) - 1 : Tail(q)[i] = q[i + 1]
  OBVIOUS
<1> DEFINE t == Tail(q)
<1>2. (t = <<>>) <=> (Len(t) = 0)
  BY <1>1
<1>3. 1 \in DOMAIN q /\ \A i \in 1 .. Len(q) - 1 : i + 1 \in DOMAIN q
  BY <1>1
<1>4. q[1] \in Entry
  BY <1>3
<1>5. (t = <<>>) <=> (Len(q) = 1)
  <2>1. Len(t) = 0 <=> Len(q) = 1
    BY <1>1
  <2> QED BY <1>2, <2>1
<1> QED BY <1>1, <1>3, <1>4, <1>5

LEMMA DiscontinuityRead ==
    ASSUME NEW q \in Seq(Entry), q # <<>>, NEW ph, NEW r, LineOK(q, ph, r), Head(q).index = 0
    PROVE  ph = "new" /\ LineOK(Tail(q), "going", r) /\ LastOf(Tail(q), r) = LastOf(q, r)
<1> DEFINE p == Tail(q)
<1>1. /\ p \in Seq(Entry) /\ DOMAIN q = 1 .. Len(q) /\ Len(q) \in Nat \ {0}
      /\ Head(q) = q[1] /\ q[1] \in Entry /\ DOMAIN p = 1 .. Len(q) - 1 /\ Len(p) = Len(q) - 1
      /\ \A i \in 1 .. Len(q) - 1 : p[i] = q[i + 1] /\ i + 1 \in DOMAIN q
      /\ (p = <<>>) <=> (Len(q) = 1)
  BY TailOfLine
<1> HIDE DEF p
<1>2. 1 \in DOMAIN q /\ ph = "new" /\ q[1] = Discontinuity /\ q[1].packet = 0
  BY <1>1, EntryFields DEF LineOK
<1>3. r = Unparsed /\ r.packet = 0 /\ r.chunk = Chunks /\ Chunks \in Nat
  BY <1>2, SizesAssumption DEF LineOK, Unparsed
<1>4. \A i \in DOMAIN p : p[i].index # 0 /\ p[i].left = Chunks /\ p[i].packet > 0
  <2> SUFFICES ASSUME NEW i \in DOMAIN p
               PROVE  p[i].index # 0 /\ p[i].left = Chunks /\ p[i].packet > 0
    OBVIOUS
  <2>1. i + 1 \in DOMAIN q /\ i + 1 > 1 /\ i + 1 # 1 /\ p[i] = q[i + 1]
    BY <1>1
  <2>2. q[1].packet < q[i + 1].packet
    BY <1>2, <2>1 DEF LineOK
  <2> QED BY <1>2, <2>1, <2>2 DEF LineOK
<1>5. \A i, j \in DOMAIN p : i < j => p[i].packet < p[j].packet
  <2> SUFFICES ASSUME NEW i \in DOMAIN p, NEW j \in DOMAIN p, i < j
               PROVE  p[i].packet < p[j].packet
    OBVIOUS
  <2>1. i + 1 \in DOMAIN q /\ j + 1 \in DOMAIN q /\ i + 1 < j + 1 /\ p[i] = q[i + 1] /\ p[j] = q[j + 1]
    BY <1>1
  <2> QED BY <2>1 DEF LineOK
<1>6. p # <<>> => 1 \in DOMAIN p
  BY <1>1
<1>7. LineOK(p, "going", r)
  BY <1>2, <1>3, <1>4, <1>5, <1>6 DEF LineOK
<1>8. LastOf(p, r) = LastOf(q, r)
  <2>1. CASE p = <<>>
    BY <1>1, <1>2, <1>3, <2>1 DEF LastOf
  <2>2. CASE p # <<>>
    <3>1. Len(p) \in 1 .. Len(q) - 1 /\ Len(p) + 1 = Len(q)
      BY <1>1, <2>2
    <3> QED BY <1>1, <2>2, <3>1 DEF LastOf
  <2> QED BY <2>1, <2>2
<1> QED BY <1>2, <1>7, <1>8 DEF p

\* The parser gets one more piece: of the packet it has begun, or of a later one.
LEMMA PacketRead ==
    ASSUME NEW q \in Seq(Entry), q # <<>>, NEW ph \in Phases,
           NEW r \in [packet : 0 .. NumPackets, chunk : 1 .. Chunks], LineOK(q, ph, r),
           Head(q).index # 0
    PROVE  /\ ph = "going" /\ LineOK(Rest(q), ph, Piece(Head(q)))
           /\ LastOf(Rest(q), Piece(Head(q))) = LastOf(q, r)
           /\ Head(q).left # 1 => Less(Head(q)) \in Entry
           /\ \/ r.chunk < Chunks /\ Piece(Head(q)) = [r EXCEPT !.chunk = @ + 1]
              \/ /\ r.chunk = Chunks
                 /\ \E p \in r.packet + 1 .. NumPackets :
                       Piece(Head(q)) = [packet |-> p, chunk |-> 1]
<1> DEFINE e == Head(q)
           n == Piece(e)
           less == Less(e)
           t == Tail(q)
           p == Rest(q)
<1>1. /\ t \in Seq(Entry) /\ DOMAIN q = 1 .. Len(q) /\ Len(q) \in Nat \ {0}
      /\ e = q[1] /\ e \in Entry /\ DOMAIN t = 1 .. Len(q) - 1 /\ Len(t) = Len(q) - 1
      /\ \A i \in 1 .. Len(q) - 1 : t[i] = q[i + 1] /\ i + 1 \in DOMAIN q
      /\ (t = <<>>) <=> (Len(q) = 1)
  BY TailOfLine
<1>2. /\ e.packet \in Packets /\ e.left \in 1 .. Chunks /\ e.index # 0 /\ Chunks \in Nat
      /\ e.packet \in Nat
  BY <1>1, EntryFields, SizesAssumption
<1>3. r.packet \in Nat /\ r.chunk \in 1 .. Chunks
  BY EnvironmentAssumption
<1>4. e.left # 1 =>
        less \in Entry /\ less.index # 0 /\ less.packet = e.packet /\ less.left = e.left - 1
  <2>1. e \in [index : Indices, packet : Packets, left : 1 .. Chunks]
    BY <1>1, <1>2 DEF Entry, Discontinuity
  <2>2. e.left # 1 => e.left - 1 \in 1 .. Chunks
    BY <1>2
  <2>3. e.left # 1 => less \in [index : Indices, packet : Packets, left : 1 .. Chunks]
    BY <2>1, <2>2 DEF Less
  <2>4. less.index = e.index /\ less.packet = e.packet /\ less.left = e.left - 1
    BY <2>1 DEF Less
  <2> QED BY <1>2, <2>3, <2>4 DEF Entry
<1>5. n.packet = e.packet /\ n.chunk = Chunks + 1 - e.left /\ n.chunk \in 1 .. Chunks
  BY <1>2 DEF Piece
<1>6. n = [packet |-> e.packet, chunk |-> Chunks + 1 - e.left]
  BY DEF Piece
<1>15. p = IF e.left = 1 THEN t ELSE <<less>> \o t
  BY DEF Rest
<1> HIDE DEF e, less, n, p
<1>7. ph = "going"
  <2>1. q[1] # Discontinuity
    BY <1>1, <1>2, EntryFields
  <2> QED BY <2>1 DEF LineOK, Phases
<1>8. IF r.chunk = Chunks THEN e.left = Chunks /\ e.packet > r.packet
      ELSE e.left = Chunks - r.chunk /\ e.packet = r.packet
  BY <1>1, <1>2 DEF LineOK
<1>9. \/ r.chunk < Chunks /\ n = [r EXCEPT !.chunk = @ + 1]
      \/ /\ r.chunk = Chunks
         /\ \E x \in r.packet + 1 .. NumPackets : n = [packet |-> x, chunk |-> 1]
  <2>1. CASE r.chunk = Chunks
    <3>1. e.packet \in r.packet + 1 .. NumPackets /\ Chunks + 1 - e.left = 1
      BY <1>2, <1>3, <1>8, <2>1, EnvironmentAssumption DEF Packets
    <3>2. n = [packet |-> e.packet, chunk |-> 1]
      BY <1>6, <3>1
    <3> QED BY <2>1, <3>1, <3>2
  <2>2. CASE r.chunk # Chunks
    <3>1. r.chunk < Chunks /\ Chunks + 1 - e.left = r.chunk + 1 /\ e.packet = r.packet
      BY <1>2, <1>3, <1>8, <2>2
    <3>2. n = [packet |-> r.packet, chunk |-> r.chunk + 1]
      BY <1>6, <3>1
    <3>3. [r EXCEPT !.chunk = @ + 1] = [packet |-> r.packet, chunk |-> r.chunk + 1]
      OBVIOUS
    <3> QED BY <3>1, <3>2, <3>3
  <2> QED BY <2>1, <2>2
<1>10. \A i \in DOMAIN t : /\ t[i].index # 0 /\ t[i].left = Chunks /\ e.packet < t[i].packet
  <2> SUFFICES ASSUME NEW i \in DOMAIN t
               PROVE  t[i].index # 0 /\ t[i].left = Chunks /\ e.packet < t[i].packet
    OBVIOUS
  <2>1. /\ i + 1 \in DOMAIN q /\ 1 \in DOMAIN q /\ 1 < i + 1 /\ i + 1 > 1 /\ i + 1 # 1
        /\ t[i] = q[i + 1]
    BY <1>1
  <2> QED BY <1>1, <2>1 DEF LineOK
<1>11. \A i, j \in DOMAIN t : i < j => t[i].packet < t[j].packet
  <2> SUFFICES ASSUME NEW i \in DOMAIN t, NEW j \in DOMAIN t, i < j
               PROVE  t[i].packet < t[j].packet
    OBVIOUS
  <2>1. i + 1 \in DOMAIN q /\ j + 1 \in DOMAIN q /\ i + 1 < j + 1 /\ t[i] = q[i + 1] /\ t[j] = q[j + 1]
    BY <1>1
  <2> QED BY <2>1 DEF LineOK
<1>12. LastOf(q, r) = IF t = <<>> THEN e.packet ELSE t[Len(t)].packet
  <2>1. CASE t = <<>>
    BY <1>1, <2>1 DEF LastOf
  <2>2. CASE t # <<>>
    <3>1. Len(t) \in 1 .. Len(q) - 1 /\ Len(t) + 1 = Len(q)
      BY <1>1, <2>2
    <3> QED BY <1>1, <2>2, <3>1 DEF LastOf
  <2> QED BY <2>1, <2>2
<1>13. CASE e.left = 1
  <2>1. p = t /\ n.chunk = Chunks
    BY <1>2, <1>5, <1>13, <1>15
  <2>2. t # <<>> => 1 \in DOMAIN t
    BY <1>1
  <2>3. LineOK(t, ph, n)
    <3>1. ~(n.chunk < Chunks)
      BY <1>2, <2>1
    <3>2. \A i \in DOMAIN t : t[i].index = 0 => i = 1 /\ ph = "new"
      BY <1>10
    <3>3. \A i \in DOMAIN t : i > 1 => t[i].left = Chunks
      BY <1>10
    <3>4. t # <<>> => t[1].left = Chunks /\ t[1].packet > n.packet
      BY <1>2, <1>5, <1>10, <2>2
    <3> QED BY <1>7, <1>11, <2>1, <3>1, <3>2, <3>3, <3>4 DEF LineOK
  <2>4. LastOf(t, n) = LastOf(q, r)
    BY <1>5, <1>12 DEF LastOf
  <2> QED BY <1>4, <1>7, <1>9, <2>1, <2>3, <2>4 DEF e, n, less, p
<1>14. CASE e.left # 1
  <2> DEFINE l == <<less>> \o t
  <2>1. p = l /\ less \in Entry
    BY <1>4, <1>14, <1>15
  <2>2. <<less>> \in Seq(Entry) /\ Len(<<less>>) = 1 /\ <<less>>[1] = less
    BY <2>1
  <2>3. /\ l \in Seq(Entry) /\ Len(l) = Len(t) + 1 /\ l # <<>> /\ DOMAIN l = 1 .. Len(q)
        /\ l[1] = less /\ \A i \in 1 .. Len(t) : l[i + 1] = t[i]
    BY <1>1, <2>2
  <2> HIDE DEF l
  <2>4. \A i \in DOMAIN l : i = 1 \/ (i - 1 \in DOMAIN t /\ l[i] = t[i - 1] /\ i > 1)
    <3> SUFFICES ASSUME NEW i \in DOMAIN l, i # 1 PROVE i - 1 \in DOMAIN t /\ l[i] = t[i - 1] /\ i > 1
      OBVIOUS
    <3>1. i - 1 \in 1 .. Len(t) /\ (i - 1) + 1 = i
      BY <1>1, <2>3
    <3> QED BY <1>1, <2>3, <3>1
  <2>5. n.chunk < Chunks /\ less.left = Chunks - n.chunk /\ less.packet = n.packet /\ less.index # 0
    BY <1>2, <1>4, <1>5, <1>14
  <2>6. \A i, j \in DOMAIN l : i < j => l[i].packet < l[j].packet
    <3> SUFFICES ASSUME NEW i \in DOMAIN l, NEW j \in DOMAIN l, i < j
                 PROVE  l[i].packet < l[j].packet
      OBVIOUS
    <3>1. j # 1
      BY <2>3
    <3>2. j - 1 \in DOMAIN t /\ l[j] = t[j - 1]
      BY <2>4, <3>1
    <3>3. CASE i = 1
      BY <1>5, <1>10, <2>3, <2>5, <3>2, <3>3
    <3>4. CASE i # 1
      <4>1. i - 1 \in DOMAIN t /\ l[i] = t[i - 1] /\ i - 1 < j - 1
        BY <2>3, <2>4, <3>4
      <4> QED BY <1>11, <3>2, <4>1
    <3> QED BY <3>3, <3>4
  <2>7. \A i \in DOMAIN l : l[i].index # 0 /\ (i > 1 => l[i].left = Chunks)
    <3> SUFFICES ASSUME NEW i \in DOMAIN l
                 PROVE  l[i].index # 0 /\ (i > 1 => l[i].left = Chunks)
      OBVIOUS
    <3>1. CASE i = 1
      BY <2>3, <2>5, <3>1
    <3>2. CASE i # 1
      BY <1>10, <2>4, <3>2
    <3> QED BY <3>1, <3>2
  <2>8. LineOK(l, ph, n)
    BY <1>5, <1>7, <2>3, <2>5, <2>6, <2>7 DEF LineOK
  <2>9. LastOf(l, n) = LastOf(q, r)
    <3>1. CASE t = <<>>
      <4>1. Len(l) = 1
        BY <1>1, <2>3, <3>1
      <4> QED BY <1>5, <1>12, <2>3, <2>5, <3>1, <4>1 DEF LastOf
    <3>2. CASE t # <<>>
      <4>1. Len(l) = Len(t) + 1 /\ Len(t) \in 1 .. Len(t)
        BY <1>1, <2>3, <3>2
      <4> QED BY <1>12, <2>3, <3>2, <4>1 DEF LastOf
    <3> QED BY <3>1, <3>2
  <2> QED BY <1>4, <1>7, <1>9, <2>1, <2>8, <2>9 DEF e, n, less, p
<1> QED BY <1>13, <1>14

LineInv == LineOK(Line, Phase, parsed) /\ (synchronised => mDequeued)
LastPut == LastOf(Line, parsed)

\* A packet is returned, which is later than what was put on the line.
ReturnsLater == \E t \in Threads : (ReturnsNext(t) \/ GivesUp(t)) /\ Head(Fresh).packet > LastPut
LineIsKept == UNCHANGED <<mDequeued, synchronised, parsed>> /\ Line' = Line

LEMMA LineTypes ==
    ASSUME TypeOK
    PROVE  /\ mQueue \in Seq(Entry) /\ toListener \in Seq(Entry) /\ Line \in Seq(Entry)
           /\ mDequeued \in BOOLEAN /\ synchronised \in BOOLEAN /\ Phase \in Phases
           /\ parsed \in [packet : 0 .. NumPackets, chunk : 1 .. Chunks]
<1>1. mQueue \in Seq(Entry) /\ toListener \in Seq(Entry)
  BY DEF TypeOK, CallTypeOK, ReaderTypeOK
<1>2. Line \in Seq(Entry)
  BY <1>1, LineType DEF Line
<1>3. Phase \in Phases
  BY DEF Phase, Phases
<1> QED BY <1>1, <1>2, <1>3 DEF TypeOK, StreamTypeOK, ReaderTypeOK

LEMMA InitLine == Init => LineInv /\ ~mDequeued
<1> SUFFICES ASSUME Init PROVE LineInv /\ ~mDequeued
  OBVIOUS
<1>1. Line = <<>>
  <2>1. mQueue = <<>> /\ toListener = <<>> /\ <<>> \in Seq(Entry)
    BY DEF Init
  <2>2. Joined(mQueue, toListener) = mQueue
    BY <2>1, JoinedBasics
  <2> QED BY <2>1, <2>2 DEF Line
<1>2. DOMAIN Line = {}
  BY <1>1
<1>3. Chunks \in Nat /\ Phase = "empty" /\ ~mDequeued /\ ~synchronised /\ parsed = Unparsed
  BY SizesAssumption DEF Init, Phase, Unparsed
<1>4. ~(parsed.chunk < Chunks)
  BY <1>3 DEF Unparsed
<1>5. LineOK(Line, Phase, parsed)
  BY <1>1, <1>2, <1>3, <1>4 DEF LineOK
<1> QED BY <1>3, <1>5 DEF LineInv

LEMMA PairJoined ==
    ASSUME NEW T, NEW d \in T, NEW e \in T
    PROVE  <<d>> \o <<e>> = <<d, e>>
<1> DEFINE p == <<d>> \o <<e>>
           q == <<d, e>>
<1>1. /\ <<d>> \in Seq(T) /\ Len(<<d>>) = 1 /\ <<d>>[1] = d
      /\ <<e>> \in Seq(T) /\ Len(<<e>>) = 1 /\ <<e>>[1] = e
  OBVIOUS
<1>2. p \in Seq(T) /\ Len(p) = 2 /\ p[1] = d /\ p[2] = e
  BY <1>1
<1>3. q \in Seq(T) /\ Len(q) = 2 /\ q[1] = d /\ q[2] = e
  OBVIOUS
<1> HIDE DEF p, q
<1>4. p = q
  BY <1>2, <1>3
<1> QED BY <1>4 DEF p, q

LEMMA ReturnsLaterKeepsLine ==
    ASSUME TypeOK, LineInv, ReturnsLater
    PROVE  /\ LineInv' /\ mDequeued' /\ LastPut' = Head(Fresh).packet
           /\ UNCHANGED <<synchronised, parsed>>
<1>1. PICK t \in Threads : (ReturnsNext(t) \/ GivesUp(t)) /\ Head(Fresh).packet > LastPut
  BY DEF ReturnsLater
<1>2. Returns(t) /\ Fresh # <<>>
  BY <1>1 DEF ReturnsNext, GivesUp, NextIsMissing, NextIsThere
<1> DEFINE e == [index |-> Head(mIndicesAvailable), packet |-> Head(Fresh).packet, left |-> Chunks]
<1>3. /\ mIndicesAvailable # <<>> /\ mDequeued' = TRUE
      /\ toListener' = toListener \o (IF mDequeued THEN <<>> ELSE <<Discontinuity>>) \o <<e>>
      /\ UNCHANGED <<mQueue, synchronised, parsed>>
  BY <1>2 DEF Returns, readerVars
<1>4. e \in Entry /\ e.index # 0 /\ e.left = Chunks /\ e.packet = Head(Fresh).packet
  <2>1. Head(Fresh) \in Numbered
    BY <1>2, FreshType DEF TypeOK, RendererTypeOK
  <2>2. Head(mIndicesAvailable) \in Indices
    BY <1>3 DEF TypeOK, StreamTypeOK
  <2>3. Head(Fresh).packet \in Packets /\ Chunks \in 1 .. Chunks /\ Head(mIndicesAvailable) # 0
    BY <2>1, <2>2, SizesAssumption DEF Numbered, Indices
  <2> QED BY <2>2, <2>3 DEF Entry
<1> HIDE DEF e
<1>5. /\ mQueue \in Seq(Entry) /\ toListener \in Seq(Entry) /\ Line \in Seq(Entry)
      /\ mDequeued \in BOOLEAN /\ synchronised \in BOOLEAN /\ Phase \in Phases
      /\ parsed \in [packet : 0 .. NumPackets, chunk : 1 .. Chunks]
  BY LineTypes
<1>6. LineOK(Line, Phase, parsed) /\ e.packet > LastOf(Line, parsed)
  BY <1>1, <1>4 DEF LastPut, LineInv
<1>7. CASE mDequeued
  <2>1. toListener' = Append(toListener, e)
    <3>1. toListener \o <<>> = toListener
      BY <1>5
    <3>2. toListener' = toListener \o <<e>>
      BY <1>3, <1>7, <3>1
    <3> QED BY <1>4, <1>5, <3>2
  <2>2. Joined(mQueue, Append(toListener, e)) = Append(Joined(mQueue, toListener), e)
    BY <1>4, <1>5, LineAppended
  <2>3. Line' = Append(Line, e)
    BY <1>3, <2>1, <2>2 DEF Line
  <2>4. Phase # "empty" /\ Phase' = Phase
    BY <1>3, <1>7 DEF Phase
  <2>5. LineOK(Append(Line, e), Phase, parsed) /\ LastOf(Append(Line, e), parsed) = e.packet
    BY <1>4, <1>5, <1>6, <2>4, LineGrows
  <2> QED BY <1>3, <1>4, <2>3, <2>4, <2>5 DEF LineInv, LastPut
<1>8. CASE ~mDequeued
  <2>1. Phase = "empty" /\ ~synchronised
    BY <1>8 DEF Phase, LineInv
  <2>2. Line = <<>> /\ Len(Line) = 0
    BY <1>6, <2>1 DEF LineOK
  <2>3. mQueue = <<>> /\ toListener = <<>>
    <3>1. Len(Line) = Len(mQueue) + Len(toListener) /\ Len(mQueue) \in Nat /\ Len(toListener) \in Nat
      BY <1>5 DEF Line, Joined
    <3> QED BY <1>5, <2>2, <3>1
  <2>4. toListener' = <<>> \o <<Discontinuity>> \o <<e>>
    BY <1>3, <1>8, <2>3
  <2>5. <<Discontinuity, e>> \in Seq(Entry)
    BY <1>4 DEF Entry
  <2>6. <<>> \o <<Discontinuity>> \o <<e>> = <<Discontinuity, e>>
    <3> DEFINE d == Discontinuity
    <3>1. d \in Entry /\ <<d>> \in Seq(Entry) /\ <<e>> \in Seq(Entry)
      BY <1>4 DEF Entry
    <3> HIDE DEF d
    <3>2. <<>> \o <<d>> = <<d>>
      BY <3>1
    <3>3. <<d>> \o <<e>> = <<d, e>>
      BY <1>4, <3>1, PairJoined
    <3> QED BY <3>2, <3>3 DEF d
  <2>7. Joined(<<>>, <<Discontinuity, e>>) = <<Discontinuity, e>>
    BY <2>5, JoinedBasics
  <2>8. Line' = <<Discontinuity, e>>
    BY <1>3, <2>3, <2>4, <2>6, <2>7 DEF Line
  <2>9. Phase' = "new"
    BY <1>3, <2>1 DEF Phase
  <2>10. LineOK(<<>>, "empty", parsed) /\ e.packet > LastOf(<<>>, parsed)
    BY <1>6, <2>1, <2>2
  <2>11. LineOK(<<Discontinuity, e>>, "new", parsed) /\ LastOf(<<Discontinuity, e>>, parsed) = e.packet
    BY <1>4, <2>10, LineBegins
  <2> QED BY <1>3, <1>4, <2>1, <2>8, <2>9, <2>11 DEF LineInv, LastPut
<1> QED BY <1>7, <1>8

LEMMA ListenerKeepsLine ==
    ASSUME TypeOK, ListenerNext
    PROVE  LineIsKept
<1>1. mQueue \in Seq(Entry) /\ toListener \in Seq(Entry)
  BY LineTypes
<1>2. CASE Start
  BY <1>2 DEF Start, LineIsKept, Line
<1>3. CASE ListenerQueues
  <2>1. /\ toListener # <<>> /\ toListener' = Tail(toListener)
        /\ mQueue' = Append(mQueue, Head(toListener))
        /\ UNCHANGED <<mDequeued, synchronised, parsed>>
    BY <1>3 DEF ListenerQueues, streamVars
  <2>2. Joined(Append(mQueue, Head(toListener)), Tail(toListener)) = Joined(mQueue, toListener)
    BY <1>1, <2>1, LinePassed
  <2> QED BY <2>1, <2>2 DEF LineIsKept, Line
<1> QED BY <1>2, <1>3 DEF ListenerNext

\* The step of the parser is one that TransportStream allows.
LEMMA ReaderKeepsLine ==
    ASSUME TypeOK, LineInv, ReaderNext
    PROVE  /\ LineInv' /\ LastPut' = LastPut /\ UNCHANGED mDequeued
           /\ Delivery!Next \/ UNCHANGED <<synchronised, parsed>>
<1>1. /\ mQueue \in Seq(Entry) /\ toListener \in Seq(Entry) /\ Line \in Seq(Entry)
      /\ mDequeued \in BOOLEAN /\ synchronised \in BOOLEAN /\ Phase \in Phases
      /\ parsed \in [packet : 0 .. NumPackets, chunk : 1 .. Chunks]
  BY LineTypes
<1>2. UNCHANGED <<mDequeued, toListener>>
  BY DEF ReaderNext, OnReadBuffer, ReadsDiscontinuity, ReadsPacket, ReadingEnds, streamVars, callVars
<1>3. ASSUME mQueue # <<>>
      PROVE  Line # <<>> /\ Head(Line) = Head(mQueue) /\ Joined(Tail(mQueue), toListener) = Tail(Line)
  <2>1. /\ Joined(mQueue, toListener) # <<>> /\ Head(Joined(mQueue, toListener)) = Head(mQueue)
        /\ Joined(Tail(mQueue), toListener) = Tail(Joined(mQueue, toListener))
    BY <1>1, <1>3, LineHead
  <2> QED BY <2>1 DEF Line
<1>4. LineOK(Line, Phase, parsed) /\ (synchronised => mDequeued)
  BY DEF LineInv
<1>5. CASE OnReadBuffer \/ ReadingEnds
  BY <1>2, <1>5 DEF OnReadBuffer, ReadingEnds, LineInv, LastPut, Line, Phase
<1>6. CASE ReadsDiscontinuity
  <2>1. /\ mQueue # <<>> /\ Head(mQueue).index = 0 /\ mQueue' = Tail(mQueue)
        /\ synchronised' = TRUE /\ parsed' = parsed
    BY <1>6 DEF ReadsDiscontinuity, Reads
  <2>2. Line # <<>> /\ Head(Line).index = 0 /\ Line' = Tail(Line)
    BY <1>2, <1>3, <2>1 DEF Line
  <2>3. /\ Phase = "new" /\ LineOK(Tail(Line), "going", parsed)
        /\ LastOf(Tail(Line), parsed) = LastOf(Line, parsed)
    BY <1>1, <1>4, <2>2, DiscontinuityRead
  <2>4. mDequeued /\ ~synchronised /\ Phase' = "going"
    BY <1>2, <2>1, <2>3 DEF Phase
  <2>5. Delivery!Next
    BY <2>1, <2>4 DEF Delivery!Next, Delivery!Synchronise
  <2> QED BY <1>2, <2>1, <2>2, <2>3, <2>4, <2>5 DEF LineInv, LastPut
<1>7. CASE ReadsPacket
  <2>1. /\ mQueue # <<>> /\ Head(mQueue).index # 0 /\ parsed' = Piece(Head(mQueue))
        /\ synchronised' = synchronised /\ mQueue' = Rest(mQueue)
    BY <1>7 DEF ReadsPacket, Reads, Piece, Rest, Less
  <2>2. Line # <<>> /\ Head(Line) = Head(mQueue)
    BY <1>3, <2>1
  <2>3. Head(Line).index # 0
    BY <2>1, <2>2
  <2>4. /\ Phase = "going" /\ LineOK(Rest(Line), Phase, Piece(Head(Line)))
        /\ LastOf(Rest(Line), Piece(Head(Line))) = LastOf(Line, parsed)
        /\ Head(Line).left # 1 => Less(Head(Line)) \in Entry
        /\ \/ parsed.chunk < Chunks /\ Piece(Head(Line)) = [parsed EXCEPT !.chunk = @ + 1]
           \/ /\ parsed.chunk = Chunks
              /\ \E p \in parsed.packet + 1 .. NumPackets :
                    Piece(Head(Line)) = [packet |-> p, chunk |-> 1]
    BY <1>1, <1>4, <2>2, <2>3, PacketRead
  <2>5. Joined(Rest(mQueue), toListener) = Rest(Joined(mQueue, toListener))
    BY <1>1, <2>1, <2>2, <2>4, LineRest
  <2>6. Line' = Rest(Line) /\ parsed' = Piece(Head(Line)) /\ Phase' = Phase
    BY <1>2, <2>1, <2>2, <2>5 DEF Line, Phase
  <2>7. synchronised
    BY <2>4 DEF Phase
  <2>8. Delivery!Next
    BY <2>1, <2>4, <2>6, <2>7 DEF Delivery!Next, Delivery!Continue, Delivery!Begin
  <2> QED BY <1>2, <1>4, <2>1, <2>4, <2>6, <2>8 DEF LineInv, LastPut
<1> QED BY <1>5, <1>6, <1>7 DEF ReaderNext

LEMMA NextLine ==
    ASSUME TypeOK, LineInv, [Next]_vars
    PROVE  \/ ReturnsLater
           \/ \E t \in Threads : (ReturnsNext(t) \/ GivesUp(t)) /\ ~(Head(Fresh).packet > LastPut)
           \/ /\ LineInv' /\ LastPut' = LastPut /\ UNCHANGED mDequeued
              /\ Delivery!Next \/ UNCHANGED <<synchronised, parsed>>
<1>1. LineIsKept => LineInv' /\ LastPut' = LastPut /\ UNCHANGED <<mDequeued, synchronised, parsed>>
  BY DEF LineIsKept, LineInv, LastPut, Phase
<1>2. CASE NetworkNext \/ AttemptAges \/ PacketLost \/ QueueBuffer \/ OnBufferAvailable
  <2>1. LineIsKept
    BY <1>2 DEF NetworkNext, Lose, Arrive, AttemptAges, PacketLost, QueueBuffer, OnBufferAvailable,
      LineIsKept, Line, streamVars, callVars, readerVars
  <2> QED BY <1>1, <2>1
<1>3. ASSUME NEW t \in Threads, Work(t), ~ReturnsNext(t), ~GivesUp(t)
      PROVE  LineIsKept
  BY <1>3 DEF Work, Lock, NoIndexLeft, FindsNothing, FirstFailure, Waits, ReturnsNothing, LineIsKept, Line,
    streamVars, callVars, readerVars
<1>4. CASE UNCHANGED vars
  <2>1. LineIsKept
    BY <1>4 DEF vars, LineIsKept, Line, streamVars, callVars, readerVars
  <2> QED BY <1>1, <2>1
<1>5. CASE ListenerNext
  BY <1>1, <1>5, ListenerKeepsLine
<1>6. CASE ReaderNext
  BY <1>6, ReaderKeepsLine
<1>7. ASSUME NEW t \in Threads, Work(t)
      PROVE  \/ ReturnsLater
             \/ (ReturnsNext(t) \/ GivesUp(t)) /\ ~(Head(Fresh).packet > LastPut)
             \/ LineIsKept
  BY <1>3, <1>7 DEF ReturnsLater
<1>8. "looper" \in Threads /\ "binder" \in Threads
  BY DEF Threads
<1> QED BY <1>1, <1>2, <1>4, <1>5, <1>6, <1>7, <1>8 DEF Next, LooperNext, BinderNext

-----------------------------------------------------------------------------
(* The arithmetic of sequence numbers.                                      *)

LEMMA Division ==
    ASSUME NEW m \in Nat \ {0}, NEW a \in Int
    PROVE  a \div m \in Int /\ a % m \in 0 .. m - 1 /\ a = m * (a \div m) + (a % m)
OBVIOUS

LEMMA SmallRemainder ==
    ASSUME NEW m \in Nat \ {0}, NEW x \in Int
    PROVE  /\ x >= 0 /\ x < m => x % m = x
           /\ x < 0 /\ x >= -m => x % m = x + m
OBVIOUS

LEMMA MultiplesApart ==
    ASSUME NEW m \in Nat \ {0}, NEW j \in Int, NEW k \in Int
    PROVE  /\ j = k => m * j = m * k
           /\ j = k + 1 => m * j = m * k + m
           /\ j > k => m * j >= m * k + m
           /\ j > k + 1 => m * j >= m * k + m + m
<1>1. /\ j = k + 1 => m * j = m * k + m
  OBVIOUS
<1>2. j > k => m * j >= m * k + m
  OBVIOUS
<1>3. j > k + 1 => m * j >= m * k + m + m
  OBVIOUS
<1> QED BY <1>1, <1>2, <1>3

\* Two numbers with quotients j, k and remainders x, y are d apart.
Apart(m, j, k, x, y, d) == d = (m * j - m * k) + (x - y)

LEMMA RemaindersDiffer ==
    ASSUME NEW m \in Nat \ {0}, NEW j \in Int, NEW k \in Int, NEW x \in 0 .. m - 1,
           NEW y \in 0 .. m - 1, NEW d \in Int, Apart(m, j, k, x, y, d)
    PROVE  /\ j = k => x - y = d
           /\ d >= 0 /\ d < m => (x >= y => x - y = d) /\ (x < y => x - y = d - m)
           /\ d <= 0 => j <= k
<1> SUFFICES ASSUME NEW mj \in Int, NEW mk \in Int, d = (mj - mk) + (x - y),
                    j = k => mj = mk, j = k + 1 => mj = mk + m, j > k => mj >= mk + m,
                    j > k + 1 => mj >= mk + m + m, k > j => mk >= mj + m
             PROVE  /\ j = k => x - y = d
                    /\ d >= 0 /\ d < m => (x >= y => x - y = d) /\ (x < y => x - y = d - m)
                    /\ d <= 0 => j <= k
  BY MultiplesApart DEF Apart
<1>1. j = k => x - y = d
  OBVIOUS
<1>2. d <= 0 => j <= k
  OBVIOUS
<1>3. ASSUME d >= 0, d < m
      PROVE  (x >= y => x - y = d) /\ (x < y => x - y = d - m)
  <2>1. j = k \/ j = k + 1
    BY <1>3
  <2>2. j = k + 1 => x - y = d - m
    OBVIOUS
  <2> QED BY <1>1, <1>3, <2>1, <2>2
<1> QED BY <1>1, <1>2, <1>3

LEMMA NumbersDiffer ==
    ASSUME NetworkTypeOK, NEW p \in Packets, NEW q \in Packets
    PROVE  /\ Cycle(p) = Cycle(q) => SeqNo(p) - SeqNo(q) = p - q
           /\ p >= q /\ p - q < SeqMod =>
                 /\ SeqNo(p) >= SeqNo(q) => SeqNo(p) - SeqNo(q) = p - q
                 /\ SeqNo(p) < SeqNo(q) => SeqNo(p) - SeqNo(q) = (p - q) - SeqMod
           /\ p <= q => Cycle(p) <= Cycle(q)
<1> DEFINE a == first + p - 1
           b == first + q - 1
           d == p - q
<1>1. /\ a \in Int /\ b \in Int /\ SeqMod \in Nat \ {0} /\ p \in Int /\ q \in Int /\ a - b = d
      /\ d \in Int
  BY NumbersAssumption, EnvironmentAssumption DEF NetworkTypeOK, Packets
<1>2. /\ Cycle(p) \in Int /\ SeqNo(p) \in 0 .. SeqMod - 1 /\ a = SeqMod * Cycle(p) + SeqNo(p)
      /\ Cycle(q) \in Int /\ SeqNo(q) \in 0 .. SeqMod - 1 /\ b = SeqMod * Cycle(q) + SeqNo(q)
  BY <1>1, Division DEF SeqNo, Cycle
<1>3. (d >= 0 <=> p >= q) /\ (d <= 0 <=> p <= q)
  BY <1>1
<1> HIDE DEF a, b, d
<1>4. Apart(SeqMod, Cycle(p), Cycle(q), SeqNo(p), SeqNo(q), d)
  BY <1>1, <1>2 DEF Apart
<1>5. /\ Cycle(p) = Cycle(q) => SeqNo(p) - SeqNo(q) = d
      /\ d >= 0 /\ d < SeqMod => /\ SeqNo(p) >= SeqNo(q) => SeqNo(p) - SeqNo(q) = d
                                 /\ SeqNo(p) < SeqNo(q) => SeqNo(p) - SeqNo(q) = d - SeqMod
      /\ d <= 0 => Cycle(p) <= Cycle(q)
  <2>1. /\ SeqMod \in Nat \ {0} /\ Cycle(p) \in Int /\ Cycle(q) \in Int
        /\ SeqNo(p) \in 0 .. SeqMod - 1 /\ SeqNo(q) \in 0 .. SeqMod - 1 /\ d \in Int
    BY <1>1, <1>2
  <2> QED BY <1>4, <2>1, RemaindersDiffer
<1> QED BY <1>3, <1>5 DEF d

LEMMA DeltaIs ==
    ASSUME NetworkTypeOK, NEW s \in SourceState, NEW p \in Packets, NEW q \in Packets,
           s.mMaxSeq = SeqNo(q)
    PROVE  /\ p >= q /\ p - q < SeqMod => Delta(s, SeqNo(p)) = p - q
           /\ Cycle(p) = Cycle(q) /\ p < q /\ q - p <= SeqMod =>
                 Delta(s, SeqNo(p)) = SeqMod + p - q
<1> DEFINE x == SeqNo(p) - SeqNo(q)
<1>1. /\ SeqNo(p) \in 0 .. SeqMod - 1 /\ SeqNo(q) \in 0 .. SeqMod - 1 /\ SeqMod \in Nat \ {0}
      /\ p \in Int /\ q \in Int
  BY SequenceNumbers, NumbersAssumption, EnvironmentAssumption DEF Packets
<1>2. x \in Int /\ Delta(s, SeqNo(p)) = x % SeqMod
  BY <1>1 DEF Delta
<1>3. /\ x >= 0 /\ x < SeqMod => x % SeqMod = x
      /\ x < 0 /\ x >= -SeqMod => x % SeqMod = x + SeqMod
  BY <1>1, <1>2, SmallRemainder
<1>4. ASSUME p >= q, p - q < SeqMod
      PROVE  x % SeqMod = p - q
  <2>1. /\ SeqNo(p) >= SeqNo(q) => x = p - q
        /\ SeqNo(p) < SeqNo(q) => x = p - q - SeqMod
    BY <1>4, NumbersDiffer
  <2> QED BY <1>1, <1>2, <1>3, <1>4, <2>1
<1>5. ASSUME Cycle(p) = Cycle(q), p < q, q - p <= SeqMod
      PROVE  x % SeqMod = SeqMod + p - q
  <2>1. x = p - q
    BY <1>5, NumbersDiffer
  <2> QED BY <1>1, <1>2, <1>3, <1>5, <2>1
<1> QED BY <1>2, <1>4, <1>5

-----------------------------------------------------------------------------
(* The source's state.                                                      *)

LEMMA FieldValues ==
    ASSUME NEW s \in SourceState, NEW x
    PROVE  /\ WithMaxSeq(s, x).known = s.known /\ WithMaxSeq(s, x).mMaxSeq = x
           /\ WithMaxSeq(s, x).mCycles = s.mCycles /\ WithMaxSeq(s, x).mProbation = s.mProbation
           /\ WithCycles(s, x).known = s.known /\ WithCycles(s, x).mMaxSeq = s.mMaxSeq
           /\ WithCycles(s, x).mCycles = x /\ WithCycles(s, x).mProbation = s.mProbation
           /\ WithBadSeq(s, x).known = s.known /\ WithBadSeq(s, x).mMaxSeq = s.mMaxSeq
           /\ WithBadSeq(s, x).mCycles = s.mCycles /\ WithBadSeq(s, x).mProbation = s.mProbation
           /\ WithProbation(s, x).known = s.known /\ WithProbation(s, x).mMaxSeq = s.mMaxSeq
           /\ WithProbation(s, x).mCycles = s.mCycles /\ WithProbation(s, x).mProbation = x
BY DEF WithMaxSeq, WithCycles, WithBadSeq, WithProbation, SourceState

LEMMA InitSeqFields ==
    ASSUME NEW s \in SourceState, NEW seq \in 0 .. SeqMod - 1
    PROVE  /\ InitSeq(s, seq) \in SourceState /\ InitSeq(s, seq).known = s.known
           /\ InitSeq(s, seq).mMaxSeq = seq /\ InitSeq(s, seq).mCycles = 0
<1> DEFINE a == WithMaxSeq(s, seq)
           b == WithCycles(a, 0)
<1>1. a \in SourceState /\ b \in SourceState
  BY FieldTypes
<1>2. InitSeq(s, seq) = WithBadSeq(b, SeqMod + 1)
  BY DEF InitSeq, WithBadSeq, WithCycles, WithMaxSeq
<1>3. a.known = s.known /\ a.mMaxSeq = seq
  BY FieldValues
<1> HIDE DEF a
<1>4. b.known = s.known /\ b.mMaxSeq = seq /\ b.mCycles = 0
  BY <1>1, <1>3, FieldValues
<1> HIDE DEF b
<1>5. InitSeq(s, seq).known = s.known /\ InitSeq(s, seq).mMaxSeq = seq /\ InitSeq(s, seq).mCycles = 0
  BY <1>1, <1>2, <1>4, FieldValues
<1> QED BY <1>5, UpdateSeqType

LEMMA ProbationFields ==
    ASSUME NEW s \in SourceState, s.mCycles = 0, NEW seq \in 0 .. SeqMod - 1
    PROVE  /\ Probation(s, seq).known = s.known /\ Probation(s, seq).mMaxSeq = seq
           /\ Probation(s, seq).mCycles = 0
<1>1. PICK i \in SourceState, x \in Int : /\ Probation(s, seq) = WithProbation(i, x)
                                  /\ i.known = s.known /\ i.mMaxSeq = seq /\ i.mCycles = 0
  <2>1. /\ InitSeq(s, seq) \in SourceState /\ InitSeq(s, seq).known = s.known
        /\ InitSeq(s, seq).mMaxSeq = seq /\ InitSeq(s, seq).mCycles = 0
    BY InitSeqFields
  <2>2. /\ WithMaxSeq(s, seq) \in SourceState /\ WithMaxSeq(s, seq).known = s.known
        /\ WithMaxSeq(s, seq).mMaxSeq = seq /\ WithMaxSeq(s, seq).mCycles = 0
    BY FieldTypes, FieldValues
  <2>3. Probation(s, seq) \in {WithProbation(InitSeq(s, seq), 0),
                               WithProbation(WithMaxSeq(s, seq), s.mProbation - 1),
                               WithProbation(WithMaxSeq(s, seq), MinSequential - 1)}
    BY DEF Probation, WithProbation, WithMaxSeq
  <2>4. \/ Probation(s, seq) = WithProbation(InitSeq(s, seq), 0)
        \/ Probation(s, seq) = WithProbation(WithMaxSeq(s, seq), s.mProbation - 1)
        \/ Probation(s, seq) = WithProbation(WithMaxSeq(s, seq), MinSequential - 1)
    BY <2>3
  <2>5. 0 \in Int /\ s.mProbation - 1 \in Int /\ MinSequential - 1 \in Int
    BY NumbersAssumption DEF SourceState
  <2> QED BY <2>1, <2>2, <2>4, <2>5
<1> QED BY <1>1, FieldValues

LEMMA InOrderFields ==
    ASSUME NEW s \in SourceState, NEW seq \in 0 .. SeqMod - 1
    PROVE  /\ InOrder(s, seq).known = s.known /\ InOrder(s, seq).mMaxSeq = seq
           /\ InOrder(s, seq).mProbation = s.mProbation
           /\ InOrder(s, seq).mCycles = IF seq < s.mMaxSeq THEN s.mCycles + SeqMod ELSE s.mCycles
<1> DEFINE c == IF seq < s.mMaxSeq THEN s.mCycles + SeqMod ELSE s.mCycles
           a == WithMaxSeq(s, seq)
<1>1. InOrder(s, seq) = WithCycles(a, c)
  BY DEF InOrder, WithMaxSeq, WithCycles
<1>2. a \in SourceState /\ a.known = s.known /\ a.mMaxSeq = seq /\ a.mProbation = s.mProbation
  BY FieldTypes, FieldValues
<1> HIDE DEF a, c
<1>3. /\ InOrder(s, seq).known = s.known /\ InOrder(s, seq).mMaxSeq = seq
      /\ InOrder(s, seq).mProbation = s.mProbation /\ InOrder(s, seq).mCycles = c
  BY <1>1, <1>2, FieldValues
<1> QED BY <1>3 DEF c

LEMMA NewSourceFields ==
    ASSUME NEW seq \in 0 .. SeqMod - 1
    PROVE  /\ NewSource(seq).known /\ NewSource(seq).mCycles = 0
           /\ NewSource(seq).mProbation = MinSequential
<1> DEFINE i == InitSeq(NoSource, seq)
           k == [i EXCEPT !.known = TRUE]
           before == (seq - 1) % SeqMod
<1>1. NoSource \in SourceState
  BY NumbersAssumption DEF NoSource, SourceState
<1>2. i \in SourceState /\ i.mCycles = 0
  BY <1>1, InitSeqFields
<1>3. k \in SourceState /\ k.known = TRUE /\ k.mCycles = 0
  BY <1>2 DEF SourceState
<1>4. NewSource(seq) = WithProbation(WithMaxSeq(k, before), MinSequential)
  BY DEF NewSource, WithProbation, WithMaxSeq
<1>5. before \in 0 .. SeqMod - 1
  BY NumbersAssumption
<1> HIDE DEF k, before
<1>6. /\ WithMaxSeq(k, before) \in SourceState /\ WithMaxSeq(k, before).known = TRUE
      /\ WithMaxSeq(k, before).mCycles = 0
  BY <1>3, <1>5, FieldTypes, FieldValues
<1> QED BY <1>4, <1>6, FieldValues

-----------------------------------------------------------------------------
(* What the packets are numbered with.                                      *)

\* Packets come that are fewer than kMaxMisorder behind the last one, and not so far
\* ahead of it that the jump would be a large one.
Punctual(p) ==
    newest > 0 => newest - p < MaxMisorder /\ p - newest <= MaxDropout - MaxMisorder

\* The source numbers packet p with p + c, n being the last that came.
Follows(s, n, c) ==
    /\ s.known
    /\ s.mProbation > 0 => s.mCycles = 0 /\ SeqNo(n) = n + c
    /\ s.mProbation = 0 =>
          \E q \in 1 .. n : /\ s.mMaxSeq = SeqNo(q) /\ n - q < MaxMisorder
                            /\ SeqNo(q) + s.mCycles = q + c

LEMMA UpdateSeqFields ==
    ASSUME NEW s \in SourceState, NEW seq \in 0 .. SeqMod - 1
    PROVE  /\ s.mProbation > 0 /\ s.mCycles = 0 =>
                 /\ UpdateSeq(s, seq).known = s.known
                 /\ UpdateSeq(s, seq).mMaxSeq = seq /\ UpdateSeq(s, seq).mCycles = 0
           /\ s.mProbation = 0 /\ Delta(s, seq) < MaxDropout =>
                 /\ UpdateSeq(s, seq).known = s.known
                 /\ UpdateSeq(s, seq).mMaxSeq = seq /\ UpdateSeq(s, seq).mProbation = 0
                 /\ UpdateSeq(s, seq).mCycles =
                       IF seq < s.mMaxSeq THEN s.mCycles + SeqMod ELSE s.mCycles
           /\ s.mProbation = 0 /\ Delta(s, seq) > SeqMod - MaxMisorder => UpdateSeq(s, seq) = s
<1>1. ASSUME s.mProbation > 0, s.mCycles = 0
      PROVE  /\ UpdateSeq(s, seq).known = s.known
             /\ UpdateSeq(s, seq).mMaxSeq = seq /\ UpdateSeq(s, seq).mCycles = 0
  <2>1. UpdateSeq(s, seq) = Probation(s, seq)
    BY <1>1 DEF UpdateSeq
  <2> QED BY <1>1, <2>1, ProbationFields
<1>2. ASSUME s.mProbation = 0, Delta(s, seq) < MaxDropout
      PROVE  /\ UpdateSeq(s, seq).known = s.known
             /\ UpdateSeq(s, seq).mMaxSeq = seq /\ UpdateSeq(s, seq).mProbation = 0
             /\ UpdateSeq(s, seq).mCycles =
                   IF seq < s.mMaxSeq THEN s.mCycles + SeqMod ELSE s.mCycles
  <2>1. UpdateSeq(s, seq) = InOrder(s, seq)
    BY <1>2 DEF UpdateSeq
  <2> QED BY <1>2, <2>1, InOrderFields
<1>3. ASSUME s.mProbation = 0, Delta(s, seq) > SeqMod - MaxMisorder
      PROVE  UpdateSeq(s, seq) = s
  <2>1. Delta(s, seq) \in Int
    BY NumbersAssumption DEF Delta, SourceState
  <2>2. ~(Delta(s, seq) < MaxDropout) /\ ~Jumps(s, seq)
    BY <1>3, <2>1, NumbersAssumption DEF Jumps
  <2> QED BY <1>3, <2>2 DEF UpdateSeq
<1> QED BY <1>1, <1>2, <1>3

LEMMA SourceFollowsOn ==
    ASSUME NetworkTypeOK, NEW s \in SourceState, NEW n \in Packets, NEW c \in Int, Follows(s, n, c),
           NEW p \in Packets, n - p < MaxMisorder, p - n <= MaxDropout - MaxMisorder,
           Cycle(p) = Cycle(n) \/ (Cycle(p) > Cycle(n) /\ s.mProbation = 0),
           NEW t, t = UpdateSeq(s, SeqNo(p)), t \in SourceState,
           NEW m, m = IF p > n THEN p ELSE n
    PROVE  /\ Follows(t, m, c)
           /\ s.mProbation > 0 => SeqNo(p) + s.mCycles = p + c
           /\ s.mProbation = 0 => SeqNo(p) + t.mCycles = p + c
<1>1. /\ SeqNo(p) \in 0 .. SeqMod - 1 /\ SeqNo(n) \in 0 .. SeqMod - 1
      /\ p \in Nat \ {0} /\ n \in Nat \ {0} /\ m \in Nat \ {0} /\ p <= m /\ n <= m
      /\ MaxDropout \in Nat /\ MaxMisorder \in Nat \ {0} /\ SeqMod \in Nat
      /\ MaxDropout + MaxMisorder <= SeqMod /\ s.mProbation \in Nat /\ t.mProbation \in Nat
      /\ s.mCycles \in Nat /\ t.mCycles \in Nat
  BY SequenceNumbers, NumbersAssumption, EnvironmentAssumption DEF Packets, SourceState
<1>2. m - p < MaxMisorder
  BY <1>1
<1>3. CASE s.mProbation > 0
  <2>1. s.mCycles = 0 /\ SeqNo(n) = n + c /\ Cycle(p) = Cycle(n) /\ s.known
    BY <1>1, <1>3 DEF Follows
  <2>2. SeqNo(p) - SeqNo(n) = p - n
    BY <2>1, NumbersDiffer
  <2>3. SeqNo(p) = p + c
    BY <1>1, <2>1, <2>2
  <2>4. t.known = s.known /\ t.mMaxSeq = SeqNo(p) /\ t.mCycles = 0
    <3>1. SeqNo(p) \in 0 .. SeqMod - 1 /\ s.mProbation > 0 /\ s.mCycles = 0
      BY <1>1, <1>3, <2>1
    <3> QED BY <3>1, UpdateSeqFields
  <2>5. SeqNo(m) = m + c
    BY <2>1, <2>3
  <2>6. p \in 1 .. m
    BY <1>1
  <2>7. Follows(t, m, c)
    <3>1. t.known /\ t.mCycles = 0
      BY <2>1, <2>4
    <3>2. SeqNo(p) + t.mCycles = p + c
      BY <1>1, <2>3, <2>4
    <3> QED BY <1>2, <2>4, <2>5, <2>6, <3>1, <3>2 DEF Follows
  <2> QED BY <1>1, <1>3, <2>1, <2>3, <2>7
<1>4. CASE s.mProbation = 0
  <2>1. PICK q \in 1 .. n : /\ s.mMaxSeq = SeqNo(q) /\ n - q < MaxMisorder
                            /\ SeqNo(q) + s.mCycles = q + c
    BY <1>4 DEF Follows
  <2>2. q \in Packets /\ q \in Nat /\ q <= n /\ SeqNo(q) \in 0 .. SeqMod - 1 /\ s.known
    BY <1>1, SequenceNumbers, EnvironmentAssumption DEF Packets, Follows
  <2>3. p - q < MaxDropout /\ p - q < SeqMod /\ q - p < MaxMisorder /\ q - p <= SeqMod
    BY <1>1, <2>1, <2>2
  <2>4. CASE p >= q
    <3>1. Delta(s, SeqNo(p)) = p - q
      BY <2>1, <2>2, <2>3, <2>4, DeltaIs
    <3>2. /\ t.known = s.known /\ t.mMaxSeq = SeqNo(p) /\ t.mProbation = 0
          /\ t.mCycles = IF SeqNo(p) < SeqNo(q) THEN s.mCycles + SeqMod ELSE s.mCycles
      BY <1>1, <1>4, <2>1, <2>3, <3>1, UpdateSeqFields
    <3>3. /\ SeqNo(p) >= SeqNo(q) => SeqNo(p) - SeqNo(q) = p - q
          /\ SeqNo(p) < SeqNo(q) => SeqNo(p) - SeqNo(q) = (p - q) - SeqMod
      BY <2>2, <2>3, <2>4, NumbersDiffer
    <3>4. SeqNo(p) + t.mCycles = p + c
      BY <1>1, <2>1, <2>2, <3>2, <3>3
    <3>5. p \in 1 .. m
      BY <1>1
    <3>6. Follows(t, m, c)
      BY <1>2, <2>2, <3>2, <3>4, <3>5 DEF Follows
    <3> QED BY <1>4, <3>4, <3>6
  <2>5. CASE p < q
    <3>1. Cycle(p) = Cycle(q)
      <4>1. p <= q /\ q <= n
        BY <1>1, <2>2, <2>5
      <4>2. Cycle(p) <= Cycle(q) /\ Cycle(q) <= Cycle(n)
        BY <2>2, <4>1, NumbersDiffer
      <4>3. Cycle(p) \in Int /\ Cycle(q) \in Int /\ Cycle(n) \in Int
        BY <2>2, NumbersAssumption, EnvironmentAssumption DEF Cycle, NetworkTypeOK, Packets
      <4> QED BY <4>2, <4>3
    <3>2. Delta(s, SeqNo(p)) = SeqMod + p - q
      BY <2>1, <2>2, <2>3, <2>5, <3>1, DeltaIs
    <3>3. Delta(s, SeqNo(p)) > SeqMod - MaxMisorder
      BY <1>1, <2>2, <2>3, <3>2
    <3>4. t = s
      BY <1>1, <1>4, <3>3, UpdateSeqFields
    <3>5. SeqNo(p) - SeqNo(q) = p - q
      BY <2>2, <3>1, NumbersDiffer
    <3>6. SeqNo(p) + s.mCycles = p + c
      BY <1>1, <2>1, <2>2, <3>5
    <3>7. m = n
      BY <1>1, <2>2, <2>5
    <3> QED BY <1>4, <3>4, <3>6, <3>7
  <2> QED BY <1>1, <2>2, <2>4, <2>5
<1> QED BY <1>1, <1>3, <1>4

-----------------------------------------------------------------------------
(* The packets are numbered in the order they were sent.                    *)

\* Packet p has the extended number p + c, wherever it is.
RightNumbers(c)  == {n \in Numbered : n.ext = n.packet + c}
RightMessages(c) == {m \in SinkMessage : m.what = "QueueBuffer" => m.ext = m.packet + c}
QueuedRightly(c) == inbox \in Seq(RightMessages(c)) /\ mPackets \in Seq(RightNumbers(c))
ReturnedRightly(c) == mDequeued => mLastDequeuedExtSeqNo = LastPut + c

NumbersInv ==
    \/ newest = 0 /\ source = NoSource /\ \A c \in Int : QueuedRightly(c) /\ ReturnedRightly(c)
    \/ newest > 0 /\ \E c \in Int : /\ Follows(source, newest, c)
                                    /\ QueuedRightly(c) /\ ReturnedRightly(c)

LEMMA QueuedStays ==
    ASSUME TypeOK, NEW c \in Int, QueuedRightly(c), [Next]_vars,
           (\A p \in Packets : ~Arrive(p)) \/ UNCHANGED vars
    PROVE  QueuedRightly(c)'
<1> DEFINE M == RightMessages(c)
           T == RightNumbers(c)
<1>1. inbox \in Seq(M) /\ mPackets \in Seq(T) /\ inbox \in Seq(SinkMessage)
  BY DEF QueuedRightly, TypeOK, SinkTypeOK
<1>2. inbox # <<>> => Head(inbox) \in M /\ Tail(inbox) \in Seq(M)
  BY <1>1
<1>3. CASE QueueBuffer
  <2> DEFINE m == Head(inbox)
             n == [packet |-> m.packet, ext |-> m.ext]
  <2>1. inbox # <<>> /\ m.what = "QueueBuffer" /\ inbox' = Tail(inbox) /\ mPackets' = Inserted(n)
    BY <1>3 DEF QueueBuffer
  <2>2. m \in SinkMessage /\ m.ext = m.packet + c
    BY <1>2, <2>1 DEF RightMessages
  <2>3. m.packet \in Packets /\ m.ext \in Nat
    BY <2>1, <2>2 DEF SinkMessage
  <2>4. n \in T
    BY <2>2, <2>3 DEF RightNumbers, Numbered
  <2> HIDE DEF n, T
  <2>5. Inserted(n) \in Seq(T)
    BY <1>1, <2>4, InsertedType
  <2> QED BY <1>2, <2>1, <2>5 DEF QueuedRightly, T
<1>4. ASSUME NEW t \in Threads, Work(t)
      PROVE  QueuedRightly(c)'
  <2>1. Fresh \in Seq(T) /\ (Fresh # <<>> => Tail(Fresh) \in Seq(T))
    BY <1>1, FreshType
  <2>2. mPackets' \in {mPackets, Fresh} \/ (Fresh # <<>> /\ mPackets' = Tail(Fresh))
    BY <1>4 DEF Work, Lock, NoIndexLeft, FindsNothing, ReturnsNext, FirstFailure, Waits, GivesUp,
      ReturnsNothing, Returns, rendererVars, NextIsThere, NextIsMissing
  <2>3. mPackets' \in Seq(T)
    BY <1>1, <2>1, <2>2
  <2>4. inbox' \in Seq(M)
    <3> DEFINE lost == LostMsg((mLastDequeuedExtSeqNo + 1) % SeqMod)
    <3>1. inbox' = inbox \/ inbox' = Append(inbox, lost)
      BY <1>4 DEF Work, Lock, NoIndexLeft, FindsNothing, ReturnsNext, FirstFailure, Waits, GivesUp,
        ReturnsNothing, Returns, sinkVars
    <3>2. (mLastDequeuedExtSeqNo + 1) % SeqMod \in Nat
      <4>1. mLastDequeuedExtSeqNo + 1 \in Nat /\ SeqMod \in Nat \ {0}
        BY NumbersAssumption DEF TypeOK, RendererTypeOK
      <4> QED BY <4>1
    <3>3. lost \in M
      BY <3>2 DEF LostMsg, SinkMessage, RightMessages
    <3> HIDE DEF lost, M
    <3> QED BY <1>1, <3>1, <3>3
  <2> QED BY <2>3, <2>4 DEF QueuedRightly
<1>5. CASE PacketLost
  <2>1. inbox # <<>> /\ inbox' = Tail(inbox) /\ mPackets' = mPackets
    BY <1>5 DEF PacketLost, rendererVars
  <2> QED BY <1>1, <1>2, <2>1 DEF QueuedRightly
<1>6. CASE Lose \/ AttemptAges \/ OnBufferAvailable \/ ListenerNext \/ ReaderNext \/ UNCHANGED vars
  <2>1. inbox' = inbox /\ mPackets' = mPackets
    BY <1>6 DEF Lose, AttemptAges, OnBufferAvailable, ListenerNext, Start, ListenerQueues, ReaderNext,
      OnReadBuffer, ReadsDiscontinuity, ReadsPacket, ReadingEnds, vars, sinkVars, rendererVars
  <2> QED BY <1>1, <2>1 DEF QueuedRightly
<1> QED BY <1>3, <1>4, <1>5, <1>6 DEF Next, NetworkNext, LooperNext, BinderNext, Threads

\* A packet that is returned is later than what was put on the line before it.
LEMMA ReturnIsLater ==
    ASSUME TypeOK, LineInv, NEW c \in Int, QueuedRightly(c), ReturnedRightly(c),
           NEW t \in Threads, ReturnsNext(t) \/ GivesUp(t)
    PROVE  /\ ReturnsLater /\ Head(Fresh).ext = Head(Fresh).packet + c
           /\ mLastDequeuedExtSeqNo' = Head(Fresh).ext
<1>1. Returns(t) /\ Fresh # <<>>
  BY DEF ReturnsNext, GivesUp, NextIsMissing, NextIsThere
<1> DEFINE h == Head(Fresh)
<1>2. h \in RightNumbers(c) /\ h \in Later(mLastDequeuedExtSeqNo)
  BY <1>1, FreshType DEF QueuedRightly
<1>3. h.packet \in Nat \ {0} /\ h.ext \in Nat /\ h.ext = h.packet + c /\ h.ext > mLastDequeuedExtSeqNo
  BY <1>2 DEF RightNumbers, Later, Numbered, Packets
<1>4. LastPut \in Int
  <2>1. Line \in Seq(Entry) /\ parsed \in [packet : 0 .. NumPackets, chunk : 1 .. Chunks]
    BY LineTypes
  <2>2. parsed.packet \in Int
    BY <2>1
  <2>3. ASSUME Line # <<>>
        PROVE  Line[Len(Line)].packet \in Int
    <3>1. Line[Len(Line)] \in Entry
      BY <2>1, <2>3
    <3> QED BY <3>1, EntryFields
  <2> QED BY <2>2, <2>3 DEF LastPut, LastOf
<1>5. h.packet > LastPut
  <2>1. CASE mDequeued
    <3>1. mLastDequeuedExtSeqNo = LastPut + c
      BY <2>1 DEF ReturnedRightly
    <3> QED BY <1>3, <1>4, <3>1
  <2>2. CASE ~mDequeued
    <3>1. Phase = "empty"
      BY <2>2 DEF Phase
    <3>2. Line = <<>> /\ parsed = Unparsed
      BY <3>1 DEF LineInv, LineOK
    <3>3. LastPut = 0
      BY <3>2 DEF LastPut, LastOf, Unparsed
    <3> QED BY <1>3, <3>3
  <2> QED BY <2>1, <2>2
<1>6. mLastDequeuedExtSeqNo' = h.ext
  BY <1>1 DEF Returns
<1> QED BY <1>3, <1>5, <1>6 DEF ReturnsLater

LEMMA NumbersLead ==
    ASSUME TypeOK, LineInv, NEW c \in Int, QueuedRightly(c), ReturnedRightly(c), [Next]_vars
    PROVE  /\ LineInv' /\ ReturnedRightly(c)'
           /\ Delivery!Next \/ UNCHANGED <<synchronised, parsed>>
<1>1. CASE \E t \in Threads : ReturnsNext(t) \/ GivesUp(t)
  <2>1. /\ ReturnsLater /\ Head(Fresh).ext = Head(Fresh).packet + c
        /\ mLastDequeuedExtSeqNo' = Head(Fresh).ext
    BY <1>1, ReturnIsLater
  <2>2. /\ LineInv' /\ mDequeued' /\ LastPut' = Head(Fresh).packet
        /\ UNCHANGED <<synchronised, parsed>>
    BY <2>1, ReturnsLaterKeepsLine
  <2> QED BY <2>1, <2>2 DEF ReturnedRightly
<1>2. CASE ~\E t \in Threads : ReturnsNext(t) \/ GivesUp(t)
  <2>1. /\ LineInv' /\ LastPut' = LastPut /\ UNCHANGED mDequeued
        /\ Delivery!Next \/ UNCHANGED <<synchronised, parsed>>
    BY <1>2, NextLine DEF ReturnsLater
  <2>2. ASSUME NEW t \in Threads, Work(t)
        PROVE  UNCHANGED mLastDequeuedExtSeqNo
    BY <1>2, <2>2 DEF Work, Lock, NoIndexLeft, FindsNothing, FirstFailure, Waits, ReturnsNothing, rendererVars
  <2>3. ASSUME \/ NetworkNext \/ AttemptAges \/ PacketLost \/ QueueBuffer \/ OnBufferAvailable
               \/ ListenerNext \/ ReaderNext \/ UNCHANGED vars
        PROVE  UNCHANGED mLastDequeuedExtSeqNo
    BY <2>3 DEF NetworkNext, Lose, Arrive, AttemptAges, PacketLost, QueueBuffer, OnBufferAvailable,
      ListenerNext, Start, ListenerQueues, ReaderNext, OnReadBuffer, ReadsDiscontinuity, ReadsPacket,
      ReadingEnds, vars, rendererVars
  <2>4. UNCHANGED mLastDequeuedExtSeqNo
    BY <2>2, <2>3 DEF Next, LooperNext, BinderNext, Threads
  <2> QED BY <2>1, <2>4 DEF ReturnedRightly
<1> QED BY <1>1, <1>2

LEMMA ArrivalIsNumbered ==
    ASSUME TypeOK, TypeOK', NumbersInv, NEW p \in Packets, Arrive(p), WrapsWell(p), Punctual(p)
    PROVE  /\ newest' > 0
           /\ \E c \in Int : /\ QueuedRightly(c) /\ ReturnedRightly(c)
                             /\ Follows(source, newest, c)' /\ QueuedRightly(c)'
<1> DEFINE seq == SeqNo(p)
           e == seq + IF source.mProbation > 0 THEN source.mCycles ELSE source'.mCycles
<1>1. /\ newest' = IF p > newest THEN p ELSE newest
      /\ source' = IF source.known THEN UpdateSeq(source, seq) ELSE NewSource(seq)
      /\ inbox' = inbox \/ inbox' = Append(inbox, QueueMsg(p, e))
      /\ first' = first /\ mPackets' = mPackets
  BY DEF Arrive, rendererVars
<1>2. /\ NetworkTypeOK /\ source \in SourceState /\ source' \in SourceState
      /\ first \in Nat /\ newest \in Nat /\ p \in Nat \ {0} /\ seq \in 0 .. SeqMod - 1
      /\ newest <= NumPackets /\ NumPackets \in Nat
  BY NumbersAssumption, EnvironmentAssumption, SequenceNumbers DEF TypeOK, NetworkTypeOK, SinkTypeOK, Packets
<1>3. newest' > 0 /\ newest' \in Nat
  BY <1>1, <1>2
<1> HIDE DEF e, seq
<1>4. ASSUME NEW c \in Int, QueuedRightly(c), e = p + c
      PROVE  QueuedRightly(c)'
  <2>1. e \in Nat
    <3>1. source.mCycles \in Nat /\ source'.mCycles \in Nat
      BY <1>2 DEF SourceState
    <3> QED BY <1>2, <3>1 DEF e
  <2>2. QueueMsg(p, e) \in RightMessages(c)
    BY <1>4, <2>1 DEF QueueMsg, RightMessages, SinkMessage
  <2> QED BY <1>1, <1>4, <2>2 DEF QueuedRightly
<1>5. ASSUME NEW c \in Int, Follows(source', newest', c)
      PROVE  Follows(source, newest, c)'
  BY <1>1, <1>5 DEF Follows, SeqNo
<1>6. CASE newest = 0
  <2> DEFINE c == seq - p
  <2>1. /\ source = NoSource /\ c \in Int
    BY <1>2, <1>6 DEF NumbersInv
  <2> HIDE DEF c
  <2>2. QueuedRightly(c) /\ ReturnedRightly(c)
    BY <1>6, <2>1 DEF NumbersInv
  <2>3. ~source.known /\ ~(source.mProbation > 0)
    BY <2>1 DEF NoSource
  <2>4. /\ source'.known /\ source'.mCycles = 0 /\ source'.mProbation = MinSequential
    BY <1>1, <1>2, <2>3, NewSourceFields
  <2>5. newest' = p /\ seq = p + c
    BY <1>1, <1>2, <1>6 DEF c
  <2>6. e = p + c
    BY <1>2, <2>3, <2>4, <2>5 DEF e
  <2>7. Follows(source', newest', c)
    BY <2>4, <2>5, NumbersAssumption DEF Follows, seq
  <2> QED BY <1>3, <1>4, <1>5, <2>1, <2>2, <2>6, <2>7
<1>7. CASE newest > 0
  <2>1. PICK c \in Int : Follows(source, newest, c) /\ QueuedRightly(c) /\ ReturnedRightly(c)
    BY <1>7 DEF NumbersInv
  <2>2. source.known /\ source' = UpdateSeq(source, seq) /\ newest \in Packets
    BY <1>1, <1>2, <1>7, <2>1 DEF Follows, Packets
  <2>3. newest - p < MaxMisorder /\ p - newest <= MaxDropout - MaxMisorder
    BY <1>7 DEF Punctual
  <2>4. Cycle(p) = Cycle(newest) \/ (Cycle(p) > Cycle(newest) /\ source.mProbation = 0)
    BY <1>1, <1>2, <1>7 DEF WrapsWell
  <2>5. /\ Follows(source', newest', c)
        /\ source.mProbation > 0 => seq + source.mCycles = p + c
        /\ source.mProbation = 0 => seq + source'.mCycles = p + c
    BY <1>1, <1>2, <2>1, <2>2, <2>3, <2>4, SourceFollowsOn DEF seq
  <2>6. source.mProbation \in Nat
    BY <1>2, NumbersAssumption DEF SourceState
  <2>7. e = p + c
    BY <2>5, <2>6 DEF e
  <2> QED BY <1>3, <1>4, <1>5, <2>1, <2>5, <2>7
<1> QED BY <1>2, <1>6, <1>7

LEMMA NextNumbers ==
    ASSUME TypeOK, TypeOK', LineInv, NumbersInv, [Next]_vars,
           (\A p \in Packets : Arrive(p) => WrapsWell(p) /\ Punctual(p)) \/ UNCHANGED vars
    PROVE  /\ LineInv' /\ NumbersInv'
           /\ Delivery!Next \/ UNCHANGED <<synchronised, parsed>>
<1>1. CASE \E p \in Packets : Arrive(p) /\ WrapsWell(p) /\ Punctual(p)
  <2>1. PICK p \in Packets : Arrive(p) /\ WrapsWell(p) /\ Punctual(p)
    BY <1>1
  <2>2. /\ newest' > 0
        /\ \E c \in Int : /\ QueuedRightly(c) /\ ReturnedRightly(c)
                          /\ Follows(source, newest, c)' /\ QueuedRightly(c)'
    BY <2>1, ArrivalIsNumbered
  <2>3. PICK c \in Int : /\ QueuedRightly(c) /\ ReturnedRightly(c)
                         /\ Follows(source, newest, c)' /\ QueuedRightly(c)'
    BY <2>2
  <2>4. /\ LineInv' /\ ReturnedRightly(c)'
        /\ Delivery!Next \/ UNCHANGED <<synchronised, parsed>>
    BY <2>3, NumbersLead
  <2>5. NumbersInv'
    BY <2>2, <2>3, <2>4 DEF NumbersInv
  <2> QED BY <2>4, <2>5
<1>2. CASE (\A p \in Packets : ~Arrive(p)) \/ UNCHANGED vars
  <2>1. ASSUME NEW c \in Int, QueuedRightly(c), ReturnedRightly(c)
        PROVE  /\ LineInv' /\ QueuedRightly(c)' /\ ReturnedRightly(c)'
               /\ Delivery!Next \/ UNCHANGED <<synchronised, parsed>>
    BY <1>2, <2>1, QueuedStays, NumbersLead
  <2>2. UNCHANGED <<first, newest, source>>
    BY <1>2 DEF Next, NetworkNext, Lose, AttemptAges, LooperNext, BinderNext, PacketLost, QueueBuffer,
      OnBufferAvailable, Work, Lock, NoIndexLeft, FindsNothing, ReturnsNext, FirstFailure, Waits, GivesUp,
      ReturnsNothing, Returns, ListenerNext, Start, ListenerQueues, ReaderNext, OnReadBuffer,
      ReadsDiscontinuity, ReadsPacket, ReadingEnds, vars, networkVars, sinkVars
  <2>3. CASE newest = 0
    <3>1. 0 \in Int /\ source = NoSource /\ \A c \in Int : QueuedRightly(c) /\ ReturnedRightly(c)
      BY <2>3 DEF NumbersInv
    <3>2. NumbersInv'
      BY <2>1, <2>2, <2>3, <3>1 DEF NumbersInv
    <3> QED BY <2>1, <3>1, <3>2
  <2>4. CASE newest # 0
    <3>1. PICK c \in Int : Follows(source, newest, c) /\ QueuedRightly(c) /\ ReturnedRightly(c)
      BY <2>4 DEF NumbersInv
    <3>2. Follows(source, newest, c)'
      BY <2>2, <3>1 DEF Follows, SeqNo
    <3>3. newest' > 0
      BY <2>2, <2>4 DEF NumbersInv
    <3> QED BY <2>1, <3>1, <3>2, <3>3 DEF NumbersInv
  <2> QED BY <2>3, <2>4
<1> QED BY <1>1, <1>2

LEMMA InitNumbers == Init => NumbersInv
<1> SUFFICES ASSUME Init PROVE NumbersInv
  OBVIOUS
<1>1. inbox = <<>> /\ mPackets = <<>> /\ ~mDequeued /\ newest = 0 /\ source = NoSource
  BY DEF Init
<1>2. \A c \in Int : <<>> \in Seq(RightMessages(c)) /\ <<>> \in Seq(RightNumbers(c))
  OBVIOUS
<1> QED BY <1>1, <1>2 DEF NumbersInv, QueuedRightly, ReturnedRightly

\* No packet comes too late or too early.
ArrivesInTime == \A p \in Packets : Arrive(p) => Punctual(p)

LEMMA OrderlyStep ==
    ASSUME TypeOK, TypeOK', wrapsWell, LineInv, NumbersInv, [Next]_vars, [ArrivesInTime]_vars
    PROVE  /\ wrapsWell' => LineInv' /\ NumbersInv'
           /\ Delivery!Next \/ UNCHANGED <<synchronised, parsed>>
<1>1. CASE \E p \in Packets : Arrive(p) /\ ~WrapsWell(p)
  <2>1. PICK p \in Packets : Arrive(p) /\ ~WrapsWell(p)
    BY <1>1
  <2>2. ~wrapsWell' /\ UNCHANGED <<synchronised, parsed>>
    BY <2>1 DEF Arrive, readerVars
  <2> QED BY <2>2
<1>2. CASE ~\E p \in Packets : Arrive(p) /\ ~WrapsWell(p)
  <2>1. (\A p \in Packets : Arrive(p) => WrapsWell(p) /\ Punctual(p)) \/ UNCHANGED vars
    BY <1>2 DEF ArrivesInTime
  <2> QED BY <2>1, NextNumbers
<1> QED BY <1>1, <1>2

\* As long as every packet that has come did WrapsWell, and each comes in time, the
\* parser is fed what was sent, in order, each packet whole and once: RTPSink,
\* TunnelRenderer, StreamSource, the listener and the reader together implement
\* TransportStream.
THEOREM DeliversPunctualPackets == Spec /\ [][ArrivesInTime]_vars => DeliversInOrder
<1> DEFINE Inv == TypeOK /\ (wrapsWell => LineInv /\ NumbersInv)
           DeliversStep == wrapsWell => Delivery!Next
<1>1. Init => Inv /\ Delivery!Init
  BY InitTypeOK, InitLine, InitNumbers DEF Init, Delivery!Init
<1>2. ASSUME Inv, [Next]_vars, [ArrivesInTime]_vars
      PROVE  Inv' /\ [DeliversStep]_(Delivery!vars)
  <2>1. TypeOK /\ TypeOK'
    BY <1>2, NextTypeOK
  <2>2. wrapsWell' => wrapsWell
    <3>1. ASSUME NEW p \in Packets, Arrive(p)
          PROVE  wrapsWell' => wrapsWell
      BY <3>1 DEF Arrive
    <3>2. (\A p \in Packets : ~Arrive(p)) => UNCHANGED wrapsWell
      BY <1>2 DEF Next, NetworkNext, Lose, AttemptAges, LooperNext, BinderNext, PacketLost, QueueBuffer,
        OnBufferAvailable, Work, Lock, NoIndexLeft, FindsNothing, ReturnsNext, FirstFailure, Waits,
        GivesUp, ReturnsNothing, Returns, ListenerNext, Start, ListenerQueues, ReaderNext, OnReadBuffer,
        ReadsDiscontinuity, ReadsPacket, ReadingEnds, vars, networkVars
    <3> QED BY <3>1, <3>2
  <2>3. ASSUME wrapsWell
        PROVE  /\ wrapsWell' => LineInv' /\ NumbersInv'
               /\ Delivery!Next \/ UNCHANGED <<synchronised, parsed>>
    <3>1. LineInv /\ NumbersInv
      BY <1>2, <2>3
    <3> QED BY <1>2, <2>1, <2>3, <3>1, OrderlyStep
  <2> QED BY <2>1, <2>2, <2>3 DEF Delivery!vars
<1>3. Spec /\ [][ArrivesInTime]_vars => Delivery!Init /\ [][DeliversStep]_(Delivery!vars)
  BY <1>1, <1>2, PTL DEF Spec
<1> QED BY <1>3 DEF DeliversInOrder
=============================================================================
