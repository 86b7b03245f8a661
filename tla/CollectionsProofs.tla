-------------------------- MODULE CollectionsProofs --------------------------
(***************************************************************************)
(* What the operations of Collections return, and facts of sequences and   *)
(* loops that the proofs about several components use.                     *)
(***************************************************************************)
EXTENDS Collections, Sequences, SequencesExt, SequenceTheorems, FiniteSetTheorems, WellFoundedInduction, TLAPS

\* A rank is a position.
LEMMA RankType ==
  ASSUME NEW S \in SUBSET Int, IsFiniteSet(S), NEW t \in S
  PROVE  PlaceOf(S, t) \in 1 .. Cardinality(S)
<1> DEFINE below == {u \in S : u <= t}
<1>1. below \in SUBSET S /\ t \in below
  OBVIOUS
<1>2. /\ IsFiniteSet(below)
      /\ Cardinality(below) \in Nat
      /\ Cardinality(below) <= Cardinality(S)
      /\ Cardinality(S) \in Nat
      /\ Cardinality(below) = 0 <=> below = {}
  BY <1>1, FS_Subset, FS_CardinalityType, FS_EmptySet
<1> QED
  BY <1>1, <1>2 DEF PlaceOf

\* A larger number has a larger rank.
LEMMA RankGrows ==
  ASSUME NEW S \in SUBSET Int, IsFiniteSet(S), NEW t \in S, NEW u \in S, t < u
  PROVE  PlaceOf(S, t) < PlaceOf(S, u)
<1> DEFINE belowT == {v \in S : v <= t}
           belowU == {v \in S : v <= u}
<1>1. belowT \in SUBSET belowU /\ belowU \in SUBSET S /\ belowT # belowU
  <2>1. u \in belowU /\ u \notin belowT
    OBVIOUS
  <2>2. \A v \in S : v <= t => v <= u
    OBVIOUS
  <2> QED
    BY <2>1, <2>2
<1>2. IsFiniteSet(belowU) /\ Cardinality(belowU) \in Nat
  BY <1>1, FS_Subset, FS_CardinalityType
<1>3. /\ IsFiniteSet(belowT) /\ Cardinality(belowT) \in Nat
      /\ Cardinality(belowT) <= Cardinality(belowU)
      /\ Cardinality(belowU) = Cardinality(belowT) => belowU = belowT
  BY <1>1, <1>2, FS_Subset, FS_CardinalityType
<1> QED
  BY <1>1, <1>2, <1>3 DEF PlaceOf

\* Every position is the rank of a number of the set.
LEMMA RankIsOnto ==
  ASSUME NEW S \in SUBSET Int, IsFiniteSet(S), NEW n \in 1 .. Cardinality(S)
  PROVE  \E t \in S : PlaceOf(S, t) = n
<1> DEFINE rank == [t \in S |-> PlaceOf(S, t)]
           positions == 1 .. Cardinality(S)
<1>1. Cardinality(S) \in Nat
  BY FS_CardinalityType
<1>2. IsFiniteSet(positions) /\ Cardinality(positions) = Cardinality(S)
  BY <1>1, FS_Interval
<1>3. rank \in Injection(S, positions)
  <2>1. rank \in [S -> positions]
    BY RankType
  <2>2. ASSUME NEW t \in S, NEW u \in S, rank[t] = rank[u]
        PROVE  t = u
    BY <1>1, <2>2, RankType, RankGrows
  <2> QED
    BY <2>1, <2>2 DEF Injection, IsInjective
<1>4. rank \in Surjection(S, positions)
  BY <1>2, <1>3, FS_Injection
<1> QED
  BY <1>4 DEF Surjection

\* InOrder lists the set once, in order.
EnumeratesInOrder(list, S) ==
  /\ list \in [1 .. Cardinality(S) -> S]
  /\ \A t \in S : \E i \in 1 .. Cardinality(S) : list[i] = t
  /\ \A i, j \in 1 .. Cardinality(S) : i < j => list[i] < list[j]

\* InOrder lists every number of a finite set once, in increasing order.
LEMMA InOrderEnumerates ==
  ASSUME NEW S \in SUBSET Int, IsFiniteSet(S)
  PROVE  /\ EnumeratesInOrder(InOrder(S), S)
         /\ InOrder(S) \in Seq(S)
         /\ Len(InOrder(S)) = Cardinality(S)
<1>1. Cardinality(S) \in Nat
  BY FS_CardinalityType
<1>2. ASSUME NEW i \in 1 .. Cardinality(S)
      PROVE  InOrder(S)[i] \in S /\ PlaceOf(S, InOrder(S)[i]) = i
  BY RankIsOnto DEF InOrder
<1>3. InOrder(S) \in [1 .. Cardinality(S) -> S]
  BY <1>2 DEF InOrder
<1>4. ASSUME NEW t \in S, NEW u \in S, PlaceOf(S, t) = PlaceOf(S, u)
      PROVE  t = u
  BY <1>1, <1>4, RankType, RankGrows
<1>5. \A t \in S : \E i \in 1 .. Cardinality(S) : InOrder(S)[i] = t
  BY <1>2, <1>4, RankType
<1>6. ASSUME NEW i \in 1 .. Cardinality(S), NEW j \in 1 .. Cardinality(S), i < j
      PROVE  InOrder(S)[i] < InOrder(S)[j]
  <2>1. /\ InOrder(S)[i] \in S /\ InOrder(S)[j] \in S
        /\ PlaceOf(S, InOrder(S)[i]) = i /\ PlaceOf(S, InOrder(S)[j]) = j
    BY <1>2
  <2> DEFINE low == InOrder(S)[i]
             high == InOrder(S)[j]
  <2> HIDE DEF low, high
  <2>2. low \in S /\ high \in S /\ PlaceOf(S, low) = i /\ PlaceOf(S, high) = j
    BY <2>1 DEF low, high
  <2>3. i \in Int /\ j \in Int /\ low \in Int /\ high \in Int
    BY <2>2
  <2>4. low # high
    BY <1>6, <2>2, <2>3
  <2>5. ~(high < low)
    BY <1>6, <2>2, <2>3, RankGrows
  <2>6. low < high
    BY <2>3, <2>4, <2>5
  <2> QED
    BY <2>6 DEF low, high
<1>7. InOrder(S) \in Seq(S) /\ Len(InOrder(S)) = Cardinality(S)
  BY <1>1, <1>3
<1> QED
  BY <1>3, <1>5, <1>6, <1>7 DEF EnumeratesInOrder

-----------------------------------------------------------------------------
(* Loops that go up                                                        *)

LEMMA LeastNatural ==
  ASSUME NEW S \in SUBSET Nat, S # {}
  PROVE  \E x \in S : \A y \in S : x <= y
<1>1. IsWellFoundedOn(OpToRel(<, Nat), Nat)
  BY NatLessThanWellFounded
<1>2. PICK x \in S : \A y \in S : ~(<<y, x>> \in OpToRel(<, Nat))
  BY <1>1, WFMin
<1>3. ASSUME NEW y \in S PROVE x <= y
  <2>1. ~(y < x)
    BY <1>2 DEF OpToRel
  <2>2. x \in Nat /\ y \in Nat
    OBVIOUS
  <2> QED
    BY <2>1, <2>2
<1> QED
  BY <1>3

LEMMA CountingUp ==
  ASSUME NEW m \in Nat, NEW n \in Nat, NEW S, m \in S,
         \A i \in m .. n - 1 : i \in S => i + 1 \in S
  PROVE  m .. n \subseteq S
<1> DEFINE missing == (m .. n) \ S
<1> SUFFICES ASSUME missing # {} PROVE FALSE
  OBVIOUS
<1>1. missing \in SUBSET Nat
  OBVIOUS
<1>2. PICK x \in missing : \A y \in missing : x <= y
  BY <1>1, LeastNatural
<1>3. x \in m .. n /\ x # m /\ x - 1 \in m .. n - 1
  BY <1>2
<1>4. x - 1 \in S
  BY <1>2, <1>3
<1>5. (x - 1) + 1 \in S
  BY <1>3, <1>4
<1> QED
  BY <1>2, <1>3, <1>5

\* A loop over m .. n that makes one T of another has a value at each turn.
Loop(T, m, n, first, step) ==
  m \in Nat /\ n \in Nat /\ m <= n /\ first \in T /\ step \in [m + 1 .. n -> [T -> T]]

Turns(T, m, n, first, step) ==
  {f \in [m .. n -> T] : f[m] = first /\ \A i \in m + 1 .. n : f[i] = step[i][f[i - 1]]}

LEMMA Iterates ==
  ASSUME NEW T, NEW m, NEW n, NEW first, NEW step, Loop(T, m, n, first, step)
  PROVE  Turns(T, m, n, first, step) # {}
<1> DEFINE Runs(k) == \E f \in [m .. k -> T] :
                        f[m] = first /\ \A i \in m + 1 .. k : f[i] = step[i][f[i - 1]]
           S == {k \in m .. n : Runs(k)}
<1> USE DEF Loop
<1>1. m \in S
  <2> DEFINE f == [i \in m .. m |-> first]
  <2>1. f \in [m .. m -> T] /\ f[m] = first /\ m \in m .. n
    OBVIOUS
  <2>2. \A i \in m + 1 .. m : f[i] = step[i][f[i - 1]]
    OBVIOUS
  <2> HIDE DEF f
  <2>3. Runs(m)
    BY <2>1, <2>2
  <2> QED
    BY <2>1, <2>3
<1>2. ASSUME NEW k \in m .. n - 1, k \in S
      PROVE  k + 1 \in S
  <2>1. PICK f \in [m .. k -> T] :
          f[m] = first /\ \A i \in m + 1 .. k : f[i] = step[i][f[i - 1]]
    BY <1>2
  <2> DEFINE g == [i \in m .. k + 1 |-> IF i = k + 1 THEN step[k + 1][f[k]] ELSE f[i]]
  <2>2. k + 1 \in m + 1 .. n /\ k \in m .. k /\ step[k + 1] \in [T -> T]
    BY <1>2
  <2>3. step[k + 1][f[k]] \in T
    BY <2>1, <2>2
  <2>4. \A i \in m .. k + 1 : i # k + 1 => i \in m .. k
    BY <1>2
  <2>5. g \in [m .. k + 1 -> T]
    BY <2>3, <2>4
  <2>6. \A i \in m .. k : g[i] = f[i]
    BY <1>2
  <2>7. g[m] = first
    BY <2>1, <2>6
  <2>8. g[k + 1] = step[k + 1][f[k]]
    BY <1>2
  <2> HIDE DEF g
  <2>9. \A i \in m + 1 .. k + 1 : g[i] = step[i][g[i - 1]]
    <3>1. ASSUME NEW i \in m + 1 .. k + 1, i # k + 1 PROVE g[i] = step[i][g[i - 1]]
      BY <1>2, <2>1, <2>6, <3>1
    <3>2. g[k + 1] = step[k + 1][g[(k + 1) - 1]]
      BY <1>2, <2>2, <2>6, <2>8
    <3> QED
      BY <3>1, <3>2
  <2> QED
    BY <1>2, <2>2, <2>5, <2>7, <2>9
<1> HIDE DEF S
<1>3. n \in S
  <2>1. m .. n \subseteq S
    BY <1>1, <1>2, CountingUp
  <2> QED
    BY <2>1
<1> QED
  BY <1>3 DEF S, Turns

-----------------------------------------------------------------------------
(* Sequences that rise, and queues                                         *)

In(queue) == {queue[i] : i \in 1 .. Len(queue)}

Rising(queue) == \A i, j \in 1 .. Len(queue) : i < j => queue[i] < queue[j]

\* pop_front takes the least.
LEMMA PopFacts ==
  ASSUME NEW S \in SUBSET Nat, NEW queue \in Seq(S), queue # <<>>, Rising(queue)
  PROVE  /\ Head(queue) \in S /\ Head(queue) = queue[1] /\ Head(queue) \in In(queue)
         /\ Tail(queue) \in Seq(S) /\ Rising(Tail(queue)) /\ Len(Tail(queue)) < Len(queue)
         /\ In(Tail(queue)) = In(queue) \ {Head(queue)}
         /\ \A t \in In(Tail(queue)) : Head(queue) < t
<1>1. /\ Len(queue) \in Nat \ {0} /\ Head(queue) \in S /\ Head(queue) = queue[1]
      /\ Tail(queue) \in Seq(S) /\ Len(Tail(queue)) = Len(queue) - 1
      /\ \A i \in 1 .. Len(Tail(queue)) : Tail(queue)[i] = queue[i + 1]
  BY EmptySeq, HeadTailProperties
<1> DEFINE rest == Tail(queue)
<1>2. \A i \in 1 .. Len(queue) : queue[i] \in S /\ queue[i] \in Nat
  BY ElementOfSeq
<1> HIDE DEF rest
<1>3. /\ Len(rest) = Len(queue) - 1
      /\ \A i \in 1 .. Len(rest) : rest[i] = queue[i + 1] /\ i + 1 \in 1 .. Len(queue)
  BY <1>1 DEF rest
<1>4. 1 \in 1 .. Len(queue) /\ Head(queue) \in In(queue)
  BY <1>1 DEF In
<1>5. Rising(rest)
  BY <1>1, <1>3 DEF Rising
<1>6. \A t \in In(rest) : Head(queue) < t
  BY <1>1, <1>3, <1>4 DEF In, Rising
<1>7. In(rest) \subseteq In(queue)
  BY <1>3 DEF In
<1>8. In(queue) \ {Head(queue)} \subseteq In(rest)
  <2> SUFFICES ASSUME NEW i \in 1 .. Len(queue), queue[i] # Head(queue)
               PROVE  queue[i] \in In(rest)
    BY DEF In
  <2>1. i # 1 /\ i - 1 \in 1 .. Len(rest)
    BY <1>1, <1>3
  <2>2. queue[i] = rest[i - 1]
    BY <1>3, <2>1
  <2> QED
    BY <2>1, <2>2 DEF In
<1>9. Head(queue) \notin In(rest)
  BY <1>1, <1>2, <1>6
<1> QED
  BY <1>1, <1>4, <1>5, <1>6, <1>7, <1>8, <1>9 DEF rest

\* push_back of the greatest.
LEMMA PushFacts ==
  ASSUME NEW S \in SUBSET Nat, NEW queue \in Seq(S), Rising(queue), NEW s \in Nat,
         \A t \in In(queue) : t < s
  PROVE  /\ Append(queue, s) \in Seq(S \cup {s}) /\ Rising(Append(queue, s))
         /\ In(Append(queue, s)) = In(queue) \cup {s}
<1>1. queue \in Seq(S \cup {s}) /\ Len(queue) \in Nat
  BY SeqMonotonic, LenProperties
<1> DEFINE longer == Append(queue, s)
           n == Len(queue)
<1>2. /\ longer \in Seq(S \cup {s}) /\ Len(longer) = n + 1
      /\ \A i \in 1 .. n : longer[i] = queue[i]
      /\ longer[n + 1] = s
  BY <1>1, AppendProperties
<1> HIDE DEF longer
<1>3. \A i \in 1 .. Len(longer) : i \in 1 .. n \/ i = n + 1
  BY <1>1, <1>2
<1>4. Rising(longer)
  BY <1>1, <1>2, <1>3 DEF Rising, In
<1>5. In(longer) = In(queue) \cup {s}
  BY <1>1, <1>2, <1>3 DEF In
<1> QED
  BY <1>2, <1>4, <1>5 DEF longer

-----------------------------------------------------------------------------
(* Sequences joined                                                        *)

\* flat[i] is the first i of seqs, one after the other.
Joins(T, seqs, flat) ==
  /\ flat \in [1 .. Len(seqs) -> Seq(T)]
  /\ \A i \in 1 .. Len(seqs) : flat[i] = IF i = 1 THEN seqs[i] ELSE flat[i - 1] \o seqs[i]

\* The recursive function FlattenSeq is defined with has a value.
LEMMA FlattenFacts ==
  ASSUME NEW T, NEW seqs \in Seq(Seq(T)), seqs # <<>>
  PROVE  \E flat : Joins(T, seqs, flat) /\ FlattenSeq(seqs) = flat[Len(seqs)]
<1> DEFINE n == Len(seqs)
           Turn(f) == [i \in 1 .. n |-> IF i = 1 THEN seqs[i] ELSE f[i - 1] \o seqs[i]]
           f == CHOOSE g : g = Turn(g)
<1>1. n \in Nat /\ n >= 1 /\ n # 0 /\ 1 \in 1 .. n /\ \A i \in 1 .. n : seqs[i] \in Seq(T)
  BY EmptySeq, LenProperties, ElementOfSeq
<1>2. FlattenSeq(seqs) = f[n]
  BY <1>1 DEF FlattenSeq
<1> HIDE DEF n
<1>3. \E g : g = Turn(g) /\ Joins(T, seqs, g)
  <2> DEFINE S == Seq(T)
             first == seqs[1]
             step == [i \in 2 .. n |-> [list \in S |-> list \o seqs[i]]]
             m == 1
  <2>1. m = 1
    OBVIOUS
  <2>2. m \in Nat /\ n \in Nat /\ m <= n
    BY <1>1
  <2>3. first \in S
    BY <1>1
  <2>4. step \in [m + 1 .. n -> [S -> S]]
    <3>1. ASSUME NEW i \in m + 1 .. n, NEW list \in S
          PROVE  list \o seqs[i] \in S
      BY <1>1, <2>1, ConcatProperties
    <3> QED
      BY <3>1
  <2>5. \A i \in m + 1 .. n : \A list \in S : step[i][list] = list \o seqs[i]
    OBVIOUS
  <2> HIDE DEF first, step, m, S
  <2>6. Loop(S, m, n, first, step)
    BY <2>2, <2>3, <2>4 DEF Loop
  <2>7. Turns(S, m, n, first, step) # {}
    BY <2>6, Iterates
  <2>8. PICK g \in [m .. n -> S] :
          g[m] = first /\ \A i \in m + 1 .. n : g[i] = step[i][g[i - 1]]
    BY <2>7 DEF Turns
  <2>9. ASSUME NEW i \in 1 .. n
        PROVE  g[i] = IF i = 1 THEN seqs[i] ELSE g[i - 1] \o seqs[i]
    <3>1. CASE i = 1
      BY <2>1, <2>8, <3>1 DEF first
    <3>2. CASE i # 1
      <4>1. i \in m + 1 .. n /\ i - 1 \in 1 .. n
        BY <1>1, <2>1, <3>2
      <4>2. g[i - 1] \in S
        BY <2>1, <2>8, <4>1
      <4> QED
        BY <2>5, <2>8, <3>2, <4>1, <4>2
    <3> QED
      BY <3>1, <3>2
  <2>10. g = Turn(g) /\ g \in [1 .. n -> S]
    BY <2>1, <2>8, <2>9
  <2> QED
    BY <2>9, <2>10 DEF Joins, S, n
<1>4. f = Turn(f)
  BY <1>3
<1> HIDE DEF f
<1>5. \A i \in 1 .. n : f[i] = IF i = 1 THEN seqs[i] ELSE f[i - 1] \o seqs[i]
  BY <1>4
<1>6. f \in [1 .. n -> Seq(T)]
  <2> DEFINE S == {k \in 1 .. n : f[k] \in Seq(T)}
  <2>1. 1 \in S
    BY <1>1, <1>5
  <2>2. \A i \in 1 .. n - 1 : i \in S => i + 1 \in S
    <3> SUFFICES ASSUME NEW i \in 1 .. n - 1, f[i] \in Seq(T) PROVE i + 1 \in S
      OBVIOUS
    <3>1. i + 1 \in 1 .. n /\ i + 1 # 1 /\ (i + 1) - 1 = i
      BY <1>1
    <3>2. f[i + 1] = f[i] \o seqs[i + 1]
      BY <1>5, <3>1
    <3>3. seqs[i + 1] \in Seq(T)
      BY <1>1, <3>1
    <3>4. f[i] \o seqs[i + 1] \in Seq(T)
      BY <3>3, ConcatProperties
    <3> QED
      BY <3>1, <3>2, <3>4
  <2> DEFINE one == 1
  <2>3. one \in Nat /\ n \in Nat
    BY <1>1
  <2> HIDE DEF S
  <2>4. 1 .. n \subseteq S
    <3>1. one \in S /\ \A i \in one .. n - 1 : i \in S => i + 1 \in S
      BY <2>1, <2>2
    <3> HIDE DEF one
    <3>2. one .. n \subseteq S
      BY <2>3, <3>1, CountingUp
    <3> QED
      BY <3>2 DEF one
  <2> QED
    BY <1>4, <2>4 DEF S
<1> QED
  BY <1>2, <1>5, <1>6 DEF Joins, n

\* The list has the item somewhere.
Lists(list, x) == \E i \in 1 .. Len(list) : list[i] = x

LEMMA ListsConcat ==
  ASSUME NEW T, NEW s \in Seq(T), NEW t \in Seq(T), NEW x, Lists(s, x) \/ Lists(t, x)
  PROVE  Lists(s \o t, x)
<1> DEFINE both == s \o t
           m == Len(s)
           n == Len(t)
<1>1. /\ Len(both) = m + n /\ m \in Nat /\ n \in Nat
      /\ \A i \in 1 .. m + n : both[i] = IF i <= m THEN s[i] ELSE t[i - m]
  BY ConcatProperties, LenProperties
<1> HIDE DEF both
<1>2. CASE Lists(s, x)
  <2>1. PICK i \in 1 .. m : s[i] = x
    BY <1>2 DEF Lists
  <2>2. i \in 1 .. m + n /\ i <= m
    BY <1>1
  <2>3. both[i] = x
    BY <1>1, <2>1, <2>2
  <2> QED
    BY <1>1, <2>2, <2>3 DEF Lists, both
<1>3. CASE Lists(t, x)
  <2>1. PICK i \in 1 .. n : t[i] = x
    BY <1>3 DEF Lists
  <2> DEFINE k == m + i
  <2>2. k \in 1 .. m + n /\ ~(k <= m) /\ k - m = i
    BY <1>1
  <2> HIDE DEF k
  <2>3. both[k] = x
    BY <1>1, <2>1, <2>2
  <2> QED
    BY <1>1, <2>2, <2>3 DEF Lists, both
<1> QED
  BY <1>2, <1>3

\* What is in one of the sequences is in the sequence they make up.
LEMMA FlattenHolds ==
  ASSUME NEW T, NEW seqs \in Seq(Seq(T))
  PROVE  /\ FlattenSeq(seqs) \in Seq(T)
         /\ \A k \in 1 .. Len(seqs) : \A x : Lists(seqs[k], x) => Lists(FlattenSeq(seqs), x)
<1>1. CASE seqs = <<>>
  BY <1>1 DEF FlattenSeq
<1>2. CASE seqs # <<>>
  <2> DEFINE n == Len(seqs)
  <2>1. PICK flat : Joins(T, seqs, flat) /\ FlattenSeq(seqs) = flat[n]
    BY <1>2, FlattenFacts
  <2>2. /\ flat \in [1 .. n -> Seq(T)] /\ n \in Nat /\ n \in 1 .. n
        /\ \A i \in 1 .. n : flat[i] = IF i = 1 THEN seqs[i] ELSE flat[i - 1] \o seqs[i]
        /\ \A i \in 1 .. n : seqs[i] \in Seq(T)
    <3>1. n \in Nat /\ n # 0
      BY <1>2, EmptySeq, LenProperties
    <3>2. /\ flat \in [1 .. n -> Seq(T)]
          /\ \A i \in 1 .. n : flat[i] = IF i = 1 THEN seqs[i] ELSE flat[i - 1] \o seqs[i]
      BY <2>1 DEF Joins
    <3>3. \A i \in 1 .. n : seqs[i] \in Seq(T)
      BY ElementOfSeq
    <3> HIDE DEF n
    <3>4. n \in 1 .. n
      BY <3>1
    <3> QED
      BY <3>1, <3>2, <3>3, <3>4
  <2> HIDE DEF n
  <2>3. ASSUME NEW k \in 1 .. n, NEW x, Lists(seqs[k], x)
        PROVE  Lists(flat[n], x)
    <3> DEFINE S == {i \in 1 .. n : Lists(flat[i], x)}
    <3>1. k \in S
      <4>1. CASE k = 1
        BY <2>2, <2>3, <4>1
      <4>2. CASE k # 1
        <5>1. k - 1 \in 1 .. n
          BY <2>2, <4>2
        <5>2. flat[k - 1] \in Seq(T) /\ seqs[k] \in Seq(T)
          BY <2>2, <5>1
        <5>3. Lists(flat[k - 1] \o seqs[k], x)
          BY <2>3, <5>2, ListsConcat
        <5> QED
          BY <2>2, <4>2, <5>3
      <4> QED
        BY <4>1, <4>2
    <3>2. \A i \in k .. n - 1 : i \in S => i + 1 \in S
      <4>0. \A i \in k .. n - 1 : i + 1 \in 1 .. n
        BY <2>2
      <4> SUFFICES ASSUME NEW i \in k .. n - 1, Lists(flat[i], x)
                   PROVE  Lists(flat[i + 1], x)
        BY <4>0
      <4> DEFINE j == i + 1
      <4>1. i \in 1 .. n /\ j \in 1 .. n /\ j # 1 /\ j - 1 = i
        BY <2>2
      <4>2. flat[i] \in Seq(T) /\ seqs[j] \in Seq(T)
        BY <2>2, <4>1
      <4>3. flat[j] = flat[i] \o seqs[j]
        BY <2>2, <4>1
      <4> HIDE DEF j
      <4> QED
        BY <4>2, <4>3, ListsConcat DEF j
    <3> HIDE DEF S
    <3>3. k \in Nat /\ n \in Nat /\ n \in k .. n
      BY <2>2
    <3>4. k .. n \subseteq S
      BY <3>1, <3>2, <3>3, CountingUp
    <3>5. n \in S
      BY <3>3, <3>4
    <3> QED
      BY <3>5 DEF S
  <2>4. flat[n] \in Seq(T)
    BY <2>2
  <2> QED
    BY <2>1, <2>3, <2>4 DEF n
<1> QED
  BY <1>1, <1>2

-----------------------------------------------------------------------------
(* Lists of anything, and what is picked from them                         *)

IsList(s) == \E T : s \in Seq(T)

LEMMA ListFacts ==
  ASSUME NEW s, IsList(s)
  PROVE  /\ Len(s) \in Nat /\ DOMAIN s = 1 .. Len(s)
         /\ s # <<>> <=> Len(s) > 0
<1>1. PICK T : s \in Seq(T)
  BY DEF IsList
<1> QED
  BY <1>1, LenProperties, EmptySeq

LEMMA EmptyList ==
  IsList(<<>>) /\ Len(<<>>) = 0
BY EmptySeq DEF IsList

LEMMA AppendList ==
  ASSUME NEW s, IsList(s), NEW x
  PROVE  /\ IsList(Append(s, x)) /\ Len(Append(s, x)) = Len(s) + 1
         /\ \A i \in 1 .. Len(s) : Append(s, x)[i] = s[i]
         /\ Append(s, x)[Len(s) + 1] = x
<1>1. PICK T : s \in Seq(T)
  BY DEF IsList
<1> DEFINE U == T \cup {x}
<1>2. s \in Seq(U) /\ x \in U
  BY <1>1, SeqMonotonic
<1> HIDE DEF U
<1>3. Append(s, x) \in Seq(U)
  BY <1>2, AppendProperties
<1> QED
  BY <1>2, <1>3, AppendProperties DEF IsList

LEMMA TailList ==
  ASSUME NEW s, IsList(s), Len(s) > 0
  PROVE  /\ IsList(Tail(s)) /\ Len(Tail(s)) = Len(s) - 1
         /\ \A i \in 1 .. Len(s) - 1 : Tail(s)[i] = s[i + 1]
<1>1. PICK T : s \in Seq(T)
  BY DEF IsList
<1>2. s # <<>>
  BY ListFacts
<1> QED
  BY <1>1, <1>2, HeadTailProperties DEF IsList

LEMMA SubList ==
  ASSUME NEW s, IsList(s), NEW m \in 1 .. Len(s) + 1, NEW n \in m - 1 .. Len(s)
  PROVE  /\ IsList(SubSeq(s, m, n)) /\ Len(SubSeq(s, m, n)) = n - m + 1
         /\ \A i \in 1 .. n - m + 1 : SubSeq(s, m, n)[i] = s[m + i - 1]
<1>1. PICK T : s \in Seq(T)
  BY DEF IsList
<1>2. Len(s) \in Nat /\ \A i \in 1 .. Len(s) : s[i] \in T
  BY <1>1, LenProperties, ElementOfSeq
<1>3. m \in Int /\ n \in Int /\ \A i \in m .. n : s[i] \in T
  BY <1>2
<1>4. /\ SubSeq(s, m, n) \in Seq(T)
      /\ Len(SubSeq(s, m, n)) = IF m <= n THEN n - m + 1 ELSE 0
      /\ \A i \in 1 .. n - m + 1 : SubSeq(s, m, n)[i] = s[m + i - 1]
  BY <1>3, SubSeqProperties
<1> QED
  BY <1>2, <1>4 DEF IsList

\* One list behind another.
LEMMA ConcatList ==
  ASSUME NEW s, IsList(s), NEW t, IsList(t)
  PROVE  /\ IsList(s \o t) /\ Len(s \o t) = Len(s) + Len(t)
         /\ \A i \in 1 .. Len(s) + Len(t) : (s \o t)[i] = IF i <= Len(s) THEN s[i] ELSE t[i - Len(s)]
<1>1. PICK S : s \in Seq(S)
  BY DEF IsList
<1>2. PICK T : t \in Seq(T)
  BY DEF IsList
<1>3. s \in Seq(S \cup T) /\ t \in Seq(S \cup T)
  BY <1>1, <1>2, SeqMonotonic
<1>4. /\ s \o t \in Seq(S \cup T) /\ Len(s \o t) = Len(s) + Len(t)
      /\ \A i \in 1 .. Len(s) + Len(t) : (s \o t)[i] = IF i <= Len(s) THEN s[i] ELSE t[i - Len(s)]
  BY <1>3, ConcatProperties
<1> QED
  BY <1>4 DEF IsList

LEMMA InsertedList ==
  ASSUME NEW s, IsList(s), NEW k \in 1 .. Len(s) + 1, NEW x
  PROVE  /\ IsList(InsertAt(s, k, x)) /\ Len(InsertAt(s, k, x)) = Len(s) + 1
         /\ \A i \in 1 .. Len(s) + 1 :
              InsertAt(s, k, x)[i] = IF i < k THEN s[i] ELSE IF i = k THEN x ELSE s[i - 1]
<1> DEFINE n == Len(s)
           before == SubSeq(s, 1, k - 1)
           after == SubSeq(s, k, n)
           most == before \o <<x>>
           all == most \o after
<1>1. n \in Nat /\ k \in Nat /\ 1 <= k /\ k <= n + 1 /\ k - 1 \in 0 .. n /\ 1 \in 1 .. n + 1 /\ n \in k - 1 .. n
  BY ListFacts
<1>2. IsList(before) /\ Len(before) = k - 1 /\ \A i \in 1 .. k - 1 : before[i] = s[i]
  BY <1>1, SubList
<1>3. IsList(after) /\ Len(after) = n - k + 1 /\ \A i \in 1 .. n - k + 1 : after[i] = s[k + i - 1]
  BY <1>1, SubList
<1>4. IsList(<<x>>) /\ Len(<<x>>) = 1 /\ <<x>>[1] = x
  <2>1. <<x>> \in Seq({x})
    OBVIOUS
  <2> QED
    BY <2>1 DEF IsList
<1> HIDE DEF before, after
<1>5. IsList(most) /\ Len(most) = k /\ \A i \in 1 .. k : most[i] = IF i < k THEN s[i] ELSE x
  <2>1. /\ IsList(most) /\ Len(most) = (k - 1) + 1
        /\ \A i \in 1 .. (k - 1) + 1 : most[i] = IF i <= k - 1 THEN before[i] ELSE <<x>>[i - (k - 1)]
    BY <1>2, <1>4, ConcatList
  <2> HIDE DEF most
  <2>2. \A i \in 1 .. k : most[i] = IF i < k THEN s[i] ELSE x
    <3> SUFFICES ASSUME NEW i \in 1 .. k PROVE most[i] = IF i < k THEN s[i] ELSE x
      OBVIOUS
    <3>1. CASE i < k
      BY <1>1, <1>2, <2>1, <3>1
    <3>2. CASE i = k
      BY <1>1, <1>4, <2>1, <3>2
    <3> QED
      BY <1>1, <3>1, <3>2
  <2> QED
    BY <1>1, <2>1, <2>2
<1> HIDE DEF most
<1>6. /\ IsList(all) /\ Len(all) = k + (n - k + 1)
      /\ \A i \in 1 .. k + (n - k + 1) : all[i] = IF i <= k THEN most[i] ELSE after[i - k]
  <2>1. /\ IsList(all) /\ Len(all) = Len(most) + Len(after)
        /\ \A i \in 1 .. Len(most) + Len(after) :
             all[i] = IF i <= Len(most) THEN most[i] ELSE after[i - Len(most)]
    BY <1>3, <1>5, ConcatList
  <2> HIDE DEF all
  <2> QED
    BY <2>1, <1>3, <1>5
<1> HIDE DEF all
<1>7. ASSUME NEW i \in 1 .. n + 1
      PROVE  all[i] = IF i < k THEN s[i] ELSE IF i = k THEN x ELSE s[i - 1]
  <2>1. i \in 1 .. k + (n - k + 1) /\ i \in Nat
    BY <1>1
  <2>2. CASE i <= k
    BY <1>1, <1>5, <1>6, <2>1, <2>2
  <2>3. CASE i > k
    BY <1>1, <1>3, <1>6, <2>1, <2>3
  <2> QED
    BY <1>1, <2>1, <2>2, <2>3
<1>8. InsertAt(s, k, x) = all
  BY DEF InsertAt, all, most, before, after
<1> HIDE DEF n
<1>9. /\ IsList(InsertAt(s, k, x)) /\ Len(InsertAt(s, k, x)) = n + 1
      /\ \A i \in 1 .. n + 1 : InsertAt(s, k, x)[i] = IF i < k THEN s[i] ELSE IF i = k THEN x ELSE s[i - 1]
  BY <1>1, <1>6, <1>7, <1>8
<1> QED
  BY <1>9 DEF n

LEMMA RemovedList ==
  ASSUME NEW s, IsList(s), NEW k \in 1 .. Len(s)
  PROVE  /\ IsList(RemoveAt(s, k)) /\ Len(RemoveAt(s, k)) = Len(s) - 1
         /\ \A i \in 1 .. Len(s) - 1 : RemoveAt(s, k)[i] = IF i < k THEN s[i] ELSE s[i + 1]
<1> DEFINE n == Len(s)
           before == SubSeq(s, 1, k - 1)
           after == SubSeq(s, k + 1, n)
           all == before \o after
<1>1. /\ n \in Nat /\ k \in Nat /\ 1 <= k /\ k <= n /\ k - 1 \in 0 .. n /\ 1 \in 1 .. n + 1
      /\ k + 1 \in 1 .. n + 1 /\ n \in (k + 1) - 1 .. n
  BY ListFacts
<1>2. IsList(before) /\ Len(before) = k - 1 /\ \A i \in 1 .. k - 1 : before[i] = s[i]
  BY <1>1, SubList
<1>3. IsList(after) /\ Len(after) = n - (k + 1) + 1 /\ \A i \in 1 .. n - (k + 1) + 1 : after[i] = s[(k + 1) + i - 1]
  BY <1>1, SubList
<1>4. Len(after) = n - k /\ \A i \in 1 .. n - k : after[i] = s[k + i]
  BY <1>1, <1>3
<1> HIDE DEF before, after
<1>5. /\ IsList(all) /\ Len(all) = (k - 1) + (n - k)
      /\ \A i \in 1 .. (k - 1) + (n - k) : all[i] = IF i <= k - 1 THEN before[i] ELSE after[i - (k - 1)]
  <2>1. /\ IsList(all) /\ Len(all) = Len(before) + Len(after)
        /\ \A i \in 1 .. Len(before) + Len(after) :
             all[i] = IF i <= Len(before) THEN before[i] ELSE after[i - Len(before)]
    BY <1>2, <1>3, <1>4, ConcatList
  <2> HIDE DEF all
  <2> QED
    BY <2>1, <1>2, <1>3, <1>4
<1> HIDE DEF all
<1>6. ASSUME NEW i \in 1 .. n - 1
      PROVE  all[i] = IF i < k THEN s[i] ELSE s[i + 1]
  <2>1. i \in 1 .. (k - 1) + (n - k)
    BY <1>1
  <2>2. CASE i < k
    BY SMTT(30), <1>1, <1>2, <1>5, <2>1, <2>2
  <2>3. CASE i >= k
    BY <1>1, <1>4, <1>5, <2>1, <2>3
  <2> QED
    BY <1>1, <2>1, <2>2, <2>3
<1>7. RemoveAt(s, k) = all
  BY DEF RemoveAt, all, before, after
<1> HIDE DEF n
<1>8. /\ IsList(RemoveAt(s, k)) /\ Len(RemoveAt(s, k)) = n - 1
      /\ \A i \in 1 .. n - 1 : RemoveAt(s, k)[i] = IF i < k THEN s[i] ELSE s[i + 1]
  <2>1. (k - 1) + (n - k) = n - 1
    BY <1>1
  <2> QED
    BY <1>5, <1>6, <1>7, <2>1
<1> QED
  BY <1>8 DEF n

\* retain and filter keep items of the list, in its order.

\* Items of a list at rising places of S.
PicksFrom(list, S, picked, places) ==
  /\ places \in [1 .. Len(picked) -> S]
  /\ \A n \in 1 .. Len(picked) : picked[n] = list[places[n]]
  /\ \A n, m \in 1 .. Len(picked) : n < m => places[n] < places[m]

LEMMA PickedFacts ==
  ASSUME NEW T, NEW list \in Seq(T), NEW S \in SUBSET (1 .. Len(list))
  PROVE  /\ Picked(list, S) \in Seq(T)
         /\ Len(Picked(list, S)) <= Len(list)
         /\ \E places : PicksFrom(list, S, Picked(list, S), places)
<1> DEFINE places == InOrder(S)
           k == Len(places)
           picked == [n \in 1 .. k |-> list[places[n]]]
<1>1. Picked(list, S) = picked
  BY DEF Picked
<1>2. /\ Len(list) \in Nat /\ S \in SUBSET Int
      /\ \A i \in 1 .. Len(list) : list[i] \in T
  BY LenProperties, ElementOfSeq
<1>3. /\ IsFiniteSet(1 .. Len(list)) /\ Cardinality(1 .. Len(list)) = Len(list)
  <2> DEFINE first == 1
             last == Len(list)
  <2>1. first \in Int /\ last \in Int /\ last >= 0
    BY <1>2
  <2>2. /\ IsFiniteSet(first .. last)
        /\ Cardinality(first .. last) = IF first > last THEN 0 ELSE last - first + 1
    <3> HIDE DEF first, last
    <3> QED
      BY <2>1, FS_Interval
  <2> QED
    BY <2>1, <2>2
<1>4. IsFiniteSet(S) /\ Cardinality(S) <= Len(list)
  BY <1>3, FS_Subset
<1>5. EnumeratesInOrder(places, S) /\ places \in Seq(S) /\ k = Cardinality(S)
  BY <1>2, <1>4, InOrderEnumerates
<1>6. k \in Nat
  BY <1>5, LenProperties
<1>7. /\ places \in [1 .. k -> S]
      /\ \A n, m \in 1 .. k : n < m => places[n] < places[m]
  BY <1>5 DEF EnumeratesInOrder
<1> HIDE DEF places, k
<1>8. picked \in Seq(T) /\ Len(picked) = k
  <2>1. \A n \in 1 .. k : list[places[n]] \in T
    BY <1>2, <1>7
  <2> QED
    BY <1>6, <2>1
<1>9. \A n \in 1 .. k : picked[n] = list[places[n]]
  OBVIOUS
<1> HIDE DEF picked
<1>10. PicksFrom(list, S, picked, places)
  BY <1>7, <1>8, <1>9 DEF PicksFrom
<1> QED
  BY <1>1, <1>4, <1>5, <1>8, <1>10

LEMMA PickedList ==
  ASSUME NEW list, IsList(list), NEW S \in SUBSET DOMAIN list
  PROVE  /\ IsList(Picked(list, S))
         /\ Len(Picked(list, S)) <= Len(list)
         /\ \E places : PicksFrom(list, S, Picked(list, S), places)
<1>1. PICK T : list \in Seq(T)
  BY DEF IsList
<1>2. S \in SUBSET (1 .. Len(list))
  BY ListFacts
<1> QED
  BY <1>1, <1>2, PickedFacts DEF IsList

\* Places in a list of n for m items, in order.
Rise(places, n, m) ==
  /\ n \in Nat /\ m \in Nat /\ places \in [1 .. m -> 1 .. n]
  /\ \A a, b \in 1 .. m : a < b => places[a] < places[b]

\* Everything is picked that is to be.
PicksAll(list, S, picked, places) ==
  /\ Rise(places, Len(list), Len(picked))
  /\ \A a \in 1 .. Len(picked) : picked[a] = list[places[a]] /\ places[a] \in S
  /\ \A i \in S : \E a \in 1 .. Len(picked) : places[a] = i

LEMMA PickedRise ==
  ASSUME NEW list, IsList(list), NEW S \in SUBSET DOMAIN list
  PROVE  /\ IsList(Picked(list, S))
         /\ \E places : PicksAll(list, S, Picked(list, S), places)
<1> DEFINE places == InOrder(S)
           k == Len(places)
           n == Len(list)
           picked == [a \in 1 .. k |-> list[places[a]]]
<1>1. Picked(list, S) = picked
  BY DEF Picked
<1>2. IsList(Picked(list, S))
  BY PickedList
<1>3. n \in Nat /\ S \in SUBSET (1 .. n)
  BY ListFacts
<1>4. IsFiniteSet(1 .. n)
  <2> DEFINE first == 1
  <2>1. first \in Int /\ n \in Int
    BY <1>3
  <2>2. IsFiniteSet(first .. n)
    <3> HIDE DEF first, n
    <3> QED
      BY <2>1, FS_Interval
  <2> QED
    BY <2>2
<1>5. IsFiniteSet(S) /\ S \in SUBSET Int
  BY <1>3, <1>4, FS_Subset
<1>6. EnumeratesInOrder(places, S) /\ k = Cardinality(S) /\ k \in Nat
  BY <1>5, InOrderEnumerates, FS_CardinalityType
<1>7. /\ places \in [1 .. k -> S] /\ \A t \in S : \E i \in 1 .. k : places[i] = t
      /\ \A i, j \in 1 .. k : i < j => places[i] < places[j]
  BY <1>6 DEF EnumeratesInOrder
<1> HIDE DEF places, k, n
<1>8. Len(picked) = k /\ \A a \in 1 .. k : picked[a] = list[places[a]]
  BY <1>6
<1> HIDE DEF picked
<1>9. Rise(places, n, k)
  BY <1>3, <1>6, <1>7 DEF Rise
<1>10. PicksAll(list, S, picked, places)
  BY <1>7, <1>8, <1>9 DEF PicksAll, n
<1> QED
  BY <1>1, <1>2, <1>10

-----------------------------------------------------------------------------
(* Sets by an order                                                        *)

IsTotalOrder(S, order) ==
  /\ \A a, b \in S : <<a, b>> \in order \/ <<b, a>> \in order
  /\ \A a, b \in S : <<a, b>> \in order /\ <<b, a>> \in order => a = b
  /\ \A a, b, c \in S : <<a, b>> \in order /\ <<b, c>> \in order => <<a, c>> \in order

RankBy(S, order, t) == Cardinality({u \in S : <<u, t>> \in order})

LEMMA RankByGrows ==
  ASSUME NEW S, IsFiniteSet(S), NEW order, IsTotalOrder(S, order), NEW t \in S
  PROVE  /\ RankBy(S, order, t) \in 1 .. Cardinality(S)
         /\ \A u \in S : u # t /\ <<t, u>> \in order => RankBy(S, order, t) < RankBy(S, order, u)
<1> DEFINE upTo(u) == {v \in S : <<v, u>> \in order}
<1>1. ASSUME NEW u \in S
      PROVE  /\ IsFiniteSet(upTo(u)) /\ Cardinality(upTo(u)) \in Nat
             /\ Cardinality(upTo(u)) <= Cardinality(S) /\ RankBy(S, order, u) = Cardinality(upTo(u))
  <2>1. upTo(u) \in SUBSET S
    OBVIOUS
  <2>2. RankBy(S, order, u) = Cardinality(upTo(u))
    BY DEF RankBy
  <2> HIDE DEF upTo
  <2> QED
    BY <2>1, <2>2, FS_Subset, FS_CardinalityType
<1>2. Cardinality(S) \in Nat
  BY FS_CardinalityType
<1>3. RankBy(S, order, t) \in 1 .. Cardinality(S)
  <2>1. t \in upTo(t)
    BY DEF IsTotalOrder
  <2> HIDE DEF upTo
  <2>2. Cardinality(upTo(t)) # 0
    BY <1>1, <2>1, FS_EmptySet
  <2> QED
    BY <1>1, <1>2, <2>2
<1>4. ASSUME NEW u \in S, u # t, <<t, u>> \in order
      PROVE  RankBy(S, order, t) < RankBy(S, order, u)
  <2>1. upTo(t) \in SUBSET upTo(u)
    BY <1>4 DEF IsTotalOrder
  <2>2. u \in upTo(u) /\ u \notin upTo(t)
    BY <1>4 DEF IsTotalOrder
  <2> HIDE DEF upTo
  <2>3. /\ Cardinality(upTo(t)) <= Cardinality(upTo(u))
        /\ Cardinality(upTo(u)) = Cardinality(upTo(t)) => upTo(u) = upTo(t)
    BY <1>1, <2>1, FS_Subset
  <2> QED
    BY <1>1, <2>2, <2>3
<1> QED
  BY <1>3, <1>4

LEMMA RankByIsOnto ==
  ASSUME NEW S, IsFiniteSet(S), NEW order, IsTotalOrder(S, order), NEW n \in 1 .. Cardinality(S)
  PROVE  \E t \in S : RankBy(S, order, t) = n
<1> DEFINE place == [t \in S |-> RankBy(S, order, t)]
           places == 1 .. Cardinality(S)
           first == 1
           last == Cardinality(S)
<1>1. first \in Int /\ last \in Int /\ last >= 0
  BY FS_CardinalityType
<1>2. IsFiniteSet(places) /\ Cardinality(places) = Cardinality(S)
  <2>1. IsFiniteSet(first .. last) /\ Cardinality(first .. last) = IF first > last THEN 0 ELSE last - first + 1
    <3> HIDE DEF first, last
    <3> QED
      BY <1>1, FS_Interval
  <2> QED
    BY <1>1, <2>1
<1>3. place \in Injection(S, places)
  <2>1. place \in [S -> places]
    BY RankByGrows
  <2>2. ASSUME NEW t \in S, NEW u \in S, place[t] = place[u]
        PROVE  t = u
    <3>1. SUFFICES ASSUME t # u
                   PROVE  FALSE
      OBVIOUS
    <3>2. RankBy(S, order, t) = RankBy(S, order, u)
      BY <2>2
    <3>3. RankBy(S, order, t) \in 1 .. last
      BY RankByGrows
    <3>4. <<t, u>> \in order \/ <<u, t>> \in order
      BY DEF IsTotalOrder
    <3>5. RankBy(S, order, t) < RankBy(S, order, u) \/ RankBy(S, order, u) < RankBy(S, order, t)
      BY <3>1, <3>4, RankByGrows
    <3> QED
      BY <3>2, <3>3, <3>5
  <2> QED
    BY <2>1, <2>2 DEF Injection, IsInjective
<1> HIDE DEF places
<1>4. place \in Surjection(S, places)
  BY <1>2, <1>3, FS_Injection
<1> QED
  BY <1>4 DEF Surjection, places

EnumeratesBy(list, S, order) ==
  /\ list \in [1 .. Cardinality(S) -> S]
  /\ \A t \in S : \E i \in 1 .. Cardinality(S) : list[i] = t
  /\ \A i, j \in 1 .. Cardinality(S) : i < j => list[i] # list[j] /\ <<list[i], list[j]>> \in order

\* InOrderBy lists every member of a finite set once, by the order.
LEMMA InOrderByEnumerates ==
  ASSUME NEW S, IsFiniteSet(S), NEW order, IsTotalOrder(S, order)
  PROVE  /\ EnumeratesBy(InOrderBy(S, order), S, order)
         /\ InOrderBy(S, order) \in Seq(S)
         /\ Len(InOrderBy(S, order)) = Cardinality(S)
<1> DEFINE n == Cardinality(S)
           list == InOrderBy(S, order)
<1>1. n \in Nat
  BY FS_CardinalityType
<1>2. \A i \in 1 .. n : list[i] \in S /\ RankBy(S, order, list[i]) = i
  <2> SUFFICES ASSUME NEW i \in 1 .. n
               PROVE  list[i] \in S /\ RankBy(S, order, list[i]) = i
    OBVIOUS
  <2>1. list[i] = CHOOSE t \in S : RankBy(S, order, t) = i
    BY DEF InOrderBy, RankBy
  <2> HIDE DEF list
  <2>2. \E t \in S : RankBy(S, order, t) = i
    BY RankByIsOnto
  <2> QED
    BY <2>1, <2>2
<1>3. list \in [1 .. n -> S]
  BY <1>2 DEF InOrderBy
<1>4. ASSUME NEW t \in S, NEW u \in S, RankBy(S, order, t) = RankBy(S, order, u)
      PROVE  t = u
  <2>1. RankBy(S, order, t) \in 1 .. n
    BY RankByGrows
  <2>2. <<t, u>> \in order \/ <<u, t>> \in order
    BY DEF IsTotalOrder
  <2>3. t # u => RankBy(S, order, t) < RankBy(S, order, u) \/ RankBy(S, order, u) < RankBy(S, order, t)
    BY <2>2, RankByGrows
  <2> QED
    BY <1>1, <1>4, <2>1, <2>3
<1>5. \A t \in S : \E i \in 1 .. n : list[i] = t
  <2> SUFFICES ASSUME NEW t \in S
               PROVE  \E i \in 1 .. n : list[i] = t
    OBVIOUS
  <2> DEFINE i == RankBy(S, order, t)
  <2>1. i \in 1 .. n
    BY RankByGrows
  <2>2. list[i] \in S /\ RankBy(S, order, list[i]) = i
    BY <1>2, <2>1
  <2> QED
    BY <1>4, <2>1, <2>2
<1>6. ASSUME NEW i \in 1 .. n, NEW j \in 1 .. n, i < j
      PROVE  list[i] # list[j] /\ <<list[i], list[j]>> \in order
  <2> DEFINE a == list[i]
             b == list[j]
  <2>1. a \in S /\ b \in S /\ RankBy(S, order, a) = i /\ RankBy(S, order, b) = j
    BY <1>2
  <2> HIDE DEF a, b
  <2>2. a # b
    BY <1>6, <2>1
  <2>3. ~(<<b, a>> \in order)
    BY <1>6, <2>1, <2>2, RankByGrows
  <2>4. <<a, b>> \in order
    BY <2>1, <2>3 DEF IsTotalOrder
  <2> QED
    BY <2>2, <2>4 DEF a, b
<1> HIDE DEF list
<1>7. list \in Seq(S) /\ Len(list) = n
  BY <1>1, <1>3
<1>8. EnumeratesBy(list, S, order)
  BY <1>3, <1>5, <1>6 DEF EnumeratesBy
<1> QED
  BY <1>7, <1>8 DEF list
=============================================================================
