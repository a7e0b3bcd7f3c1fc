---------------------------- MODULE SequenceProofs ----------------------------
(***************************************************************************)
(* What is proved of the components that sort, join and walk sequences: of *)
(* the cache of speech and its marks (Speech), of the takes of the         *)
(* annotation studio and their export (Studio), and of the revisions of    *)
(* the schema (Migrations).                                                *)
(*                                                                         *)
(* First, for all, what is sorted and what is joined.  The library's      *)
(* induction theorems are about an operator; a set of naturals does        *)
(* instead (InductiveSet), and that each set of them has a least one       *)
(* follows from the order of the finite sets, which the library has.       *)
(***************************************************************************)
EXTENDS Speech, Studio, Migrations, FiniteSetTheorems, SequenceTheorems, WellFoundedInduction, TLAPS

-----------------------------------------------------------------------------
(* Induction, without a predicate as a parameter.                          *)

LEMMA LeastOf ==
    ASSUME NEW T, T \subseteq Nat, T # {}
    PROVE  \E n \in T : \A m \in T : n <= m
<1> DEFINE F == {0 .. n : n \in T}
<1>1. IsWellFoundedOn(StrictSubsetOrdering(Nat), FiniteSubsetsOf(Nat))
  BY FS_StrictSubsetOrderingWellFounded
<1>2. F \subseteq FiniteSubsetsOf(Nat) /\ F # {}
  <2>1. ASSUME NEW n \in T
        PROVE  0 .. n \in FiniteSubsetsOf(Nat)
    <3>1. IsFiniteSet(0 .. n)
      BY FS_Interval
    <3>2. 0 .. n \subseteq Nat
      OBVIOUS
    <3> QED
      BY <3>1, <3>2 DEF FiniteSubsetsOf
  <2> QED
    BY <2>1
<1>3. PICK X \in F : \A Y \in F : <<Y, X>> \notin StrictSubsetOrdering(Nat)
  <2> HIDE DEF F
  <2> QED
    BY <1>1, <1>2, WFMin
<1>4. PICK n \in T : X = 0 .. n
  OBVIOUS
<1>5. ASSUME NEW m \in T, m < n
      PROVE  FALSE
  <2>1. 0 .. m \in F
    OBVIOUS
  <2>2. 0 .. m \subseteq 0 .. n /\ n \notin 0 .. m /\ n \in 0 .. n
    BY <1>5
  <2>3. <<0 .. m, 0 .. n>> \in StrictSubsetOrdering(Nat)
    BY <2>2 DEF StrictSubsetOrdering
  <2> QED
    BY <2>1, <2>3, <1>3, <1>4
<1> QED
  BY <1>5

LEMMA InductiveSet ==
    ASSUME NEW S, 0 \in S, \A n \in Nat : n \in S => n + 1 \in S
    PROVE  Nat \subseteq S
<1> SUFFICES ASSUME Nat \ S # {}
             PROVE  FALSE
  OBVIOUS
<1>1. PICK n \in Nat \ S : \A m \in Nat \ S : n <= m
  BY LeastOf
<1>2. n # 0
  OBVIOUS
<1>3. n - 1 \in Nat /\ n - 1 \in S
  BY <1>1, <1>2
<1> QED
  BY <1>3, <1>1

LEMMA MinOf ==
    ASSUME NEW T, T \subseteq Nat, T # {}
    PROVE  Min(T) \in T /\ \A m \in T : Min(T) <= m
BY LeastOf, Zenon DEF Min

LEMMA MinOfTwo ==
    ASSUME NEW m \in Nat, NEW n \in Nat
    PROVE  /\ Min({m, n}) \in {m, n}
           /\ Min({m, n}) <= m /\ Min({m, n}) <= n
BY MinOf

-----------------------------------------------------------------------------
(* What is sorted.                                                         *)

LEMMA SortedByKeys ==
    ASSUME NEW S, IsFiniteSet(S), NEW key, \A x \in S : key[x] \in Nat,
           \A x, y \in S : key[x] = key[y] => x = y
    PROVE  /\ SortedBy(S, key) \in [1 .. Cardinality(S) -> S]
           /\ \A i, j \in 1 .. Cardinality(S) : i < j => key[SortedBy(S, key)[i]] < key[SortedBy(S, key)[j]]
           /\ \A x \in S : \E i \in 1 .. Cardinality(S) : SortedBy(S, key)[i] = x
           /\ Cardinality(S) \in Nat
<1> DEFINE N == Cardinality(S)
           Upto(x) == {y \in S : key[y] <= key[x]}
           rank == [x \in S |-> Cardinality(Upto(x))]
           s == SortedBy(S, key)
<1>1. N \in Nat
  BY FS_CardinalityType
<1>2. \A x \in S : IsFiniteSet(Upto(x)) /\ Cardinality(Upto(x)) \in Nat /\ Cardinality(Upto(x)) <= N
  BY FS_Subset, FS_CardinalityType
<1>3. ASSUME NEW x \in S
      PROVE  Cardinality(Upto(x)) # 0
  <2>1. x \in Upto(x)
    OBVIOUS
  <2> HIDE DEF Upto
  <2> QED
    BY <2>1, <1>2, FS_EmptySet
<1>4. \A x, y \in S : key[x] < key[y] => rank[x] < rank[y]
  <2> SUFFICES ASSUME NEW x \in S, NEW y \in S, key[x] < key[y]
               PROVE  Cardinality(Upto(x)) < Cardinality(Upto(y))
    OBVIOUS
  <2>1. Upto(x) \in SUBSET Upto(y)
    OBVIOUS
  <2>2. y \in Upto(y) /\ y \notin Upto(x)
    OBVIOUS
  <2> HIDE DEF Upto
  <2>3. /\ Cardinality(Upto(x)) <= Cardinality(Upto(y))
        /\ Cardinality(Upto(x)) = Cardinality(Upto(y)) => Upto(x) = Upto(y)
    BY <2>1, <1>2, FS_Subset
  <2> QED
    BY <2>2, <2>3, <1>2
<1>5. rank \in [S -> 1 .. N]
  BY <1>1, <1>2, <1>3
<1> HIDE DEF rank
<1>6. \A x, y \in S : rank[x] = rank[y] => x = y
  <2> SUFFICES ASSUME NEW x \in S, NEW y \in S, rank[x] = rank[y], x # y
               PROVE  FALSE
    OBVIOUS
  <2>1. key[x] < key[y] \/ key[y] < key[x]
    OBVIOUS
  <2>2. rank[x] \in Nat /\ rank[y] \in Nat
    BY <1>5, <1>1
  <2> QED
    BY <2>1, <2>2, <1>4
<1>7. \A k \in 1 .. N : \E x \in S : rank[x] = k
  <2>1. rank \in Injection(S, 1 .. N)
    BY <1>5, <1>6 DEF Injection, IsInjective
  <2>2. IsFiniteSet(1 .. N) /\ Cardinality(1 .. N) = N
    BY <1>1, FS_Interval
  <2>3. rank \in Surjection(S, 1 .. N)
    BY <2>1, <2>2, FS_Injection
  <2> QED
    BY <2>3 DEF Surjection
<1>8. s = [k \in 1 .. N |-> CHOOSE x \in S : Cardinality(Upto(x)) = k]
  BY DEF SortedBy
<1> HIDE DEF s
<1>9. ASSUME NEW k \in 1 .. N
      PROVE  s[k] \in S /\ rank[s[k]] = k
  <2>1. s[k] = CHOOSE x \in S : Cardinality(Upto(x)) = k
    BY <1>8
  <2>2. \A x \in S : rank[x] = Cardinality(Upto(x))
    BY DEF rank
  <2>3. \E x \in S : Cardinality(Upto(x)) = k
    BY <1>7, <2>2, ZenonT(30)
  <2> HIDE DEF Upto
  <2>4. s[k] \in S /\ Cardinality(Upto(s[k])) = k
    BY <2>1, <2>3, Zenon
  <2> QED
    BY <2>2, <2>4
<1>10. s \in [1 .. N -> S]
  BY <1>8, <1>9
<1>11. ASSUME NEW i \in 1 .. N, NEW j \in 1 .. N, i < j
       PROVE  key[s[i]] < key[s[j]]
  <2>1. key[s[j]] < key[s[i]] \/ key[s[i]] = key[s[j]] \/ key[s[i]] < key[s[j]]
    BY <1>9
  <2>2. rank[s[i]] = i /\ rank[s[j]] = j
    BY <1>9
  <2> QED
    BY <2>1, <2>2, <1>4, <1>9, <1>11, <1>1
<1>12. ASSUME NEW x \in S
       PROVE  \E i \in 1 .. N : s[i] = x
  <2>1. rank[x] \in 1 .. N
    BY <1>5
  <2>2. s[rank[x]] = x
    BY <2>1, <1>9, <1>6
  <2> QED
    BY <2>1, <2>2
<1> QED
  BY <1>1, <1>10, <1>11, <1>12 DEF s

-----------------------------------------------------------------------------
(* Sequences of sequences.                                                 *)

LEMMA ConcatIsInjective ==
    ASSUME NEW T, NEW s \in Seq(T), NEW t \in Seq(T), IsInjective(s), IsInjective(t),
           Range(s) \cap Range(t) = {}
    PROVE  IsInjective(s \o t)
<1> DEFINE m == Len(s)  n == Len(t)  c == s \o t
<1>1. m \in Nat /\ n \in Nat /\ DOMAIN s = 1 .. m /\ DOMAIN t = 1 .. n /\ DOMAIN c = 1 .. m + n
  BY ConcatProperties, LenProperties
<1>2. /\ \A k \in 1 .. m : c[k] = s[k]
      /\ \A k \in 1 .. n : c[m + k] = t[k]
  <2>1. ASSUME NEW k \in 1 .. m
        PROVE  c[k] = s[k]
    BY <1>1, ConcatProperties
  <2>2. ASSUME NEW k \in 1 .. n
        PROVE  c[m + k] = t[k]
    BY <1>1, ConcatProperties
  <2> QED
    BY <2>1, <2>2
<1> HIDE DEF m, n, c
<1>3. \A k \in m + 1 .. m + n : k - m \in 1 .. n /\ m + (k - m) = k
  BY <1>1
<1>4. \A i \in 1 .. m, j \in 1 .. n : s[i] # t[j]
  BY <1>1 DEF Range
<1>5. ASSUME NEW i \in 1 .. m + n, NEW j \in 1 .. m + n, c[i] = c[j]
      PROVE  i = j
  <2>1. CASE i <= m /\ j <= m
    BY <2>1, <1>1, <1>2, <1>5 DEF IsInjective
  <2>2. CASE i > m /\ j > m
    <3>1. i - m \in 1 .. n /\ j - m \in 1 .. n /\ c[i] = t[i - m] /\ c[j] = t[j - m]
      BY <2>2, <1>1, <1>2, <1>3
    <3>2. i - m = j - m
      BY <3>1, <1>1, <1>5 DEF IsInjective
    <3> QED
      BY <3>2, <1>1
  <2>3. CASE i <= m /\ j > m
    BY <2>3, <1>1, <1>2, <1>3, <1>4, <1>5
  <2>4. CASE i > m /\ j <= m
    BY <2>4, <1>1, <1>2, <1>3, <1>4, <1>5
  <2> QED
    BY <2>1, <2>2, <2>3, <2>4, <1>1
<1>6. IsInjective(c)
  BY <1>1, <1>5 DEF IsInjective
<1> QED
  BY <1>6 DEF c

\* f[n] is what the first n members of ss are joined to.
Joined(f, ss, n) == f = [i \in 1 .. n |-> IF i = 1 THEN ss[i] ELSE f[i - 1] \o ss[i]]

LEMMA JoinedExists ==
    ASSUME NEW ss, NEW n \in Nat
    PROVE  \E f : Joined(f, ss, n)
<1> DEFINE S == {m \in Nat : \E f : Joined(f, ss, m)}
<1>1. 0 \in S
  <2>1. Joined(<<>>, ss, 0)
    BY DEF Joined
  <2> QED
    BY <2>1
<1>2. ASSUME NEW m \in Nat, m \in S
      PROVE  m + 1 \in S
  <2>1. PICK f : Joined(f, ss, m)
    BY <1>2
  <2>2. \A i \in 1 .. m : f[i] = IF i = 1 THEN ss[i] ELSE f[i - 1] \o ss[i]
    BY <2>1, Zenon DEF Joined
  <2> DEFINE last == IF m = 0 THEN ss[1] ELSE f[m] \o ss[m + 1]
             g == [i \in 1 .. m + 1 |-> IF i = m + 1 THEN last ELSE f[i]]
  <2>3. g = [i \in 1 .. m + 1 |-> g[i]]
    OBVIOUS
  <2>4. \A i \in 1 .. m + 1 : g[i] = IF i = m + 1 THEN last ELSE f[i]
    OBVIOUS
  <2> HIDE DEF g
  <2>5. ASSUME NEW i \in 1 .. m + 1
        PROVE  g[i] = IF i = 1 THEN ss[i] ELSE g[i - 1] \o ss[i]
    <3>1. CASE i = m + 1
      <4>1. CASE m = 0
        BY <3>1, <4>1, <2>4
      <4>2. CASE m # 0
        <5>1. g[m] = f[m]
          BY <2>4, <4>2
        <5> QED
          BY <3>1, <4>2, <2>4, <5>1
      <4> QED
        BY <4>1, <4>2
    <3>2. CASE i # m + 1
      <4>1. i \in 1 .. m /\ g[i] = f[i]
        BY <3>2, <2>4
      <4>2. i # 1 => g[i - 1] = f[i - 1]
        BY <4>1, <2>4
      <4> QED
        BY <4>1, <4>2, <2>2
    <3> QED
      BY <3>1, <3>2
  <2>6. Joined(g, ss, m + 1)
    BY <2>3, <2>5, Zenon DEF Joined
  <2> HIDE DEF last
  <2> QED
    BY <2>6
<1> HIDE DEF S
<1>3. n \in S
  BY <1>1, <1>2, InductiveSet
<1> QED
  BY <1>3 DEF S

LEMMA FlattenIsJoined ==
    ASSUME NEW T, NEW ss \in Seq(T), ss # <<>>
    PROVE  \E f : Joined(f, ss, Len(ss)) /\ FlattenSeq(ss) = f[Len(ss)]
<1> DEFINE f == CHOOSE g : g = [i \in 1 .. Len(ss) |-> IF i = 1 THEN ss[i] ELSE g[i - 1] \o ss[i]]
<1>1. Len(ss) \in Nat /\ Len(ss) # 0
  BY EmptySeq
<1>2. FlattenSeq(ss) = f[Len(ss)]
  BY <1>1, Zenon DEF FlattenSeq
<1>3. \E g : g = [i \in 1 .. Len(ss) |-> IF i = 1 THEN ss[i] ELSE g[i - 1] \o ss[i]]
  BY <1>1, JoinedExists, Zenon DEF Joined
<1>4. Joined(f, ss, Len(ss))
  BY <1>3, Zenon DEF Joined
<1> QED
  BY <1>2, <1>4, Zenon

Apart(ss) ==
    /\ \A i \in 1 .. Len(ss) : IsInjective(ss[i])
    /\ \A i, j \in 1 .. Len(ss) : i # j => Range(ss[i]) \cap Range(ss[j]) = {}

\* x has what the first n of the sequences in ss have, and once when they have it once.
HasFirst(x, ss, T, n) ==
    /\ x \in Seq(T)
    /\ Range(x) = UNION {Range(ss[i]) : i \in 1 .. n}
    /\ Apart(ss) => IsInjective(x)

LEMMA HasFirstGrows ==
    ASSUME NEW T, NEW ss \in Seq(Seq(T)), NEW k \in Nat \ {0}, k + 1 <= Len(ss), NEW x, HasFirst(x, ss, T, k)
    PROVE  HasFirst(x \o ss[k + 1], ss, T, k + 1)
<1>1. k + 1 \in 1 .. Len(ss) /\ Len(ss) \in Nat
  BY LenProperties
<1>2. ss[k + 1] \in Seq(T) /\ x \in Seq(T)
  BY <1>1, ElementOfSeq DEF HasFirst
<1>3. x \o ss[k + 1] \in Seq(T) /\ Range(x \o ss[k + 1]) = Range(x) \cup Range(ss[k + 1])
  BY <1>2, ConcatProperties, RangeConcatenation
<1> DEFINE Of(i) == Range(ss[i])
<1>4. UNION {Of(i) : i \in 1 .. k + 1} = (UNION {Of(i) : i \in 1 .. k}) \cup Of(k + 1)
  <2>1. 1 .. k + 1 = (1 .. k) \cup {k + 1}
    OBVIOUS
  <2> HIDE DEF Of
  <2> QED
    BY <2>1
<1>5. ASSUME Apart(ss)
      PROVE  IsInjective(x \o ss[k + 1])
  <2>1. Range(x) \cap Range(ss[k + 1]) = {}
    <3>1. \A i \in 1 .. k : i \in 1 .. Len(ss) /\ i # k + 1
      BY <1>1
    <3>2. \A i \in 1 .. k : Of(i) \cap Of(k + 1) = {}
      BY <3>1, <1>5, <1>1 DEF Apart
    <3>3. Range(x) = UNION {Of(i) : i \in 1 .. k}
      BY DEF HasFirst
    <3> HIDE DEF Of
    <3>4. Range(x) \cap Of(k + 1) = {}
      BY <3>2, <3>3
    <3> QED
      BY <3>4 DEF Of
  <2>2. IsInjective(x) /\ IsInjective(ss[k + 1])
    BY <1>5, <1>1 DEF HasFirst, Apart
  <2> QED
    BY <2>1, <2>2, <1>2, ConcatIsInjective
<1> QED
  BY <1>3, <1>4, <1>5 DEF HasFirst

\* What is flattened has what its sequences have, and nothing twice when none of them has and no
\* two have the same.
LEMMA FlattenHasAll ==
    ASSUME NEW T, NEW ss \in Seq(Seq(T))
    PROVE  /\ FlattenSeq(ss) \in Seq(T)
           /\ Range(FlattenSeq(ss)) = UNION {Range(ss[i]) : i \in 1 .. Len(ss)}
           /\ Apart(ss) => IsInjective(FlattenSeq(ss))
<1>1. CASE ss = <<>>
  <2>1. Len(ss) = 0 /\ FlattenSeq(ss) = <<>>
    BY <1>1 DEF FlattenSeq
  <2>2. Range(<<>>) = {} /\ IsInjective(<<>>) /\ <<>> \in Seq(T)
    BY DEF Range, IsInjective
  <2> QED
    BY <2>1, <2>2
<1>2. CASE ss # <<>>
  <2>1. PICK f : Joined(f, ss, Len(ss)) /\ FlattenSeq(ss) = f[Len(ss)]
    BY <1>2, FlattenIsJoined
  <2>2. Len(ss) \in Nat /\ Len(ss) # 0
    BY <1>2, EmptySeq
  <2>3. \A i \in 1 .. Len(ss) : f[i] = IF i = 1 THEN ss[i] ELSE f[i - 1] \o ss[i]
    BY <2>1, Zenon DEF Joined
  <2> DEFINE S == {n \in Nat : n + 1 <= Len(ss) => HasFirst(f[n + 1], ss, T, n + 1)}
  <2>4. 0 \in S
    <3>1. f[1] = ss[1] /\ ss[1] \in Seq(T)
      BY <2>2, <2>3, ElementOfSeq
    <3>2. UNION {Range(ss[i]) : i \in 1 .. 1} = Range(ss[1])
      OBVIOUS
    <3>3. HasFirst(f[1], ss, T, 1)
      BY <3>1, <3>2, <2>2 DEF HasFirst, Apart
    <3> QED
      BY <3>3
  <2>5. ASSUME NEW n \in Nat, n \in S
        PROVE  n + 1 \in S
    <3> DEFINE k == n + 1
    <3> SUFFICES ASSUME k + 1 <= Len(ss)
                 PROVE  HasFirst(f[k + 1], ss, T, k + 1)
      OBVIOUS
    <3>1. HasFirst(f[k], ss, T, k) /\ k \in Nat \ {0}
      BY <2>5, <2>2
    <3> HIDE DEF k
    <3>2. f[k + 1] = f[k] \o ss[k + 1]
      <4>1. k + 1 \in 1 .. Len(ss) /\ k + 1 # 1 /\ (k + 1) - 1 = k
        BY <2>2, <3>1
      <4> QED
        BY <4>1, <2>3
    <3> QED
      BY <3>1, <3>2, HasFirstGrows
  <2> HIDE DEF S
  <2>6. Len(ss) - 1 \in S
    <3>1. Len(ss) - 1 \in Nat
      BY <2>2
    <3> QED
      BY <3>1, <2>4, <2>5, InductiveSet
  <2>7. HasFirst(f[Len(ss)], ss, T, Len(ss))
    <3>1. (Len(ss) - 1) + 1 = Len(ss)
      BY <2>2
    <3> QED
      BY <3>1, <2>6, <2>2 DEF S
  <2> QED
    BY <2>7, <2>1 DEF HasFirst
<1> QED
  BY <1>1, <1>2

-----------------------------------------------------------------------------
(* The plan of an export.                                                  *)

LEMMA FunctionIsSequence ==
    ASSUME NEW T, NEW n \in Nat, NEW s \in [1 .. n -> T]
    PROVE  s \in Seq(T) /\ Len(s) = n /\ DOMAIN s = 1 .. n
OBVIOUS

LEMMA FirstsAreOf ==
    ASSUME NEW T, NEW s \in Seq(T), NEW n \in Nat
    PROVE  /\ Firsts(s, n) \in Seq(T) /\ Range(Firsts(s, n)) \subseteq Range(s)
           /\ IsInjective(s) => IsInjective(Firsts(s, n))
           /\ n # 0 /\ s # <<>> => Firsts(s, n) # <<>>
<1> DEFINE m == Min({n, Len(s)})  f == Firsts(s, n)
<1>1. /\ Len(s) \in Nat /\ DOMAIN s = 1 .. Len(s) /\ \A i \in 1 .. Len(s) : s[i] \in T
      /\ s # <<>> => Len(s) # 0
  BY LenProperties, ElementOfSeq, EmptySeq
<1>2. m \in Nat /\ m <= Len(s) /\ (n # 0 /\ Len(s) # 0 => m # 0)
  BY <1>1, MinOfTwo
<1>3. f = SubSeq(s, 1, m)
  BY DEF Firsts
<1> HIDE DEF m, f
<1>4. f \in Seq(T) /\ Len(f) = m /\ \A i \in 1 .. m : f[i] = s[i]
  BY <1>1, <1>2, <1>3, SubSeqProperties
<1>5. DOMAIN f = 1 .. m
  BY <1>4, LenProperties
<1>6. Range(f) \subseteq Range(s)
  BY <1>1, <1>2, <1>4, <1>5 DEF Range
<1>7. IsInjective(s) => IsInjective(f)
  BY <1>1, <1>2, <1>4, <1>5 DEF IsInjective
<1>8. n # 0 /\ s # <<>> => f # <<>>
  BY <1>1, <1>2, <1>4
<1> QED
  BY <1>4, <1>6, <1>7, <1>8 DEF f

\* Both are sequences of R, each made of a first file and the seconds it goes with.
LEMMA RowsByFirst ==
    ASSUME NEW T, NEW s \in Seq(T), NEW ss \in Seq(Seq(T \X T)), Len(ss) = Len(s), IsInjective(s),
           \A i \in 1 .. Len(s) : \A j \in DOMAIN ss[i] : ss[i][j][1] = s[i],
           \A i \in 1 .. Len(s) : \A j, k \in DOMAIN ss[i] : ss[i][j][2] = ss[i][k][2] => j = k
    PROVE  IsInjective(FlattenSeq(ss))
<1>1. Len(s) \in Nat /\ DOMAIN s = 1 .. Len(s)
  BY LenProperties
<1>2. \A i \in 1 .. Len(ss) : IsInjective(ss[i])
  BY DEF IsInjective
<1>3. ASSUME NEW i \in 1 .. Len(ss), NEW j \in 1 .. Len(ss), i # j
      PROVE  Range(ss[i]) \cap Range(ss[j]) = {}
  <2>1. s[i] # s[j]
    BY <1>1, <1>3 DEF IsInjective
  <2>2. \A x \in Range(ss[i]) : x[1] = s[i]
    BY DEF Range
  <2>3. \A x \in Range(ss[j]) : x[1] = s[j]
    BY DEF Range
  <2> QED
    BY <2>1, <2>2, <2>3
<1> QED
  BY <1>2, <1>3, FlattenHasAll DEF Apart

LEMMA CrossIsOf ==
    ASSUME NEW T, NEW s \in Seq(T), NEW t \in Seq(T)
    PROVE  /\ Cross(s, t) \in Seq(T \X T)
           /\ Range(Cross(s, t)) \subseteq Range(s) \X Range(t)
           /\ IsInjective(s) /\ IsInjective(t) => IsInjective(Cross(s, t))
           /\ s # <<>> /\ t # <<>> => Cross(s, t) # <<>>
<1> DEFINE row(i) == [j \in 1 .. Len(t) |-> <<s[i], t[j]>>]
           ss == [i \in 1 .. Len(s) |-> row(i)]
<1>1. /\ Len(s) \in Nat /\ DOMAIN s = 1 .. Len(s) /\ \A i \in 1 .. Len(s) : s[i] \in T
      /\ Len(t) \in Nat /\ DOMAIN t = 1 .. Len(t) /\ \A i \in 1 .. Len(t) : t[i] \in T
      /\ s # <<>> => Len(s) # 0
      /\ t # <<>> => Len(t) # 0
  BY LenProperties, ElementOfSeq, EmptySeq
<1>2. ASSUME NEW i \in 1 .. Len(s)
      PROVE  row(i) \in Seq(T \X T) /\ DOMAIN row(i) = 1 .. Len(t)
  <2>1. row(i) \in [1 .. Len(t) -> T \X T]
    BY <1>1
  <2> HIDE DEF row
  <2> QED
    BY <1>1, <2>1, FunctionIsSequence
<1>3. ASSUME NEW i \in 1 .. Len(s), NEW j \in 1 .. Len(t)
      PROVE  row(i)[j] = <<s[i], t[j]>>
  OBVIOUS
<1>4. ss \in [1 .. Len(s) -> Seq(T \X T)] /\ \A i \in 1 .. Len(s) : ss[i] = row(i)
  BY <1>2
<1>5. Cross(s, t) = FlattenSeq(ss)
  BY DEF Cross
<1> HIDE DEF row, ss
<1>6. ss \in Seq(Seq(T \X T)) /\ Len(ss) = Len(s)
  BY <1>1, <1>4, FunctionIsSequence
<1>7. /\ Cross(s, t) \in Seq(T \X T)
      /\ Range(Cross(s, t)) = UNION {Range(ss[i]) : i \in 1 .. Len(ss)}
  BY <1>5, <1>6, FlattenHasAll
<1>8. ASSUME NEW i \in 1 .. Len(s)
       PROVE  DOMAIN ss[i] = 1 .. Len(t) /\ \A j \in 1 .. Len(t) : ss[i][j] = <<s[i], t[j]>>
  BY <1>2, <1>3, <1>4
<1>9. ASSUME NEW i \in 1 .. Len(s)
      PROVE  Range(ss[i]) \subseteq Range(s) \X Range(t)
  <2> SUFFICES ASSUME NEW x \in Range(ss[i])
               PROVE  x \in Range(s) \X Range(t)
    OBVIOUS
  <2>1. PICK j \in 1 .. Len(t) : x = <<s[i], t[j]>>
    BY <1>8 DEF Range
  <2>2. s[i] \in Range(s) /\ t[j] \in Range(t)
    BY <1>1 DEF Range
  <2> QED
    BY <2>1, <2>2
<1>10. ASSUME IsInjective(s), IsInjective(t)
      PROVE  IsInjective(Cross(s, t))
  <2>1. \A i \in 1 .. Len(s) : \A j \in DOMAIN ss[i] : ss[i][j][1] = s[i]
    BY <1>8
  <2>2. \A i \in 1 .. Len(s) : \A j, k \in DOMAIN ss[i] : ss[i][j][2] = ss[i][k][2] => j = k
    BY <1>1, <1>8, <1>10 DEF IsInjective
  <2> QED
    BY <1>5, <1>6, <1>10, <2>1, <2>2, RowsByFirst
<1>11. ASSUME s # <<>>, t # <<>>
       PROVE  Cross(s, t) # <<>>
  <2>1. 1 \in 1 .. Len(s) /\ 1 \in 1 .. Len(t)
    BY <1>1, <1>11
  <2>2. <<s[1], t[1]>> \in Range(ss[1])
    BY <2>1, <1>8 DEF Range
  <2>3. <<s[1], t[1]>> \in Range(Cross(s, t))
    BY <2>1, <2>2, <1>6, <1>7
  <2> QED
    BY <2>3 DEF Range
<1> QED
  BY <1>6, <1>7, <1>9, <1>10, <1>11

LEMMA Combinations2IsOf ==
    ASSUME NEW T, NEW s \in Seq(T)
    PROVE  /\ Combinations2(s) \in Seq(T \X T)
           /\ Range(Combinations2(s)) \subseteq Range(s) \X Range(s)
           /\ IsInjective(s) => IsInjective(Combinations2(s))
           /\ Len(s) >= 2 => Combinations2(s) # <<>>
<1> DEFINE row(i) == [j \in 1 .. Len(s) - i |-> <<s[i], s[i + j]>>]
           ss == [i \in 1 .. Len(s) |-> row(i)]
<1>1. Len(s) \in Nat /\ DOMAIN s = 1 .. Len(s) /\ \A i \in 1 .. Len(s) : s[i] \in T
  BY LenProperties, ElementOfSeq
<1>2. ASSUME NEW i \in 1 .. Len(s)
      PROVE  /\ Len(s) - i \in Nat /\ \A j \in 1 .. Len(s) - i : i + j \in 1 .. Len(s)
             /\ row(i) \in Seq(T \X T) /\ DOMAIN row(i) = 1 .. Len(s) - i
  <2>1. Len(s) - i \in Nat /\ \A j \in 1 .. Len(s) - i : i + j \in 1 .. Len(s)
    BY <1>1
  <2>2. row(i) \in [1 .. Len(s) - i -> T \X T]
    BY <1>1, <2>1
  <2> HIDE DEF row
  <2> QED
    BY <2>1, <2>2, FunctionIsSequence
<1>3. ASSUME NEW i \in 1 .. Len(s), NEW j \in 1 .. Len(s) - i
      PROVE  row(i)[j] = <<s[i], s[i + j]>>
  OBVIOUS
<1>4. ss \in [1 .. Len(s) -> Seq(T \X T)] /\ \A i \in 1 .. Len(s) : ss[i] = row(i)
  BY <1>2
<1>5. Combinations2(s) = FlattenSeq(ss)
  BY DEF Combinations2
<1> HIDE DEF row, ss
<1>6. ss \in Seq(Seq(T \X T)) /\ Len(ss) = Len(s)
  BY <1>1, <1>4, FunctionIsSequence
<1>7. /\ Combinations2(s) \in Seq(T \X T)
      /\ Range(Combinations2(s)) = UNION {Range(ss[i]) : i \in 1 .. Len(ss)}
  BY <1>5, <1>6, FlattenHasAll
<1>8. ASSUME NEW i \in 1 .. Len(s)
       PROVE  DOMAIN ss[i] = 1 .. Len(s) - i /\ \A j \in 1 .. Len(s) - i : ss[i][j] = <<s[i], s[i + j]>>
  BY <1>2, <1>3, <1>4
<1>9. ASSUME NEW i \in 1 .. Len(s)
      PROVE  Range(ss[i]) \subseteq Range(s) \X Range(s)
  <2> SUFFICES ASSUME NEW x \in Range(ss[i])
               PROVE  x \in Range(s) \X Range(s)
    OBVIOUS
  <2>1. PICK j \in 1 .. Len(s) - i : x = <<s[i], s[i + j]>>
    BY <1>8 DEF Range
  <2>2. s[i] \in Range(s) /\ s[i + j] \in Range(s)
    BY <1>1, <1>2 DEF Range
  <2> QED
    BY <2>1, <2>2
<1>10. ASSUME IsInjective(s)
      PROVE  IsInjective(Combinations2(s))
  <2>1. \A i \in 1 .. Len(s) : \A j \in DOMAIN ss[i] : ss[i][j][1] = s[i]
    BY <1>8
  <2>2. ASSUME NEW i \in 1 .. Len(s), NEW j \in DOMAIN ss[i], NEW k \in DOMAIN ss[i], ss[i][j][2] = ss[i][k][2]
        PROVE  j = k
    <3>1. j \in 1 .. Len(s) - i /\ k \in 1 .. Len(s) - i
      BY <1>8
    <3>2. s[i + j] = s[i + k]
      <4>1. ss[i][j] = <<s[i], s[i + j]>> /\ ss[i][k] = <<s[i], s[i + k]>>
        BY <1>8, <3>1
      <4> QED
        BY <4>1, <2>2
    <3>3. i + j \in 1 .. Len(s) /\ i + k \in 1 .. Len(s)
      BY <1>2, <3>1
    <3>4. i + j = i + k
      BY <1>1, <1>10, <3>2, <3>3 DEF IsInjective
    <3> QED
      BY <3>1, <3>4, <1>1
  <2> QED
    BY <1>5, <1>6, <1>10, <2>1, <2>2, RowsByFirst
<1>11. ASSUME Len(s) >= 2
       PROVE  Combinations2(s) # <<>>
  <2>1. 1 \in 1 .. Len(s) /\ 1 \in 1 .. Len(s) - 1
    BY <1>1, <1>11
  <2>2. row(1)[1] \in Range(ss[1])
    BY <2>1, <1>2, <1>4 DEF Range
  <2>3. row(1)[1] \in Range(Combinations2(s))
    BY <2>1, <2>2, <1>6, <1>7
  <2> QED
    BY <2>3 DEF Range
<1> QED
  BY <1>6, <1>7, <1>9, <1>10, <1>11

\* Of each pair there are R of its own files.
LEMMA RowsOfPairs ==
    ASSUME NEW T, NEW U, NEW ps \in Seq([a : Seq(T), b : Seq(T)]),
           NEW ss \in [1 .. Len(ps) -> Seq(U)],
           \A p \in 1 .. Len(ps) : /\ IsPairList(ps) => IsInjective(ss[p])
                                   /\ \A x \in Range(ss[p]) : x \in FilesOfPair(ps[p]) \X FilesOfPair(ps[p])
                                   /\ PairReady(ps[p]) => ss[p] # <<>>
    PROVE  /\ FlattenSeq(ss) \in Seq(U)
           /\ IsPairList(ps) => IsInjective(FlattenSeq(ss))
           /\ \A p \in 1 .. Len(ps) : PairReady(ps[p]) =>
                 Range(FlattenSeq(ss)) \cap (FilesOfPair(ps[p]) \X FilesOfPair(ps[p])) # {}
<1>1. Len(ps) \in Nat /\ DOMAIN ps = 1 .. Len(ps)
  BY LenProperties
<1>2. ss \in Seq(Seq(U)) /\ Len(ss) = Len(ps)
  BY <1>1, FunctionIsSequence
<1>3. /\ FlattenSeq(ss) \in Seq(U)
      /\ Range(FlattenSeq(ss)) = UNION {Range(ss[i]) : i \in 1 .. Len(ss)}
      /\ Apart(ss) => IsInjective(FlattenSeq(ss))
  BY <1>2, FlattenHasAll
<1>4. ASSUME IsPairList(ps)
      PROVE  Apart(ss)
  <2>1. ASSUME NEW p \in 1 .. Len(ps), NEW q \in 1 .. Len(ps), p # q
        PROVE  Range(ss[p]) \cap Range(ss[q]) = {}
    <3>1. FilesOfPair(ps[p]) \cap FilesOfPair(ps[q]) = {}
      BY <1>1, <1>4, <2>1 DEF IsPairList
    <3>2. \A x \in Range(ss[p]) \cap Range(ss[q]) : x[1] \in FilesOfPair(ps[p]) /\ x[1] \in FilesOfPair(ps[q])
      OBVIOUS
    <3> QED
      BY <3>1, <3>2
  <2> QED
    BY <1>2, <1>4, <2>1 DEF Apart
<1>5. ASSUME NEW p \in 1 .. Len(ps), PairReady(ps[p])
      PROVE  Range(FlattenSeq(ss)) \cap (FilesOfPair(ps[p]) \X FilesOfPair(ps[p])) # {}
  <2>1. ss[p] \in Seq(U) /\ ss[p] # <<>>
    BY <1>5
  <2>2. Len(ss[p]) \in Nat /\ Len(ss[p]) # 0 /\ DOMAIN ss[p] = 1 .. Len(ss[p])
    BY <2>1, EmptySeq, LenProperties
  <2>3. ss[p][1] \in Range(ss[p])
    <3>1. 1 \in DOMAIN ss[p]
      BY <2>2
    <3> QED
      BY <3>1 DEF Range
  <2>4. ss[p][1] \in Range(FlattenSeq(ss))
    BY <2>3, <1>2, <1>3
  <2> QED
    BY <2>3, <2>4
<1> QED
  BY <1>3, <1>4, <1>5

LEMMA PairOfList ==
    ASSUME NEW T, NEW ps \in Seq([a : Seq(T), b : Seq(T)]), NEW p \in 1 .. Len(ps)
    PROVE  /\ ps[p].a \in Seq(T) /\ ps[p].b \in Seq(T)
           /\ FilesOfPair(ps[p]) = Range(ps[p].a) \cup Range(ps[p].b)
           /\ IsPairList(ps) => /\ IsInjective(ps[p].a) /\ IsInjective(ps[p].b)
                                /\ Range(ps[p].a) \cap Range(ps[p].b) = {}
<1>1. ps[p] \in [a : Seq(T), b : Seq(T)] /\ DOMAIN ps = 1 .. Len(ps)
  BY ElementOfSeq, LenProperties
<1> QED
  BY <1>1 DEF FilesOfPair, IsPairList, ToSet, Range

LEMMA SameRowsAreOf ==
    ASSUME NEW T, NEW ps \in Seq([a : Seq(T), b : Seq(T)])
    PROVE  /\ SameRows(ps) \in Seq(T \X T)
           /\ IsPairList(ps) => IsInjective(SameRows(ps))
           /\ \A p \in 1 .. Len(ps) : PairReady(ps[p]) =>
                 Range(SameRows(ps)) \cap (FilesOfPair(ps[p]) \X FilesOfPair(ps[p])) # {}
<1> DEFINE U == T \X T
           First(s) == Firsts(Combinations2(s), SamePerSide)
           ss == [p \in 1 .. Len(ps) |-> First(ps[p].a) \o First(ps[p].b)]
<1>1. ASSUME NEW s \in Seq(T)
      PROVE  /\ First(s) \in Seq(U) /\ Range(First(s)) \subseteq Range(s) \X Range(s)
             /\ IsInjective(s) => IsInjective(First(s))
             /\ Len(s) >= 2 => First(s) # <<>>
  <2> DEFINE r == Combinations2(s)
  <2>1. /\ r \in Seq(U) /\ Range(r) \subseteq Range(s) \X Range(s)
        /\ IsInjective(s) => IsInjective(r)
        /\ Len(s) >= 2 => r # <<>>
    BY Combinations2IsOf
  <2> HIDE DEF U, r
  <2>2. /\ Firsts(r, SamePerSide) \in Seq(U) /\ Range(Firsts(r, SamePerSide)) \subseteq Range(r)
        /\ IsInjective(r) => IsInjective(Firsts(r, SamePerSide))
        /\ r # <<>> => Firsts(r, SamePerSide) # <<>>
    BY <2>1, FirstsAreOf, StudioPlanAssumption
  <2> QED
    BY <2>1, <2>2 DEF r
<1>2. SameRows(ps) = FlattenSeq(ss)
  BY DEF SameRows
<1>3. DOMAIN ss = 1 .. Len(ps) /\ ss = [p \in 1 .. Len(ps) |-> ss[p]]
  OBVIOUS
<1>4. ASSUME NEW p \in 1 .. Len(ps)
      PROVE  ss[p] = First(ps[p].a) \o First(ps[p].b)
  OBVIOUS
<1> HIDE DEF First, ss
<1>5. ASSUME NEW p \in 1 .. Len(ps)
      PROVE  /\ ss[p] \in Seq(U) /\ (IsPairList(ps) => IsInjective(ss[p]))
             /\ \A x \in Range(ss[p]) : x \in FilesOfPair(ps[p]) \X FilesOfPair(ps[p])
             /\ PairReady(ps[p]) => ss[p] # <<>>
  <2> DEFINE a == ps[p].a  b == ps[p].b  x == First(a)  y == First(b)
  <2>1. /\ a \in Seq(T) /\ b \in Seq(T) /\ FilesOfPair(ps[p]) = Range(a) \cup Range(b)
        /\ IsPairList(ps) => IsInjective(a) /\ IsInjective(b) /\ Range(a) \cap Range(b) = {}
    BY PairOfList
  <2>2. PairReady(ps[p]) => Len(a) >= 2
    <3>1. Len(a) \in Nat /\ RepsPerSide \in Nat /\ RepsPerSide >= 2
      BY <2>1, LenProperties, StudioPlanAssumption
    <3> QED
      BY <3>1 DEF PairReady
  <2> HIDE DEF a, b
  <2>3. /\ x \in Seq(U) /\ Range(x) \subseteq Range(a) \X Range(a)
        /\ y \in Seq(U) /\ Range(y) \subseteq Range(b) \X Range(b)
        /\ IsPairList(ps) => IsInjective(x) /\ IsInjective(y)
        /\ PairReady(ps[p]) => x # <<>>
    BY <1>1, <2>1, <2>2
  <2>4. IsPairList(ps) => Range(x) \cap Range(y) = {}
    BY <2>1, <2>3
  <2>5. ss[p] = x \o y
    BY <1>4 DEF a, b
  <2> HIDE DEF U, x, y
  <2>6. /\ x \o y \in Seq(U) /\ Range(x \o y) = Range(x) \cup Range(y)
        /\ IsPairList(ps) => IsInjective(x \o y)
        /\ x # <<>> => x \o y # <<>>
    BY <2>3, <2>4, ConcatProperties, RangeConcatenation, ConcatIsInjective, ConcatEqualIffEmpty
  <2> QED
    BY <2>1, <2>3, <2>5, <2>6
<1> HIDE DEF U
<1>6. /\ FlattenSeq(ss) \in Seq(U)
      /\ IsPairList(ps) => IsInjective(FlattenSeq(ss))
      /\ \A p \in 1 .. Len(ps) : PairReady(ps[p]) =>
            Range(FlattenSeq(ss)) \cap (FilesOfPair(ps[p]) \X FilesOfPair(ps[p])) # {}
  <2>1. ss \in [1 .. Len(ps) -> Seq(U)]
    BY <1>3, <1>5
  <2> QED
    BY <2>1, <1>5, RowsOfPairs
<1> QED
  BY <1>2, <1>6 DEF U

LEMMA DiffRowsAreOf ==
    ASSUME NEW T, NEW ps \in Seq([a : Seq(T), b : Seq(T)])
    PROVE  /\ DiffRows(ps) \in Seq(T \X T)
           /\ IsPairList(ps) => IsInjective(DiffRows(ps))
           /\ \A p \in 1 .. Len(ps) : PairReady(ps[p]) =>
                 Range(DiffRows(ps)) \cap (FilesOfPair(ps[p]) \X FilesOfPair(ps[p])) # {}
<1> DEFINE U == T \X T
           ss == [p \in 1 .. Len(ps) |-> Firsts(Cross(ps[p].a, ps[p].b), DiffPerPair)]
<1>1. DiffRows(ps) = FlattenSeq(ss)
  BY DEF DiffRows
<1>2. DOMAIN ss = 1 .. Len(ps) /\ ss = [p \in 1 .. Len(ps) |-> ss[p]]
  OBVIOUS
<1>3. \A p \in 1 .. Len(ps) : ss[p] = Firsts(Cross(ps[p].a, ps[p].b), DiffPerPair)
  OBVIOUS
<1> HIDE DEF ss
<1>4. ASSUME NEW p \in 1 .. Len(ps)
      PROVE  /\ ss[p] \in Seq(U) /\ (IsPairList(ps) => IsInjective(ss[p]))
             /\ \A x \in Range(ss[p]) : x \in FilesOfPair(ps[p]) \X FilesOfPair(ps[p])
             /\ PairReady(ps[p]) => ss[p] # <<>>
  <2> DEFINE a == ps[p].a  b == ps[p].b  r == Cross(a, b)
  <2>1. /\ a \in Seq(T) /\ b \in Seq(T) /\ FilesOfPair(ps[p]) = Range(a) \cup Range(b)
        /\ IsPairList(ps) => IsInjective(a) /\ IsInjective(b)
    BY PairOfList
  <2>2. PairReady(ps[p]) => a # <<>> /\ b # <<>>
    <3>1. Len(<<>>) = 0 /\ RepsPerSide \in Nat /\ RepsPerSide >= 2
      BY StudioPlanAssumption
    <3> QED
      BY <3>1 DEF PairReady
  <2>3. ss[p] = Firsts(r, DiffPerPair)
    BY <1>3
  <2> HIDE DEF a, b
  <2>4. /\ r \in Seq(U) /\ Range(r) \subseteq Range(a) \X Range(b)
        /\ IsInjective(a) /\ IsInjective(b) => IsInjective(r)
        /\ a # <<>> /\ b # <<>> => r # <<>>
    BY <2>1, CrossIsOf
  <2> HIDE DEF U, r
  <2>5. /\ Firsts(r, DiffPerPair) \in Seq(U) /\ Range(Firsts(r, DiffPerPair)) \subseteq Range(r)
        /\ IsInjective(r) => IsInjective(Firsts(r, DiffPerPair))
        /\ r # <<>> => Firsts(r, DiffPerPair) # <<>>
    BY <2>4, FirstsAreOf, StudioPlanAssumption
  <2>6. \A x \in Range(ss[p]) : x \in FilesOfPair(ps[p]) \X FilesOfPair(ps[p])
    BY <2>1, <2>3, <2>4, <2>5
  <2> QED
    BY <2>1, <2>2, <2>3, <2>4, <2>5, <2>6
<1> HIDE DEF U
<1>5. /\ FlattenSeq(ss) \in Seq(U)
      /\ IsPairList(ps) => IsInjective(FlattenSeq(ss))
      /\ \A p \in 1 .. Len(ps) : PairReady(ps[p]) =>
            Range(FlattenSeq(ss)) \cap (FilesOfPair(ps[p]) \X FilesOfPair(ps[p])) # {}
  <2>1. ss \in [1 .. Len(ps) -> Seq(U)]
    BY <1>2, <1>4
  <2> QED
    BY <2>1, <1>4, RowsOfPairs
<1> QED
  BY <1>1, <1>5 DEF U

\* The index rounded down goes up by one or more from one sample to the next.
LEMMA StrideGoesUp ==
    ASSUME NEW n \in Nat, NEW m \in Nat, n < m, NEW i \in 1 .. n
    PROVE  /\ ((i - 1) * m) \div n + 1 \in 1 .. m
           /\ \A j \in 1 .. n : i < j => ((i - 1) * m) \div n < ((j - 1) * m) \div n
<1> DEFINE x == (i - 1) * m
<1>1. x \in Nat /\ x <= n * m - m
  <2>1. i - 1 \in 0 .. n - 1
    OBVIOUS
  <2>2. \A k \in 0 .. n - 1 : k * m \in Nat /\ k * m <= (n - 1) * m
    OBVIOUS
  <2>3. (n - 1) * m = n * m - m
    OBVIOUS
  <2> QED
    BY <2>1, <2>2, <2>3
<1>2. ASSUME NEW y \in Nat
      PROVE  y \div n \in Nat /\ n * (y \div n) <= y /\ y < n * (y \div n) + n
  OBVIOUS
<1>3. x \div n + 1 \in 1 .. m
  <2>1. n * (x \div n) < n * m
    BY <1>1, <1>2
  <2>2. x \div n < m
    BY <2>1, <1>1, <1>2
  <2> QED
    BY <2>2, <1>1, <1>2
<1>4. ASSUME NEW j \in 1 .. n, i < j
      PROVE  x \div n < ((j - 1) * m) \div n
  <2> DEFINE y == (j - 1) * m
  <2>1. y \in Nat /\ y >= x + m
    <3>1. y = x + (j - i) * m /\ j - i - 1 \in Nat
      BY <1>4
    <3>2. (j - i) * m = m + (j - i - 1) * m
      OBVIOUS
    <3>3. \A k \in Nat : k * m \in Nat
      OBVIOUS
    <3> QED
      BY <1>1, <3>1, <3>2, <3>3
  <2>2. y > x + n
    BY <2>1, <1>1
  <2> HIDE DEF x, y
  <2>3. n * (x \div n) + n < n * (y \div n) + n
    BY <1>1, <1>2, <2>1, <2>2
  <2>4. x \div n < y \div n
    BY <1>1, <1>2, <2>1, <2>3
  <2> QED
    BY <2>4 DEF x, y
<1> QED
  BY <1>3, <1>4

LEMMA StrideSampleIsOf ==
    ASSUME NEW T, NEW items \in Seq(T), NEW n \in Nat, n <= Len(items)
    PROVE  /\ StrideSample(items, n) \in Seq(T) /\ Len(StrideSample(items, n)) = n
           /\ IsInjective(items) => IsInjective(StrideSample(items, n))
           /\ n = Len(items) => StrideSample(items, n) = items
<1> DEFINE m == Len(items)  at(i) == ((i - 1) * m) \div n + 1  s == StrideSample(items, n)
<1>1. m \in Nat /\ DOMAIN items = 1 .. m /\ \A i \in 1 .. m : items[i] \in T
  BY LenProperties, ElementOfSeq
<1>2. CASE n = m
  BY <1>1, <1>2 DEF StrideSample
<1>3. CASE n < m
  <2>1. s = [i \in 1 .. n |-> items[at(i)]]
    BY <1>1, <1>3 DEF StrideSample
  <2>2. \A i \in 1 .. n : at(i) \in 1 .. m /\ \A j \in 1 .. n : i < j => at(i) < at(j)
    <3> SUFFICES ASSUME NEW i \in 1 .. n
                 PROVE  at(i) \in 1 .. m /\ \A j \in 1 .. n : i < j => at(i) < at(j)
      OBVIOUS
    <3> DEFINE q(k) == ((k - 1) * m) \div n
    <3>1. q(i) + 1 \in 1 .. m /\ \A j \in 1 .. n : i < j => q(i) < q(j)
      BY <1>1, <1>3, StrideGoesUp
    <3>2. \A j \in 1 .. n : q(j) + 1 \in 1 .. m
      BY <1>1, <1>3, StrideGoesUp
    <3>3. \A j \in 1 .. n : at(j) = q(j) + 1
      OBVIOUS
    <3>4. \A j \in 1 .. n : q(j) \in Int
      OBVIOUS
    <3> HIDE DEF q, at
    <3> QED
      BY <3>1, <3>2, <3>3, <3>4
  <2> HIDE DEF at, s, m
  <2>3. s \in [1 .. n -> T] /\ \A i \in 1 .. n : s[i] = items[at(i)]
    BY <1>1, <2>1, <2>2
  <2>4. s \in Seq(T) /\ Len(s) = n /\ DOMAIN s = 1 .. n
    BY <2>3, FunctionIsSequence
  <2>5. ASSUME IsInjective(items)
        PROVE  IsInjective(s)
    <3> SUFFICES ASSUME NEW i \in 1 .. n, NEW j \in 1 .. n, s[i] = s[j]
                 PROVE  i = j
      BY <2>4 DEF IsInjective
    <3>1. at(i) = at(j)
      BY <1>1, <2>2, <2>3, <2>5 DEF IsInjective
    <3>2. i < j \/ j < i \/ i = j
      OBVIOUS
    <3>3. at(i) \in Int /\ at(j) \in Int
      BY <2>2
    <3> QED
      BY <2>2, <3>1, <3>2, <3>3
  <2> QED
    BY <1>3, <2>4, <2>5 DEF s, m
<1>4. n = m \/ n < m
  <2>1. n <= m
    OBVIOUS
  <2> HIDE DEF m
  <2> QED
    BY <1>1, <2>1
<1> QED
  BY <1>2, <1>3, <1>4

LEMMA PlanTierBIsOf ==
    ASSUME NEW T, NEW ps \in Seq([a : Seq(T), b : Seq(T)])
    PROVE  LET plan == PlanTierB(ps)
           IN  /\ plan.same \in Seq(T \X T) /\ plan.diff \in Seq(T \X T)
               /\ Len(plan.same) = Len(plan.diff)
               /\ IsPairList(ps) => IsInjective(plan.same) /\ IsInjective(plan.diff)
               /\ plan.same = SameRows(ps) \/ plan.diff = DiffRows(ps)
<1> DEFINE same == SameRows(ps)  diff == DiffRows(ps)  n == Min({Len(same), Len(diff)})
<1>1. /\ same \in Seq(T \X T) /\ diff \in Seq(T \X T)
      /\ IsPairList(ps) => IsInjective(same) /\ IsInjective(diff)
  BY SameRowsAreOf, DiffRowsAreOf
<1>2. PlanTierB(ps).same = StrideSample(same, n) /\ PlanTierB(ps).diff = StrideSample(diff, n)
  BY DEF PlanTierB
<1> HIDE DEF same, diff
<1>3. n \in Nat /\ n <= Len(same) /\ n <= Len(diff) /\ (n = Len(same) \/ n = Len(diff))
  <2>1. Len(same) \in Nat /\ Len(diff) \in Nat
    BY <1>1, LenProperties
  <2> QED
    BY <2>1, MinOfTwo
<1> HIDE DEF n
<1> QED
  BY <1>1, <1>2, <1>3, StrideSampleIsOf DEF same, diff

LEMMA FilesOfRows ==
    ASSUME NEW T, NEW filed \in Seq(T \X T)
    PROVE  /\ FilesOf(filed) \subseteq T
           /\ \A S : Range(filed) \cap (S \X S) # {} => FilesOf(filed) \cap S # {}
<1>1. DOMAIN filed = 1 .. Len(filed) /\ \A i \in 1 .. Len(filed) : filed[i] \in T \X T
  BY LenProperties, ElementOfSeq
<1>2. FilesOf(filed) \subseteq T
  BY <1>1 DEF FilesOf
<1>3. ASSUME NEW S, Range(filed) \cap (S \X S) # {}
      PROVE  FilesOf(filed) \cap S # {}
  <2>1. PICK i \in DOMAIN filed : filed[i] \in S \X S
    BY <1>3 DEF Range
  <2>2. filed[i][1] \in S /\ filed[i][1] \in FilesOf(filed)
    BY <2>1 DEF FilesOf
  <2> QED
    BY <2>2
<1> QED
  BY <1>2, <1>3

LEMMA ReadyPairIsPlanned ==
    ASSUME NEW T, NEW ps \in Seq([a : Seq(T), b : Seq(T)]), NEW p \in 1 .. Len(ps), PairReady(ps[p])
    PROVE  FilesOfPlan(PlanTierB(ps)) \cap FilesOfPair(ps[p]) # {}
<1> DEFINE plan == PlanTierB(ps)  F == FilesOfPair(ps[p])
<1>1. plan.same \in Seq(T \X T) /\ plan.diff \in Seq(T \X T)
  BY PlanTierBIsOf
<1>2. FilesOfPlan(plan) = FilesOf(plan.same) \cup FilesOf(plan.diff)
  BY DEF FilesOfPlan
<1>3. plan.same = SameRows(ps) \/ plan.diff = DiffRows(ps)
  BY PlanTierBIsOf
<1>4. Range(SameRows(ps)) \cap (F \X F) # {} /\ Range(DiffRows(ps)) \cap (F \X F) # {}
  BY SameRowsAreOf, DiffRowsAreOf
<1> HIDE DEF plan, F
<1>5. FilesOf(plan.same) \cap F # {} \/ FilesOf(plan.diff) \cap F # {}
  BY <1>1, <1>3, <1>4, FilesOfRows
<1> QED
  BY <1>2, <1>5 DEF plan, F

LEMMA PlannedOfPairs ==
    ASSUME pairs \in PairLists
    PROVE  RowsAreBalanced /\ ReadyPairsAreExported
<1>1. pairs \in Seq([a : Seq(Files), b : Seq(Files)]) /\ IsPairList(pairs)
  BY StudioPlanAssumption
<1>2. RowsAreBalanced
  BY <1>1, PlanTierBIsOf DEF RowsAreBalanced
<1>3. ReadyPairsAreExported
  BY <1>1, ReadyPairIsPlanned DEF ReadyPairsAreExported
<1> QED
  BY <1>2, <1>3

-----------------------------------------------------------------------------
(* The studio: the pairs, and the requests at work on them.                 *)

ActingCalls == {c \in Callers : call[c].pc \in {"fetching", "put"}}

\* Labels are given once in a language, and numbers of pairs.
LabelsDiffer ==
    /\ \A v, w \in Rows(word) : word[v].lang = word[w].lang /\ word[v].label = word[w].label => v = w
    /\ \A r, s \in Rows(speaker) : speaker[r].lang = speaker[s].lang /\ speaker[r].label = speaker[s].label => r = s
    /\ \A p, q \in Rows(pair) : pair[p].lang = pair[q].lang /\ pair[p].number = pair[q].number => p = q

\* The name a take was given is still the one its labels make.
NameOf(t) ==
    CASE take[t].tier = "a" -> TierAName(take[t].of, take[t].by, take[t].n)
      [] take[t].tier = "b" -> TierBName(take[t].of, take[t].by, take[t].n)
      [] take[t].tier = "c" -> TierCName(take[t].n)
NamesAreKept ==
    \A t \in Rows(take) : /\ take[t].name = NameOf(t)
                          /\ take[t].tier = "a" => speaker[take[t].by].lang = word[take[t].of].lang

\* A take has its place to itself.
OneTakePerPlace ==
    \A t, u \in Rows(take) :
        /\ take[t].tier = take[u].tier /\ take[t].of = take[u].of
        /\ take[t].by = take[u].by /\ take[t].n = take[u].n
        => t = u

RowsInv ==
    /\ word \in [Words -> NullOr(WordRows)] /\ speaker \in [Speakers -> NullOr(SpeakerRows)]
    /\ pair \in [Pairs -> NullOr(PairRows)]
    /\ DOMAIN take = Takes /\ \A t \in Rows(take) : take[t].tier \in Tiers /\ take[t] \in TakeRows(take[t].tier)
    /\ sorts \subseteq SortRows
    /\ RowsPointAtRows
    /\ IsFiniteSet(born) /\ UNION {Rows(word), Rows(speaker), Rows(pair), Rows(take)} \subseteq born
    /\ LabelsDiffer /\ NamesAreKept /\ OneTakePerPlace

\* What a request has read and is about to do.
CallFits(c) ==
    /\ call[c].pc = "counted" => call[c].of \in {"word", "speaker"} \X Languages /\ call[c].seen \in Nat
    /\ call[c].pc = "erasing" /\ call[c].of \in Takes => call[c].of \in born \ Rows(take)
    /\ call[c].pc \in {"fetching", "put"} =>
          /\ call[c].of \in Exports \cap born
          /\ call[c].seen \in [left : SUBSET Takes, files : SUBSET Takes]
          /\ call[c].of \in Rows(export) => /\ export[call[c].of].status = "building"
                                            /\ export[call[c].of].files = call[c].seen.files
    /\ call[c].pc = "put" /\ call[c].of \in Rows(export) => bundle[call[c].of] = call[c].seen.files
    /\ call[c].pc = "unbundling" => call[c].of \in born \ Rows(export)
    /\ call[c].pc = "plotting" => call[c].of \in Rows(result) \X Plots /\ call[c].seen \subseteq Plots

CallsInv ==
    /\ DOMAIN call = Callers
    /\ \A c \in Callers : call[c].pc \in {"idle", "counted", "sized", "erasing", "fetching", "put", "unbundling", "plotting"}
    /\ \A c \in Callers : CallFits(c)
    /\ \A c, d \in ActingCalls : call[c].of = call[d].of => c = d

ExportsInv ==
    /\ export \in [Exports -> NullOr(ExportRows)] /\ result \in [Results -> NullOr(ResultRows)]
    /\ bundle \in [Exports -> NullOr(SUBSET Takes)]
    /\ Rows(export) \cup Rows(result) \subseteq born
    /\ ReadyBundleIsWhole

BucketInv ==
    /\ audio \in [AudioKeys -> {"none", "good", "big"}] /\ ticket \subseteq AudioKeys
    /\ member \subseteq Languages \X Users

StudioInv == RowsInv /\ CallsInv /\ ExportsInv /\ BucketInv

LEMMA InsertedRow ==
    ASSUME NEW ids, NEW table, DOMAIN table = ids, NEW row, row # NULL, CanInsert(ids)
    PROVE  LET new == Insert(table, row)  i == Fresh(ids)
           IN  /\ i \in ids \ born
               /\ DOMAIN new = ids /\ Rows(new) = Rows(table) \cup {i}
               /\ new[i] = row /\ \A j \in ids : j # i => new[j] = table[j]
               /\ \A R : table \in [ids -> NullOr(R)] /\ row \in R => new \in [ids -> NullOr(R)]
<1> DEFINE i == Fresh(ids)  new == Insert(table, row)
<1>1. i \in ids \ born
  BY DEF CanInsert, Fresh
<1>2. new = [table EXCEPT ![i] = row]
  BY DEF Insert
<1> HIDE DEF i, new
<1>3. DOMAIN new = ids /\ new[i] = row /\ \A j \in ids : j # i => new[j] = table[j]
  BY <1>1, <1>2
<1>4. Rows(new) = Rows(table) \cup {i}
  BY <1>1, <1>3 DEF Rows
<1>5. ASSUME NEW R, table \in [ids -> NullOr(R)], row \in R
      PROVE  new \in [ids -> NullOr(R)]
  BY <1>1, <1>2, <1>5 DEF NullOr
<1> QED
  BY <1>1, <1>3, <1>4, <1>5 DEF i, new

LEMMA BornIsFinite ==
    ASSUME IsFiniteSet(born), NEW ids, Bear(ids)
    PROVE  IsFiniteSet(born') /\ born' = born \cup {Fresh(ids)}
BY FS_AddElement DEF Bear

\* Rows go, or stay what takes were named by.
RowsStay ==
    /\ Rows(word') \subseteq Rows(word) /\ Rows(speaker') \subseteq Rows(speaker)
    /\ Rows(pair') \subseteq Rows(pair) /\ Rows(take') \subseteq Rows(take)
    /\ \A w \in Rows(word') : word'[w].lang = word[w].lang /\ word'[w].label = word[w].label
    /\ \A s \in Rows(speaker') : speaker'[s].lang = speaker[s].lang /\ speaker'[s].label = speaker[s].label
    /\ \A p \in Rows(pair') : pair'[p].lang = pair[p].lang /\ pair'[p].number = pair[p].number
    /\ \A t \in Rows(take') : /\ take'[t].tier = take[t].tier /\ take'[t].of = take[t].of
                              /\ take'[t].by = take[t].by /\ take'[t].n = take[t].n
                              /\ take'[t].name = take[t].name
    /\ born \subseteq born' /\ IsFiniteSet(born')

TablesFit ==
    /\ word \in [Words -> NullOr(WordRows)] /\ speaker \in [Speakers -> NullOr(SpeakerRows)]
    /\ pair \in [Pairs -> NullOr(PairRows)]
    /\ DOMAIN take = Takes /\ \A t \in Rows(take) : take[t].tier \in Tiers /\ take[t] \in TakeRows(take[t].tier)
    /\ sorts \subseteq SortRows
    /\ RowsPointAtRows

\* What a take was named by is still there.
NamesStay ==
    /\ Rows(take') \subseteq Rows(take)
    /\ \A t \in Rows(take') : /\ take'[t].tier = take[t].tier /\ take'[t].of = take[t].of
                              /\ take'[t].by = take[t].by /\ take'[t].n = take[t].n
                              /\ take'[t].name = take[t].name
    /\ \A w \in Rows(word') \cap Rows(word) : word'[w].lang = word[w].lang /\ word'[w].label = word[w].label
    /\ \A s \in Rows(speaker') \cap Rows(speaker) :
          speaker'[s].lang = speaker[s].lang /\ speaker'[s].label = speaker[s].label
    /\ \A p \in Rows(pair') \cap Rows(pair) : pair'[p].lang = pair[p].lang /\ pair'[p].number = pair[p].number

LEMMA StayingNamesAreKept ==
    ASSUME RowsInv, NamesStay, TablesFit'
    PROVE  NamesAreKept'
<1> SUFFICES ASSUME NEW t \in Rows(take')
             PROVE  /\ take'[t].name = NameOf(t)'
                    /\ take'[t].tier = "a" => speaker'[take'[t].by].lang = word'[take'[t].of].lang
  BY DEF NamesAreKept
<1>1. /\ t \in Rows(take) /\ take[t].tier \in Tiers
      /\ take'[t].tier = take[t].tier /\ take'[t].of = take[t].of
      /\ take'[t].by = take[t].by /\ take'[t].n = take[t].n
      /\ take'[t].name = take[t].name
  BY DEF NamesStay, RowsInv
<1>2. take[t].name = NameOf(t)
  BY <1>1 DEF RowsInv, NamesAreKept
<1>3. CASE take[t].tier = "a"
  <2>1. take[t].of \in Rows(word') \cap Rows(word) /\ take[t].by \in Rows(speaker') \cap Rows(speaker)
    <3>1. RowsPointAtRows /\ RowsPointAtRows'
      BY DEF TablesFit, RowsInv
    <3>2. take[t].of \in Rows(word) /\ take[t].by \in Rows(speaker)
      BY <1>1, <1>3, <3>1 DEF RowsPointAtRows
    <3>3. take'[t].of \in Rows(word') /\ take'[t].by \in Rows(speaker')
      BY <1>1, <1>3, <3>1 DEF RowsPointAtRows
    <3> QED
      BY <1>1, <3>2, <3>3
  <2>2. /\ word'[take[t].of].label = word[take[t].of].label /\ word'[take[t].of].lang = word[take[t].of].lang
        /\ speaker'[take[t].by].label = speaker[take[t].by].label
        /\ speaker'[take[t].by].lang = speaker[take[t].by].lang
    BY <2>1 DEF NamesStay
  <2>3. speaker[take[t].by].lang = word[take[t].of].lang
    BY <1>1, <1>3 DEF RowsInv, NamesAreKept
  <2>4. NameOf(t) = TierAName(take[t].of, take[t].by, take[t].n)
    BY <1>3 DEF NameOf
  <2>5. NameOf(t)' = <<word'[take[t].of].label, speaker'[take[t].by].label, take[t].n>>
    BY <1>1, <1>3 DEF NameOf, TierAName
  <2> QED
    BY <1>1, <1>2, <2>2, <2>3, <2>4, <2>5 DEF TierAName
<1>4. CASE take[t].tier = "b"
  <2>1. take[t].of \in Rows(pair') \cap Rows(pair)
    BY <1>1, <1>4 DEF TablesFit, RowsPointAtRows, RowsInv
  <2>2. pair'[take[t].of].number = pair[take[t].of].number
    BY <2>1 DEF NamesStay
  <2>3. NameOf(t) = TierBName(take[t].of, take[t].by, take[t].n)
    BY <1>4 DEF NameOf
  <2>4. NameOf(t)' = <<pair'[take[t].of].number, take[t].by, take[t].n>>
    BY <1>1, <1>4 DEF NameOf, TierBName
  <2> QED
    BY <1>1, <1>2, <1>4, <2>2, <2>3, <2>4 DEF TierBName
<1>5. CASE take[t].tier = "c"
  BY <1>1, <1>2, <1>5 DEF NameOf, TierCName
<1> QED
  BY <1>1, <1>3, <1>4, <1>5 DEF Tiers

LEMMA StayingRowsFit ==
    ASSUME RowsInv, RowsStay, TablesFit'
    PROVE  RowsInv'
<1>1. UNION {Rows(word), Rows(speaker), Rows(pair), Rows(take)}' \subseteq born'
  BY DEF RowsInv, RowsStay
<1>2. LabelsDiffer'
  <2>1. \A v, w \in Rows(word') : word'[v].lang = word'[w].lang /\ word'[v].label = word'[w].label => v = w
    BY DEF RowsInv, RowsStay, LabelsDiffer
  <2>2. \A r, s \in Rows(speaker') : speaker'[r].lang = speaker'[s].lang /\ speaker'[r].label = speaker'[s].label => r = s
    BY DEF RowsInv, RowsStay, LabelsDiffer
  <2>3. \A p, q \in Rows(pair') : pair'[p].lang = pair'[q].lang /\ pair'[p].number = pair'[q].number => p = q
    BY DEF RowsInv, RowsStay, LabelsDiffer
  <2> QED
    BY <2>1, <2>2, <2>3 DEF LabelsDiffer
<1>3. NamesAreKept'
  <2>1. NamesStay
    BY DEF RowsStay, NamesStay
  <2> QED
    BY <2>1, StayingNamesAreKept
<1>4. OneTakePerPlace'
  BY DEF RowsInv, RowsStay, OneTakePerPlace
<1> QED
  BY <1>1, <1>2, <1>3, <1>4 DEF RowsInv, TablesFit, RowsStay

LEMMA NewWordFits ==
    ASSUME RowsInv, CanInsert(Words), NEW row \in WordRows,
           \A w \in Rows(word) : word[w].lang = row.lang => word[w].label # row.label,
           word' = Insert(word, row), Bear(Words), UNCHANGED <<speaker, pair, take, sorts>>
    PROVE  RowsInv'
<1> DEFINE i == Fresh(Words)
<1>1. row # NULL /\ DOMAIN word = Words
  BY RowsAreNotNull DEF RowsInv
<1>2. /\ i \in Words \ born /\ Rows(word') = Rows(word) \cup {i} /\ word'[i] = row
      /\ \A j \in Words : j # i => word'[j] = word[j]
      /\ word' \in [Words -> NullOr(WordRows)]
  BY <1>1, InsertedRow DEF RowsInv
<1>3. IsFiniteSet(born') /\ born' = born \cup {i}
  BY BornIsFinite DEF RowsInv
<1> HIDE DEF i
<1>4. \A j \in Rows(word) : j # i /\ word'[j] = word[j]
  BY <1>2 DEF RowsInv, Rows
<1>5. TablesFit'
  BY <1>2 DEF RowsInv, TablesFit, RowsPointAtRows
<1>6. LabelsDiffer'
  BY <1>2, <1>4 DEF RowsInv, LabelsDiffer
<1>7. NamesAreKept'
  <2>1. NamesStay
    BY <1>4 DEF NamesStay
  <2> QED
    BY <2>1, <1>5, StayingNamesAreKept
<1>8. OneTakePerPlace'
  BY DEF RowsInv, OneTakePerPlace
<1> QED
  BY <1>2, <1>3, <1>5, <1>6, <1>7, <1>8 DEF RowsInv, TablesFit

LEMMA NewSpeakerFits ==
    ASSUME RowsInv, CanInsert(Speakers), NEW row \in SpeakerRows,
           \A s \in Rows(speaker) : speaker[s].lang = row.lang => speaker[s].label # row.label,
           speaker' = Insert(speaker, row), Bear(Speakers), UNCHANGED <<word, pair, take, sorts>>
    PROVE  RowsInv'
<1> DEFINE i == Fresh(Speakers)
<1>1. row # NULL /\ DOMAIN speaker = Speakers
  BY RowsAreNotNull DEF RowsInv
<1>2. /\ i \in Speakers \ born /\ Rows(speaker') = Rows(speaker) \cup {i} /\ speaker'[i] = row
      /\ \A j \in Speakers : j # i => speaker'[j] = speaker[j]
      /\ speaker' \in [Speakers -> NullOr(SpeakerRows)]
  BY <1>1, InsertedRow DEF RowsInv
<1>3. IsFiniteSet(born') /\ born' = born \cup {i}
  BY BornIsFinite DEF RowsInv
<1> HIDE DEF i
<1>4. \A j \in Rows(speaker) : j # i /\ speaker'[j] = speaker[j]
  BY <1>2 DEF RowsInv, Rows
<1>5. TablesFit'
  BY <1>2 DEF RowsInv, TablesFit, RowsPointAtRows, NullOr
<1>6. LabelsDiffer'
  BY <1>2, <1>4 DEF RowsInv, LabelsDiffer
<1>7. NamesAreKept'
  <2>1. NamesStay
    BY <1>4 DEF NamesStay
  <2> QED
    BY <2>1, <1>5, StayingNamesAreKept
<1>8. OneTakePerPlace'
  BY DEF RowsInv, OneTakePerPlace
<1> QED
  BY <1>2, <1>3, <1>5, <1>6, <1>7, <1>8 DEF RowsInv, TablesFit

LEMMA NewPairFits ==
    ASSUME RowsInv, CreatePair
    PROVE  RowsInv'
<1> DEFINE i == Fresh(Pairs)
<1>1. PICK l \in Languages, n \in Reps, s \in NullOr(Rows(speaker)) :
          /\ \A p \in InLanguage(pair, l) : pair[p].number # n
          /\ pair' = Insert(pair, [lang |-> l, number |-> n, speaker |-> s])
  BY DEF CreatePair
<1> DEFINE row == [lang |-> l, number |-> n, speaker |-> s]
<1>2. row \in PairRows
  BY DEF PairRows, NullOr, Rows, RowsInv
<1>3. row # NULL /\ DOMAIN pair = Pairs /\ CanInsert(Pairs) /\ Bear(Pairs)
  BY <1>2, RowsAreNotNull DEF RowsInv, CreatePair
<1>4. \A p \in Rows(pair) : pair[p].lang = row.lang => pair[p].number # row.number
  BY <1>1 DEF InLanguage
<1>5. row.speaker \in NullOr(Rows(speaker))
  OBVIOUS
<1> HIDE DEF row
<1>6. /\ i \in Pairs \ born /\ Rows(pair') = Rows(pair) \cup {i} /\ pair'[i] = row
      /\ \A j \in Pairs : j # i => pair'[j] = pair[j]
      /\ pair' \in [Pairs -> NullOr(PairRows)]
  BY <1>1, <1>2, <1>3, InsertedRow DEF RowsInv, row
<1>7. IsFiniteSet(born') /\ born' = born \cup {i}
  BY <1>3, BornIsFinite DEF RowsInv
<1> HIDE DEF i
<1>8. \A j \in Rows(pair) : j # i /\ pair'[j] = pair[j]
  BY <1>6 DEF RowsInv, Rows
<1>9. UNCHANGED <<word, speaker, take, sorts>>
  BY DEF CreatePair
<1>10. TablesFit'
  BY <1>5, <1>6, <1>8, <1>9 DEF RowsInv, TablesFit, RowsPointAtRows
<1>11. LabelsDiffer'
  BY <1>4, <1>6, <1>8, <1>9 DEF RowsInv, LabelsDiffer
<1>12. NamesAreKept'
  <2>1. NamesStay
    BY <1>8, <1>9 DEF NamesStay
  <2> QED
    BY <2>1, <1>10, StayingNamesAreKept
<1>13. OneTakePerPlace'
  BY <1>9 DEF RowsInv, OneTakePerPlace
<1> QED
  BY <1>6, <1>7, <1>9, <1>10, <1>11, <1>12, <1>13 DEF RowsInv, TablesFit

LEMMA NewTakeFits ==
    ASSUME RowsInv, NEW row, OpenTake(row), row.tier \in Tiers, row \in TakeRows(row.tier),
           row.tier = "a" => /\ row.of \in Rows(word) /\ row.by \in Rows(speaker)
                             /\ speaker[row.by].lang = word[row.of].lang
                             /\ row.name = TierAName(row.of, row.by, row.n),
           row.tier = "b" => row.of \in Rows(pair) /\ row.name = TierBName(row.of, row.by, row.n),
           row.tier = "c" => row.name = TierCName(row.n)
    PROVE  RowsInv'
<1> DEFINE i == Fresh(Takes)
<1>1. row # NULL /\ DOMAIN take = Takes /\ CanInsert(Takes) /\ Bear(Takes) /\ take' = Insert(take, row)
  BY RowsAreNotNull DEF RowsInv, OpenTake
<1>2. /\ i \in Takes \ born /\ Rows(take') = Rows(take) \cup {i} /\ take'[i] = row
      /\ \A j \in Takes : j # i => take'[j] = take[j]
      /\ DOMAIN take' = Takes
  BY <1>1, InsertedRow
<1>3. IsFiniteSet(born') /\ born' = born \cup {i}
  BY <1>1, BornIsFinite DEF RowsInv
<1> HIDE DEF i
<1>4. \A j \in Rows(take) : j # i /\ take'[j] = take[j]
  BY <1>2 DEF RowsInv, Rows
<1>5. UNCHANGED <<word, speaker, pair, sorts>>
  BY DEF OpenTake
<1>6. \A t \in Rows(take) : ~ /\ take[t].tier = row.tier /\ take[t].of = row.of
                              /\ take[t].by = row.by /\ take[t].n = row.n
  BY DEF OpenTake
<1>7. TablesFit'
  <2>1. \A t \in Rows(take') : take'[t].tier \in Tiers /\ take'[t] \in TakeRows(take'[t].tier)
    BY <1>2, <1>4 DEF RowsInv
  <2>2. RowsPointAtRows'
    BY <1>2, <1>4, <1>5 DEF RowsInv, RowsPointAtRows
  <2> QED
    BY <1>2, <1>5, <2>1, <2>2 DEF RowsInv, TablesFit
<1>8. LabelsDiffer'
  BY <1>5 DEF RowsInv, LabelsDiffer
<1>9. NamesAreKept'
  <2> SUFFICES ASSUME NEW t \in Rows(take')
               PROVE  /\ take'[t].name = NameOf(t)'
                      /\ take'[t].tier = "a" => speaker'[take'[t].by].lang = word'[take'[t].of].lang
    BY DEF NamesAreKept
  <2>1. CASE t = i
    BY <1>2, <1>5, <2>1 DEF NameOf, Tiers, TierAName, TierBName, TierCName
  <2>2. CASE t \in Rows(take)
    BY <1>4, <1>5, <2>2 DEF RowsInv, NamesAreKept, NameOf, TierAName, TierBName, TierCName
  <2> QED
    BY <1>2, <2>1, <2>2
<1>10. OneTakePerPlace'
  BY <1>2, <1>4, <1>6 DEF RowsInv, OneTakePerPlace
<1> QED
  BY <1>2, <1>3, <1>5, <1>7, <1>8, <1>9, <1>10 DEF RowsInv, TablesFit

LEMMA RewrittenWordFits ==
    ASSUME RowsInv, NEW w \in Rows(word), NEW r \in WordRows,
           r.lang = word[w].lang, r.label = word[w].label,
           word' = [word EXCEPT ![w] = r], UNCHANGED <<speaker, pair, take, sorts, born>>
    PROVE  RowsInv'
<1>1. r # NULL /\ w \in Words /\ DOMAIN word = Words
  BY RowsAreNotNull DEF RowsInv, Rows
<1>2. /\ word' \in [Words -> NullOr(WordRows)] /\ word'[w] = r
      /\ \A v \in Words : v # w => word'[v] = word[v]
  BY <1>1 DEF RowsInv, NullOr
<1>3. Rows(word') = Rows(word)
  BY <1>1, <1>2 DEF Rows, RowsInv
<1>4. TablesFit'
  BY <1>2, <1>3 DEF RowsInv, TablesFit, RowsPointAtRows
<1>5. RowsStay
  BY <1>2, <1>3 DEF RowsInv, RowsStay, Rows
<1> QED
  BY <1>4, <1>5, StayingRowsFit

LEMMA UpdatedWordFits ==
    ASSUME RowsInv, UpdateWord
    PROVE  RowsInv'
<1>1. PICK w \in Rows(word), g \in NullOr(Glosses) : word' = [word EXCEPT ![w].gloss = g]
  BY DEF UpdateWord
<1> DEFINE r == [word[w] EXCEPT !.gloss = g]
<1>2. word[w] \in WordRows
  BY DEF RowsInv, Rows, NullOr
<1>3. r \in WordRows /\ r.lang = word[w].lang /\ r.label = word[w].label
  BY <1>2 DEF WordRows
<1>4. word' = [word EXCEPT ![w] = r] /\ UNCHANGED <<speaker, pair, take, sorts, born>>
  BY <1>1 DEF UpdateWord
<1> HIDE DEF r
<1> QED
  BY <1>3, <1>4, RewrittenWordFits

LEMMA ReferencedWordFits ==
    ASSUME RowsInv, NEW c, SetReference(c) \/ ClearReference(c) \/ CompleteReference(c)
    PROVE  RowsInv'
<1>1. UNCHANGED <<speaker, pair, take, sorts, born>>
  BY DEF SetReference, ClearReference, CompleteReference
<1>2. ASSUME NEW w \in Rows(word), NEW f \in NullOr(Formats), NEW s \in NullOr(UploadStatuses),
             word' = [word EXCEPT ![w].reference = f, ![w].status = s]
      PROVE  RowsInv'
  <2> DEFINE r == [word[w] EXCEPT !.reference = f, !.status = s]
  <2>1. word[w] \in WordRows /\ w \in DOMAIN word
    BY DEF RowsInv, Rows, NullOr
  <2>2. r \in WordRows /\ r.lang = word[w].lang /\ r.label = word[w].label
    BY <2>1 DEF WordRows
  <2>3. word' = [word EXCEPT ![w] = r]
    BY <1>2, <2>1
  <2> HIDE DEF r
  <2> QED
    BY <1>1, <2>2, <2>3, RewrittenWordFits
<1>3. CASE SetReference(c)
  <2>1. PICK w \in Rows(word), f \in Formats : word' = [word EXCEPT ![w].reference = f, ![w].status = "pending"]
    BY <1>3 DEF SetReference
  <2> QED
    BY <2>1, <1>2 DEF NullOr, UploadStatuses
<1>4. CASE ClearReference(c)
  <2>1. PICK w \in Rows(word) : word' = [word EXCEPT ![w].reference = NULL, ![w].status = NULL]
    BY <1>4 DEF ClearReference
  <2> QED
    BY <2>1, <1>2 DEF NullOr
<1>5. CASE CompleteReference(c)
  <2> DEFINE w == call[c].of[2]
  <2>1. CASE w \in Rows(word) /\ call[c].seen.status # "stored"
    <3>1. word' = [word EXCEPT ![w].status = "stored"]
      BY <1>5, <2>1 DEF CompleteReference
    <3>2. word[w] \in WordRows /\ w \in DOMAIN word
      BY <2>1 DEF RowsInv, Rows, NullOr
    <3> DEFINE r == [word[w] EXCEPT !.status = "stored"]
    <3>3. r \in WordRows /\ r.lang = word[w].lang /\ r.label = word[w].label
      BY <3>2 DEF WordRows, NullOr, UploadStatuses
    <3>4. word' = [word EXCEPT ![w] = r]
      BY <3>1
    <3> HIDE DEF r, w
    <3> QED
      BY <1>1, <2>1, <3>3, <3>4, RewrittenWordFits
  <2>2. CASE ~(w \in Rows(word) /\ call[c].seen.status # "stored")
    <3>1. word' = word
      BY <1>5, <2>2 DEF CompleteReference
    <3>2. TablesFit' /\ RowsStay
      BY <1>1, <3>1 DEF RowsInv, TablesFit, RowsPointAtRows, RowsStay
    <3> QED
      BY <3>2, StayingRowsFit
  <2> QED
    BY <2>1, <2>2
<1> QED
  BY <1>3, <1>4, <1>5

LEMMA DroppedTakes ==
    ASSUME RowsInv, NEW gone, DropTakes(gone)
    PROVE  /\ DOMAIN take' = Takes /\ Rows(take') = Rows(take) \ gone
           /\ \A t \in Rows(take') : take'[t] = take[t]
           /\ sorts' = {r \in sorts : r.clip \notin gone}
           /\ \A r \in sorts' : r.clip \in Rows(take') /\ take'[r.clip].tier = "c"
           /\ sorts' \subseteq SortRows
<1>1. take' = [t \in Takes |-> IF t \in gone THEN NULL ELSE take[t]] /\ sorts' = {r \in sorts : r.clip \notin gone}
  BY DEF DropTakes
<1>2. DOMAIN take' = Takes /\ Rows(take') = Rows(take) \ gone
  BY <1>1 DEF Rows, RowsInv
<1>3. \A t \in Rows(take') : take'[t] = take[t]
  BY <1>1, <1>2 DEF Rows
<1>4. \A r \in sorts' : r.clip \in Rows(take') /\ take'[r.clip].tier = "c"
  BY <1>1, <1>2, <1>3 DEF RowsInv, RowsPointAtRows
<1> QED
  BY <1>1, <1>2, <1>3, <1>4 DEF RowsInv

LEMMA DeletedTakeFits ==
    ASSUME RowsInv, NEW c, DeleteTake(c)
    PROVE  RowsInv'
<1>1. PICK t \in Rows(take) : DropTakes({t})
  BY DEF DeleteTake
<1>2. UNCHANGED <<word, speaker, pair, born>>
  BY DEF DeleteTake
<1>3. TablesFit'
  BY <1>1, <1>2, DroppedTakes DEF RowsInv, TablesFit, RowsPointAtRows
<1>4. RowsStay
  BY <1>1, <1>2, DroppedTakes DEF RowsInv, RowsStay
<1> QED
  BY <1>3, <1>4, StayingRowsFit

LEMMA DeletedWordFits ==
    ASSUME RowsInv, NEW c, DeleteWord(c)
    PROVE  RowsInv'
<1>1. PICK w \in Rows(word) : /\ word' = [word EXCEPT ![w] = NULL]
                              /\ DropTakes({t \in Rows(take) : take[t].tier = "a" /\ take[t].of = w})
  BY DEF DeleteWord
<1> DEFINE gone == {t \in Rows(take) : take[t].tier = "a" /\ take[t].of = w}
<1>2. UNCHANGED <<speaker, pair, born>>
  BY DEF DeleteWord
<1>3. /\ word' \in [Words -> NullOr(WordRows)] /\ Rows(word') = Rows(word) \ {w}
      /\ \A v \in Rows(word') : word'[v] = word[v]
  BY <1>1 DEF RowsInv, Rows, NullOr
<1>4. /\ DOMAIN take' = Takes /\ Rows(take') = Rows(take) \ gone
      /\ \A t \in Rows(take') : take'[t] = take[t]
      /\ \A r \in sorts' : r.clip \in Rows(take') /\ take'[r.clip].tier = "c"
      /\ sorts' \subseteq SortRows
  BY <1>1, DroppedTakes
<1>5. RowsPointAtRows'
  BY <1>2, <1>3, <1>4 DEF RowsInv, RowsPointAtRows
<1>6. TablesFit'
  BY <1>2, <1>3, <1>4, <1>5 DEF RowsInv, TablesFit
<1>7. RowsStay
  BY <1>2, <1>3, <1>4 DEF RowsInv, RowsStay
<1> QED
  BY <1>6, <1>7, StayingRowsFit

LEMMA DeletedSpeakerFits ==
    ASSUME RowsInv, DeleteSpeaker
    PROVE  RowsInv'
<1>1. PICK s \in Rows(speaker) :
          /\ speaker' = [speaker EXCEPT ![s] = NULL]
          /\ DropTakes({t \in Rows(take) : take[t].tier = "a" /\ take[t].by = s})
          /\ pair' = [p \in Pairs |-> IF p \in Rows(pair) /\ pair[p].speaker = s
                                      THEN [pair[p] EXCEPT !.speaker = NULL] ELSE pair[p]]
  BY DEF DeleteSpeaker
<1> DEFINE gone == {t \in Rows(take) : take[t].tier = "a" /\ take[t].by = s}
<1>2. UNCHANGED <<word, born>>
  BY DEF DeleteSpeaker
<1>3. /\ speaker' \in [Speakers -> NullOr(SpeakerRows)] /\ Rows(speaker') = Rows(speaker) \ {s}
      /\ \A v \in Rows(speaker') : speaker'[v] = speaker[v]
  BY <1>1 DEF RowsInv, Rows, NullOr
<1>4. /\ DOMAIN take' = Takes /\ Rows(take') = Rows(take) \ gone
      /\ \A t \in Rows(take') : take'[t] = take[t]
      /\ \A r \in sorts' : r.clip \in Rows(take') /\ take'[r.clip].tier = "c"
      /\ sorts' \subseteq SortRows
  BY <1>1, DroppedTakes
<1>5. ASSUME NEW p \in Pairs
      PROVE  /\ pair'[p] \in NullOr(PairRows) /\ (pair'[p] = NULL <=> pair[p] = NULL)
             /\ p \in Rows(pair) => /\ pair'[p].lang = pair[p].lang /\ pair'[p].number = pair[p].number
                                    /\ pair'[p].speaker \in NullOr(Rows(speaker'))
  <2>1. CASE p \in Rows(pair) /\ pair[p].speaker = s
    <3>1. pair'[p] = [pair[p] EXCEPT !.speaker = NULL] /\ pair[p] # NULL /\ pair[p] \in PairRows
      BY <1>1, <2>1 DEF Rows, RowsInv, NullOr
    <3>2. pair'[p] \in PairRows /\ pair'[p].lang = pair[p].lang /\ pair'[p].number = pair[p].number /\ pair'[p].speaker = NULL
      BY <3>1 DEF PairRows, NullOr
    <3> QED
      BY <3>1, <3>2, RowsAreNotNull DEF NullOr
  <2>2. CASE ~(p \in Rows(pair) /\ pair[p].speaker = s)
    <3>1. pair'[p] = pair[p] /\ pair[p] \in NullOr(PairRows)
      BY <1>1, <2>2 DEF RowsInv
    <3>2. p \in Rows(pair) => pair[p].speaker \in NullOr(Rows(speaker')) 
      BY <1>3, <2>2 DEF RowsInv, RowsPointAtRows, NullOr
    <3> QED
      BY <3>1, <3>2
  <2> QED
    BY <2>1, <2>2
<1>6. pair' \in [Pairs -> NullOr(PairRows)] /\ Rows(pair') = Rows(pair)
  BY <1>1, <1>5 DEF Rows, RowsInv
<1>7. RowsPointAtRows'
  <2>1. \A t \in Rows(take') : /\ take'[t].tier = "a" => take'[t].of \in Rows(word') /\ take'[t].by \in Rows(speaker')
                               /\ take'[t].tier = "b" => take'[t].of \in Rows(pair')
    BY <1>2, <1>3, <1>4, <1>6 DEF RowsInv, RowsPointAtRows
  <2>2. \A p \in Rows(pair') : pair'[p].speaker \in NullOr(Rows(speaker'))
    BY <1>5, <1>6 DEF Rows, RowsInv
  <2> QED
    BY <1>4, <2>1, <2>2 DEF RowsPointAtRows
<1>8. TablesFit'
  BY <1>2, <1>3, <1>4, <1>6, <1>7 DEF RowsInv, TablesFit
<1>9. RowsStay
  <2>1. \A p \in Rows(pair') : pair'[p].lang = pair[p].lang /\ pair'[p].number = pair[p].number
    BY <1>5, <1>6 DEF Rows, RowsInv
  <2> QED
    BY <1>2, <1>3, <1>4, <1>6, <2>1 DEF RowsInv, RowsStay
<1> QED
  BY <1>8, <1>9, StayingRowsFit

LEMMA DeletedPairFits ==
    ASSUME RowsInv, DeletePair
    PROVE  RowsInv'
<1>1. PICK p \in Rows(pair) : /\ pair' = [pair EXCEPT ![p] = NULL]
                              /\ DropTakes({t \in Rows(take) : take[t].tier = "b" /\ take[t].of = p})
  BY DEF DeletePair
<1> DEFINE gone == {t \in Rows(take) : take[t].tier = "b" /\ take[t].of = p}
<1>2. UNCHANGED <<word, speaker, born>>
  BY DEF DeletePair
<1>3. /\ pair' \in [Pairs -> NullOr(PairRows)] /\ Rows(pair') = Rows(pair) \ {p}
      /\ \A v \in Rows(pair') : pair'[v] = pair[v]
  BY <1>1 DEF RowsInv, Rows, NullOr
<1>4. /\ DOMAIN take' = Takes /\ Rows(take') = Rows(take) \ gone
      /\ \A t \in Rows(take') : take'[t] = take[t]
      /\ \A r \in sorts' : r.clip \in Rows(take') /\ take'[r.clip].tier = "c"
      /\ sorts' \subseteq SortRows
  BY <1>1, DroppedTakes
<1>5. RowsPointAtRows'
  BY <1>2, <1>3, <1>4 DEF RowsInv, RowsPointAtRows
<1>6. TablesFit'
  BY <1>2, <1>3, <1>4, <1>5 DEF RowsInv, TablesFit
<1>7. RowsStay
  BY <1>2, <1>3, <1>4 DEF RowsInv, RowsStay
<1> QED
  BY <1>6, <1>7, StayingRowsFit

LEMMA CompletedTakeFits ==
    ASSUME RowsInv, NEW c, Complete(c)
    PROVE  RowsInv'
<1> DEFINE t == call[c].of[2]
<1>1. UNCHANGED <<word, speaker, pair, sorts, born>>
  BY DEF Complete
<1>2. take' = IF t \in Rows(take) THEN [take EXCEPT ![t].status = "stored"] ELSE take
  BY DEF Complete
<1> HIDE DEF t
<1>3. DOMAIN take' = Takes /\ \A u \in Takes : u # t => take'[u] = take[u]
  BY <1>2 DEF RowsInv
<1>4. ASSUME t \in Rows(take)
      PROVE  /\ t \in Takes /\ take'[t] # NULL
             /\ take'[t].tier = take[t].tier /\ take'[t].of = take[t].of /\ take'[t].by = take[t].by
             /\ take'[t].n = take[t].n /\ take'[t].name = take[t].name
             /\ take'[t] \in TakeRows(take[t].tier)
  <2>1. t \in Takes /\ take[t].tier \in Tiers /\ take[t] \in TakeRows(take[t].tier)
    BY <1>4 DEF RowsInv, Rows
  <2>2. take'[t] = [take[t] EXCEPT !.status = "stored"]
    BY <1>2, <1>4, <2>1 DEF RowsInv
  <2>3. /\ take'[t].tier = take[t].tier /\ take'[t].of = take[t].of /\ take'[t].by = take[t].by
        /\ take'[t].n = take[t].n /\ take'[t].name = take[t].name
        /\ take'[t] \in TakeRows(take[t].tier)
    <3>1. CASE take[t].tier = "a"
      BY <2>1, <2>2, <3>1 DEF TakeRows, UploadStatuses
    <3>2. CASE take[t].tier = "b"
      BY <2>1, <2>2, <3>2 DEF TakeRows, UploadStatuses
    <3>3. CASE take[t].tier = "c"
      BY <2>1, <2>2, <3>3 DEF TakeRows, UploadStatuses
    <3> QED
      BY <2>1, <3>1, <3>2, <3>3 DEF Tiers
  <2> QED
    BY <2>1, <2>3, RowsAreNotNull
<1>5. Rows(take') = Rows(take)
  <2>1. CASE t \in Rows(take)
    BY <2>1, <1>3, <1>4 DEF Rows, RowsInv
  <2>2. CASE t \notin Rows(take)
    BY <2>2, <1>2
  <2> QED
    BY <2>1, <2>2
<1>6. \A u \in Rows(take) : /\ take'[u].tier = take[u].tier /\ take'[u].of = take[u].of
                            /\ take'[u].by = take[u].by /\ take'[u].n = take[u].n
                            /\ take'[u].name = take[u].name /\ take'[u] \in TakeRows(take[u].tier)
  <2>1. \A u \in Rows(take) : u \in Takes /\ take[u] \in TakeRows(take[u].tier)
    BY DEF RowsInv, Rows
  <2> QED
    BY <2>1, <1>3, <1>4
<1>7. RowsPointAtRows'
  BY <1>1, <1>5, <1>6 DEF RowsInv, RowsPointAtRows
<1>8. TablesFit'
  <2>1. \A u \in Rows(take') : take'[u].tier \in Tiers /\ take'[u] \in TakeRows(take'[u].tier)
    BY <1>5, <1>6 DEF RowsInv
  <2> QED
    BY <1>1, <1>3, <1>7, <2>1 DEF RowsInv, TablesFit
<1>9. RowsStay
  BY <1>1, <1>5, <1>6 DEF RowsInv, RowsStay
<1> QED
  BY <1>8, <1>9, StayingRowsFit

LEMMA SortedClipFits ==
    ASSUME RowsInv, UpsertSort
    PROVE  RowsInv'
<1>1. PICK t \in Rows(take), d \in Dimensions, r \in Rounds, g \in NullOr(Groups) :
          /\ take[t].tier = "c"
          /\ sorts' = {x \in sorts : <<x.clip, x.dimension, x.round>> # <<t, d, r>>}
                      \cup {[clip |-> t, dimension |-> d, round |-> r, group |-> g]}
  BY DEF UpsertSort
<1>2. UNCHANGED <<word, speaker, pair, take, born>>
  BY DEF UpsertSort
<1>3. [clip |-> t, dimension |-> d, round |-> r, group |-> g] \in SortRows
  BY DEF SortRows, Rows, RowsInv
<1>4. RowsPointAtRows'
  BY <1>1, <1>2 DEF RowsInv, RowsPointAtRows
<1>5. TablesFit' /\ RowsStay
  BY <1>1, <1>2, <1>3, <1>4 DEF RowsInv, TablesFit, RowsStay
<1> QED
  BY <1>5, StayingRowsFit

LEMMA KeptRowsFit ==
    ASSUME RowsInv, UNCHANGED tables, UNCHANGED born \/ \E ids : Bear(ids)
    PROVE  RowsInv'
<1>1. UNCHANGED <<word, speaker, pair, take, sorts>>
  BY DEF tables
<1>2. born \subseteq born' /\ IsFiniteSet(born')
  BY BornIsFinite DEF RowsInv
<1>3. TablesFit' /\ RowsStay
  BY <1>1, <1>2 DEF RowsInv, TablesFit, RowsPointAtRows, RowsStay
<1> QED
  BY <1>3, StayingRowsFit

LEMMA FreeLabel ==
    ASSUME NEW table, NEW l, NEW n \in Nat, FreeLabels(table, l, n) # {}
    PROVE  LET m == Min(FreeLabels(table, l, n))
           IN  m \in Nat /\ \A i \in Rows(table) : table[i].lang = l => table[i].label # m
<1> DEFINE free == FreeLabels(table, l, n)
<1>1. free \subseteq Nat
  BY StudioAssumption DEF FreeLabels
<1>2. Min(free) \in free
  BY <1>1, MinOf
<1>3. Min(free) \notin Taken(table, l)
  BY <1>2 DEF FreeLabels
<1> QED
  BY <1>1, <1>2, <1>3 DEF Taken, InLanguage

LEMMA CreatedWordFits ==
    ASSUME RowsInv, NEW c \in Callers, CallFits(c), CreateWord(c)
    PROVE  RowsInv'
<1> DEFINE l == call[c].of[2]  free == FreeLabels(word, l, call[c].seen)
<1>1. l \in Languages /\ call[c].seen \in Nat
  BY DEF CallFits, CreateWord
<1>2. CASE free = {}
  <2>1. UNCHANGED <<word, speaker, pair, take, sorts>> /\ UNCHANGED born
    BY <1>2 DEF CreateWord
  <2> QED
    BY <2>1, KeptRowsFit DEF tables
<1>3. CASE free # {}
  <2>1. PICK g \in NullOr(Glosses) : word' = Insert(word, NewWord(l, Min(free), g))
    BY <1>3 DEF CreateWord
  <2>2. Bear(Words) /\ CanInsert(Words) /\ UNCHANGED <<speaker, pair, take, sorts>>
    BY <1>3 DEF CreateWord
  <2>3. Min(free) \in Nat /\ \A w \in Rows(word) : word[w].lang = l => word[w].label # Min(free)
    BY <1>1, <1>3, FreeLabel
  <2> DEFINE row == NewWord(l, Min(free), g)
  <2> HIDE DEF l, free
  <2>4. row \in WordRows /\ row.lang = l /\ row.label = Min(free)
    BY <1>1, <2>3 DEF NewWord, WordRows, NullOr
  <2> HIDE DEF row
  <2> QED
    BY <2>1, <2>2, <2>3, <2>4, NewWordFits DEF row
<1> QED
  BY <1>2, <1>3

LEMMA CreatedSpeakerFits ==
    ASSUME RowsInv, NEW c \in Callers, CallFits(c), CreateSpeaker(c)
    PROVE  RowsInv'
<1> DEFINE l == call[c].of[2]  free == FreeLabels(speaker, l, call[c].seen)
<1>1. l \in Languages /\ call[c].seen \in Nat
  BY DEF CallFits, CreateSpeaker
<1>2. CASE free = {}
  <2>1. UNCHANGED <<word, speaker, pair, take, sorts>> /\ UNCHANGED born
    BY <1>2 DEF CreateSpeaker
  <2> QED
    BY <2>1, KeptRowsFit DEF tables
<1>3. CASE free # {}
  <2> DEFINE row == [lang |-> l, label |-> Min(free)]
  <2>1. /\ speaker' = Insert(speaker, row) /\ Bear(Speakers) /\ CanInsert(Speakers)
        /\ UNCHANGED <<word, pair, take, sorts>>
    BY <1>3 DEF CreateSpeaker
  <2>2. Min(free) \in Nat /\ \A s \in Rows(speaker) : speaker[s].lang = l => speaker[s].label # Min(free)
    BY <1>1, <1>3, FreeLabel
  <2> HIDE DEF l, free
  <2>3. row \in SpeakerRows /\ row.lang = l /\ row.label = Min(free)
    BY <1>1, <2>2 DEF SpeakerRows
  <2> HIDE DEF row
  <2> QED
    BY <2>1, <2>2, <2>3, NewSpeakerFits
<1> QED
  BY <1>2, <1>3

LEMMA NamedSpeakerFits ==
    ASSUME RowsInv, CreateSpeakerNamed
    PROVE  RowsInv'
<1>1. PICK l \in Languages, n \in Reps : /\ n \notin Taken(speaker, l)
                                         /\ speaker' = Insert(speaker, [lang |-> l, label |-> n])
  BY DEF CreateSpeakerNamed
<1> DEFINE row == [lang |-> l, label |-> n]
<1>2. row \in SpeakerRows /\ row.lang = l /\ row.label = n
  BY StudioAssumption DEF SpeakerRows
<1>3. \A s \in Rows(speaker) : speaker[s].lang = l => speaker[s].label # n
  BY <1>1 DEF Taken, InLanguage
<1>4. CanInsert(Speakers) /\ Bear(Speakers) /\ UNCHANGED <<word, pair, take, sorts>>
  BY DEF CreateSpeakerNamed
<1> HIDE DEF row
<1> QED
  BY <1>1, <1>2, <1>3, <1>4, NewSpeakerFits DEF row

LEMMA CreatedTakeFits ==
    ASSUME RowsInv, CreateRecordingA \/ CreateRecordingB \/ CreateClip
    PROVE  RowsInv'
<1>1. CASE CreateRecordingA
  <2>1. PICK w \in Rows(word), s \in Rows(speaker), n \in Reps :
            /\ speaker[s].lang = word[w].lang
            /\ OpenTake(NewTake("a", w, s, n, TierAName(w, s, n)))
    BY <1>1 DEF CreateRecordingA
  <2> DEFINE row == NewTake("a", w, s, n, TierAName(w, s, n))
  <2>2. /\ word[w].label \in Nat /\ speaker[s].label \in Nat /\ w \in Words /\ s \in Speakers
    BY DEF RowsInv, Rows, NullOr, WordRows, SpeakerRows
  <2>3. /\ row.tier = "a" /\ row.of = w /\ row.by = s /\ row.n = n /\ row.name = TierAName(w, s, n)
        /\ row \in TakeRows("a")
    BY <2>2 DEF NewTake, TakeRows, TierAName, UploadStatuses
  <2> HIDE DEF row
  <2> QED
    BY <2>1, <2>3, NewTakeFits DEF Tiers, row
<1>2. CASE CreateRecordingB
  <2>1. PICK p \in Rows(pair), side \in Sides, n \in Reps : OpenTake(NewTake("b", p, side, n, TierBName(p, side, n)))
    BY <1>2 DEF CreateRecordingB
  <2> DEFINE row == NewTake("b", p, side, n, TierBName(p, side, n))
  <2>2. pair[p].number \in Reps /\ p \in Pairs
    BY DEF RowsInv, Rows, NullOr, PairRows
  <2>3. /\ row.tier = "b" /\ row.of = p /\ row.by = side /\ row.n = n /\ row.name = TierBName(p, side, n)
        /\ row \in TakeRows("b")
    BY <2>2 DEF NewTake, TakeRows, TierBName, UploadStatuses
  <2> HIDE DEF row
  <2> QED
    BY <2>1, <2>3, NewTakeFits DEF Tiers, row
<1>3. CASE CreateClip
  <2>1. PICK l \in Languages, n \in Reps : OpenTake(NewTake("c", l, NULL, n, TierCName(n)))
    BY <1>3 DEF CreateClip
  <2> DEFINE row == NewTake("c", l, NULL, n, TierCName(n))
  <2>2. /\ row.tier = "c" /\ row.n = n /\ row.name = TierCName(n)
        /\ row \in TakeRows("c")
    BY DEF NewTake, TakeRows, TierCName, UploadStatuses
  <2> HIDE DEF row
  <2> QED
    BY <2>1, <2>2, NewTakeFits DEF Tiers, row
<1> QED
  BY <1>1, <1>2, <1>3

LEMMA RowsStep ==
    ASSUME RowsInv, \A c \in Callers : CallFits(c), [StudioNext]_studioVars
    PROVE  RowsInv'
<1> USE DEF tables
<1>1. ASSUME NEW tier \in Tiers, Collect(tier)
      PROVE  RowsInv'
  BY <1>1, NamedSpeakerFits, UpdatedWordFits, CreatedTakeFits, DeletedSpeakerFits, NewPairFits, DeletedPairFits,
     SortedClipFits DEF Collect
<1>2. CASE Upload \/ ExpireTicket \/ AddMember \/ RemoveMember
  BY <1>2, KeptRowsFit DEF Upload, ExpireTicket, AddMember, RemoveMember
<1>3. CASE CreateResult
  BY <1>3, KeptRowsFit DEF CreateResult
<1>4. ASSUME NEW c \in Callers, TakeSteps(c)
      PROVE  RowsInv'
  <2>1. CASE BeginComplete(c) \/ ObjectSteps(c)
    BY <2>1, KeptRowsFit DEF BeginComplete, ObjectSteps, Reject, Erase, Breaks
  <2> QED
    BY <2>1, <1>4, CompletedTakeFits, DeletedTakeFits DEF TakeSteps
<1>5. ASSUME NEW c \in Callers, WordSteps(c)
      PROVE  RowsInv'
  <2>1. CASE CountRows(c)
    BY <2>1, KeptRowsFit DEF CountRows
  <2> QED
    BY <2>1, <1>5, CreatedWordFits, CreatedSpeakerFits, DeletedWordFits DEF WordSteps
<1>6. ASSUME NEW c \in Callers, ReferenceSteps(c)
      PROVE  RowsInv'
  <2>1. CASE BeginCompleteReference(c)
    BY <2>1, KeptRowsFit DEF BeginCompleteReference
  <2> QED
    BY <2>1, <1>6, ReferencedWordFits, DeletedWordFits DEF ReferenceSteps
<1>7. ASSUME NEW c \in Callers, ExportSteps(c)
      PROVE  RowsInv'
  <2>1. CASE BeginExport(c)
    BY <2>1, KeptRowsFit DEF BeginExport
  <2>2. CASE Building(c) \/ DeleteExport(c) \/ EraseBundle(c)
    BY <2>2, KeptRowsFit DEF Building, FinishExport, Fetch, PutBundle, FailExport, DeleteExport, EraseBundle
  <2> QED
    BY <2>1, <2>2, <1>7 DEF ExportSteps
<1>8. ASSUME NEW c \in Callers, PlotSteps(c)
      PROVE  RowsInv'
  BY <1>8, KeptRowsFit DEF PlotSteps, BeginPlot, CommitPlot
<1>9. CASE UNCHANGED studioVars
  BY <1>9, KeptRowsFit DEF studioVars
<1> QED
  BY <1>1, <1>2, <1>3, <1>4, <1>5, <1>6, <1>7, <1>8, <1>9 DEF StudioNext

-----------------------------------------------------------------------------
(* What an export is planned of.                                           *)

LEMMA RowsAreFinite ==
    ASSUME RowsInv
    PROVE  IsFiniteSet(Rows(word)) /\ IsFiniteSet(Rows(speaker)) /\ IsFiniteSet(Rows(pair)) /\ IsFiniteSet(Rows(take))
BY FS_Subset DEF RowsInv

LEMMA StoredAreRows ==
    ASSUME RowsInv, NEW tier, NEW l
    PROVE  /\ Stored(tier, l) \subseteq Rows(take) /\ Rows(take) \subseteq Takes
           /\ IsFiniteSet(Stored(tier, l))
           /\ \A t \in Stored(tier, l) : take[t].tier = tier /\ LanguageOf(t) = l
BY RowsAreFinite, FS_Subset DEF RowsInv, Rows, Stored

LEMMA SideFilesAreOf ==
    ASSUME RowsInv, NEW p \in Rows(pair), NEW side
    PROVE  /\ SideFiles(p, side) \in Seq(Takes) /\ IsInjective(SideFiles(p, side))
           /\ \A t \in Range(SideFiles(p, side)) : take[t].of = p /\ take[t].by = side
<1> DEFINE said == {t \in Stored("b", pair[p].lang) : take[t].of = p /\ take[t].by = side}
           key == [t \in said |-> take[t].n]
           s == SideFiles(p, side)
<1>1. s = SortedBy(said, key)
  BY DEF SideFiles
<1>2. IsFiniteSet(said) /\ said \subseteq Rows(take) /\ said \subseteq Takes
  BY StoredAreRows, FS_Subset
<1>3. ASSUME NEW t \in said
      PROVE  /\ take[t].tier = "b" /\ take[t].of = p /\ take[t].by = side /\ take[t].n \in Nat
  <2>1. take[t].tier = "b"
    BY StoredAreRows
  <2>2. take[t] \in TakeRows("b")
    BY <1>2, <2>1 DEF RowsInv
  <2> QED
    BY <2>1, <2>2, StudioAssumption DEF TakeRows
<1>4. \A t, u \in said : take[t].n = take[u].n => t = u
  BY <1>2, <1>3 DEF RowsInv, OneTakePerPlace
<1>5. \A t \in said : key[t] = take[t].n
  OBVIOUS
<1> HIDE DEF said, key, s
<1>6. /\ s \in [1 .. Cardinality(said) -> said] /\ Cardinality(said) \in Nat
      /\ \A i, j \in 1 .. Cardinality(said) : i < j => key[s[i]] < key[s[j]]
  BY <1>1, <1>2, <1>3, <1>4, <1>5, SortedByKeys, SMTT(30)
<1>7. s \in Seq(Takes) /\ DOMAIN s = 1 .. Cardinality(said)
  BY <1>2, <1>6, FunctionIsSequence
<1>8. IsInjective(s)
  <2> SUFFICES ASSUME NEW i \in 1 .. Cardinality(said), NEW j \in 1 .. Cardinality(said), s[i] = s[j]
               PROVE  i = j
    BY <1>7 DEF IsInjective
  <2>1. i < j \/ j < i \/ i = j
    BY <1>6
  <2>2. key[s[i]] \in Nat
    BY <1>3, <1>5, <1>6
  <2> QED
    BY <2>1, <2>2, <1>6
<1>9. \A t \in Range(s) : take[t].of = p /\ take[t].by = side
  BY <1>3, <1>6 DEF Range
<1> QED
  BY <1>7, <1>8, <1>9 DEF s

\* The list that an export is planned of is one that the plan is made for.
LEMMA TierBIsPairList ==
    ASSUME RowsInv, NEW l
    PROVE  TierB(l) \in Seq([a : Seq(Takes), b : Seq(Takes)]) /\ IsPairList(TierB(l))
<1> DEFINE stored == {take[t].of : t \in Stored("b", l)}
           key == [p \in stored |-> pair[p].number]
           heard == SortedBy(stored, key)
           ps == [i \in DOMAIN heard |-> [a |-> SideFiles(heard[i], "a"), b |-> SideFiles(heard[i], "b")]]
<1>1. TierB(l) = ps
  BY DEF TierB
<1>2. ASSUME NEW p \in stored
      PROVE  p \in Rows(pair) /\ pair[p].lang = l /\ pair[p].number \in Nat
  <2>1. PICK t \in Stored("b", l) : p = take[t].of
    OBVIOUS
  <2>2. t \in Rows(take) /\ take[t].tier = "b" /\ LanguageOf(t) = l
    BY StoredAreRows
  <2>3. p \in Rows(pair)
    BY <2>1, <2>2 DEF RowsInv, RowsPointAtRows
  <2>4. pair[p] \in PairRows
    BY <2>3 DEF RowsInv, Rows, NullOr
  <2> QED
    BY <2>1, <2>2, <2>3, <2>4, StudioAssumption DEF LanguageOf, PairRows
<1>3. \A p \in stored : key[p] = pair[p].number
  OBVIOUS
<1> HIDE DEF stored, key, ps
<1>4. \A p, q \in stored : key[p] = key[q] => p = q
  BY <1>2, <1>3 DEF RowsInv, LabelsDiffer
<1>5. IsFiniteSet(stored)
  BY <1>2, RowsAreFinite, FS_Subset
<1>6. /\ heard \in [1 .. Cardinality(stored) -> stored] /\ Cardinality(stored) \in Nat
      /\ \A i, j \in 1 .. Cardinality(stored) : i < j => key[heard[i]] < key[heard[j]]
  BY <1>2, <1>3, <1>4, <1>5, SortedByKeys
<1> HIDE DEF heard
<1> DEFINE n == Cardinality(stored)
<1>7. \A i, j \in 1 .. n : heard[i] = heard[j] => i = j
  <2> SUFFICES ASSUME NEW i \in 1 .. n, NEW j \in 1 .. n, heard[i] = heard[j]
               PROVE  i = j
    OBVIOUS
  <2>1. i < j \/ j < i \/ i = j
    BY <1>6
  <2>2. key[heard[i]] \in Nat
    BY <1>2, <1>3, <1>6
  <2> QED
    BY <2>1, <2>2, <1>6
<1>8. ASSUME NEW i \in 1 .. n
      PROVE  /\ ps[i] = [a |-> SideFiles(heard[i], "a"), b |-> SideFiles(heard[i], "b")]
             /\ ps[i] \in [a : Seq(Takes), b : Seq(Takes)]
             /\ IsInjective(ps[i].a) /\ IsInjective(ps[i].b)
             /\ \A t \in ToSet(ps[i].a) : take[t].of = heard[i] /\ take[t].by = "a"
             /\ \A t \in ToSet(ps[i].b) : take[t].of = heard[i] /\ take[t].by = "b"
  <2> DEFINE a == SideFiles(heard[i], "a")  b == SideFiles(heard[i], "b")
  <2>1. heard[i] \in Rows(pair)
    BY <1>2, <1>6
  <2>2. /\ a \in Seq(Takes) /\ IsInjective(a) /\ \A t \in Range(a) : take[t].of = heard[i] /\ take[t].by = "a"
        /\ b \in Seq(Takes) /\ IsInjective(b) /\ \A t \in Range(b) : take[t].of = heard[i] /\ take[t].by = "b"
    BY <2>1, SideFilesAreOf
  <2>3. ps[i] = [a |-> a, b |-> b]
    BY <1>6 DEF ps
  <2>4. Range(a) = ToSet(a) /\ Range(b) = ToSet(b)
    BY DEF Range, ToSet
  <2> HIDE DEF a, b
  <2>5. ps[i].a = a /\ ps[i].b = b /\ ps[i] \in [a : Seq(Takes), b : Seq(Takes)]
    BY <2>2, <2>3
  <2> QED
    BY <2>2, <2>3, <2>4, <2>5 DEF a, b
<1>9. ps \in Seq([a : Seq(Takes), b : Seq(Takes)]) /\ DOMAIN ps = 1 .. n
  <2>1. DOMAIN ps = 1 .. n /\ ps = [i \in 1 .. n |-> ps[i]]
    BY <1>6 DEF ps
  <2>2. ps \in [1 .. n -> [a : Seq(Takes), b : Seq(Takes)]]
    BY <1>8, <2>1
  <2> QED
    BY <1>6, <2>2, FunctionIsSequence
<1>10. IsPairList(ps)
  <2>1. ASSUME NEW i \in 1 .. n
        PROVE  ToSet(ps[i].a) \cap ToSet(ps[i].b) = {}
    <3>1. \A t \in ToSet(ps[i].a) \cap ToSet(ps[i].b) : take[t].by = "a" /\ take[t].by = "b"
      BY <1>8
    <3> QED
      BY <3>1
  <2>2. ASSUME NEW i \in 1 .. n, NEW j \in 1 .. n, i # j
        PROVE  FilesOfPair(ps[i]) \cap FilesOfPair(ps[j]) = {}
    <3>1. \A t \in FilesOfPair(ps[i]) : take[t].of = heard[i]
      BY <1>8 DEF FilesOfPair
    <3>2. \A t \in FilesOfPair(ps[j]) : take[t].of = heard[j]
      BY <1>8 DEF FilesOfPair
    <3> QED
      BY <3>1, <3>2, <1>7, <2>2
  <2>3. \A i \in 1 .. n : IsInjective(ps[i].a) /\ IsInjective(ps[i].b)
    BY <1>8
  <2> QED
    BY <1>9, <2>1, <2>2, <2>3 DEF IsPairList
<1> QED
  BY <1>1, <1>9, <1>10

LEMMA PlannedAreTakes ==
    ASSUME RowsInv, NEW l
    PROVE  Planned(l) \subseteq Takes
<1>1. {r.file : r \in PlanTierA(TierA(l))} \subseteq Takes
  <2>1. \A r \in TierA(l) : r.file \in Takes
    BY StoredAreRows DEF TierA
  <2> QED
    BY <2>1 DEF PlanTierA
<1>2. FilesOfPlan(PlanTierB(TierB(l))) \subseteq Takes
  <2> DEFINE plan == PlanTierB(TierB(l))
  <2>1. plan.same \in Seq(Takes \X Takes) /\ plan.diff \in Seq(Takes \X Takes)
    BY TierBIsPairList, PlanTierBIsOf
  <2> HIDE DEF plan
  <2>2. FilesOfPlan(plan) \subseteq Takes
    BY <2>1, FilesOfRows DEF FilesOfPlan
  <2> QED
    BY <2>2 DEF plan
<1>3. {r.clip : r \in {s \in TierC(l) : s.round = "normal"}} \subseteq Takes
  BY StoredAreRows DEF TierC
<1> QED
  BY <1>1, <1>2, <1>3 DEF Planned

LEMMA ReadyWordsArePlanned ==
    ASSUME RowsInv
    PROVE  ReadyWordsAreExported
<1> SUFFICES ASSUME NEW w \in Rows(word), WordReady(w), NEW t \in Rows(take),
                    take[t].tier = "a", take[t].of = w, take[t].status = "stored"
             PROVE  t \in Planned(word[w].lang)
  BY DEF ReadyWordsAreExported
<1> DEFINE l == word[w].lang  recs == TierA(l)  r == [file |-> t, label |-> WordLabel(w)]
           said == {u \in Stored("a", l) : take[u].of = w}
           same == Instances(recs, WordLabel(w))
<1>1. t \in Stored("a", l)
  BY DEF Stored, LanguageOf
<1>2. r \in recs
  BY <1>1 DEF TierA
<1>3. IsFiniteSet(Stored("a", l)) /\ IsFiniteSet(said)
  BY StoredAreRows, FS_Subset
<1>4. IsFiniteSet(recs)
  <2> DEFINE f == [u \in Stored("a", l) |-> [file |-> u, label |-> WordLabel(take[u].of)]]
  <2>1. recs = {f[u] : u \in Stored("a", l)}
    BY DEF TierA
  <2>2. f \in Surjection(Stored("a", l), recs)
    BY <2>1 DEF Surjection
  <2> QED
    BY <1>3, <2>2, FS_Surjection
<1>5. IsFiniteSet(same)
  BY <1>4, FS_Subset DEF Instances
<1>6. Cardinality(said) <= Cardinality(same)
  <2> DEFINE f == [u \in said |-> [file |-> u, label |-> WordLabel(w)]]
  <2>1. \A u \in said : [file |-> u, label |-> WordLabel(w)] \in same
    BY DEF TierA, Instances
  <2>2. f \in Injection(said, same)
    BY <2>1 DEF Injection, IsInjective
  <2> HIDE DEF f, said, same
  <2> QED
    BY <1>5, <2>2, FS_Injection
<1>7. Cardinality(same) >= MinInstances
  <2>1. Cardinality(said) >= MinInstances
    BY DEF WordReady
  <2>2. Cardinality(said) \in Nat /\ Cardinality(same) \in Nat /\ MinInstances \in Nat
    BY <1>3, <1>5, FS_CardinalityType, StudioPlanAssumption
  <2> HIDE DEF said, same
  <2> QED
    BY <1>6, <2>1, <2>2
<1>8. r \in PlanTierA(recs) /\ r.file = t
  BY <1>2, <1>7 DEF PlanTierA
<1>9. t \in {x.file : x \in PlanTierA(TierA(l))}
  <2> HIDE DEF r
  <2> QED
    BY <1>8
<1> QED
  BY <1>9 DEF Planned

-----------------------------------------------------------------------------
(* The studio: the requests.                                               *)

\* What was there and is not any more does not come back, and results stay.
Later ==
    /\ born \subseteq born'
    /\ \A t \in born : t \in Rows(take') => t \in Rows(take)
    /\ \A x \in born : x \in Rows(export') => x \in Rows(export)
    /\ Rows(result) \subseteq Rows(result')

\* The export that a request builds is as it was.
ExportStays(d) ==
    call[d].pc \in {"fetching", "put"} /\ call[d].of \in Rows(export') =>
        export'[call[d].of] = export[call[d].of] /\ bundle'[call[d].of] = bundle[call[d].of]

LEMMA LaterFits ==
    ASSUME NEW d \in Callers, CallFits(d), Later, ExportStays(d), call'[d] = call[d]
    PROVE  CallFits(d)'
<1>1. /\ call[d].pc = "counted" => call[d].of \in {"word", "speaker"} \X Languages /\ call[d].seen \in Nat
      /\ call[d].pc = "erasing" /\ call[d].of \in Takes => call[d].of \in born' \ Rows(take')
      /\ call[d].pc = "unbundling" => call[d].of \in born' \ Rows(export')
  BY DEF CallFits, Later
<1>2. call[d].pc = "plotting" => call[d].of \in Rows(result') \X Plots /\ call[d].seen \subseteq Plots
  BY DEF CallFits, Later
<1>3. call[d].pc \in {"fetching", "put"} =>
          /\ call[d].of \in Exports \cap born'
          /\ call[d].seen \in [left : SUBSET Takes, files : SUBSET Takes]
          /\ call[d].of \in Rows(export') => /\ export'[call[d].of].status = "building"
                                             /\ export'[call[d].of].files = call[d].seen.files
  BY DEF CallFits, Later, ExportStays
<1>4. call[d].pc = "put" /\ call[d].of \in Rows(export') => bundle'[call[d].of] = call[d].seen.files
  BY DEF CallFits, Later, ExportStays
<1> QED
  BY <1>1, <1>2, <1>3, <1>4 DEF CallFits

LEMMA NoCallChanges ==
    ASSUME CallsInv, Later, UNCHANGED call, \A d \in Callers : ExportStays(d)
    PROVE  CallsInv'
<1>1. \A d \in Callers : CallFits(d)'
  BY LaterFits DEF CallsInv
<1> QED
  BY <1>1 DEF CallsInv, ActingCalls

LEMMA OneCallChanges ==
    ASSUME CallsInv, Later, NEW c \in Callers, NEW v, call' = [call EXCEPT ![c] = v],
           v.pc \in {"idle", "counted", "sized", "erasing", "fetching", "put", "unbundling", "plotting"},
           call'[c] = v => CallFits(c)',
           \A d \in Callers \ {c} : ExportStays(d),
           v.pc \in {"fetching", "put"} => \A d \in ActingCalls \ {c} : call[d].of # v.of
    PROVE  CallsInv'
<1>1. DOMAIN call' = Callers /\ call'[c] = v /\ \A d \in Callers \ {c} : call'[d] = call[d]
  BY DEF CallsInv
<1>2. \A d \in Callers : CallFits(d)'
  BY <1>1, LaterFits DEF CallsInv
<1>3. \A d, e \in ActingCalls' : call'[d].of = call'[e].of => d = e
  BY <1>1 DEF CallsInv, ActingCalls
<1> QED
  BY <1>1, <1>2, <1>3 DEF CallsInv

LEMMA ExportsStay ==
    ASSUME UNCHANGED exports
    PROVE  \A d \in Callers : ExportStays(d)
BY DEF exports, ExportStays

LEMMA CallEnds ==
    ASSUME CallsInv, Later, NEW c \in Callers, Ends(c), \A d \in Callers \ {c} : ExportStays(d)
    PROVE  CallsInv'
<1>1. Idle.pc = "idle"
  BY DEF Idle
<1>2. call'[c] = Idle => CallFits(c)'
  BY <1>1 DEF CallFits
<1> QED
  BY <1>1, <1>2, OneCallChanges DEF Ends

\* A request that goes on to something other than an export.
LEMMA CallGoesOn ==
    ASSUME CallsInv, Later, NEW c \in Callers, NEW pc, NEW of, NEW seen, Goes(c, pc, of, seen),
           pc \in {"counted", "sized", "erasing", "unbundling", "plotting"},
           pc = "counted" => of \in {"word", "speaker"} \X Languages /\ seen \in Nat,
           pc = "erasing" /\ of \in Takes => of \in born' \ Rows(take'),
           pc = "unbundling" => of \in born' \ Rows(export'),
           pc = "plotting" => of \in Rows(result') \X Plots /\ seen \subseteq Plots,
           \A d \in Callers \ {c} : ExportStays(d)
    PROVE  CallsInv'
<1> DEFINE v == [pc |-> pc, of |-> of, seen |-> seen]
<1>1. v.pc = pc /\ v.of = of /\ v.seen = seen /\ call' = [call EXCEPT ![c] = v]
  BY DEF Goes
<1> HIDE DEF v
<1>2. call'[c] = v => CallFits(c)'
  BY <1>1 DEF CallFits
<1> QED
  BY <1>1, <1>2, OneCallChanges

LEMMA CallErases ==
    ASSUME CallsInv, Later, NEW c \in Callers, NEW key, ThenErases(c, key), UNCHANGED exports,
           key \in Takes => key \in born' \ Rows(take')
    PROVE  CallsInv'
<1>1. CASE key = NULL
  BY <1>1, NoCallChanges, ExportsStay DEF ThenErases
<1>2. CASE key # NULL
  BY <1>2, CallGoesOn, ExportsStay DEF ThenErases
<1> QED
  BY <1>1, <1>2

\* The R of takes, and the ids that R have had.
TakesLater == born \subseteq born' /\ \A t \in born : t \in Rows(take') => t \in Rows(take)

LEMMA OpenedTakeIsNew ==
    ASSUME RowsInv, NEW row, OpenTake(row)
    PROVE  TakesLater
<1>1. Fresh(Takes) \notin born /\ born' = born \cup {Fresh(Takes)}
  BY DEF OpenTake, CanInsert, Fresh, Bear
<1>2. \A t \in Rows(take') : t # Fresh(DOMAIN take) => t \in Rows(take)
  BY DEF OpenTake, Insert, Rows
<1>3. DOMAIN take = Takes
  BY DEF RowsInv
<1> QED
  BY <1>1, <1>2, <1>3 DEF TakesLater

LEMMA DroppedTakesStayAway ==
    ASSUME RowsInv, NEW gone, DropTakes(gone), UNCHANGED born
    PROVE  TakesLater
BY DroppedTakes DEF TakesLater

LEMMA SameTakesAreLater ==
    ASSUME UNCHANGED take, UNCHANGED born \/ \E ids : Bear(ids)
    PROVE  TakesLater
BY DEF TakesLater, Bear

LEMMA TakesStep ==
    ASSUME RowsInv, [StudioNext]_studioVars
    PROVE  TakesLater
<1> USE DEF tables
<1>1. ASSUME NEW tier \in Tiers, Collect(tier)
      PROVE  TakesLater
  <2>1. CASE CreateRecordingA \/ CreateRecordingB \/ CreateClip
    BY <2>1, OpenedTakeIsNew DEF CreateRecordingA, CreateRecordingB, CreateClip
  <2>2. CASE DeleteSpeaker \/ DeletePair
    BY <2>2, DroppedTakesStayAway DEF DeleteSpeaker, DeletePair
  <2>3. CASE CreateSpeakerNamed \/ UpdateWord \/ CreatePair \/ UpsertSort
    BY <2>3, SameTakesAreLater DEF CreateSpeakerNamed, UpdateWord, CreatePair, UpsertSort
  <2> QED
    BY <1>1, <2>1, <2>2, <2>3 DEF Collect
<1>2. CASE Upload \/ ExpireTicket \/ CreateResult \/ AddMember \/ RemoveMember
  BY <1>2, SameTakesAreLater DEF Upload, ExpireTicket, CreateResult, AddMember, RemoveMember
<1>3. ASSUME NEW c \in Callers, TakeSteps(c)
      PROVE  TakesLater
  <2>1. CASE Complete(c)
    BY <2>1 DEF Complete, TakesLater, Rows
  <2>2. CASE DeleteTake(c)
    BY <2>2, DroppedTakesStayAway DEF DeleteTake
  <2> QED
    BY <1>3, <2>1, <2>2, SameTakesAreLater DEF TakeSteps, BeginComplete, ObjectSteps, Reject, Erase, Breaks
<1>4. ASSUME NEW c \in Callers, WordSteps(c) \/ ReferenceSteps(c)
      PROVE  TakesLater
  <2>1. CASE DeleteWord(c)
    BY <2>1, DroppedTakesStayAway DEF DeleteWord
  <2>2. CASE CreateWord(c)
    <3>1. UNCHANGED take /\ (UNCHANGED born \/ Bear(Words))
      BY <2>2 DEF CreateWord
    <3> QED
      BY <3>1, SameTakesAreLater
  <2>3. CASE CreateSpeaker(c)
    <3>1. UNCHANGED take /\ (UNCHANGED born \/ Bear(Speakers))
      BY <2>3 DEF CreateSpeaker
    <3> QED
      BY <3>1, SameTakesAreLater
  <2> QED
    BY <1>4, <2>1, <2>2, <2>3, SameTakesAreLater
       DEF WordSteps, ReferenceSteps, CountRows, SetReference, BeginCompleteReference, CompleteReference, ClearReference
<1>5. ASSUME NEW c \in Callers, ExportSteps(c) \/ PlotSteps(c)
      PROVE  TakesLater
  BY <1>5, SameTakesAreLater
     DEF ExportSteps, BeginExport, Building, FinishExport, Fetch, PutBundle, FailExport, DeleteExport, EraseBundle,
         PlotSteps, BeginPlot, CommitPlot
<1>6. CASE UNCHANGED studioVars
  BY <1>6, SameTakesAreLater DEF studioVars
<1> QED
  BY <1>1, <1>2, <1>3, <1>4, <1>5, <1>6 DEF StudioNext

\* Where the exports and the results are not touched.
LEMMA TakesLaterIsLater ==
    ASSUME TakesLater, UNCHANGED exports, UNCHANGED result
    PROVE  Later
BY DEF TakesLater, Later, exports, Rows

LEMMA CallsOfQuietSteps ==
    ASSUME CallsInv, Later, UNCHANGED call, UNCHANGED exports
    PROVE  CallsInv'
BY NoCallChanges, ExportsStay

LEMMA CallsOfDeletes ==
    ASSUME RowsInv, CallsInv, Later, NEW c \in Callers,
           DeleteTake(c) \/ DeleteWord(c) \/ SetReference(c) \/ ClearReference(c)
    PROVE  CallsInv'
<1>1. CASE DeleteTake(c)
  <2>1. PICK t \in Rows(take) : DropTakes({t}) /\ ThenErases(c, t)
    BY <1>1 DEF DeleteTake
  <2>2. UNCHANGED exports /\ UNCHANGED born
    BY <1>1 DEF DeleteTake
  <2>3. t \in born' \ Rows(take')
    BY <2>1, <2>2, DroppedTakes DEF RowsInv
  <2> QED
    BY <2>1, <2>2, <2>3, CallErases
<1>2. CASE DeleteWord(c) \/ SetReference(c) \/ ClearReference(c)
  <2>1. PICK w \in Rows(word) : \/ ThenErases(c, NULL)
                                \/ word[w].reference # NULL /\ ThenErases(c, <<w, word[w].reference>>)
    <3>1. CASE DeleteWord(c) \/ ClearReference(c)
      BY <3>1 DEF DeleteWord, ClearReference
    <3>2. CASE SetReference(c)
      <4>1. PICK w \in Rows(word), fmt \in Formats :
                ThenErases(c, IF word[w].reference \in {NULL, fmt} THEN NULL ELSE <<w, word[w].reference>>)
        BY <3>2 DEF SetReference
      <4> QED
        BY <4>1
    <3> QED
      BY <1>2, <3>1, <3>2
  <2>2. UNCHANGED exports
    BY <1>2 DEF DeleteWord, SetReference, ClearReference
  <2>3. CASE ThenErases(c, NULL)
    BY <2>2, <2>3, NoCallChanges, ExportsStay DEF ThenErases
  <2>4. CASE word[w].reference # NULL /\ ThenErases(c, <<w, word[w].reference>>)
    <3>1. w \in Words /\ word[w].reference \in Formats
      BY <2>4 DEF RowsInv, Rows, NullOr, WordRows
    <3>2. <<w, word[w].reference>> \notin Takes
      BY <3>1, StudioAssumption
    <3> QED
      BY <2>2, <2>4, <3>2, CallErases
  <2> QED
    BY <2>1, <2>3, <2>4
<1> QED
  BY <1>1, <1>2

LEMMA CallsOfStarts ==
    ASSUME RowsInv, CallsInv, ExportsInv, Later, NEW c \in Callers,
           CountRows(c) \/ BeginComplete(c) \/ BeginCompleteReference(c) \/ BeginPlot(c)
    PROVE  CallsInv'
<1>1. CASE CountRows(c)
  <2>1. UNCHANGED exports
    BY <1>1 DEF CountRows
  <2>2. ASSUME NEW l \in Languages
        PROVE  Cardinality(InLanguage(word, l)) \in Nat /\ Cardinality(InLanguage(speaker, l)) \in Nat
    <3>1. IsFiniteSet(InLanguage(word, l)) /\ IsFiniteSet(InLanguage(speaker, l))
      BY RowsAreFinite, FS_Subset DEF InLanguage
    <3> QED
      BY <3>1, FS_CardinalityType
  <2>3. \E l \in Languages, table \in {"word", "speaker"}, n \in Nat : Goes(c, "counted", <<table, l>>, n)
    BY <1>1, <2>2 DEF CountRows
  <2> QED
    BY <2>1, <2>3, CallGoesOn, ExportsStay
<1>2. CASE BeginComplete(c) \/ BeginCompleteReference(c)
  <2>1. UNCHANGED exports /\ \E of, seen : Goes(c, "sized", of, seen)
    BY <1>2 DEF BeginComplete, BeginCompleteReference
  <2> QED
    BY <2>1, CallGoesOn, ExportsStay
<1>3. CASE BeginPlot(c)
  <2>1. PICK r \in Rows(result), p \in Plots : Goes(c, "plotting", <<r, p>>, result[r].plots)
    BY <1>3 DEF BeginPlot
  <2>2. UNCHANGED exports /\ UNCHANGED result
    BY <1>3 DEF BeginPlot
  <2>3. result[r].plots \subseteq Plots
    BY DEF ExportsInv, Rows, NullOr, ResultRows
  <2> DEFINE seen == result[r].plots
  <2>4. seen \subseteq Plots /\ <<r, p>> \in Rows(result') \X Plots
    BY <2>2, <2>3
  <2> HIDE DEF seen
  <2> QED
    BY <2>1, <2>2, <2>4, CallGoesOn, ExportsStay DEF seen
<1> QED
  BY <1>1, <1>2, <1>3

LEMMA CallsOfEnds ==
    ASSUME CallsInv, Later, NEW c \in Callers,
           \/ CreateWord(c) \/ CreateSpeaker(c) \/ Complete(c) \/ CompleteReference(c)
           \/ Reject(c) \/ Erase(c) \/ Breaks(c) \/ CommitPlot(c)
    PROVE  CallsInv'
<1>1. UNCHANGED exports /\ Ends(c)
  BY DEF CreateWord, CreateSpeaker, Complete, CompleteReference, Reject, Erase, Breaks, CommitPlot
<1> QED
  BY <1>1, CallEnds, ExportsStay

\* One request builds an export.
LEMMA OthersExportsStay ==
    ASSUME CallsInv, NEW c \in Callers, NEW x,
           (c \in ActingCalls /\ call[c].of = x) \/ \A d \in ActingCalls : call[d].of # x,
           \A y \in Exports \ {x} : y \in Rows(export') => export'[y] = export[y] /\ bundle'[y] = bundle[y]
    PROVE  \A d \in Callers \ {c} : ExportStays(d)
<1> SUFFICES ASSUME NEW d \in Callers \ {c}, d \in ActingCalls
             PROVE  ExportStays(d)
  BY DEF ExportStays, ActingCalls
<1>1. call[d].of \in Exports
  BY DEF CallsInv, CallFits, ActingCalls
<1>2. call[d].of # x
  BY DEF CallsInv
<1> QED
  BY <1>1, <1>2 DEF ExportStays

LEMMA CallsOfFetch ==
    ASSUME CallsInv, Later, NEW c \in Callers, Fetch(c)
    PROVE  CallsInv'
<1>1. PICK t : Goes(c, "fetching", call[c].of, [call[c].seen EXCEPT !.left = @ \ {t}])
  BY DEF Fetch
<1> DEFINE v == [pc |-> "fetching", of |-> call[c].of, seen |-> [call[c].seen EXCEPT !.left = @ \ {t}]]
<1>2. call' = [call EXCEPT ![c] = v] /\ v.pc = "fetching" /\ v.of = call[c].of
  BY <1>1 DEF Goes
<1>3. c \in ActingCalls /\ call[c].pc = "fetching" /\ UNCHANGED exports /\ UNCHANGED export /\ UNCHANGED born
  BY DEF Fetch, ActingCalls, exports
<1>4. CallFits(c)
  BY DEF CallsInv
<1>5. v.seen \in [left : SUBSET Takes, files : SUBSET Takes] /\ v.seen.files = call[c].seen.files
  BY <1>3, <1>4 DEF CallFits
<1> HIDE DEF v
<1>6. call'[c] = v => CallFits(c)'
  BY <1>2, <1>3, <1>4, <1>5 DEF CallFits, Rows
<1>7. \A d \in ActingCalls \ {c} : call[d].of # v.of
  BY <1>2, <1>3 DEF CallsInv
<1> QED
  BY <1>2, <1>3, <1>6, <1>7, OneCallChanges, ExportsStay

LEMMA CallsOfPut ==
    ASSUME CallsInv, ExportsInv, Later, NEW c \in Callers, PutBundle(c)
    PROVE  CallsInv'
<1> DEFINE x == call[c].of
           v == [pc |-> "put", of |-> x, seen |-> call[c].seen]
<1>1. call' = [call EXCEPT ![c] = v] /\ v.pc = "put" /\ v.of = x /\ v.seen = call[c].seen
  BY DEF PutBundle, Goes
<1>2. /\ c \in ActingCalls /\ call[c].pc = "fetching" /\ UNCHANGED export /\ UNCHANGED born
      /\ bundle' = [bundle EXCEPT ![x] = call[c].seen.files]
  BY DEF PutBundle, ActingCalls
<1>3. CallFits(c) /\ x \in Exports
  BY <1>2 DEF CallsInv, CallFits
<1>4. bundle'[x] = v.seen.files /\ \A y \in Exports \ {x} : bundle'[y] = bundle[y]
  BY <1>1, <1>2, <1>3 DEF ExportsInv
<1> HIDE DEF v
<1>5. call'[c] = v => CallFits(c)'
  BY <1>1, <1>2, <1>3, <1>4 DEF CallFits, Rows
<1>6. \A d \in Callers \ {c} : ExportStays(d)
  BY <1>2, <1>4, OthersExportsStay
<1>7. \A d \in ActingCalls \ {c} : call[d].of # v.of
  BY <1>1, <1>2 DEF CallsInv
<1> QED
  BY <1>1, <1>5, <1>6, <1>7, OneCallChanges

LEMMA CallsOfSettle ==
    ASSUME CallsInv, ExportsInv, Later, NEW c \in Callers, FinishExport(c) \/ FailExport(c)
    PROVE  CallsInv'
<1>1. PICK status, has : Settle(call[c].of, status, has)
  BY DEF FinishExport, FailExport
<1>2. c \in ActingCalls /\ Ends(c) /\ UNCHANGED bundle
  BY DEF FinishExport, FailExport, ActingCalls
<1>3. \A y \in Exports \ {call[c].of} : export'[y] = export[y]
  BY <1>1 DEF Settle, ExportsInv
<1>4. \A d \in Callers \ {c} : ExportStays(d)
  BY <1>2, <1>3, OthersExportsStay, SMTT(30)
<1> QED
  BY <1>2, <1>4, CallEnds

LEMMA CallsOfDeleteExport ==
    ASSUME CallsInv, ExportsInv, Later, NEW c \in Callers, DeleteExport(c)
    PROVE  CallsInv'
<1>1. PICK x \in Rows(export) :
          /\ export' = [export EXCEPT ![x] = NULL]
          /\ IF export[x].bundle THEN call[c] = Idle /\ Goes(c, "unbundling", x, NULL) ELSE UNCHANGED call
  BY DEF DeleteExport
<1>2. UNCHANGED <<bundle, born>> /\ x \in born /\ x \in Exports
  BY DEF DeleteExport, ExportsInv, Rows
<1>3. x \notin Rows(export') /\ \A y \in Exports \ {x} : export'[y] = export[y]
  BY <1>1, <1>2 DEF ExportsInv, Rows
<1>4. \A d \in Callers : ExportStays(d)
  BY <1>2, <1>3 DEF CallsInv, CallFits, ExportStays
<1>5. CASE export[x].bundle
  BY <1>1, <1>2, <1>3, <1>4, <1>5, CallGoesOn
<1>6. CASE ~export[x].bundle
  BY <1>1, <1>4, <1>6, NoCallChanges
<1> QED
  BY <1>5, <1>6

LEMMA CallsOfEraseBundle ==
    ASSUME CallsInv, ExportsInv, Later, NEW c \in Callers, EraseBundle(c)
    PROVE  CallsInv'
<1> DEFINE x == call[c].of
<1>1. /\ call[c].pc = "unbundling" /\ Ends(c) /\ UNCHANGED export
      /\ bundle' = [bundle EXCEPT ![x] = NULL]
  BY DEF EraseBundle
<1>2. x \notin Rows(export') /\ \A y \in Exports \ {x} : bundle'[y] = bundle[y]
  BY <1>1 DEF CallsInv, CallFits, ExportsInv, Rows
<1>3. \A d \in Callers \ {c} : ExportStays(d)
  BY <1>1, <1>2 DEF CallsInv, CallFits, ExportStays
<1> QED
  BY <1>1, <1>3, CallEnds

LEMMA CallsOfBeginExport ==
    ASSUME RowsInv, CallsInv, ExportsInv, Later, NEW c \in Callers, BeginExport(c)
    PROVE  CallsInv'
<1> DEFINE x == Fresh(Exports)
<1>1. PICK l \in Languages :
          /\ export' = Insert(export, [lang |-> l, status |-> "building", files |-> Planned(l), bundle |-> FALSE])
          /\ Goes(c, "fetching", x, [left |-> Planned(l), files |-> Planned(l)])
  BY DEF BeginExport
<1> DEFINE row == [lang |-> l, status |-> "building", files |-> Planned(l), bundle |-> FALSE]
           v == [pc |-> "fetching", of |-> x, seen |-> [left |-> Planned(l), files |-> Planned(l)]]
<1>2. Planned(l) \subseteq Takes
  BY PlannedAreTakes
<1>3. row \in ExportRows /\ row.status = "building" /\ row.files = Planned(l)
  BY <1>2 DEF ExportRows
<1>4. /\ call' = [call EXCEPT ![c] = v] /\ v.pc = "fetching" /\ v.of = x
      /\ v.seen \in [left : SUBSET Takes, files : SUBSET Takes] /\ v.seen.files = Planned(l)
  BY <1>1, <1>2 DEF Goes
<1>5. CanInsert(Exports) /\ DOMAIN export = Exports /\ row # NULL /\ UNCHANGED bundle /\ born' = born \cup {x}
  BY <1>3, RowsAreNotNull DEF BeginExport, ExportsInv, Bear
<1> HIDE DEF row, v, x
<1>6. /\ x \in Exports \ born /\ export'[x] = row
      /\ \A y \in Exports : y # x => export'[y] = export[y]
  BY <1>1, <1>5, InsertedRow DEF row, x
<1>7. call'[c] = v => CallFits(c)'
  BY <1>3, <1>4, <1>5, <1>6 DEF CallFits
<1>8. \A d \in ActingCalls : call[d].of # x
  BY <1>6 DEF CallsInv, CallFits, ActingCalls
<1>9. \A d \in Callers \ {c} : ExportStays(d)
  BY <1>5, <1>6, <1>8, OthersExportsStay
<1> QED
  BY <1>4, <1>7, <1>8, <1>9, OneCallChanges

LEMMA SettledExport ==
    ASSUME ExportsInv, NEW x, NEW status \in {"ready", "failed"}, NEW has \in BOOLEAN, Settle(x, status, has)
    PROVE  /\ export' \in [Exports -> NullOr(ExportRows)] /\ Rows(export') = Rows(export)
           /\ \A y \in Exports \ {x} : export'[y] = export[y]
           /\ x \in Rows(export) => /\ export'[x].status = status /\ export'[x].bundle = has
                                    /\ export'[x].files = export[x].files
<1>1. CASE x \in Rows(export)
  <2>1. x \in Exports /\ export[x] \in ExportRows
    BY <1>1 DEF ExportsInv, Rows, NullOr
  <2> DEFINE r == [export[x] EXCEPT !.status = status, !.bundle = has]
  <2>2. r \in ExportRows /\ r.status = status /\ r.bundle = has /\ r.files = export[x].files
    BY <2>1 DEF ExportRows
  <2>3. export' = [export EXCEPT ![x] = r]
    BY <1>1, <2>1 DEF Settle, ExportsInv
  <2>4. r # NULL
    BY <2>2, RowsAreNotNull
  <2> HIDE DEF r
  <2>5. export' \in [Exports -> NullOr(ExportRows)] /\ export'[x] = r /\ \A y \in Exports \ {x} : export'[y] = export[y]
    BY <2>1, <2>2, <2>3 DEF ExportsInv, NullOr
  <2>6. Rows(export') = Rows(export)
    BY <1>1, <2>1, <2>4, <2>5 DEF ExportsInv, Rows
  <2> QED
    BY <2>2, <2>5, <2>6
<1>2. CASE x \notin Rows(export)
  BY <1>2 DEF Settle, ExportsInv
<1> QED
  BY <1>1, <1>2

LEMMA NewExport ==
    ASSUME RowsInv, ExportsInv, NEW c, BeginExport(c)
    PROVE  /\ export' \in [Exports -> NullOr(ExportRows)]
           /\ Fresh(Exports) \in Exports \ born /\ born' = born \cup {Fresh(Exports)}
           /\ Rows(export') = Rows(export) \cup {Fresh(Exports)}
           /\ export'[Fresh(Exports)].status = "building"
           /\ \A y \in Exports \ {Fresh(Exports)} : export'[y] = export[y]
<1>1. PICK l \in Languages :
          export' = Insert(export, [lang |-> l, status |-> "building", files |-> Planned(l), bundle |-> FALSE])
  BY DEF BeginExport
<1> DEFINE row == [lang |-> l, status |-> "building", files |-> Planned(l), bundle |-> FALSE]
<1>2. row \in ExportRows /\ row.status = "building"
  BY PlannedAreTakes DEF ExportRows
<1>3. row # NULL /\ CanInsert(Exports) /\ DOMAIN export = Exports /\ born' = born \cup {Fresh(Exports)}
  BY <1>2, RowsAreNotNull DEF BeginExport, ExportsInv, Bear
<1>4. export' = Insert(export, row)
  BY <1>1
<1> HIDE DEF row
<1>5. /\ Fresh(Exports) \in Exports \ born /\ Rows(export') = Rows(export) \cup {Fresh(Exports)}
      /\ export'[Fresh(Exports)] = row
      /\ \A y \in Exports : y # Fresh(Exports) => export'[y] = export[y]
      /\ \A R : export \in [Exports -> NullOr(R)] /\ row \in R => export' \in [Exports -> NullOr(R)]
  BY <1>3, <1>4, InsertedRow
<1> QED
  BY <1>2, <1>3, <1>5 DEF ExportsInv

LEMMA NewResult ==
    ASSUME RowsInv, ExportsInv, CreateResult
    PROVE  /\ result' \in [Results -> NullOr(ResultRows)]
           /\ born' = born \cup {Fresh(Results)} /\ Rows(result') = Rows(result) \cup {Fresh(Results)}
<1>1. PICK l \in Languages : result' = Insert(result, [lang |-> l, plots |-> {}])
  BY DEF CreateResult
<1> DEFINE row == [lang |-> l, plots |-> {}]
<1>2. row \in ResultRows
  BY DEF ResultRows
<1>3. row # NULL /\ CanInsert(Results) /\ DOMAIN result = Results /\ born' = born \cup {Fresh(Results)}
  BY <1>2, RowsAreNotNull DEF CreateResult, ExportsInv, Bear
<1>4. result' = Insert(result, row)
  BY <1>1
<1> HIDE DEF row
<1>5. /\ Rows(result') = Rows(result) \cup {Fresh(Results)}
      /\ \A R : result \in [Results -> NullOr(R)] /\ row \in R => result' \in [Results -> NullOr(R)]
  BY <1>3, <1>4, InsertedRow
<1> QED
  BY <1>2, <1>3, <1>5 DEF ExportsInv

LEMMA PlottedResult ==
    ASSUME CallsInv, ExportsInv, NEW c \in Callers, CommitPlot(c)
    PROVE  /\ result' \in [Results -> NullOr(ResultRows)] /\ Rows(result') = Rows(result)
<1> DEFINE r == call[c].of[1]  plots == call[c].seen \cup {call[c].of[2]}
           row == [result[r] EXCEPT !.plots = plots]
<1>1. r \in Rows(result) /\ plots \subseteq Plots
  BY DEF CommitPlot, CallsInv, CallFits
<1>2. r \in Results /\ result[r] \in ResultRows
  BY <1>1 DEF ExportsInv, Rows, NullOr
<1>3. result' = [result EXCEPT ![r] = row]
  BY <1>2 DEF CommitPlot, ExportsInv
<1> HIDE DEF plots
<1>4. row \in ResultRows
  BY <1>1, <1>2 DEF ResultRows
<1>5. row # NULL
  BY <1>4, RowsAreNotNull
<1> HIDE DEF row, r
<1> QED
  BY <1>1, <1>2, <1>3, <1>4, <1>5 DEF ExportsInv, Rows, NullOr

\* What is done besides the exports and the results.
QuietSteps ==
    \/ \E tier \in Tiers : Collect(tier)
    \/ Upload \/ ExpireTicket \/ AddMember \/ RemoveMember
    \/ \E c \in Callers : TakeSteps(c) \/ WordSteps(c) \/ ReferenceSteps(c) \/ Fetch(c) \/ BeginPlot(c)
    \/ UNCHANGED studioVars

LEMMA QuietStepsAreQuiet ==
    ASSUME QuietSteps
    PROVE  UNCHANGED exports /\ UNCHANGED result
<1>1. ASSUME NEW tier \in Tiers, Collect(tier)
      PROVE  UNCHANGED exports /\ UNCHANGED result
  BY <1>1 DEF Collect, CreateSpeakerNamed, UpdateWord, CreateRecordingA, CreateRecordingB, OpenTake, DeleteSpeaker,
              CreatePair, DeletePair, CreateClip, UpsertSort
<1>2. CASE Upload \/ ExpireTicket \/ AddMember \/ RemoveMember \/ UNCHANGED studioVars
  BY <1>2 DEF Upload, ExpireTicket, AddMember, RemoveMember, studioVars
<1>3. ASSUME NEW c \in Callers, TakeSteps(c) \/ WordSteps(c) \/ ReferenceSteps(c) \/ Fetch(c) \/ BeginPlot(c)
      PROVE  UNCHANGED exports /\ UNCHANGED result
  <2>1. CASE TakeSteps(c)
    BY <2>1 DEF TakeSteps, BeginComplete, Complete, DeleteTake, ObjectSteps, Reject, Erase, Breaks
  <2>2. CASE WordSteps(c)
    BY <2>2 DEF WordSteps, CountRows, CreateWord, CreateSpeaker, DeleteWord
  <2>3. CASE ReferenceSteps(c)
    BY <2>3 DEF ReferenceSteps, SetReference, BeginCompleteReference, CompleteReference, ClearReference, DeleteWord
  <2> QED
    BY <1>3, <2>1, <2>2, <2>3 DEF Fetch, BeginPlot
<1> QED
  BY <1>1, <1>2, <1>3 DEF QuietSteps

LEMMA StepsOfStudio ==
    ASSUME [StudioNext]_studioVars
    PROVE  \/ QuietSteps \/ CreateResult
           \/ \E c \in Callers : \/ BeginExport(c) \/ PutBundle(c) \/ FinishExport(c) \/ FailExport(c)
                                 \/ DeleteExport(c) \/ EraseBundle(c) \/ CommitPlot(c)
BY DEF StudioNext, QuietSteps, ExportSteps, Building, PlotSteps

LEMMA LaterStep ==
    ASSUME RowsInv, CallsInv, ExportsInv, [StudioNext]_studioVars
    PROVE  Later
<1>1. TakesLater
  BY TakesStep
<1>2. CASE QuietSteps
  BY <1>1, <1>2, QuietStepsAreQuiet, TakesLaterIsLater
<1>3. CASE CreateResult
  <2>1. UNCHANGED export /\ Rows(result) \subseteq Rows(result')
    BY <1>3, NewResult DEF CreateResult, exports
  <2> QED
    BY <1>1, <2>1 DEF TakesLater, Later, Rows
<1>4. ASSUME NEW c \in Callers, BeginExport(c)
      PROVE  Later
  <2>1. UNCHANGED result /\ \A x \in born : x \in Rows(export') => x \in Rows(export)
    BY <1>4, NewExport DEF BeginExport
  <2> QED
    BY <1>1, <2>1 DEF TakesLater, Later
<1>5. ASSUME NEW c \in Callers, FinishExport(c) \/ FailExport(c)
      PROVE  Later
  <2>1. UNCHANGED result /\ Rows(export') = Rows(export)
    BY <1>5, SettledExport DEF FinishExport, FailExport
  <2> QED
    BY <1>1, <2>1 DEF TakesLater, Later
<1>6. ASSUME NEW c \in Callers, DeleteExport(c)
      PROVE  Later
  <2>1. UNCHANGED result /\ \A x \in Rows(export') : x \in Rows(export)
    BY <1>6 DEF DeleteExport, ExportsInv, Rows
  <2> QED
    BY <1>1, <2>1 DEF TakesLater, Later
<1>7. ASSUME NEW c \in Callers, PutBundle(c) \/ EraseBundle(c)
      PROVE  Later
  <2>1. UNCHANGED <<result, export>>
    BY <1>7 DEF PutBundle, EraseBundle
  <2> QED
    BY <1>1, <2>1 DEF TakesLater, Later, Rows
<1>8. ASSUME NEW c \in Callers, CommitPlot(c)
      PROVE  Later
  <2>1. UNCHANGED export /\ Rows(result') = Rows(result)
    BY <1>8, PlottedResult DEF CommitPlot, exports
  <2> QED
    BY <1>1, <2>1 DEF TakesLater, Later, Rows
<1> QED
  BY <1>2, <1>3, <1>4, <1>5, <1>6, <1>7, <1>8, StepsOfStudio

LEMMA CallsStep ==
    ASSUME RowsInv, CallsInv, ExportsInv, [StudioNext]_studioVars
    PROVE  CallsInv'
<1>1. Later
  BY LaterStep
<1>2. ASSUME NEW tier \in Tiers, Collect(tier)
      PROVE  CallsInv'
  <2>1. UNCHANGED call /\ UNCHANGED exports
    BY <1>2 DEF Collect, CreateSpeakerNamed, UpdateWord, CreateRecordingA, CreateRecordingB, OpenTake, DeleteSpeaker,
                CreatePair, DeletePair, CreateClip, UpsertSort
  <2> QED
    BY <1>1, <2>1, CallsOfQuietSteps
<1>3. CASE Upload \/ ExpireTicket \/ AddMember \/ RemoveMember \/ CreateResult \/ UNCHANGED studioVars
  <2>1. UNCHANGED call /\ UNCHANGED exports
    BY <1>3 DEF Upload, ExpireTicket, AddMember, RemoveMember, CreateResult, studioVars
  <2> QED
    BY <1>1, <2>1, CallsOfQuietSteps
<1>4. ASSUME NEW c \in Callers, TakeSteps(c) \/ WordSteps(c) \/ ReferenceSteps(c)
      PROVE  CallsInv'
  <2>1. CASE \/ CreateWord(c) \/ CreateSpeaker(c) \/ Complete(c) \/ CompleteReference(c)
             \/ Reject(c) \/ Erase(c) \/ Breaks(c)
    BY <1>1, <2>1, CallsOfEnds
  <2>2. CASE CountRows(c) \/ BeginComplete(c) \/ BeginCompleteReference(c)
    BY <1>1, <2>2, CallsOfStarts
  <2>3. CASE DeleteTake(c) \/ DeleteWord(c) \/ SetReference(c) \/ ClearReference(c)
    BY <1>1, <2>3, CallsOfDeletes
  <2> QED
    BY <1>4, <2>1, <2>2, <2>3 DEF TakeSteps, ObjectSteps, WordSteps, ReferenceSteps
<1>5. ASSUME NEW c \in Callers, ExportSteps(c) \/ PlotSteps(c)
      PROVE  CallsInv'
  BY <1>1, <1>5, CallsOfBeginExport, CallsOfFetch, CallsOfPut, CallsOfSettle, CallsOfDeleteExport, CallsOfEraseBundle,
     CallsOfStarts, CallsOfEnds DEF ExportSteps, Building, PlotSteps
<1> QED
  BY <1>2, <1>3, <1>4, <1>5 DEF StudioNext

LEMMA ExportsStep ==
    ASSUME RowsInv, CallsInv, ExportsInv, [StudioNext]_studioVars
    PROVE  ExportsInv'
<1>1. born \subseteq born'
  BY LaterStep DEF Later
<1>2. CASE QuietSteps
  BY <1>1, <1>2, QuietStepsAreQuiet DEF exports, ExportsInv, Rows, ReadyBundleIsWhole
<1>3. CASE CreateResult
  <2>1. UNCHANGED <<export, bundle>>
    BY <1>3 DEF CreateResult, exports
  <2>2. Rows(export') \cup Rows(result') \subseteq born'
    BY <1>1, <1>3, <2>1, NewResult DEF ExportsInv, Rows
  <2> QED
    BY <1>3, <2>1, <2>2, NewResult DEF ExportsInv, ReadyBundleIsWhole, Rows
<1>4. ASSUME NEW c \in Callers, BeginExport(c)
      PROVE  ExportsInv'
  <2>1. UNCHANGED <<result, bundle>>
    BY <1>4 DEF BeginExport
  <2>2. Rows(export') \cup Rows(result') \subseteq born'
    BY <1>1, <1>4, <2>1, NewExport DEF ExportsInv, Rows
  <2>3. ReadyBundleIsWhole'
    BY <1>4, <2>1, NewExport DEF ExportsInv, ReadyBundleIsWhole, Rows
  <2> QED
    BY <1>4, <2>1, <2>2, <2>3, NewExport DEF ExportsInv
<1>5. ASSUME NEW c \in Callers, FinishExport(c) \/ FailExport(c)
      PROVE  ExportsInv'
  <2> DEFINE x == call[c].of
  <2>1. UNCHANGED <<result, bundle>>
    BY <1>5 DEF FinishExport, FailExport
  <2>2. PICK status \in {"ready", "failed"}, has \in BOOLEAN :
            /\ Settle(x, status, has)
            /\ status = "ready" => has /\ call[c].pc = "put"
    BY <1>5 DEF FinishExport, FailExport
  <2>3. /\ export' \in [Exports -> NullOr(ExportRows)] /\ Rows(export') = Rows(export)
        /\ \A y \in Exports \ {x} : export'[y] = export[y]
        /\ x \in Rows(export) => /\ export'[x].status = status /\ export'[x].bundle = has
                                 /\ export'[x].files = export[x].files
    BY <2>2, SettledExport
  <2>4. x \in Rows(export) /\ status = "ready" => bundle[x] = export[x].files
    BY <2>2 DEF CallsInv, CallFits
  <2> HIDE DEF x
  <2>5. ReadyBundleIsWhole'
    BY <2>1, <2>2, <2>3, <2>4 DEF ExportsInv, ReadyBundleIsWhole, Rows
  <2> QED
    BY <1>1, <2>1, <2>3, <2>5 DEF ExportsInv, Rows
<1>6. ASSUME NEW c \in Callers, PutBundle(c) \/ EraseBundle(c)
      PROVE  ExportsInv'
  <2> DEFINE x == call[c].of
  <2>1. UNCHANGED <<result, export>>
    BY <1>6 DEF PutBundle, EraseBundle
  <2>2. PICK b \in NullOr(SUBSET Takes) : bundle' = [bundle EXCEPT ![x] = b]
    BY <1>6 DEF PutBundle, EraseBundle, NullOr, CallsInv, CallFits
  <2>3. x \in Rows(export) => export[x].status # "ready"
    BY <1>6 DEF PutBundle, EraseBundle, CallsInv, CallFits
  <2> HIDE DEF x
  <2>4. bundle' \in [Exports -> NullOr(SUBSET Takes)] /\ \A y \in Exports \ {x} : bundle'[y] = bundle[y]
    BY <2>2 DEF ExportsInv
  <2>5. ReadyBundleIsWhole'
    BY <2>1, <2>3, <2>4 DEF ExportsInv, ReadyBundleIsWhole, Rows
  <2> QED
    BY <1>1, <2>1, <2>4, <2>5 DEF ExportsInv, Rows
<1>7. ASSUME NEW c \in Callers, DeleteExport(c)
      PROVE  ExportsInv'
  <2>1. PICK x \in Rows(export) : export' = [export EXCEPT ![x] = NULL]
    BY <1>7 DEF DeleteExport
  <2>2. UNCHANGED <<result, bundle>>
    BY <1>7 DEF DeleteExport
  <2>3. /\ export' \in [Exports -> NullOr(ExportRows)]
        /\ Rows(export') \subseteq Rows(export) /\ \A y \in Rows(export') : export'[y] = export[y]
    BY <2>1 DEF ExportsInv, Rows, NullOr
  <2>4. ReadyBundleIsWhole'
    BY <2>2, <2>3 DEF ExportsInv, ReadyBundleIsWhole
  <2> QED
    BY <1>1, <2>2, <2>3, <2>4 DEF ExportsInv, Rows
<1>8. ASSUME NEW c \in Callers, CommitPlot(c)
      PROVE  ExportsInv'
  <2>1. UNCHANGED <<export, bundle>>
    BY <1>8 DEF CommitPlot, exports
  <2> QED
    BY <1>1, <1>8, <2>1, PlottedResult DEF ExportsInv, ReadyBundleIsWhole, Rows
<1> QED
  BY <1>2, <1>3, <1>4, <1>5, <1>6, <1>7, <1>8, StepsOfStudio

\* What is in the bucket has a key.
LEMMA BucketStep ==
    ASSUME RowsInv, CallsInv, BucketInv, [StudioNext]_studioVars
    PROVE  BucketInv'
<1>1. ASSUME NEW row, OpenTake(row)
      PROVE  BucketInv'
  <2>1. Fresh(Takes) \in AudioKeys
    BY <1>1 DEF OpenTake, CanInsert, Fresh, AudioKeys
  <2> QED
    BY <1>1, <2>1 DEF OpenTake, BucketInv
<1>2. ASSUME NEW tier \in Tiers, Collect(tier)
      PROVE  BucketInv'
  <2>1. CASE CreateRecordingA \/ CreateRecordingB \/ CreateClip
    BY <1>1, <2>1 DEF CreateRecordingA, CreateRecordingB, CreateClip
  <2>2. CASE CreateSpeakerNamed \/ UpdateWord \/ DeleteSpeaker \/ CreatePair \/ DeletePair \/ UpsertSort
    BY <2>2 DEF CreateSpeakerNamed, UpdateWord, DeleteSpeaker, CreatePair, DeletePair, UpsertSort, bucket, BucketInv
  <2> QED
    BY <1>2, <2>1, <2>2 DEF Collect
<1>3. CASE Upload \/ ExpireTicket \/ CreateResult \/ AddMember \/ RemoveMember \/ UNCHANGED studioVars
  BY <1>3 DEF Upload, ExpireTicket, CreateResult, AddMember, RemoveMember, studioVars, bucket, BucketInv
<1>4. ASSUME NEW c \in Callers, TakeSteps(c) \/ WordSteps(c) \/ ReferenceSteps(c)
      PROVE  BucketInv'
  <2>1. CASE Reject(c)
    BY <2>1 DEF Reject, BucketInv
  <2>2. CASE Erase(c)
    BY <2>2 DEF Erase, BucketInv
  <2>3. CASE SetReference(c)
    <3>1. PICK w \in Rows(word), fmt \in Formats : ticket' = ticket \cup {<<w, fmt>>}
      BY <2>3 DEF SetReference
    <3>2. <<w, fmt>> \in AudioKeys
      BY DEF RowsInv, Rows, AudioKeys
    <3> QED
      BY <2>3, <3>1, <3>2 DEF SetReference, BucketInv
  <2>4. CASE \/ BeginComplete(c) \/ Complete(c) \/ DeleteTake(c) \/ Breaks(c)
             \/ CountRows(c) \/ CreateWord(c) \/ CreateSpeaker(c) \/ DeleteWord(c)
             \/ BeginCompleteReference(c) \/ CompleteReference(c) \/ ClearReference(c)
    <3>1. UNCHANGED <<audio, ticket, member>>
      BY <2>4 DEF BeginComplete, Complete, DeleteTake, Breaks, CountRows, CreateWord, CreateSpeaker, DeleteWord,
                  BeginCompleteReference, CompleteReference, ClearReference, bucket
    <3> QED
      BY <3>1 DEF BucketInv
  <2> QED
    BY <1>4, <2>1, <2>2, <2>3, <2>4 DEF TakeSteps, ObjectSteps, WordSteps, ReferenceSteps
<1>5. ASSUME NEW c \in Callers, ExportSteps(c) \/ PlotSteps(c)
      PROVE  BucketInv'
  <2>1. UNCHANGED <<audio, ticket, member>>
    BY <1>5 DEF ExportSteps, BeginExport, Building, FinishExport, Fetch, PutBundle, FailExport, DeleteExport, EraseBundle,
                PlotSteps, BeginPlot, CommitPlot, bucket
  <2> QED
    BY <2>1 DEF BucketInv
<1> QED
  BY <1>2, <1>3, <1>4, <1>5 DEF StudioNext

LEMMA PairsStep ==
    ASSUME [StudioNext]_studioVars
    PROVE  UNCHANGED pairs
<1>1. ASSUME NEW tier \in Tiers, Collect(tier)
      PROVE  UNCHANGED pairs
  BY <1>1 DEF Collect, CreateSpeakerNamed, UpdateWord, CreateRecordingA, CreateRecordingB, OpenTake, DeleteSpeaker,
              CreatePair, DeletePair, CreateClip, UpsertSort
<1>2. CASE Upload \/ ExpireTicket \/ CreateResult \/ AddMember \/ RemoveMember \/ UNCHANGED studioVars
  BY <1>2 DEF Upload, ExpireTicket, CreateResult, AddMember, RemoveMember, studioVars
<1>3. ASSUME NEW c \in Callers, TakeSteps(c) \/ WordSteps(c) \/ ReferenceSteps(c)
      PROVE  UNCHANGED pairs
  BY <1>3 DEF TakeSteps, BeginComplete, Complete, DeleteTake, ObjectSteps, Reject, Erase, Breaks,
              WordSteps, CountRows, CreateWord, CreateSpeaker, DeleteWord,
              ReferenceSteps, SetReference, BeginCompleteReference, CompleteReference, ClearReference
<1>4. ASSUME NEW c \in Callers, ExportSteps(c) \/ PlotSteps(c)
      PROVE  UNCHANGED pairs
  BY <1>4 DEF ExportSteps, BeginExport, Building, FinishExport, Fetch, PutBundle, FailExport, DeleteExport, EraseBundle,
              PlotSteps, BeginPlot, CommitPlot
<1> QED
  BY <1>1, <1>2, <1>3, <1>4 DEF StudioNext

LEMMA StudioInitFits ==
    ASSUME StudioInit
    PROVE  StudioInv
<1>1. /\ Rows(word) = {} /\ Rows(speaker) = {} /\ Rows(pair) = {} /\ Rows(take) = {}
      /\ Rows(export) = {} /\ Rows(result) = {}
  BY DEF StudioInit, Rows
<1>2. RowsInv
  <2>1. /\ word \in [Words -> NullOr(WordRows)] /\ speaker \in [Speakers -> NullOr(SpeakerRows)]
        /\ pair \in [Pairs -> NullOr(PairRows)] /\ DOMAIN take = Takes /\ sorts = {} /\ born = {}
    BY DEF StudioInit, NullOr
  <2> QED
    BY <1>1, <2>1, FS_EmptySet DEF RowsInv, RowsPointAtRows, LabelsDiffer, NamesAreKept, OneTakePerPlace
<1>3. CallsInv
  <2>1. DOMAIN call = Callers /\ \A c \in Callers : call[c].pc = "idle"
    BY DEF StudioInit, Idle
  <2> QED
    BY <2>1 DEF CallsInv, CallFits, ActingCalls
<1>4. ExportsInv
  <2>1. /\ export \in [Exports -> NullOr(ExportRows)] /\ result \in [Results -> NullOr(ResultRows)]
        /\ bundle \in [Exports -> NullOr(SUBSET Takes)]
    BY DEF StudioInit, NullOr
  <2> QED
    BY <1>1, <2>1 DEF ExportsInv, ReadyBundleIsWhole
<1>5. BucketInv
  BY DEF StudioInit, BucketInv
<1> QED
  BY <1>2, <1>3, <1>4, <1>5 DEF StudioInv

LEMMA StudioStep ==
    ASSUME StudioInv, [StudioNext]_studioVars
    PROVE  StudioInv'
<1>1. RowsInv /\ CallsInv /\ ExportsInv /\ BucketInv /\ \A c \in Callers : CallFits(c)
  BY DEF StudioInv, CallsInv
<1> QED
  BY <1>1, RowsStep, CallsStep, ExportsStep, BucketStep DEF StudioInv

-----------------------------------------------------------------------------
(* The studio: what the invariant shows.                                   *)

LEMMA InvariantIsTyped ==
    ASSUME StudioInv
    PROVE  StudioTypeOK
BY DEF StudioInv, RowsInv, CallsInv, ExportsInv, BucketInv, StudioTypeOK

\* Names of one language are as far apart as the labels they are made of.
LEMMA NamesTellTakes ==
    ASSUME RowsInv
    PROVE  NamesTellTakesApart
<1> SUFFICES ASSUME NEW t \in Rows(take), NEW u \in Rows(take),
                    take[t].tier = take[u].tier, LanguageOf(t) = LanguageOf(u), take[t].name = take[u].name
             PROVE  t = u
  BY DEF NamesTellTakesApart
<1>1. take[t].tier \in Tiers /\ take[t].name = NameOf(t) /\ take[u].name = NameOf(u)
  BY DEF RowsInv, NamesAreKept
<1>2. CASE take[t].tier = "a"
  <2>1. /\ take[t].of \in Rows(word) /\ take[t].by \in Rows(speaker)
        /\ take[u].of \in Rows(word) /\ take[u].by \in Rows(speaker)
    BY <1>2 DEF RowsInv, RowsPointAtRows
  <2>2. NameOf(t) = TierAName(take[t].of, take[t].by, take[t].n) /\ NameOf(u) = TierAName(take[u].of, take[u].by, take[u].n)
    BY <1>2 DEF NameOf
  <2>3. /\ word[take[t].of].label = word[take[u].of].label
        /\ speaker[take[t].by].label = speaker[take[u].by].label
        /\ take[t].n = take[u].n
    <3>1. TierAName(take[t].of, take[t].by, take[t].n) = TierAName(take[u].of, take[u].by, take[u].n)
      BY <1>1, <2>2
    <3> QED
      BY <3>1 DEF TierAName
  <2>4. word[take[t].of].lang = word[take[u].of].lang
    BY <1>2 DEF LanguageOf
  <2>5. speaker[take[t].by].lang = speaker[take[u].by].lang
    BY <1>2, <2>4 DEF RowsInv, NamesAreKept
  <2>6. take[t].of = take[u].of /\ take[t].by = take[u].by
    BY <2>1, <2>3, <2>4, <2>5 DEF RowsInv, LabelsDiffer
  <2> QED
    BY <2>3, <2>6 DEF RowsInv, OneTakePerPlace
<1>3. CASE take[t].tier = "b"
  <2>1. take[t].of \in Rows(pair) /\ take[u].of \in Rows(pair)
    BY <1>3 DEF RowsInv, RowsPointAtRows
  <2>2. NameOf(t) = TierBName(take[t].of, take[t].by, take[t].n) /\ NameOf(u) = TierBName(take[u].of, take[u].by, take[u].n)
    BY <1>3 DEF NameOf
  <2>3. /\ pair[take[t].of].number = pair[take[u].of].number
        /\ take[t].by = take[u].by /\ take[t].n = take[u].n
    <3>1. TierBName(take[t].of, take[t].by, take[t].n) = TierBName(take[u].of, take[u].by, take[u].n)
      BY <1>1, <2>2
    <3> QED
      BY <3>1 DEF TierBName
  <2>4. pair[take[t].of].lang = pair[take[u].of].lang
    BY <1>3 DEF LanguageOf
  <2>5. take[t].of = take[u].of
    BY <2>1, <2>3, <2>4 DEF RowsInv, LabelsDiffer
  <2> QED
    BY <2>3, <2>5 DEF RowsInv, OneTakePerPlace
<1>4. CASE take[t].tier = "c"
  <2>1. take[t].of = take[u].of
    BY <1>4 DEF LanguageOf
  <2>2. NameOf(t) = <<take[t].n>> /\ NameOf(u) = <<take[u].n>>
    BY <1>4 DEF NameOf, TierCName
  <2>3. take[t] \in TakeRows("c") /\ take[u] \in TakeRows("c")
    BY <1>4 DEF RowsInv
  <2>4. take[t].by = NULL /\ take[u].by = NULL
    BY <2>3 DEF TakeRows
  <2>5. take[t].n = take[u].n
    <3>1. <<take[t].n>> = <<take[u].n>>
      BY <1>1, <2>2
    <3> QED
      BY <3>1
  <2> QED
    BY <2>1, <2>4, <2>5 DEF RowsInv, OneTakePerPlace
<1> QED
  BY <1>1, <1>2, <1>3, <1>4 DEF Tiers

\* A key that has a language has one, and that is the language of a row the dashboard looks at.
LEMMA PlayableHasALanguage ==
    ASSUME RowsInv, NEW key, NEW l \in LanguageOfKey(key)
    PROVE  /\ l \in Languages /\ l \in ActiveLanguages
           /\ \A m \in LanguageOfKey(key) : m = l
<1>1. ASSUME NEW t \in Rows(take)
      PROVE  LanguageOf(t) \in Languages /\ LanguageOf(t) \in ActiveLanguages
  <2>1. take[t].tier \in Tiers /\ take[t] \in TakeRows(take[t].tier)
    BY DEF RowsInv
  <2>2. CASE take[t].tier = "a"
    <3>1. take[t].of \in Rows(word) /\ LanguageOf(t) = word[take[t].of].lang
      BY <2>2 DEF RowsInv, RowsPointAtRows, LanguageOf
    <3> QED
      BY <3>1 DEF RowsInv, Rows, NullOr, WordRows, ActiveLanguages
  <2>3. CASE take[t].tier = "b"
    <3>1. take[t].of \in Rows(pair) /\ LanguageOf(t) = pair[take[t].of].lang
      BY <2>3 DEF RowsInv, RowsPointAtRows, LanguageOf
    <3> QED
      BY <3>1 DEF RowsInv, Rows, NullOr, PairRows, ActiveLanguages
  <2>4. CASE take[t].tier = "c"
    <3>1. LanguageOf(t) = take[t].of /\ take[t].of \in Languages
      BY <2>1, <2>4 DEF LanguageOf, TakeRows
    <3> QED
      BY <2>4, <3>1 DEF ActiveLanguages
  <2> QED
    BY <2>1, <2>2, <2>3, <2>4 DEF Tiers
<1>2. ASSUME NEW w \in Rows(word)
      PROVE  word[w].lang \in Languages /\ word[w].lang \in ActiveLanguages
  BY DEF RowsInv, Rows, NullOr, WordRows, ActiveLanguages
<1>3. CASE \E w \in Rows(word) : word[w].reference # NULL /\ key = <<w, word[w].reference>>
  <2>1. PICK w \in Rows(word) : word[w].reference # NULL /\ key = <<w, word[w].reference>>
    BY <1>3
  <2>2. key \notin Takes
    <3>1. w \in Words /\ word[w].reference \in Formats
      BY <2>1 DEF RowsInv, Rows, NullOr, WordRows
    <3> QED
      BY <2>1, <3>1, StudioAssumption
  <2>3. \A m \in LanguageOfKey(key) : m = word[w].lang
    BY <2>1, <2>2 DEF LanguageOfKey, RowsInv, Rows
  <2> QED
    BY <1>2, <2>3
<1>4. CASE ~ \E w \in Rows(word) : word[w].reference # NULL /\ key = <<w, word[w].reference>>
  <2>1. key \in Rows(take) /\ \A m \in LanguageOfKey(key) : m = LanguageOf(key)
    BY <1>4 DEF LanguageOfKey
  <2> QED
    BY <1>1, <2>1
<1> QED
  BY <1>3, <1>4

LEMMA PlayableIsSeen ==
    ASSUME RowsInv
    PROVE  PlayableIsListed
<1> SUFFICES ASSUME NEW u \in Users, NEW key \in AudioKeys, NEW l \in LanguageOfKey(key), CanAct(u, l),
                    NEW m \in LanguageOfKey(key)
             PROVE  m \in ActiveLanguages \cap Accessible(u)
  BY DEF PlayableIsListed, Plays
<1>1. l \in Languages /\ l \in ActiveLanguages /\ m = l
  BY PlayableHasALanguage
<1> QED
  BY <1>1 DEF CanAct, Accessible

LEMMA StudioInvIsInvariant ==
    StudioSpec => [](StudioInv /\ pairs \in PairLists)
<1>1. StudioInit /\ pairs \in PairLists => StudioInv /\ pairs \in PairLists
  BY StudioInitFits
<1>2. StudioInv /\ pairs \in PairLists /\ [StudioNext]_studioVars => (StudioInv /\ pairs \in PairLists)'
  BY StudioStep, PairsStep
<1> QED
  BY <1>1, <1>2, PTL DEF StudioSpec

\* No two takes of a tier and a language are named alike, R point at R, and whoever can play
\* a take sees its language, whatever is deleted and created again between the steps of others:
\* labels and numbers differ, and a take keeps the labels it was named by (naming.py:3,
\* tier_a_service.py:65, access.py:127).
THEOREM TakesAreAlwaysToldApart ==
    StudioSpec => []TakesAreToldApart
<1>1. StudioInv => TakesAreToldApart
  BY InvariantIsTyped, NamesTellTakes, PlayableIsSeen DEF StudioInv, TakesAreToldApart
<1> QED
  BY <1>1, StudioInvIsInvariant, PTL

\* A ready export has the files that its tables name, though it is built beside deletes of it and of
\* its takes, and has what was shown as ready: every take of a ready word and a file of every ready
\* pair, in as many same as different R, none twice, for any takes of any pairs
\* (export_service.py:232, export_plan.py:73, readiness_service.py:45).
THEOREM ExportsAreAlwaysWhole ==
    StudioSpec => []ExportsAreWhole
<1>1. StudioInv /\ pairs \in PairLists => ExportsAreWhole
  BY ReadyWordsArePlanned, PlannedOfPairs DEF StudioInv, ExportsInv, ExportsAreWhole
<1> QED
  BY <1>1, StudioInvIsInvariant, PTL

\* The plan of the pairs that are heard in a language is what ExportsAreWhole says of a list by itself.
ListsArePlanned ==
    \A l \in Languages :
        LET ps == TierB(l)  plan == PlanTierB(ps)
        IN  /\ ps \in Seq([a : Seq(Takes), b : Seq(Takes)]) /\ IsPairList(ps)
            /\ Len(plan.same) = Len(plan.diff)
            /\ IsInjective(plan.same) /\ IsInjective(plan.diff)
            /\ \A p \in 1 .. Len(ps) : PairReady(ps[p]) => FilesOfPlan(plan) \cap FilesOfPair(ps[p]) # {}

\* In every state what an export of a language would be planned of names no file twice, its notebook
\* has as many same as different R, none twice, and each pair that is ready is in one of them,
\* whichever requests are halfway (export_service.py:105, export_plan.py:103, readiness_service.py:63).
THEOREM EveryListIsPlanned ==
    StudioSpec => []ListsArePlanned
<1>1. StudioInv => ListsArePlanned
  <2> SUFFICES ASSUME RowsInv, NEW l \in Languages
               PROVE  LET ps == TierB(l)  plan == PlanTierB(ps)
                      IN  /\ ps \in Seq([a : Seq(Takes), b : Seq(Takes)]) /\ IsPairList(ps)
                          /\ Len(plan.same) = Len(plan.diff)
                          /\ IsInjective(plan.same) /\ IsInjective(plan.diff)
                          /\ \A p \in 1 .. Len(ps) : PairReady(ps[p]) => FilesOfPlan(plan) \cap FilesOfPair(ps[p]) # {}
    BY DEF StudioInv, ListsArePlanned
  <2> DEFINE ps == TierB(l)
  <2>1. ps \in Seq([a : Seq(Takes), b : Seq(Takes)]) /\ IsPairList(ps)
    BY TierBIsPairList
  <2> HIDE DEF ps
  <2>2. LET plan == PlanTierB(ps)
        IN  Len(plan.same) = Len(plan.diff) /\ IsInjective(plan.same) /\ IsInjective(plan.diff)
    BY <2>1, PlanTierBIsOf
  <2>3. \A p \in 1 .. Len(ps) : PairReady(ps[p]) => FilesOfPlan(PlanTierB(ps)) \cap FilesOfPair(ps[p]) # {}
    BY <2>1, ReadyPairIsPlanned
  <2> QED
    BY <2>1, <2>2, <2>3 DEF ps
<1> QED
  BY <1>1, StudioInvIsInvariant, PTL

LEMMA OnlyBigTakesGo ==
    ASSUME StudioInv, [StudioNext]_studioVars, NEW t \in Takes, audio[t] # "none", audio'[t] = "none"
    PROVE  t \notin Rows(take) \/ \E c \in Callers : call[c].pc = "sized" /\ call[c].seen.size = "big"
<1>1. CASE UNCHANGED audio
  BY <1>1
<1>2. CASE Upload
  <2>1. PICK k, size \in {"good", "big"} : audio' = [audio EXCEPT ![k] = size]
    BY <1>2 DEF Upload
  <2>2. t \in DOMAIN audio
    BY DEF StudioInv, BucketInv, AudioKeys
  <2>3. audio'[t] = size \/ audio'[t] = audio[t]
    BY <2>1, <2>2
  <2> QED
    BY <2>3
<1>3. ASSUME NEW c \in Callers, Reject(c)
      PROVE  \E d \in Callers : call[d].pc = "sized" /\ call[d].seen.size = "big"
  BY <1>3 DEF Reject
<1>4. ASSUME NEW c \in Callers, Erase(c)
      PROVE  t \notin Rows(take)
  <2>1. audio' = [audio EXCEPT ![call[c].of] = "none"] /\ call[c].pc = "erasing"
    BY <1>4 DEF Erase
  <2>2. t = call[c].of
    BY <2>1 DEF StudioInv, BucketInv
  <2> QED
    BY <2>1, <2>2 DEF StudioInv, CallsInv, CallFits
<1>5. ASSUME NEW tier \in Tiers, Collect(tier)
      PROVE  UNCHANGED audio
  BY <1>5 DEF Collect, CreateSpeakerNamed, UpdateWord, CreateRecordingA, CreateRecordingB, OpenTake, DeleteSpeaker,
              CreatePair, DeletePair, CreateClip, UpsertSort, bucket
<1>6. CASE ExpireTicket \/ CreateResult \/ AddMember \/ RemoveMember \/ UNCHANGED studioVars
  BY <1>6 DEF ExpireTicket, CreateResult, AddMember, RemoveMember, studioVars, bucket
<1>7. ASSUME NEW c \in Callers,
             \/ BeginComplete(c) \/ Complete(c) \/ DeleteTake(c) \/ Breaks(c)
             \/ CountRows(c) \/ CreateWord(c) \/ CreateSpeaker(c) \/ DeleteWord(c)
             \/ SetReference(c) \/ BeginCompleteReference(c) \/ CompleteReference(c) \/ ClearReference(c)
      PROVE  UNCHANGED audio
  BY <1>7 DEF BeginComplete, Complete, DeleteTake, Breaks, CountRows, CreateWord, CreateSpeaker, DeleteWord,
              SetReference, BeginCompleteReference, CompleteReference, ClearReference, bucket
<1>8. ASSUME NEW c \in Callers, ExportSteps(c) \/ PlotSteps(c)
      PROVE  UNCHANGED audio
  BY <1>8 DEF ExportSteps, BeginExport, Building, FinishExport, Fetch, PutBundle, FailExport, DeleteExport, EraseBundle,
              PlotSteps, BeginPlot, CommitPlot, bucket
<1>9. ASSUME NEW c \in Callers, TakeSteps(c) \/ WordSteps(c) \/ ReferenceSteps(c)
      PROVE  UNCHANGED audio \/ Reject(c) \/ Erase(c)
  BY <1>7, <1>9 DEF TakeSteps, ObjectSteps, WordSteps, ReferenceSteps
<1> QED
  BY <1>1, <1>2, <1>3, <1>4, <1>5, <1>6, <1>8, <1>9 DEF StudioNext

\* The audio of a take whose row is there is deleted by nothing but a completion that found it too
\* big: what a request still has to erase is of a row that is gone, and ids are not given again
\* (tier_a_service.py:104, tier_b_service.py:148).
THEOREM HeardTakesAlwaysStay ==
    StudioSpec => HeardTakesStay
<1>1. StudioInv /\ [StudioNext]_studioVars =>
        [\A t \in Takes : audio[t] # "none" /\ audio'[t] = "none" =>
            t \notin Rows(take) \/ \E c \in Callers : call[c].pc = "sized" /\ call[c].seen.size = "big"]_studioVars
  BY OnlyBigTakesGo
<1> QED
  BY <1>1, StudioInvIsInvariant, PTL DEF StudioSpec, HeardTakesStay

-----------------------------------------------------------------------------
(* The cache of speech.                                                    *)

Rising(s, f) == \A i, j \in 1 .. Len(s) : i < j => f[s[i]] < f[s[j]]

\* The cache is in the order of use, and what is not in it was used before what is.
SpeechInv ==
    /\ SpeechTypeOK
    /\ Len(entries) <= MaxEntries
    /\ Rising(entries, used)
    /\ \A t \in Texts : used[t] <= spoken
    /\ \A t \in ToSet(entries) : used[t] > 0
    /\ \A t \in ToSet(entries), u \in Texts \ ToSet(entries) : used[u] < used[t]

LEMMA RemovedFirst ==
    ASSUME NEW T, NEW s \in Seq(T), IsInjective(s), NEW e
    PROVE  LET r == RemoveFirst(s, e)
           IN  /\ r \in Seq(T) /\ ToSet(r) = ToSet(s) \ {e}
               /\ Len(r) = IF e \in ToSet(s) THEN Len(s) - 1 ELSE Len(s)
               /\ \A f : Rising(s, f) => Rising(r, f)
<1> DEFINE r == RemoveFirst(s, e)
<1>1. Len(s) \in Nat /\ DOMAIN s = 1 .. Len(s) /\ \A i \in 1 .. Len(s) : s[i] \in T
  BY LenProperties, ElementOfSeq
<1>2. CASE e \notin ToSet(s)
  <2>1. r = s
    BY <1>1, <1>2 DEF RemoveFirst, ToSet
  <2> QED
    BY <1>2, <2>1
<1>3. CASE e \in ToSet(s)
  <2> DEFINE I == {i \in 1 .. Len(s) : s[i] = e}
             p == Min(I)
  <2>1. I # {}
    BY <1>1, <1>3 DEF ToSet
  <2>2. p \in 1 .. Len(s) /\ s[p] = e
    <3>1. I \subseteq Nat
      OBVIOUS
    <3>2. Min(I) \in I
      <4> HIDE DEF I
      <4> QED
        BY <2>1, <3>1, MinOf
    <3> QED
      BY <3>2
  <2>3. r = SubSeq(s, 1, p - 1) \o SubSeq(s, p + 1, Len(s))
    <3>1. SelectInSeq(s, LAMBDA v : v = e) = p
      BY <2>1 DEF SelectInSeq
    <3>2. r = RemoveAt(s, SelectInSeq(s, LAMBDA v : v = e))
      BY <2>1 DEF RemoveFirst
    <3> QED
      BY <3>1, <3>2 DEF RemoveAt
  <2> HIDE DEF I, p, r
  <2> DEFINE before == SubSeq(s, 1, p - 1)  after == SubSeq(s, p + 1, Len(s))
  <2>4. /\ before \in Seq(T) /\ Len(before) = p - 1
        /\ \A i \in 1 .. p - 1 : before[i] = s[i]
    <3>1. \A i \in 1 .. p - 1 : s[i] \in T
      BY <1>1, <2>2
    <3>2. /\ before \in Seq(T) /\ Len(before) = IF 1 <= p - 1 THEN p - 1 - 1 + 1 ELSE 0
          /\ \A i \in 1 .. p - 1 - 1 + 1 : before[i] = s[1 + i - 1]
      BY <2>2, <3>1, SubSeqProperties
    <3> HIDE DEF before
    <3> QED
      BY <2>2, <3>2
  <2>5. /\ after \in Seq(T) /\ Len(after) = Len(s) - p
        /\ \A i \in 1 .. Len(s) - p : after[i] = s[p + i]
    <3>1. \A i \in p + 1 .. Len(s) : s[i] \in T
      BY <1>1, <2>2
    <3>2. /\ after \in Seq(T) /\ Len(after) = IF p + 1 <= Len(s) THEN Len(s) - (p + 1) + 1 ELSE 0
          /\ \A i \in 1 .. Len(s) - (p + 1) + 1 : after[i] = s[p + 1 + i - 1]
      BY <1>1, <2>2, <3>1, SubSeqProperties
    <3> HIDE DEF after
    <3>3. Len(after) = Len(s) - p
      <4>1. \A n \in Nat : \A m \in 1 .. n : (IF m + 1 <= n THEN n - (m + 1) + 1 ELSE 0) = n - m
        OBVIOUS
      <4> QED
        BY <1>1, <2>2, <3>2, <4>1
    <3>4. ASSUME NEW i \in 1 .. Len(s) - p
          PROVE  after[i] = s[p + i]
      <4>1. i \in 1 .. Len(s) - (p + 1) + 1 /\ p + 1 + i - 1 = p + i
        BY <1>1, <2>2
      <4> QED
        BY <3>2, <4>1
    <3> QED
      BY <3>2, <3>3, <3>4
  <2> HIDE DEF before, after
  <2>6. /\ r \in Seq(T) /\ Len(r) = Len(s) - 1
        /\ \A i \in 1 .. Len(s) - 1 : r[i] = IF i < p THEN s[i] ELSE s[i + 1]
    <3>1. /\ r \in Seq(T) /\ Len(r) = Len(before) + Len(after)
          /\ \A i \in 1 .. Len(before) + Len(after) : r[i] = IF i <= Len(before) THEN before[i] ELSE after[i - Len(before)]
      BY <2>3, <2>4, <2>5, ConcatProperties DEF before, after
    <3>2. Len(r) = Len(s) - 1 /\ Len(before) + Len(after) = Len(s) - 1
      BY <1>1, <2>2, <2>4, <2>5, <3>1
    <3>3. ASSUME NEW i \in 1 .. Len(s) - 1
          PROVE  r[i] = IF i < p THEN s[i] ELSE s[i + 1]
      <4>1. CASE i < p
        BY <2>2, <2>4, <3>1, <3>2, <4>1
      <4>2. CASE ~(i < p)
        <5>1. i - Len(before) \in 1 .. Len(s) - p /\ p + (i - Len(before)) = i + 1 /\ ~(i <= Len(before))
          BY <1>1, <2>2, <2>4, <4>2
        <5>2. r[i] = after[i - Len(before)]
          BY <3>1, <3>2, <5>1
        <5> QED
          BY <2>5, <4>2, <5>1, <5>2
      <4> QED
        BY <4>1, <4>2
    <3> QED
      BY <3>1, <3>2, <3>3
  <2>7. ToSet(r) = ToSet(s) \ {e}
    <3>1. DOMAIN r = 1 .. Len(s) - 1
      BY <2>6, LenProperties
    <3>2. \A i \in 1 .. Len(s) : i = p \/ s[i] # e
      BY <1>1, <2>2 DEF IsInjective
    <3>3. ASSUME NEW i \in 1 .. Len(s) - 1
          PROVE  r[i] \in ToSet(s) \ {e}
      <4> DEFINE j == IF i < p THEN i ELSE i + 1
      <4>1. j \in 1 .. Len(s) /\ j # p
        BY <1>1, <2>2
      <4>2. r[i] = s[j]
        BY <2>6
      <4> HIDE DEF j
      <4> QED
        BY <1>1, <3>2, <4>1, <4>2 DEF ToSet
    <3>4. ASSUME NEW i \in 1 .. Len(s), i # p
          PROVE  \E j \in 1 .. Len(s) - 1 : r[j] = s[i]
      <4>1. CASE i < p
        BY <1>1, <2>2, <2>6, <4>1
      <4>2. CASE i > p
        <5>1. i - 1 \in 1 .. Len(s) - 1 /\ ~(i - 1 < p) /\ i - 1 + 1 = i
          BY <1>1, <2>2, <4>2
        <5> QED
          BY <2>6, <5>1
      <4> QED
        BY <1>1, <2>2, <3>4, <4>1, <4>2
    <3>5. \A x \in ToSet(s) \ {e} : x \in ToSet(r)
      <4> SUFFICES ASSUME NEW i \in 1 .. Len(s), s[i] # e
                   PROVE  s[i] \in ToSet(r)
        BY <1>1 DEF ToSet
      <4>1. i # p
        BY <2>2
      <4> QED
        BY <3>1, <3>4, <4>1 DEF ToSet
    <3>6. \A x \in ToSet(r) : x \in ToSet(s) \ {e}
      BY <3>1, <3>3 DEF ToSet
    <3> QED
      BY <3>5, <3>6
  <2>8. ASSUME NEW f, Rising(s, f)
        PROVE  Rising(r, f)
    <3> SUFFICES ASSUME NEW i \in 1 .. Len(s) - 1, NEW j \in 1 .. Len(s) - 1, i < j
                 PROVE  f[r[i]] < f[r[j]]
      BY <2>6 DEF Rising
    <3> DEFINE a == IF i < p THEN i ELSE i + 1
               b == IF j < p THEN j ELSE j + 1
    <3>1. a \in 1 .. Len(s) /\ b \in 1 .. Len(s) /\ a < b
      BY <1>1, <2>2
    <3>2. r[i] = s[a] /\ r[j] = s[b]
      BY <2>6
    <3> HIDE DEF a, b
    <3> QED
      BY <2>8, <3>1, <3>2 DEF Rising
  <2> QED
    BY <1>3, <2>6, <2>7, <2>8 DEF r
<1> QED
  BY <1>2, <1>3

\* What is served goes to the end of the cache.
LEMMA Remembered ==
    ASSUME SpeechInv, NEW t \in Texts, Serve(t)
    PROVE  LET q == Append(RemoveFirst(entries, t), t)
           IN  /\ q \in Seq(Texts) /\ ToSet(q) = ToSet(entries) \cup {t}
               /\ Len(q) = IF t \in ToSet(entries) THEN Len(entries) ELSE Len(entries) + 1
               /\ Len(q) \in Nat \ {0}
               /\ Rising(q, used')
               /\ used' \in [Texts -> 0 .. MaxSpoken] /\ spoken' \in 0 .. MaxSpoken
               /\ \A u \in Texts : used'[u] <= spoken'
               /\ \A v \in ToSet(q), u \in Texts \ ToSet(q) : used'[u] < used'[v]
               /\ \A v \in ToSet(q) : used'[v] > 0
<1> DEFINE r == RemoveFirst(entries, t)
           q == Append(r, t)
<1>1. /\ entries \in Seq(Texts) /\ IsInjective(entries) /\ Rising(entries, used) /\ Len(entries) \in Nat
      /\ ToSet(entries) \subseteq Texts
      /\ t \in ToSet(entries) => Len(entries) # 0
  <2>1. entries \in Seq(Texts) /\ IsInjective(entries) /\ Rising(entries, used)
    BY DEF SpeechInv, SpeechTypeOK
  <2>2. Len(entries) \in Nat /\ DOMAIN entries = 1 .. Len(entries) /\ \A i \in 1 .. Len(entries) : entries[i] \in Texts
    BY <2>1, LenProperties, ElementOfSeq
  <2> QED
    BY <2>1, <2>2 DEF ToSet
<1>2. /\ r \in Seq(Texts) /\ ToSet(r) = ToSet(entries) \ {t}
      /\ Len(r) = IF t \in ToSet(entries) THEN Len(entries) - 1 ELSE Len(entries)
      /\ Rising(r, used)
  BY <1>1, RemovedFirst
<1> HIDE DEF r
<1>3. Len(r) \in Nat /\ DOMAIN r = 1 .. Len(r)
  BY <1>2, LenProperties
<1>4. q \in Seq(Texts) /\ Len(q) = Len(r) + 1 /\ q[Len(q)] = t /\ \A i \in 1 .. Len(r) : q[i] = r[i]
  BY <1>2, AppendProperties
<1>5. DOMAIN q = 1 .. Len(q)
  BY <1>4, LenProperties
<1> HIDE DEF q
<1>6. ToSet(q) = ToSet(entries) \cup {t}
  <2>1. ToSet(q) = ToSet(r) \cup {t}
    BY <1>3, <1>4, <1>5 DEF ToSet
  <2> QED
    BY <1>2, <2>1
<1>7. /\ spoken \in Nat /\ spoken < MaxSpoken /\ MaxSpoken \in Nat /\ spoken' = spoken + 1
      /\ used \in [Texts -> 0 .. MaxSpoken] /\ used'[t] = spoken + 1
      /\ used' \in [Texts -> 0 .. MaxSpoken]
      /\ \A u \in Texts : u # t => used'[u] = used[u]
      /\ \A u \in Texts : used[u] <= spoken
  BY SpeechAssumption DEF SpeechInv, SpeechTypeOK, Serve
<1>8. Rising(q, used')
  <2> SUFFICES ASSUME NEW i \in 1 .. Len(q), NEW j \in 1 .. Len(q), i < j
               PROVE  used'[q[i]] < used'[q[j]]
    BY DEF Rising
  <2>1. i \in 1 .. Len(r) /\ q[i] = r[i] /\ r[i] \in ToSet(r)
    BY <1>3, <1>4 DEF ToSet
  <2>2. r[i] \in Texts /\ r[i] # t
    BY <1>1, <1>2, <2>1
  <2>3. CASE j = Len(q)
    BY <1>4, <1>7, <2>1, <2>2, <2>3, SMTT(30)
  <2>4. CASE j # Len(q)
    <3>1. j \in 1 .. Len(r) /\ q[j] = r[j] /\ r[j] \in ToSet(r)
      BY <1>3, <1>4, <2>4 DEF ToSet
    <3>2. r[j] \in Texts /\ r[j] # t
      BY <1>1, <1>2, <3>1
    <3> QED
      BY <1>2, <1>7, <2>1, <2>2, <3>1, <3>2 DEF Rising
  <2> QED
    BY <2>3, <2>4
<1>9. \A v \in ToSet(q), u \in Texts \ ToSet(q) : used'[u] < used'[v]
  BY <1>1, <1>6, <1>7 DEF SpeechInv
<1>10. \A v \in ToSet(q) : used'[v] > 0
  BY <1>1, <1>6, <1>7 DEF SpeechInv
<1>11. used' \in [Texts -> 0 .. MaxSpoken] /\ spoken' \in 0 .. MaxSpoken /\ \A u \in Texts : used'[u] <= spoken'
  BY <1>7
<1>12. Len(q) = (IF t \in ToSet(entries) THEN Len(entries) ELSE Len(entries) + 1) /\ Len(q) \in Nat \ {0}
  BY <1>1, <1>2, <1>3, <1>4
<1> QED
  BY <1>4, <1>6, <1>8, <1>9, <1>10, <1>11, <1>12 DEF q, r

LEMMA SpeechStep ==
    ASSUME SpeechInv, [SpeechNext]_speechVars
    PROVE  SpeechInv'
<1>1. /\ entries \in Seq(Texts) /\ IsInjective(entries) /\ ToSet(entries) \subseteq Texts /\ Len(entries) \in Nat
      /\ listener \in [Listeners -> Texts \cup {NULL}] /\ line \in Lines
      /\ used \in [Texts -> 0 .. MaxSpoken] /\ spoken \in 0 .. MaxSpoken
      /\ MaxEntries \in Nat \ {0} /\ Len(entries) <= MaxEntries
  <2>1. entries \in Seq(Texts)
    BY DEF SpeechInv, SpeechTypeOK
  <2>2. Len(entries) \in Nat /\ DOMAIN entries = 1 .. Len(entries) /\ \A i \in 1 .. Len(entries) : entries[i] \in Texts
    BY <2>1, LenProperties, ElementOfSeq
  <2> QED
    BY <2>1, <2>2, SpeechAssumption DEF SpeechInv, SpeechTypeOK, ToSet
<1>2. \A f, s : Rising(s, f) /\ s \in Seq(Texts) /\ f \in [Texts -> 0 .. MaxSpoken] => IsInjective(s)
  <2> SUFFICES ASSUME NEW f \in [Texts -> 0 .. MaxSpoken], NEW s \in Seq(Texts), Rising(s, f),
                      NEW i \in DOMAIN s, NEW j \in DOMAIN s, s[i] = s[j]
               PROVE  i = j
    BY DEF IsInjective
  <2>1. DOMAIN s = 1 .. Len(s) /\ Len(s) \in Nat /\ s[i] \in Texts
    BY LenProperties, ElementOfSeq
  <2>2. i < j \/ j < i \/ i = j
    BY <2>1
  <2>3. f[s[i]] \in 0 .. MaxSpoken /\ ~(f[s[i]] < f[s[i]])
    BY <2>1, SpeechAssumption
  <2> QED
    BY <2>1, <2>2, <2>3 DEF Rising
<1>3. ASSUME NEW t \in Texts, Hit(t)
      PROVE  SpeechInv'
  <2>1. t \in ToSet(entries) /\ Serve(t) /\ entries' = Append(RemoveFirst(entries, t), t) /\ UNCHANGED <<listener, line>>
    BY <1>3 DEF Hit, Touch
  <2> DEFINE q == Append(RemoveFirst(entries, t), t)
  <2>2. /\ q \in Seq(Texts) /\ Len(q) = Len(entries)
        /\ Rising(q, used')
        /\ used' \in [Texts -> 0 .. MaxSpoken] /\ spoken' \in 0 .. MaxSpoken
        /\ \A u \in Texts : used'[u] <= spoken'
        /\ \A v \in ToSet(q), u \in Texts \ ToSet(q) : used'[u] < used'[v]
        /\ \A v \in ToSet(q) : used'[v] > 0
    BY <2>1, Remembered
  <2>3. entries' = q
    BY <2>1
  <2> HIDE DEF q
  <2>4. SpeechTypeOK'
    BY <1>1, <1>2, <2>1, <2>2, <2>3 DEF SpeechTypeOK
  <2> QED
    BY <2>2, <2>3, <2>4 DEF SpeechInv
<1>4. ASSUME NEW t \in Texts, Serve(t), entries' = Put(t), listener' \in [Listeners -> Texts \cup {NULL}], line' = line
      PROVE  SpeechInv'
  <2> DEFINE q == Append(RemoveFirst(entries, t), t)
  <2>1. /\ q \in Seq(Texts) /\ Len(q) \in Nat \ {0}
        /\ Len(q) = Len(entries) \/ Len(q) = Len(entries) + 1
        /\ Rising(q, used')
        /\ used' \in [Texts -> 0 .. MaxSpoken] /\ spoken' \in 0 .. MaxSpoken
        /\ \A u \in Texts : used'[u] <= spoken'
        /\ \A v \in ToSet(q), u \in Texts \ ToSet(q) : used'[u] < used'[v]
        /\ \A v \in ToSet(q) : used'[v] > 0
    BY <1>1, <1>4, Remembered
  <2>2. entries' = IF Len(q) > MaxEntries THEN Tail(q) ELSE q
    BY <1>4 DEF Put
  <2> HIDE DEF q
  <2>3. DOMAIN q = 1 .. Len(q) /\ \A i \in 1 .. Len(q) : q[i] \in Texts
    BY <2>1, LenProperties, ElementOfSeq
  <2>4. CASE Len(q) <= MaxEntries
    <3>1. entries' = q
      BY <1>1, <2>1, <2>2, <2>4
    <3>2. SpeechTypeOK'
      BY <1>1, <1>2, <1>4, <2>1, <3>1 DEF SpeechTypeOK
    <3> QED
      BY <2>1, <2>4, <3>1, <3>2 DEF SpeechInv
  <2>5. CASE Len(q) > MaxEntries
    <3> DEFINE r == Tail(q)
    <3>1. entries' = r /\ q # <<>>
      BY <2>1, <2>2, <2>5, EmptySeq
    <3>2. /\ r \in Seq(Texts) /\ Len(r) = Len(q) - 1
          /\ \A i \in 1 .. Len(r) : r[i] = q[i + 1]
      BY <2>1, <3>1, HeadTailProperties
    <3>3. DOMAIN r = 1 .. Len(r)
      BY <3>2, LenProperties
    <3> HIDE DEF r
    <3>4. Len(r) <= MaxEntries
      <4>1. \A m \in Nat, n \in Nat, x \in Nat : m <= x /\ (n = m \/ n = m + 1) => n - 1 <= x
        OBVIOUS
      <4> QED
        BY <1>1, <2>1, <3>2, <4>1
    <3>5. Rising(r, used')
      <4> SUFFICES ASSUME NEW i \in 1 .. Len(r), NEW j \in 1 .. Len(r), i < j
                   PROVE  used'[r[i]] < used'[r[j]]
        BY DEF Rising
      <4>1. i + 1 \in 1 .. Len(q) /\ j + 1 \in 1 .. Len(q) /\ i + 1 < j + 1
        BY <2>1, <3>2
      <4>2. used'[q[i + 1]] < used'[q[j + 1]]
        BY <2>1, <4>1 DEF Rising
      <4> QED
        BY <3>2, <4>2
    <3>6. \A v \in ToSet(r) : \E i \in 2 .. Len(q) : v = q[i]
      <4> SUFFICES ASSUME NEW i \in 1 .. Len(r)
                   PROVE  \E j \in 2 .. Len(q) : r[i] = q[j]
        BY <3>3 DEF ToSet
      <4>1. i + 1 \in 2 .. Len(q) /\ r[i] = q[i + 1]
        BY <2>1, <3>2
      <4> QED
        BY <4>1
    <3>7. \A i \in 2 .. Len(q) : q[i] \in ToSet(r)
      <4> SUFFICES ASSUME NEW i \in 2 .. Len(q)
                   PROVE  q[i] \in ToSet(r)
        OBVIOUS
      <4>1. i - 1 \in 1 .. Len(r) /\ i - 1 + 1 = i
        BY <2>1, <3>2
      <4>2. r[i - 1] = q[i]
        BY <3>2, <4>1
      <4> QED
        BY <3>3, <4>1, <4>2 DEF ToSet
    <3>8. ToSet(r) \subseteq ToSet(q)
      <4>1. \A i \in 1 .. Len(q) : q[i] \in ToSet(q)
        BY <2>3 DEF ToSet
      <4>2. 2 .. Len(q) \subseteq 1 .. Len(q)
        BY <2>1
      <4> QED
        BY <3>6, <4>1, <4>2
    <3>9. \A v \in ToSet(r), u \in Texts \ ToSet(r) : used'[u] < used'[v]
      <4> SUFFICES ASSUME NEW v \in ToSet(r), NEW u \in Texts \ ToSet(r)
                   PROVE  used'[u] < used'[v]
        OBVIOUS
      <4>1. CASE u \in ToSet(q)
        <5>1. PICK i \in 1 .. Len(q) : u = q[i]
          BY <2>3, <4>1 DEF ToSet
        <5>2. i = 1
          BY <2>1, <3>7, <5>1
        <5>3. PICK j \in 2 .. Len(q) : v = q[j]
          BY <3>6
        <5> QED
          BY <2>1, <5>1, <5>2, <5>3 DEF Rising
      <4>2. CASE u \notin ToSet(q)
        BY <2>1, <3>8, <4>2
      <4> QED
        BY <4>1, <4>2
    <3>10. SpeechTypeOK'
      BY <1>1, <1>2, <1>4, <2>1, <3>1, <3>2, <3>5 DEF SpeechTypeOK
    <3> QED
      BY <2>1, <3>1, <3>4, <3>5, <3>8, <3>9, <3>10 DEF SpeechInv
  <2> QED
    BY <1>1, <2>1, <2>4, <2>5
<1>5. ASSUME NEW s \in Listeners, Answer(s)
      PROVE  SpeechInv'
  <2>1. listener' \in [Listeners -> Texts \cup {NULL}] /\ line' = line /\ listener[s] \in Texts
    BY <1>1, <1>5 DEF Answer
  <2>2. CASE Serve(listener[s]) /\ entries' = Put(listener[s])
    BY <1>4, <2>1, <2>2
  <2>3. CASE UNCHANGED <<entries, spoken, used>>
    BY <2>1, <2>3 DEF SpeechInv, SpeechTypeOK
  <2> QED
    BY <1>5, <2>2, <2>3 DEF Answer
<1>6. ASSUME NEW t \in Texts, Expire(t)
      PROVE  SpeechInv'
  <2> DEFINE r == RemoveFirst(entries, t)
  <2>1. entries' = r /\ used' = [used EXCEPT ![t] = 0] /\ UNCHANGED <<listener, spoken, line>> /\ t \in ToSet(entries)
    BY <1>6 DEF Expire
  <2>2. /\ r \in Seq(Texts) /\ ToSet(r) = ToSet(entries) \ {t} /\ Len(r) = Len(entries) - 1
        /\ Rising(r, used)
    BY <1>1, <2>1, RemovedFirst DEF SpeechInv
  <2> HIDE DEF r
  <2>3. /\ used' \in [Texts -> 0 .. MaxSpoken] /\ used'[t] = 0
        /\ \A u \in Texts : u # t => used'[u] = used[u]
    BY <1>1, <2>1, SpeechAssumption
  <2>4. Len(r) \in Nat /\ DOMAIN r = 1 .. Len(r) /\ \A i \in 1 .. Len(r) : r[i] \in Texts /\ r[i] # t
    <3>1. Len(r) \in Nat /\ DOMAIN r = 1 .. Len(r)
      BY <2>2, LenProperties
    <3> QED
      BY <1>1, <2>2, <3>1 DEF ToSet
  <2>5. Rising(r, used')
    BY <2>2, <2>3, <2>4 DEF Rising
  <2>6. \A v \in ToSet(r) : v \in Texts /\ v # t /\ used'[v] = used[v] /\ used[v] > 0
    BY <1>1, <2>2, <2>3 DEF SpeechInv
  <2>7. \A v \in ToSet(r), u \in Texts \ ToSet(r) : used'[u] < used'[v]
    <3> SUFFICES ASSUME NEW v \in ToSet(r), NEW u \in Texts \ ToSet(r)
                 PROVE  used'[u] < used'[v]
      OBVIOUS
    <3>1. CASE u = t
      BY <2>3, <2>6, <3>1
    <3>2. CASE u # t
      BY <2>2, <2>3, <2>6, <3>2 DEF SpeechInv
    <3> QED
      BY <3>1, <3>2
  <2>8. \A u \in Texts : used'[u] <= spoken'
    BY <1>1, <2>1, <2>3 DEF SpeechInv
  <2>9. SpeechTypeOK'
    BY <1>1, <1>2, <2>1, <2>2, <2>3, <2>5 DEF SpeechTypeOK
  <2>10. Len(r) <= MaxEntries
    BY <1>1, <2>2 DEF SpeechInv
  <2> QED
    BY <2>1, <2>5, <2>6, <2>7, <2>8, <2>9, <2>10 DEF SpeechInv
<1>7. ASSUME NEW s \in Listeners, NEW t \in Texts, Ask(s, t)
      PROVE  SpeechInv'
  BY <1>7 DEF Ask, SpeechInv, SpeechTypeOK
<1>8. CASE UNCHANGED speechVars
  BY <1>8 DEF speechVars, SpeechInv, SpeechTypeOK
<1> QED
  BY <1>3, <1>5, <1>6, <1>7, <1>8 DEF SpeechNext

-----------------------------------------------------------------------------
(* The marks.                                                              *)

LEMMA Within ==
    ASSUME NEW n \in Nat, NEW a \in 1 .. n, NEW b \in a .. n
    PROVE  /\ \A x \in a .. b : x \in 1 .. n /\ x \in Nat
           /\ \A x \in a + 1 .. b : x \in 1 .. n + 1
OBVIOUS

LEMMA NextStart ==
    ASSUME NEW n \in Nat, NEW i \in 1 .. n, NEW starts
    PROVE  \E k \in i .. n : (k = n \/ k + 1 \in starts) /\ \A j \in i + 1 .. k : j \notin starts
<1> DEFINE E == {k \in i .. n : k = n \/ k + 1 \in starts}
<1>1. n \in E /\ E \subseteq Nat
  OBVIOUS
<1>2. PICK k \in E : \A m \in E : k <= m
  <2> HIDE DEF E
  <2> QED
    BY <1>1, LeastOf
<1>3. k \in i .. n /\ k \in Nat /\ (k = n \/ k + 1 \in starts)
  BY <1>1
<1>4. ASSUME NEW j \in i + 1 .. k, j \in starts
      PROVE  FALSE
  <2>1. j - 1 \in i .. n /\ j - 1 + 1 = j /\ j - 1 < k
    BY <1>3
  <2>2. j - 1 \in E
    BY <1>4, <2>1
  <2> HIDE DEF E
  <2> QED
    BY <1>2, <1>3, <2>1, <2>2
<1> QED
  BY <1>3, <1>4

\* The sentences of a text begin one after the other, at characters of it.
LEMMA SentencesAreInOrder ==
    ASSUME NEW T, NEW text \in Seq(T)
    PROVE  LET first == Sentences(text)
           IN  /\ Len(first) \in Nat /\ DOMAIN first = 1 .. Len(first)
               /\ \A k \in 1 .. Len(first) : first[k] \in 1 .. Len(text)
               /\ \A j, k \in 1 .. Len(first) : j < k => first[j] < first[k]
<1> DEFINE start(i) == i = 1 \/ (text[i - 1] \in Terminators /\ text[i] \notin Terminators)
           end(i) == CHOOSE k \in i .. Len(text) : /\ k = Len(text) \/ start(k + 1)
                                                   /\ \A j \in i + 1 .. k : ~start(j)
           marked(i) == {k \in i .. end(i) : text[k] # " "}
           S == {Min(marked(i)) : i \in {i \in DOMAIN text : start(i) /\ marked(i) # {}}}
           key == [i \in DOMAIN text |-> i]
           first == SortedBy(S, key)
<1>1. Len(text) \in Nat /\ DOMAIN text = 1 .. Len(text)
  BY LenProperties
<1>2. Sentences(text) = first
  BY DEF Sentences
<1>3. ASSUME NEW i \in 1 .. Len(text)
      PROVE  end(i) \in i .. Len(text)
  <2> DEFINE starts == {j \in 1 .. Len(text) + 1 : start(j)}
  <2>1. PICK k \in i .. Len(text) : /\ k = Len(text) \/ k + 1 \in starts
                                    /\ \A j \in i + 1 .. k : j \notin starts
    <3> HIDE DEF starts
    <3> QED
      BY <1>1, NextStart
  <2> HIDE DEF start
  <2>2. k = Len(text) \/ start(k + 1)
    BY <2>1
  <2>3. \A j \in i + 1 .. k : j \in 1 .. Len(text) + 1 /\ ~start(j)
    <3> SUFFICES ASSUME NEW j \in i + 1 .. k
                 PROVE  j \in 1 .. Len(text) + 1 /\ ~start(j)
      OBVIOUS
    <3>1. j \in 1 .. Len(text) + 1
      BY <1>1, Within
    <3>2. j \notin starts
      <4> HIDE DEF starts
      <4> QED
        BY <2>1
    <3> QED
      BY <1>1, <3>1, <3>2
  <2> QED
    BY <2>2, <2>3
<1> HIDE DEF end
<1>4. S \subseteq 1 .. Len(text)
  <2> SUFFICES ASSUME NEW i \in 1 .. Len(text), marked(i) # {}
               PROVE  Min(marked(i)) \in 1 .. Len(text)
    BY <1>1
  <2> DEFINE m == marked(i)
  <2>1. end(i) \in i .. Len(text)
    BY <1>3
  <2>2. m \subseteq 1 .. Len(text) /\ m \subseteq Nat /\ m # {}
    <3>1. \A x \in i .. end(i) : x \in 1 .. Len(text) /\ x \in Nat
      BY <1>1, <2>1, Within
    <3>2. \A x \in m : x \in i .. end(i)
      OBVIOUS
    <3>3. m # {}
      OBVIOUS
    <3> HIDE DEF m
    <3> QED
      BY <3>1, <3>2, <3>3
  <2> HIDE DEF m
  <2>3. Min(m) \in m
    BY <2>2, MinOf
  <2> QED
    BY <2>2, <2>3 DEF m
<1>5. \A x \in S : key[x] = x /\ x \in Nat
  <2> HIDE DEF S
  <2> QED
    BY <1>1, <1>4
<1>6. IsFiniteSet(S)
  <2>1. IsFiniteSet(1 .. Len(text))
    BY <1>1, FS_Interval
  <2> HIDE DEF S
  <2> QED
    BY <1>4, <2>1, FS_Subset
<1> HIDE DEF S, key
<1>7. /\ first \in [1 .. Cardinality(S) -> S] /\ Cardinality(S) \in Nat
      /\ \A i, j \in 1 .. Cardinality(S) : i < j => key[first[i]] < key[first[j]]
  BY <1>5, <1>6, SortedByKeys
<1> HIDE DEF first
<1>8. Len(first) = Cardinality(S) /\ DOMAIN first = 1 .. Len(first)
  BY <1>7, FunctionIsSequence
<1> QED
  BY <1>2, <1>4, <1>5, <1>7, <1>8

\* f[k] is what aggregate_sentence_marks has after the first k of n sentences.
Anchored(f, first, text, chars, n) ==
    f = [k \in 0 .. n |->
            IF k = 0 THEN [marks |-> <<>>, cursor |-> 1]
            ELSE LET at == {j \in f[k - 1].cursor .. Len(chars) : chars[j] = text[first[k]]}
                 IN  IF at = {} THEN [f[k - 1] EXCEPT !.marks = Append(@, 0)]
                     ELSE [marks |-> Append(f[k - 1].marks, Min(at)), cursor |-> Min(at) + 1]]

LEMMA AnchoredExists ==
    ASSUME NEW first, NEW text, NEW chars, NEW n \in Nat
    PROVE  \E f : Anchored(f, first, text, chars, n)
<1> DEFINE at(r, k) == {j \in r.cursor .. Len(chars) : chars[j] = text[first[k]]}
           next(r, k) == IF at(r, k) = {} THEN [r EXCEPT !.marks = Append(@, 0)]
                         ELSE [marks |-> Append(r.marks, Min(at(r, k))), cursor |-> Min(at(r, k)) + 1]
           zero == [marks |-> <<>>, cursor |-> 1]
           Fits(f, m) == f = [k \in 0 .. m |-> IF k = 0 THEN zero ELSE next(f[k - 1], k)]
           S == {m \in Nat : \E f : Fits(f, m)}
<1>1. \A f, m : Fits(f, m) <=> Anchored(f, first, text, chars, m)
  BY Zenon DEF Anchored
<1> HIDE DEF next, zero
<1>2. 0 \in S
  <2> DEFINE f == [k \in 0 .. 0 |-> zero]
  <2>1. \A k \in 0 .. 0 : k = 0
    OBVIOUS
  <2>2. f = [k \in 0 .. 0 |-> IF k = 0 THEN zero ELSE next(f[k - 1], k)]
    BY <2>1
  <2>3. Fits(f, 0)
    BY <2>2, Zenon
  <2> QED
    BY <2>3
<1>3. ASSUME NEW m \in Nat, m \in S
      PROVE  m + 1 \in S
  <2>1. PICK f : Fits(f, m)
    BY <1>3
  <2>2. \A k \in 0 .. m : f[k] = IF k = 0 THEN zero ELSE next(f[k - 1], k)
    BY <2>1, Zenon
  <2> DEFINE g == [k \in 0 .. m + 1 |-> IF k = m + 1 THEN next(f[m], m + 1) ELSE f[k]]
  <2>3. g = [k \in 0 .. m + 1 |-> g[k]]
    OBVIOUS
  <2>4. \A k \in 0 .. m + 1 : g[k] = IF k = m + 1 THEN next(f[m], m + 1) ELSE f[k]
    OBVIOUS
  <2> HIDE DEF g
  <2>5. ASSUME NEW k \in 0 .. m + 1
        PROVE  g[k] = IF k = 0 THEN zero ELSE next(g[k - 1], k)
    <3>1. CASE k = m + 1
      <4>1. k # 0 /\ k - 1 = m /\ m \in 0 .. m + 1 /\ m # m + 1
        BY <3>1
      <4>2. g[k - 1] = f[m]
        BY <2>4, <4>1
      <4> QED
        BY <2>4, <3>1, <4>1, <4>2
    <3>2. CASE k # m + 1
      <4>1. k \in 0 .. m /\ g[k] = f[k]
        BY <2>4, <3>2
      <4>2. k # 0 => g[k - 1] = f[k - 1]
        BY <2>4, <4>1
      <4> QED
        BY <2>2, <4>1, <4>2
    <3> QED
      BY <3>1, <3>2
  <2>6. Fits(g, m + 1)
    BY <2>3, <2>5, Zenon
  <2> QED
    BY <2>6
<1>4. n \in S
  <2> HIDE DEF S
  <2> QED
    BY <1>2, <1>3, InductiveSet
<1> QED
  BY <1>1, <1>4

\* r has the marks of the first k sentences, and its cursor is not past the end of the last.
Marked(r, first, k) ==
    /\ r.marks \in Seq(Nat) /\ Len(r.marks) = k
    /\ r.cursor \in Nat \ {0}
    /\ k # 0 => r.cursor <= first[k] + 1
    /\ k = 0 => r.cursor = 1
    /\ \A j \in 1 .. k : r.marks[j] \in 1 .. first[j] /\ r.marks[j] < r.cursor
    /\ \A i, j \in 1 .. k : i < j => r.marks[i] < r.marks[j]

LEMMA NextIsMarked ==
    ASSUME NEW T, NEW text \in Seq(T), NEW n \in Nat, NEW first,
           \A k \in 1 .. n : first[k] \in 1 .. Len(text),
           \A j, k \in 1 .. n : j < k => first[j] < first[k],
           NEW k \in 1 .. n, NEW r, Marked(r, first, k - 1)
    PROVE  LET at == {j \in r.cursor .. Len(text) : text[j] = text[first[k]]}
           IN  at # {} /\ Marked([marks |-> Append(r.marks, Min(at)), cursor |-> Min(at) + 1], first, k)
<1> DEFINE at == {j \in r.cursor .. Len(text) : text[j] = text[first[k]]}
           m == Min(at)
           s == Append(r.marks, m)
<1>1. Len(text) \in Nat /\ k \in Nat /\ first[k] \in Nat /\ first[k] \in 1 .. Len(text) /\ r.cursor \in Nat \ {0}
  BY LenProperties DEF Marked
<1>2. r.cursor <= first[k]
  <2>1. CASE k = 1
    BY <1>1, <2>1 DEF Marked
  <2>2. CASE k # 1
    <3>1. k - 1 \in 1 .. n /\ k - 1 < k /\ k - 1 # 0
      BY <2>2
    <3>2. first[k - 1] < first[k] /\ first[k - 1] \in Nat /\ r.cursor <= first[k - 1] + 1
      BY <1>1, <3>1 DEF Marked
    <3> QED
      BY <1>1, <3>2
  <2> QED
    BY <2>1, <2>2
<1>3. first[k] \in at /\ at \subseteq Nat
  BY <1>1, <1>2
<1>4. m \in at /\ m <= first[k]
  <2> HIDE DEF at
  <2> QED
    BY <1>3, MinOf
<1>5. m \in Nat /\ r.cursor <= m /\ m \in 1 .. first[k]
  BY <1>1, <1>4
<1> HIDE DEF at, m
<1>6. r.marks \in Seq(Nat) /\ Len(r.marks) = k - 1 /\ k - 1 \in Nat
  BY <1>1 DEF Marked
<1>7. s \in Seq(Nat) /\ Len(s) = k /\ s[k] = m /\ \A j \in 1 .. k - 1 : s[j] = r.marks[j]
  <2>1. k - 1 + 1 = k
    BY <1>1
  <2> QED
    BY <1>5, <1>6, <2>1, AppendProperties
<1> HIDE DEF s
<1>8. \A j \in 1 .. k - 1 : s[j] \in 1 .. first[j] /\ s[j] < m
  <2> SUFFICES ASSUME NEW j \in 1 .. k - 1
               PROVE  s[j] \in 1 .. first[j] /\ s[j] < m
    OBVIOUS
  <2>1. s[j] \in 1 .. first[j] /\ s[j] < r.cursor
    BY <1>7 DEF Marked
  <2>2. first[j] \in Nat
    BY <1>1
  <2> QED
    BY <1>1, <1>5, <2>1, <2>2
<1>9. \A j \in 1 .. k : s[j] \in 1 .. first[j] /\ s[j] < m + 1
  <2> SUFFICES ASSUME NEW j \in 1 .. k
               PROVE  s[j] \in 1 .. first[j] /\ s[j] < m + 1
    OBVIOUS
  <2>1. CASE j = k
    BY <1>5, <1>7, <2>1
  <2>2. CASE j # k
    <3>1. j \in 1 .. k - 1
      BY <1>1, <2>2
    <3>2. s[j] \in 1 .. first[j] /\ s[j] < m /\ first[j] \in Nat
      BY <1>1, <1>8, <3>1
    <3> QED
      BY <1>5, <3>2
  <2> QED
    BY <2>1, <2>2
<1>10. ASSUME NEW i \in 1 .. k, NEW j \in 1 .. k, i < j
       PROVE  s[i] < s[j]
  <2>1. i \in 1 .. k - 1
    BY <1>1, <1>10
  <2>2. CASE j = k
    BY <1>7, <1>8, <2>1, <2>2
  <2>3. CASE j # k
    <3>1. j \in 1 .. k - 1
      BY <1>1, <2>3
    <3>2. r.marks[i] < r.marks[j]
      BY <1>10, <2>1, <3>1 DEF Marked
    <3> QED
      BY <1>7, <2>1, <3>1, <3>2
  <2> QED
    BY <2>2, <2>3
<1> DEFINE q == [marks |-> s, cursor |-> m + 1]
<1>11. q.marks = s /\ q.cursor = m + 1
  OBVIOUS
<1> HIDE DEF q
<1>12. q.cursor \in Nat \ {0} /\ q.cursor <= first[k] + 1 /\ k # 0
  BY <1>1, <1>5, <1>11
<1>13. Marked(q, first, k)
  BY <1>7, <1>9, <1>10, <1>11, <1>12 DEF Marked
<1> QED
  BY <1>3, <1>13 DEF q, s, m, at

LEMMA AnchorsAreMarked ==
    ASSUME NEW T, NEW text \in Seq(T)
    PROVE  LET first == Sentences(text)  marks == Anchors(text, text)
           IN  \A k \in 1 .. Len(first) : /\ marks[k] \in 1 .. first[k]
                                          /\ \A j \in 1 .. k - 1 : marks[j] < marks[k]
<1> DEFINE first == Sentences(text)
           n == Len(first)
           f == CHOOSE g : Anchored(g, first, text, text, n)
<1>1. /\ n \in Nat
      /\ \A k \in 1 .. n : first[k] \in 1 .. Len(text)
      /\ \A j, k \in 1 .. n : j < k => first[j] < first[k]
  BY SentencesAreInOrder
<1>2. Anchors(text, text) = f[n].marks
  BY Zenon DEF Anchors, Anchored
<1> HIDE DEF first
<1>3. Anchored(f, first, text, text, n)
  <2>1. \E g : Anchored(g, first, text, text, n)
    BY <1>1, AnchoredExists
  <2> QED
    BY <2>1, Zenon
<1> HIDE DEF f
<1> DEFINE at == [k \in 0 .. n |-> {j \in f[k - 1].cursor .. Len(text) : text[j] = text[first[k]]}]
<1>4. \A k \in 0 .. n : f[k] = IF k = 0 THEN [marks |-> <<>>, cursor |-> 1]
                               ELSE IF at[k] = {} THEN [f[k - 1] EXCEPT !.marks = Append(@, 0)]
                                    ELSE [marks |-> Append(f[k - 1].marks, Min(at[k])), cursor |-> Min(at[k]) + 1]
  <2>1. \A k \in 0 .. n : f[k] = IF k = 0 THEN [marks |-> <<>>, cursor |-> 1]
                 ELSE LET a == {j \in f[k - 1].cursor .. Len(text) : text[j] = text[first[k]]}
                      IN  IF a = {} THEN [f[k - 1] EXCEPT !.marks = Append(@, 0)]
                          ELSE [marks |-> Append(f[k - 1].marks, Min(a)), cursor |-> Min(a) + 1]
    BY <1>3, Zenon DEF Anchored
  <2>2. \A k \in 0 .. n : at[k] = {j \in f[k - 1].cursor .. Len(text) : text[j] = text[first[k]]}
    BY Zenon
  <2> HIDE DEF at
  <2> QED
    BY <2>1, <2>2, Zenon
<1> DEFINE S == {k \in Nat : k <= n => Marked(f[k], first, k)}
<1>5. 0 \in S
  <2>1. f[0] = [marks |-> <<>>, cursor |-> 1]
    <3>1. 0 \in 0 .. n
      BY <1>1
    <3> HIDE DEF n
    <3> QED
      BY <1>4, <3>1
  <2>2. f[0].marks = <<>> /\ f[0].cursor = 1 /\ <<>> \in Seq(Nat) /\ Len(<<>>) = 0
    BY <2>1
  <2>3. \A j \in 1 .. 0 : FALSE
    OBVIOUS
  <2>4. Marked(f[0], first, 0)
    BY <2>2, <2>3 DEF Marked
  <2> QED
    BY <2>4
<1>6. ASSUME NEW m \in Nat, m \in S
      PROVE  m + 1 \in S
  <2> SUFFICES ASSUME m + 1 <= n
               PROVE  Marked(f[m + 1], first, m + 1)
    OBVIOUS
  <2> HIDE DEF n
  <2>1. m <= n /\ m + 1 \in 1 .. n /\ m + 1 \in 0 .. n /\ m + 1 - 1 = m /\ m + 1 # 0
    BY <1>1
  <2>2. Marked(f[m], first, m)
    BY <1>6, <2>1
  <2> DEFINE A == {j \in f[m].cursor .. Len(text) : text[j] = text[first[m + 1]]}
  <2>3. A # {} /\ Marked([marks |-> Append(f[m].marks, Min(A)), cursor |-> Min(A) + 1], first, m + 1)
    <3> DEFINE r == f[m]  k == m + 1
    <3>1. Marked(r, first, k - 1) /\ k \in 1 .. n
      BY <2>1, <2>2
    <3> HIDE DEF r, k
    <3>2. LET a == {j \in r.cursor .. Len(text) : text[j] = text[first[k]]}
          IN  a # {} /\ Marked([marks |-> Append(r.marks, Min(a)), cursor |-> Min(a) + 1], first, k)
      BY <1>1, <3>1, NextIsMarked, ZenonT(30)
    <3> QED
      BY <3>2 DEF r, k
  <2>4. at[m + 1] = A /\ f[m + 1 - 1] = f[m]
    BY <2>1
  <2> HIDE DEF A, at
  <2>5. f[m + 1] = [marks |-> Append(f[m + 1 - 1].marks, Min(at[m + 1])), cursor |-> Min(at[m + 1]) + 1]
    <3> DEFINE k == m + 1
    <3>1. k \in 0 .. n /\ k # 0 /\ at[k] # {}
      BY <2>1, <2>3, <2>4
    <3> HIDE DEF k
    <3>2. f[k] = [marks |-> Append(f[k - 1].marks, Min(at[k])), cursor |-> Min(at[k]) + 1]
      BY <1>4, <3>1
    <3> QED
      BY <3>2 DEF k
  <2> QED
    BY <2>3, <2>4, <2>5
<1>7. Marked(f[n], first, n)
  <2>1. n \in S
    <3> HIDE DEF S
    <3> QED
      BY <1>1, <1>5, <1>6, InductiveSet
  <2> HIDE DEF n
  <2> QED
    BY <1>1, <2>1
<1> DEFINE marks == f[n].marks
<1>8. ASSUME NEW k \in 1 .. n
      PROVE  marks[k] \in 1 .. first[k] /\ \A j \in 1 .. k - 1 : marks[j] < marks[k]
  <2>1. marks[k] \in 1 .. first[k]
    BY <1>7 DEF Marked
  <2>2. ASSUME NEW j \in 1 .. k - 1
        PROVE  marks[j] < marks[k]
    <3>1. j \in 1 .. n /\ j < k
      BY <1>1
    <3> QED
      BY <1>7, <3>1 DEF Marked
  <2> QED
    BY <2>1, <2>2
<1> QED
  BY <1>2, <1>8 DEF first

\* Spoken audio is kept by use, the least recently used going first and however many requests ask
\* for one text at a time, and every sentence of any text has a mark, in order and not after it begins
\* (audio_cache.py:66, synthesize_speech.py:77).
THEOREM SpeechIsAlwaysServed ==
    SpeechSpec => []SpeechIsServed
<1>1. SpeechInit => SpeechInv
  <2> SUFFICES ASSUME SpeechInit
               PROVE  SpeechInv
    OBVIOUS
  <2>1. entries \in Seq(Texts) /\ Len(entries) = 0 /\ DOMAIN entries = {} /\ ToSet(entries) = {}
    BY DEF SpeechInit, ToSet
  <2>2. SpeechTypeOK
    BY <2>1, SpeechAssumption DEF SpeechInit, SpeechTypeOK, IsInjective
  <2> QED
    BY <2>1, <2>2, SpeechAssumption DEF SpeechInit, SpeechInv, Rising
<1>2. SpeechInv /\ [SpeechNext]_speechVars => SpeechInv'
  BY SpeechStep
<1>3. SpeechInv => SpeechIsServed
  <2> SUFFICES ASSUME SpeechInv
               PROVE  SpeechIsServed
    OBVIOUS
  <2>1. RecentlyUsedStay /\ SpeechTypeOK
    BY DEF SpeechInv, RecentlyUsedStay
  <2>2. line \in Seq(STRING)
    BY SpeechAssumption DEF SpeechInv, SpeechTypeOK
  <2>3. DOMAIN Sentences(line) = 1 .. Len(Sentences(line))
    BY <2>2, SentencesAreInOrder
  <2>4. MarksAreNeverLate
    BY <2>2, <2>3, AnchorsAreMarked DEF MarksAreNeverLate
  <2> QED
    BY <2>1, <2>4 DEF SpeechIsServed
<1> QED
  BY <1>1, <1>2, <1>3, PTL DEF SpeechSpec

-----------------------------------------------------------------------------
(* Migrations: what the statements of each revision take. *)

\* Every revision but 20260312_0001 goes up by one block, whose statements drop no table and
\* take no rows but the memberships nobody granted.

\* A statement drops one thing and adds none, or adds what points to what it needs or adds.
Adding(s) ==
    /\ s.drops = {}
    /\ \A o \in s.adds :
          /\ o[1] \in {"column", "index", "fk", "loose"} => <<"table", o[2]>> \in s.needs \cup s.adds
          /\ o[1] = "fk" => <<"table", o[4]>> \in s.needs \cup s.adds
Solid(s) == Adding(s) \/ (s.adds = {} /\ \E o : s.drops = {o})

Typed(s) == s.puts \subseteq Kinds /\ Solid(s)
Sparing(s) ==
    /\ Typed(s) /\ s.takes \subseteq {"seeded", "abandoned"}
    /\ \A o \in s.drops : o[1] # "table"

LEMMA AddsAreSparing ==
    /\ \A o, needs : o[1] \in {"table", "type"} => Sparing(Add(o, needs))
    /\ \A t, refs, types : Sparing(TableOf(t, refs, types))
    /\ \A t, refs : Sparing(Table(t, refs))
    /\ \A t, c : Sparing(Column(t, c))
    /\ \A t, i : Sparing(Index(t, i))
    /\ \A t, c, target : Sparing(Fk(t, c, target))
    /\ \A t, c : Sparing(Loosen(t, c))
    /\ \A ty : Sparing(Type(ty))
    /\ \A t, refs : Sparing(IfMissing(Table(t, refs)))
    /\ \A t, c : Sparing(IfMissing(Column(t, c)))
    /\ \A ty : Sparing(IfMissing(Type(ty)))
    /\ \A ks : Sparing(RefusedBy(ks))
    /\ \A given, k : k \in Kinds => Sparing(PutRow(given, k))
<1> USE DEF Sparing, Typed, Solid, Adding, Nothing
<1>1. \A o, needs : o[1] \in {"table", "type"} => Sparing(Add(o, needs))
  BY DEF Add
<1>2. ASSUME NEW t, NEW refs, NEW types
      PROVE  /\ Sparing(TableOf(t, refs, types))
             /\ types = {} => Sparing(IfMissing(TableOf(t, refs, types)))
  <2> DEFINE s == TableOf(t, refs, types)
             fks == {<<"fk", t, "", r>> : r \in refs}
             needs == {<<"table", r>> : r \in refs}
  <2>1. /\ s.puts = {} /\ s.takes = {} /\ s.drops = {} /\ s.needs = needs
        /\ s.adds = {<<"table", t>>} \cup fks
        /\ IfMissing(s).puts = {} /\ IfMissing(s).takes = {} /\ IfMissing(s).drops = {}
        /\ IfMissing(s).needs = needs /\ IfMissing(s).adds = {<<"table", t>>} \cup fks
    BY DEF Add, TableOf, IfMissing
  <2>2. ASSUME NEW o \in {<<"table", t>>} \cup fks
        PROVE  /\ o[1] \in {"column", "index", "fk", "loose"} => <<"table", o[2]>> = <<"table", t>>
               /\ o[1] = "fk" => <<"table", o[4]>> \in needs
    <3>1. CASE o = <<"table", t>>
      BY <3>1
    <3>2. ASSUME NEW r \in refs, o = <<"fk", t, "", r>>
          PROVE  o[2] = t /\ o[4] = r
      BY <3>2
    <3> QED
      BY <3>1, <3>2
  <2> HIDE DEF s, fks, needs
  <2>3. Sparing(s) /\ Sparing(IfMissing(s))
    BY <2>1, <2>2
  <2> QED
    BY <2>3 DEF s
<1>3. ASSUME NEW t, NEW c
      PROVE  /\ Sparing(Column(t, c)) /\ Sparing(Index(t, c)) /\ Sparing(Loosen(t, c))
             /\ \A target : Sparing(Fk(t, c, target))
  BY DEF Add, Column, Index, Fk, Loosen
<1>4. \A ty : Sparing(Type(ty))
  BY DEF Add, Type
<1>5. ASSUME NEW t, NEW c
      PROVE  Sparing(IfMissing(Column(t, c))) /\ Sparing(IfMissing(Type(t)))
  BY DEF Add, Column, Type, IfMissing
<1>6. \A ks : Sparing(RefusedBy(ks))
  BY DEF RefusedBy
<1>7. \A given, k : k \in Kinds => Sparing(PutRow(given, k))
  BY DEF PutRow
<1>8. \A t, refs : Sparing(Table(t, refs)) /\ Sparing(IfMissing(Table(t, refs)))
  BY ONLY <1>2 DEF Table
<1> HIDE DEF Sparing
<1> QED
  BY <1>1, <1>2, <1>3, <1>4, <1>5, <1>6, <1>7, <1>8

LEMMA DropsAreSparing ==
    /\ \A t, c : Sparing(DropColumn(t, c))
    /\ \A t, i : Sparing(DropIndex(t, i))
    /\ \A t, c, target : Sparing(DropFk(t, c, target))
    /\ \A t, c : Sparing(Tighten(t, c))
    /\ \A ty : Sparing(DropType(ty))
    /\ Sparing(Take({"seeded", "abandoned"}))
<1> USE DEF Sparing, Typed, Solid, Adding, Nothing
<1>1. ASSUME NEW o, o[1] # "table"
      PROVE  Sparing(Drop(o))
  BY <1>1 DEF Drop
<1>2. ASSUME NEW t, NEW c
      PROVE  /\ Sparing(DropColumn(t, c)) /\ Sparing(DropIndex(t, c)) /\ Sparing(Tighten(t, c))
             /\ \A target : Sparing(DropFk(t, c, target))
  BY ONLY <1>1 DEF DropColumn, DropIndex, DropFk, Tighten
<1>3. \A ty : Sparing(DropType(ty))
  BY DEF DropType
<1>4. Sparing(Take({"seeded", "abandoned"}))
  BY DEF Take
<1> HIDE DEF Sparing
<1> QED
  BY <1>2, <1>3, <1>4

LEMMA StatementsAreTyped ==
    /\ \A s : Sparing(s) => Typed(s)
    /\ \A t : Typed(DropTable(t))
    /\ \A ks : Typed(Take(ks))
BY DEF Sparing, Typed, Solid, Adding, DropTable, Take, Drop, Nothing

LEMMA KindsAre ==
    {"specialist", "analyst", "genres", "retired", "v2_genres", "unclassified", "member", "invite",
     "th_app", "ph_app", "ph_admin", "as_app", "seeded", "oc_member", "oc_invite"} \subseteq Kinds
BY DEF Kinds, Home

CopyBlock == Rev_20260312_0001.up[1]
DropBlock == Rev_20260312_0001.up[2]

SparingBlock(b) == DOMAIN b = 1 .. Len(b) /\ Len(b) \in Nat /\ \A j \in 1 .. Len(b) : Sparing(b[j])
TypedBlock(b) == DOMAIN b = 1 .. Len(b) /\ Len(b) \in Nat /\ \A j \in 1 .. Len(b) : Typed(b[j])

Upgrades(rev) == \/ rev.up = <<rev.up[1]>> /\ SparingBlock(rev.up[1])
                 \/ rev.up = <<CopyBlock, DropBlock>>
Downgrades(rev) == rev.down = <<rev.down[1]>> /\ TypedBlock(rev.down[1])

Kept(rev) == Upgrades(rev) /\ Downgrades(rev)

LEMMA PlainRevision ==
    ASSUME NEW up, NEW down, SparingBlock(up), TypedBlock(down)
    PROVE  Kept(Revision(up, down))
BY DEF Upgrades, Downgrades, Revision, Kept

\* The steps are the revisions, in the order of the chain.
LEMMA EveryRevision ==
    \A i \in 1 .. Newest : Kept(Chain[i])
<1> USE AddsAreSparing, DropsAreSparing, StatementsAreTyped, PlainRevision, KindsAre
        DEF SparingBlock, TypedBlock
<1>1. Kept(Rev_20260226_0001)
  BY DEF Rev_20260226_0001
<1>2. Kept(Rev_20260226_0002)
  BY DEF Rev_20260226_0002
<1>3. Kept(Rev_20260226_0003)
  BY DEF Rev_20260226_0003
<1>4. Kept(Rev_20260226_0004)
  BY DEF Rev_20260226_0004
<1>5. Kept(Rev_20260227_0005)
  BY DEF Rev_20260227_0005
<1>6. Kept(Rev_e8d6b0446bcf)
  BY DEF Rev_e8d6b0446bcf
<1>7. Kept(Rev_24dc98b94ae1)
  BY DEF Rev_24dc98b94ae1
<1>8. Kept(Rev_20260303_0001)
  BY DEF Rev_20260303_0001
<1>9. Kept(Rev_20260303_0002)
  BY DEF Rev_20260303_0002
<1>10. Kept(Rev_20260304_0001)
  BY DEF Rev_20260304_0001
<1>11. Kept(Rev_20260305_0001)
  BY DEF Rev_20260305_0001
<1>12. Kept(Rev_20260305_0002)
  BY DEF Rev_20260305_0002
<1>13. Kept(Rev_20260306_0001)
  BY DEF Rev_20260306_0001
<1>14. Kept(Rev_20260306_0002)
  BY DEF Rev_20260306_0002
<1>15. Kept(Rev_20260306_0003)
  BY DEF Rev_20260306_0003
<1>16. Kept(Rev_20260307_0001)
  BY DEF Rev_20260307_0001
<1>17. Kept(Rev_20260308_0001)
  BY DEF Rev_20260308_0001
<1>18. Kept(Rev_20260308_0002)
  BY DEF Rev_20260308_0002
<1>19. Kept(Rev_20260309_0001)
  BY DEF Rev_20260309_0001
<1>20. Kept(Rev_20260309_0002)
  BY DEF Rev_20260309_0002
<1>21. Kept(Rev_20260309_0003)
  BY DEF Rev_20260309_0003, OcGenres
<1>22. Kept(Rev_20260312_0001)
  BY DEF Kept, Upgrades, Downgrades, Rev_20260312_0001, RevisionInTwo, CopyBlock, DropBlock
<1>23. Kept(Rev_20260316_0001)
  BY DEF Rev_20260316_0001
<1>24. Kept(Rev_20260317_0001)
  BY DEF Rev_20260317_0001
<1>25. Kept(Rev_20260318_0001)
  BY DEF Rev_20260318_0001, V2Genres
<1>26. Kept(Rev_20260327_0001)
  BY DEF Rev_20260327_0001
<1>27. Kept(Rev_20260327_0002)
  BY DEF Rev_20260327_0002
<1>28. Kept(Rev_20260327_0003)
  BY DEF Rev_20260327_0003
<1>29. Kept(Rev_20260401_0001)
  BY DEF Rev_20260401_0001
<1>30. Kept(Rev_20260413_0001)
  BY DEF Rev_20260413_0001
<1>31. Kept(Rev_20260414_0001)
  BY DEF Rev_20260414_0001
<1>32. Kept(Rev_20260415_0001)
  BY DEF Rev_20260415_0001
<1>33. Kept(Rev_20260420_0001)
  BY DEF Rev_20260420_0001
<1>34. Kept(Rev_20260420_0002)
  BY DEF Rev_20260420_0002
<1>35. Kept(Rev_20260420_0003)
  BY DEF Rev_20260420_0003
<1>36. Kept(Rev_20260516_0001)
  BY DEF Rev_20260516_0001
<1>37. Kept(Rev_20260517_0001)
  BY DEF Rev_20260517_0001
<1>38. Kept(Rev_20260518_0001)
  BY DEF Rev_20260518_0001
<1>39. Kept(Rev_20260518_0002)
  BY DEF Rev_20260518_0002
<1>40. Kept(Rev_20260519_0001)
  BY DEF Rev_20260519_0001
<1>41. Kept(Rev_20260603_0001)
  <2>1. SparingBlock(AnnotationTables) /\ SparingBlock(AnnotationApp)
    BY DEF AnnotationTables, AnnotationApp
  <2>2. SparingBlock(AnnotationTables \o AnnotationApp)
    BY DEF AnnotationTables, AnnotationApp
  <2>3. TypedBlock(AnnotationDowngrade)
    BY DEF AnnotationDowngrade
  <2> QED
    BY ONLY <2>2, <2>3, PlainRevision DEF Rev_20260603_0001
<1>42. Kept(Rev_20260608_0001)
  BY DEF Rev_20260608_0001
<1>43. Kept(Rev_20260609_0001)
  BY DEF Rev_20260609_0001
<1>44. Kept(Rev_20260709_0001)
  BY DEF Rev_20260709_0001
<1>45. Kept(Rev_20260713_0001)
  BY DEF Rev_20260713_0001
<1>46. Kept(Rev_20260714_0001)
  BY DEF Rev_20260714_0001
<1>47. Kept(Rev_20260714_0002)
  BY DEF Rev_20260714_0002
<1>48. Kept(Rev_20260714_0003)
  BY DEF Rev_20260714_0003
<1>49. Kept(Rev_20260715_0001)
  BY DEF Rev_20260715_0001
<1>50. Kept(Rev_20260717_0001)
  BY DEF Rev_20260717_0001
<1>51. Kept(Rev_20260717_0002)
  BY DEF Rev_20260717_0002
<1>52. Kept(Rev_20260717_0003)
  BY DEF Rev_20260717_0003
<1>53. Kept(Rev_20260723_0001)
  BY DEF Rev_20260723_0001
<1>54. Kept(Rev_20260724_0001)
  BY DEF Rev_20260724_0001
<1>55. Kept(Rev_20260724_0002)
  BY DEF Rev_20260724_0002
<1>56. Kept(Rev_20260601_0001)
  BY DEF Rev_20260601_0001
<1>57. Kept(Rev_20260731_0001)
  BY DEF Rev_20260731_0001
<1> QED
  BY ONLY <1>1, <1>2, <1>3, <1>4, <1>5, <1>6, <1>7, <1>8, <1>9, <1>10, <1>11, <1>12,
          <1>13, <1>14, <1>15, <1>16, <1>17, <1>18, <1>19, <1>20, <1>21, <1>22, <1>23, <1>24,
          <1>25, <1>26, <1>27, <1>28, <1>29, <1>30, <1>31, <1>32, <1>33, <1>34, <1>35, <1>36,
          <1>37, <1>38, <1>39, <1>40, <1>41, <1>42, <1>43, <1>44, <1>45, <1>46, <1>47, <1>48,
          <1>49, <1>50, <1>51, <1>52, <1>53, <1>54, <1>55, <1>56, <1>57
     DEF Newest, Chain

-----------------------------------------------------------------------------
(* Migrations: what a block of statements leaves. *)

LEMMA ExecOk ==
    ASSUME NEW db, NEW s, DOMAIN db = {"objects", "rows", "made", "altered", "shared", "ok"},
           Exec(db, s).ok
    PROVE  /\ db.ok /\ DOMAIN Exec(db, s) = DOMAIN db
           /\ Sparing(s) => db.rows \ {"seeded", "abandoned"} \subseteq Exec(db, s).rows
BY DEF Exec, Sparing

LEMMA MaxIs ==
    ASSUME NEW m \in Nat, NEW s, s \subseteq 1 .. m, m \in s
    PROVE  Max(s) = m
<1>1. \A y \in s : m >= y
  OBVIOUS
<1>2. ASSUME NEW x \in s, \A y \in s : x >= y
      PROVE  x = m
  BY <1>2
<1> QED
  BY <1>1, <1>2 DEF Max

\* What FoldLeft computes of the parts of a block.
Folded(h, db, block, n) ==
    h = [s \in SUBSET (1 .. n) |-> IF s = {} THEN db ELSE LET x == Max(s) IN Exec(h[s \ {x}], block[x])]

\* That there is such a function for any block makes the one that FoldLeft chooses one.
LEMMA FoldExists ==
    ASSUME NEW db, NEW block, NEW n \in Nat
    PROVE  \E h : Folded(h, db, block, n)
<1> DEFINE S == {m \in Nat : \E h : Folded(h, db, block, m)}
<1>1. 0 \in S
  <2> DEFINE h == [s \in SUBSET (1 .. 0) |-> db]
  <2>1. \A s \in SUBSET (1 .. 0) : s = {}
    OBVIOUS
  <2>2. Folded(h, db, block, 0)
    BY <2>1 DEF Folded
  <2> QED
    BY <2>2
<1>2. ASSUME NEW m \in Nat, m \in S
      PROVE  m + 1 \in S
  <2>1. PICK h : Folded(h, db, block, m)
    BY <1>2
  <2>2. \A s \in SUBSET (1 .. m) : h[s] = IF s = {} THEN db ELSE LET x == Max(s) IN Exec(h[s \ {x}], block[x])
    BY <2>1, Zenon DEF Folded
  <2> DEFINE g == [s \in SUBSET (1 .. m + 1) |->
                     IF m + 1 \in s THEN Exec(h[s \ {m + 1}], block[m + 1]) ELSE h[s]]
  <2>3. g = [s \in SUBSET (1 .. m + 1) |-> g[s]]
    OBVIOUS
  <2>4. \A s \in SUBSET (1 .. m + 1) :
           g[s] = IF m + 1 \in s THEN Exec(h[s \ {m + 1}], block[m + 1]) ELSE h[s]
    OBVIOUS
  <2> HIDE DEF g
  <2>5. ASSUME NEW s \in SUBSET (1 .. m + 1)
        PROVE  g[s] = IF s = {} THEN db ELSE LET x == Max(s) IN Exec(g[s \ {x}], block[x])
    <3>1. CASE m + 1 \in s
      <4>1. Max(s) = m + 1
        <5>1. m + 1 \in Nat /\ s \subseteq 1 .. m + 1
          OBVIOUS
        <5> QED
          BY ONLY <5>1, <3>1, MaxIs
      <4>2. s \ {m + 1} \in SUBSET (1 .. m + 1) /\ m + 1 \notin s \ {m + 1}
        OBVIOUS
      <4>3. g[s \ {m + 1}] = h[s \ {m + 1}]
        BY <2>4, <4>2
      <4> QED
        BY <3>1, <4>1, <4>3, <2>4
    <3>2. CASE m + 1 \notin s
      <4>1. s \in SUBSET (1 .. m)
        BY <3>2
      <4>2. g[s] = h[s] /\ \A x : g[s \ {x}] = h[s \ {x}]
        BY <4>1, <3>2, <2>4
      <4> QED
        BY <4>1, <4>2, <2>2
    <3> QED
      BY <3>1, <3>2
  <2>6. Folded(g, db, block, m + 1)
    BY <2>3, <2>5, Zenon DEF Folded
  <2> QED
    BY <2>6
<1> HIDE DEF S
<1>3. n \in S
  BY <1>1, <1>2, InductiveSet
<1> QED
  BY <1>3 DEF S

\* f[j] is the database after the first j statements of a block.
Ran(f, db, block) ==
    /\ f[0] = db
    /\ \A j \in 1 .. Len(block) : f[j] = Exec(f[j - 1], block[j])

LEMMA BlocksRun ==
    ASSUME NEW db, NEW block, DOMAIN block = 1 .. Len(block), Len(block) \in Nat
    PROVE  \E f : Ran(f, db, block) /\ ExecBlock(db, block) = f[Len(block)]
<1> DEFINE n == Len(block)
           h == CHOOSE g : g = [s \in SUBSET DOMAIN block |->
                                  IF s = {} THEN db ELSE LET x == Max(s) IN Exec(g[s \ {x}], block[x])]
           f == [j \in 0 .. n |-> h[1 .. j]]
<1>1. ExecBlock(db, block) = h[DOMAIN block]
  BY Zenon DEF ExecBlock, FoldLeft, MapThenFoldSet
<1>2. \E g : g = [s \in SUBSET DOMAIN block |->
                    IF s = {} THEN db ELSE LET x == Max(s) IN Exec(g[s \ {x}], block[x])]
  <2>1. \E g : Folded(g, db, block, n)
    BY FoldExists
  <2> QED
    BY <2>1, Zenon DEF Folded
<1>3. h = [s \in SUBSET DOMAIN block |-> IF s = {} THEN db ELSE LET x == Max(s) IN Exec(h[s \ {x}], block[x])]
  BY <1>2, Zenon
<1> HIDE DEF h
<1>4. \A s \in SUBSET (1 .. n) : h[s] = IF s = {} THEN db ELSE LET x == Max(s) IN Exec(h[s \ {x}], block[x])
  BY <1>3, Zenon
<1> n \in Nat
  OBVIOUS
<1> HIDE DEF n
<1>5. f[0] = db
  <2>1. 1 .. 0 = {} /\ 1 .. 0 \in SUBSET (1 .. n) /\ 0 \in 0 .. n
    OBVIOUS
  <2>2. h[1 .. 0] = db
    BY <2>1, <1>4
  <2> QED
    BY <2>1, <2>2
<1>6. ASSUME NEW j \in 1 .. n
      PROVE  f[j] = Exec(f[j - 1], block[j])
  <2>1. Max(1 .. j) = j
    <3>1. j \in Nat /\ 1 .. j \subseteq 1 .. j /\ j \in 1 .. j
      OBVIOUS
    <3> QED
      BY ONLY <3>1, MaxIs
  <2>2. (1 .. j) \ {j} = 1 .. j - 1 /\ 1 .. j # {} /\ 1 .. j \in SUBSET (1 .. n)
    OBVIOUS
  <2>3. h[1 .. j] = Exec(h[1 .. j - 1], block[j])
    BY <2>1, <2>2, <1>4
  <2>4. j \in 0 .. n /\ j - 1 \in 0 .. n
    OBVIOUS
  <2> QED
    BY <2>3, <2>4
<1>7. n \in 0 .. n /\ f[n] = h[1 .. n]
  OBVIOUS
<1> QED
  BY <1>1, <1>5, <1>6, <1>7 DEF Ran, n

Database(db) == /\ DOMAIN db = {"objects", "rows", "made", "altered", "shared", "ok"}
                /\ db.rows \subseteq Kinds
                /\ Sound(db.objects)

\* What is added finds what it points to; what is dropped takes along what points to it, or fails.
LEMMA ExecKeepsSound ==
    ASSUME NEW db, NEW s, Database(db), Solid(s)
    PROVE  Sound(Exec(db, s).objects)
<1> DEFINE gone(x) == \E o \in s.drops : GoesWith(x, o)
           left == {x \in db.objects : \A o \in s.drops : ~GoesWith(x, o)}
           new == left \cup s.adds \cup {<<"type", ty>> : ty \in s.types}
<1>1. Sound(db.objects)
  BY DEF Database
<1>2. CASE ~db.ok \/ Fails(s, db) \/ Clashes(s, db)
  <2>1. Exec(db, s).objects = db.objects
    BY <1>2 DEF Exec, Database
  <2> QED
    BY <1>1, <2>1
<1>3. CASE ~(~db.ok \/ Fails(s, db) \/ Clashes(s, db))
  <2>1. Exec(db, s).objects = new
    BY <1>3 DEF Exec, Database
  <2>2. s.needs \subseteq db.objects
    BY <1>3 DEF Fails
  <2>3. \A o \in s.drops : o[1] = "table" => ~StillReferred(o[2], db.objects)
    BY <1>3 DEF Fails
  <2>4. \A ty : <<"type", ty>>[1] = "type"
    OBVIOUS
  <2>5. CASE Adding(s)
    <3>1. left = db.objects
      BY <2>5 DEF Adding
    <3> HIDE DEF left
    <3>2. ASSUME NEW o \in new
          PROVE  /\ o[1] \in {"column", "index", "fk", "loose"} => <<"table", o[2]>> \in new
                 /\ o[1] = "fk" => <<"table", o[4]>> \in new
      <4>1. CASE o \in db.objects
        BY <4>1, <3>1, <1>1 DEF Sound
      <4>2. CASE o \in s.adds
        BY <4>2, <2>2, <2>5, <3>1 DEF Adding
      <4>3. CASE o \in {<<"type", ty>> : ty \in s.types}
        BY <4>3, <2>4
      <4> QED
        BY <3>1, <4>1, <4>2, <4>3
    <3> QED
      BY <2>1, <3>2 DEF Sound
  <2>6. ASSUME s.adds = {}, NEW d, s.drops = {d}
        PROVE  Sound(new)
    <3>1. \A x : x \in left <=> x \in db.objects /\ ~GoesWith(x, d)
      BY <2>6
    <3>2. \A x : x \in new <=> x \in left \/ x \in {<<"type", ty>> : ty \in s.types}
      BY <2>6
    <3> HIDE DEF left, new
    <3>3. ASSUME NEW o \in left, o[1] \in {"column", "index", "fk", "loose"}
          PROVE  <<"table", o[2]>> \in left
      <4>1. <<"table", o[2]>> \in db.objects /\ ~GoesWith(o, d)
        BY <3>1, <3>3, <1>1 DEF Sound
      <4>2. ~GoesWith(<<"table", o[2]>>, d)
        BY <3>3, <4>1 DEF GoesWith
      <4> QED
        BY <3>1, <4>1, <4>2
    <3>4. ASSUME NEW o \in left, o[1] = "fk"
          PROVE  <<"table", o[4]>> \in left
      <4>1. <<"table", o[4]>> \in db.objects /\ o \in db.objects /\ ~GoesWith(o, d)
        BY <3>1, <3>4, <1>1 DEF Sound
      <4>2. d[1] = "table" => o[4] # d[2]
        BY <2>3, <2>6, <3>4, <4>1 DEF StillReferred, GoesWith
      <4>3. ~GoesWith(<<"table", o[4]>>, d)
        BY <4>2 DEF GoesWith
      <4> QED
        BY <3>1, <4>1, <4>3
    <3>5. ASSUME NEW o \in new
          PROVE  /\ o[1] \in {"column", "index", "fk", "loose"} => <<"table", o[2]>> \in new
                 /\ o[1] = "fk" => <<"table", o[4]>> \in new
      <4>1. CASE o \in left
        BY <4>1, <3>2, <3>3, <3>4
      <4>2. CASE o \in {<<"type", ty>> : ty \in s.types}
        BY <4>2, <2>4
      <4> QED
        BY <3>2, <4>1, <4>2
    <3> QED
      BY <3>5 DEF Sound
  <2> HIDE DEF new
  <2> QED
    BY <2>1, <2>5, <2>6 DEF Solid
<1> QED
  BY <1>2, <1>3

LEMMA ExecKeepsType ==
    ASSUME NEW db, NEW s, Database(db), Typed(s)
    PROVE  Database(Exec(db, s))
<1>1. Sound(Exec(db, s).objects)
  BY ExecKeepsSound DEF Typed
<1>2. DOMAIN Exec(db, s) = DOMAIN db /\ Exec(db, s).rows \subseteq Kinds
  BY DEF Exec, Typed, Database
<1> QED
  BY <1>1, <1>2 DEF Database

\* A block that ends well went well all along.
LEMMA BlockSteps ==
    ASSUME NEW db, NEW block, TypedBlock(block), Database(db), ExecBlock(db, block).ok
    PROVE  \E f : /\ Ran(f, db, block) /\ ExecBlock(db, block) = f[Len(block)]
                  /\ \A j \in 0 .. Len(block) : Database(f[j]) /\ f[j].ok
<1> DEFINE n == Len(block)
<1>1. n \in Nat /\ DOMAIN block = 1 .. n /\ \A j \in 1 .. n : Typed(block[j])
  BY DEF TypedBlock
<1>2. PICK f : Ran(f, db, block) /\ ExecBlock(db, block) = f[n]
  BY <1>1, BlocksRun
<1>3. f[0] = db /\ \A j \in 1 .. n : f[j] = Exec(f[j - 1], block[j])
  BY <1>2 DEF Ran
<1> HIDE DEF n
<1> DEFINE S == {m \in Nat : m <= n => Database(f[m])}
<1>4. \A m \in Nat : m \in S => m + 1 \in S
  <2>1. ASSUME NEW m \in Nat, m \in S, m + 1 <= n
        PROVE  Database(f[m + 1])
    <3>1. m + 1 \in 1 .. n /\ (m + 1) - 1 = m /\ Database(f[m])
      BY <2>1, <1>1
    <3>2. f[m + 1] = Exec(f[m], block[m + 1]) /\ Typed(block[m + 1])
      BY <3>1, <1>3, <1>1
    <3> QED
      BY <3>1, <3>2, ExecKeepsType
  <2> QED
    BY <2>1
<1>5. 0 \in S
  BY <1>3
<1>6. \A m \in 0 .. n : Database(f[m])
  <2> HIDE DEF S
  <2>1. \A m \in Nat : m \in S
    BY <1>4, <1>5, InductiveSet
  <2> QED
    BY <2>1, <1>1 DEF S
<1> HIDE DEF S
<1> DEFINE B == {m \in Nat : m <= n => f[n - m].ok}
<1>7. \A m \in Nat : m \in B => m + 1 \in B
  <2>1. ASSUME NEW m \in Nat, m \in B, m + 1 <= n
        PROVE  f[n - (m + 1)].ok
    <3>1. n - m \in 1 .. n /\ n - (m + 1) = (n - m) - 1 /\ n - (m + 1) \in 0 .. n
      BY <2>1, <1>1
    <3>2. f[n - m] = Exec(f[n - (m + 1)], block[n - m]) /\ f[n - m].ok
      BY <3>1, <1>3, <2>1, <1>1
    <3>3. Database(f[n - (m + 1)])
      BY <3>1, <1>6
    <3> QED
      BY <3>2, <3>3, ExecOk DEF Database
  <2> QED
    BY <2>1
<1>8. 0 \in B
  BY <1>1, <1>2 DEF n
<1>9. \A j \in 0 .. n : f[j].ok
  <2> HIDE DEF B
  <2>1. \A m \in Nat : m \in B
    BY <1>7, <1>8, InductiveSet
  <2>2. ASSUME NEW j \in 0 .. n
        PROVE  f[j].ok
    <3>1. n - j \in Nat /\ n - j <= n /\ n - (n - j) = j
      BY <1>1
    <3> QED
      BY <2>1, <3>1 DEF B
  <2> QED
    BY <2>2
<1> QED
  BY <1>2, <1>6, <1>9 DEF n

\* A sparing block keeps the rows; the one that copies moves two kinds of them to the tables that
\* replace theirs, and the one that drops keeps all others.
LEMMA SparingKeeps ==
    ASSUME NEW db, NEW block, SparingBlock(block), Database(db), ExecBlock(db, block).ok,
           NEW k \in db.rows, k \notin {"seeded", "abandoned"}
    PROVE  k \in ExecBlock(db, block).rows
<1> DEFINE n == Len(block)
<1>1. n \in Nat /\ DOMAIN block = 1 .. n /\ \A j \in 1 .. n : Sparing(block[j])
  BY DEF SparingBlock
<1>2. TypedBlock(block)
  BY <1>1, StatementsAreTyped DEF TypedBlock
<1>3. PICK f : /\ Ran(f, db, block) /\ ExecBlock(db, block) = f[n]
               /\ \A j \in 0 .. n : Database(f[j]) /\ f[j].ok
  BY <1>2, BlockSteps
<1>4. f[0] = db /\ \A j \in 1 .. n : f[j] = Exec(f[j - 1], block[j])
  BY <1>3 DEF Ran
<1> HIDE DEF n
<1> DEFINE S == {m \in Nat : m <= n => k \in f[m].rows}
<1>5. \A m \in Nat : m \in S => m + 1 \in S
  <2>1. ASSUME NEW m \in Nat, m \in S, m + 1 <= n
        PROVE  k \in f[m + 1].rows
    <3>1. m + 1 \in 1 .. n /\ (m + 1) - 1 = m /\ k \in f[m].rows /\ m \in 0 .. n /\ m + 1 \in 0 .. n
      BY <2>1, <1>1
    <3>2. f[m + 1] = Exec(f[m], block[m + 1]) /\ Sparing(block[m + 1]) /\ Database(f[m]) /\ f[m + 1].ok
      BY <3>1, <1>3, <1>4, <1>1
    <3> QED
      BY <3>1, <3>2, ExecOk DEF Database
  <2> QED
    BY <2>1
<1>6. 0 \in S
  BY <1>4
<1>7. n \in S
  <2> HIDE DEF S
  <2> QED
    BY <1>1, <1>5, <1>6, InductiveSet
<1> QED
  BY <1>7, <1>3, <1>1 DEF n

LEMMA PutOk ==
    ASSUME NEW db, NEW given, NEW k, Database(db), Exec(db, PutRow(given, k)).ok,
           given \subseteq db.rows
    PROVE  k \in Exec(db, PutRow(given, k)).rows
BY DEF Exec, PutRow, Nothing, Database, Fails, Clashes

LEMMA DropTableKeeps ==
    ASSUME NEW db, NEW t, Database(db), Exec(db, DropTable(t)).ok, NEW k \in db.rows, Home[k] # t
    PROVE  k \in Exec(db, DropTable(t)).rows
BY DEF Exec, DropTable, Drop, Nothing, Database, Fails, Clashes

LEMMA CopyBlockIs ==
    /\ SparingBlock(CopyBlock) /\ Len(CopyBlock) = 6
    /\ CopyBlock[5] = PutRow({"oc_member"}, "member")
    /\ CopyBlock[6] = PutRow({"oc_invite"}, "invite")
<1> USE AddsAreSparing, KindsAre DEF SparingBlock, CopyBlock, Rev_20260312_0001, RevisionInTwo
<1> QED
  OBVIOUS

LEMMA DropBlockIs ==
    /\ TypedBlock(DropBlock) /\ Len(DropBlock) = 2
    /\ DropBlock[1] = DropTable("oc_project_invites") /\ DropBlock[2] = DropTable("oc_project_users")
BY StatementsAreTyped DEF TypedBlock, DropBlock, Rev_20260312_0001, RevisionInTwo

LEMMA CopyBlockMoves ==
    ASSUME NEW db, Database(db), ExecBlock(db, CopyBlock).ok
    PROVE  /\ "oc_member" \in db.rows => "member" \in ExecBlock(db, CopyBlock).rows
           /\ "oc_invite" \in db.rows => "invite" \in ExecBlock(db, CopyBlock).rows
<1>1. TypedBlock(CopyBlock) /\ \A j \in 1 .. 6 : Sparing(CopyBlock[j])
  BY CopyBlockIs, StatementsAreTyped DEF TypedBlock, SparingBlock
<1>2. PICK f : /\ Ran(f, db, CopyBlock) /\ ExecBlock(db, CopyBlock) = f[6]
               /\ \A j \in 0 .. 6 : Database(f[j]) /\ f[j].ok
  BY <1>1, BlockSteps, CopyBlockIs
<1>3. f[0] = db /\ \A j \in 1 .. 6 : f[j] = Exec(f[j - 1], CopyBlock[j])
  BY <1>2, CopyBlockIs DEF Ran
<1>4. \A j \in 1 .. 6 : \A k \in f[j - 1].rows \ {"seeded", "abandoned"} : k \in f[j].rows
  <2>1. ASSUME NEW j \in 1 .. 6, NEW k \in f[j - 1].rows \ {"seeded", "abandoned"}
        PROVE  k \in f[j].rows
    <3>1. j - 1 \in 0 .. 6 /\ j \in 0 .. 6
      OBVIOUS
    <3>2. Database(f[j - 1]) /\ f[j].ok /\ f[j] = Exec(f[j - 1], CopyBlock[j]) /\ Sparing(CopyBlock[j])
      BY <3>1, <1>1, <1>2, <1>3
    <3> QED
      BY <3>2, ExecOk DEF Database
  <2> QED
    BY <2>1
<1>5. \A k : k \in db.rows /\ k \notin {"seeded", "abandoned"} => k \in f[4].rows /\ k \in f[5].rows
  <2>1. /\ 1 - 1 = 0 /\ 2 - 1 = 1 /\ 3 - 1 = 2 /\ 4 - 1 = 3 /\ 5 - 1 = 4
        /\ 1 \in 1 .. 6 /\ 2 \in 1 .. 6 /\ 3 \in 1 .. 6 /\ 4 \in 1 .. 6 /\ 5 \in 1 .. 6
    OBVIOUS
  <2> QED
    BY <2>1, <1>3, <1>4
<1>6. "oc_member" \in db.rows => "member" \in f[5].rows
  <2>1. f[5] = Exec(f[4], PutRow({"oc_member"}, "member")) /\ Database(f[4]) /\ f[5].ok
    BY <1>2, <1>3, CopyBlockIs
  <2> QED
    BY <2>1, <1>5, PutOk
<1>7. "oc_invite" \in db.rows => "invite" \in f[6].rows
  <2>1. f[6] = Exec(f[5], PutRow({"oc_invite"}, "invite")) /\ Database(f[5]) /\ f[6].ok
    BY <1>2, <1>3, CopyBlockIs
  <2> QED
    BY <2>1, <1>5, PutOk
<1>8. "member" \in f[5].rows => "member" \in f[6].rows
  <2>1. 6 \in 1 .. 6 /\ 6 - 1 = 5
    OBVIOUS
  <2> QED
    BY <2>1, <1>4
<1> QED
  BY <1>2, <1>6, <1>7, <1>8

LEMMA DropBlockKeeps ==
    ASSUME NEW db, Database(db), ExecBlock(db, DropBlock).ok,
           NEW k \in db.rows \ {"oc_member", "oc_invite"}
    PROVE  k \in ExecBlock(db, DropBlock).rows
<1>1. PICK f : /\ Ran(f, db, DropBlock) /\ ExecBlock(db, DropBlock) = f[2]
               /\ \A j \in 0 .. 2 : Database(f[j]) /\ f[j].ok
  BY BlockSteps, DropBlockIs
<1>2. f[0] = db /\ \A j \in 1 .. 2 : f[j] = Exec(f[j - 1], DropBlock[j])
  BY <1>1, DropBlockIs DEF Ran
<1>3. f[1] = Exec(db, DropTable("oc_project_invites")) /\ f[2] = Exec(f[1], DropTable("oc_project_users"))
  <2>1. 1 \in 1 .. 2 /\ 2 \in 1 .. 2 /\ 1 - 1 = 0 /\ 2 - 1 = 1
    OBVIOUS
  <2> QED
    BY <2>1, <1>2, DropBlockIs
<1>4. Database(f[1]) /\ f[1].ok /\ f[2].ok
  BY <1>1
<1>5. Home[k] # "oc_project_invites" /\ Home[k] # "oc_project_users"
  BY DEF Database, Kinds, Home
<1>6. k \in f[1].rows
  BY <1>3, <1>4, <1>5, DropTableKeeps
<1>7. k \in f[2].rows
  BY <1>3, <1>4, <1>5, <1>6, DropTableKeeps
<1> QED
  BY <1>1, <1>7

-----------------------------------------------------------------------------
(* Migrations: the blocks of an upgrade. *)

AllBlocks == {Chain[i].up[m] : i \in 1 .. Newest, m \in 1 .. 2}

LEMMA NewestIs == Newest = 57
BY DEF Newest, Chain

\* A block drops no rows but those it may, or is the one that drops what the block before it copied.
InOrder(bs) ==
    /\ bs \in Seq(AllBlocks)
    /\ \A p \in 1 .. Len(bs) :
          SparingBlock(bs[p]) \/ (p > 1 /\ bs[p] = DropBlock /\ bs[p - 1] = CopyBlock)

LEMMA RevisionInOrder ==
    ASSUME NEW i \in 1 .. Newest
    PROVE  InOrder(Chain[i].up)
<1>1. Upgrades(Chain[i])
  BY EveryRevision DEF Kept
<1>2. Chain[i].up[1] \in AllBlocks /\ Chain[i].up[2] \in AllBlocks
  BY DEF AllBlocks
<1> DEFINE up == Chain[i].up
<1>3. CASE up = <<up[1]>> /\ SparingBlock(up[1])
  <2>1. <<up[1]>> \in Seq(AllBlocks) /\ Len(<<up[1]>>) = 1
    BY <1>2
  <2> HIDE DEF up
  <2>2. \A p \in 1 .. Len(up) : SparingBlock(up[p])
    BY <2>1, <1>3
  <2> QED
    BY <2>1, <2>2, <1>3 DEF InOrder, up
<1>4. CASE up = <<CopyBlock, DropBlock>>
  <2>1. CopyBlock \in AllBlocks /\ DropBlock \in AllBlocks
    BY <1>2, <1>4
  <2>2. <<CopyBlock, DropBlock>> \in Seq(AllBlocks) /\ Len(<<CopyBlock, DropBlock>>) = 2
    BY <2>1
  <2> HIDE DEF up
  <2>3. ASSUME NEW p \in 1 .. Len(up)
        PROVE  SparingBlock(up[p]) \/ (p > 1 /\ up[p] = DropBlock /\ up[p - 1] = CopyBlock)
    <3>1. p = 1 \/ p = 2
      BY <2>2, <1>4
    <3> QED
      BY <3>1, <1>4, CopyBlockIs
  <2> QED
    BY <2>2, <2>3, <1>4 DEF InOrder, up
<1> QED
  BY <1>1, <1>3, <1>4 DEF Upgrades

LEMMA ConcatInOrder ==
    ASSUME NEW s, NEW t, InOrder(s), InOrder(t)
    PROVE  InOrder(s \o t)
<1> DEFINE m == Len(s)  n == Len(t)  c == s \o t
<1>1. c \in Seq(AllBlocks) /\ Len(c) = m + n /\ m \in Nat /\ n \in Nat
  BY ConcatProperties, LenProperties DEF InOrder
<1>2. (\A k \in 1 .. m : c[k] = s[k]) /\ (\A k \in 1 .. n : c[m + k] = t[k])
  BY ConcatProperties, LenProperties DEF InOrder
<1>3. /\ \A p \in 1 .. m : SparingBlock(s[p]) \/ (p > 1 /\ s[p] = DropBlock /\ s[p - 1] = CopyBlock)
      /\ \A p \in 1 .. n : SparingBlock(t[p]) \/ (p > 1 /\ t[p] = DropBlock /\ t[p - 1] = CopyBlock)
  BY DEF InOrder
<1> HIDE DEF m, n, c
<1>4. ASSUME NEW p \in 1 .. m + n
      PROVE  SparingBlock(c[p]) \/ (p > 1 /\ c[p] = DropBlock /\ c[p - 1] = CopyBlock)
  <2>1. CASE p <= m
    <3>1. p \in 1 .. m /\ c[p] = s[p] /\ (p > 1 => c[p - 1] = s[p - 1])
      BY <2>1, <1>1, <1>2
    <3> QED
      BY <3>1, <1>3
  <2>2. CASE p > m
    <3>1. PICK q \in 1 .. n : q = p - m
      BY <2>2, <1>1
    <3>2. m + q = p /\ c[p] = t[q]
      BY <3>1, <1>1, <1>2
    <3>3. q > 1 => p > 1 /\ c[p - 1] = t[q - 1]
      <4>1. ASSUME q > 1
            PROVE  p > 1 /\ q - 1 \in 1 .. n /\ m + (q - 1) = p - 1
        BY <4>1, <3>1, <1>1
      <4> QED
        BY <4>1, <1>2
    <3> QED
      BY <3>2, <3>3, <1>3
  <2> QED
    BY <2>1, <2>2, <1>1
<1> QED
  BY <1>1, <1>4 DEF InOrder, c

LEMMA UpBlocksInOrder ==
    ASSUME NEW from \in 0 .. Newest, NEW to \in 0 .. Newest, from < to
    PROVE  InOrder(UpBlocks(from, to))
<1> DEFINE n == to - from
           ups == [i \in 1 .. n |-> Chain[from + i].up]
<1>1. Newest \in Nat /\ n \in Nat \ {0} /\ \A i \in 1 .. n : from + i \in 1 .. Newest
  BY NewestIs
<1>2. \A i \in 1 .. n : InOrder(ups[i])
  BY <1>1, RevisionInOrder
<1>3. ups \in Seq(Seq(AllBlocks)) /\ Len(ups) = n /\ ups # <<>>
  <2>1. \A i \in 1 .. n : ups[i] \in Seq(AllBlocks)
    BY <1>2 DEF InOrder
  <2>2. ups \in [1 .. n -> Seq(AllBlocks)]
    BY <2>1
  <2> HIDE DEF n
  <2>3. ups \in Seq(Seq(AllBlocks)) /\ Len(ups) = n
    BY <2>2, <1>1, IsASeq, LenProperties
  <2> QED
    BY <2>3, <1>1, EmptySeq
<1> HIDE DEF ups, n
<1>4. PICK f : Joined(f, ups, n) /\ FlattenSeq(ups) = f[n]
  BY <1>3, FlattenIsJoined
<1>5. \A i \in 1 .. n : f[i] = IF i = 1 THEN ups[i] ELSE f[i - 1] \o ups[i]
  BY <1>4, Zenon DEF Joined
<1> DEFINE S == {m \in Nat : m + 1 <= n => InOrder(f[m + 1])}
<1>6. 0 \in S
  BY <1>1, <1>2, <1>5
<1>7. \A m \in Nat : m \in S => m + 1 \in S
  <2>1. ASSUME NEW m \in Nat, m \in S, (m + 1) + 1 <= n
        PROVE  InOrder(f[(m + 1) + 1])
    <3>1. InOrder(f[m + 1]) /\ (m + 1) + 1 \in 1 .. n /\ (m + 1) + 1 # 1 /\ ((m + 1) + 1) - 1 = m + 1
      BY <2>1, <1>1
    <3>2. f[(m + 1) + 1] = f[m + 1] \o ups[(m + 1) + 1]
      BY <3>1, <1>5
    <3> QED
      BY <3>1, <3>2, <1>2, ConcatInOrder
  <2> QED
    BY <2>1
<1>8. InOrder(f[n])
  <2>1. n - 1 \in S
    <3> HIDE DEF S
    <3> QED
      BY <1>1, <1>6, <1>7, InductiveSet
  <2> QED
    BY <2>1, <1>1
<1> QED
  BY <1>4, <1>8 DEF UpBlocks, ups, n

-----------------------------------------------------------------------------
(* Migrations: an upgrade loses nothing. *)

\* The rows an upgrade owes: those committed before it began.
Owed == rows \ (run.late \cup {"seeded", "abandoned"})

RunInv ==
    /\ DOMAIN run = {"going", "to", "left", "from", "db", "late"}
    /\ Database(run.db)
    /\ run.from = version /\ run.to \in 0 .. Newest
    /\ run.left \in 0 .. Len(Blocks)
    /\ \/ run.going = "up" /\ version < run.to
       \/ run.going = "down" /\ version > 0

\* What is owed is still there, or where it moved to; what was just copied has moved: the next
\* block drops the tables it was copied from.
KeptSoFar ==
    LET done == Len(Blocks) - run.left
    IN  /\ \A k \in Owed : k \in run.db.rows \/ MovedTo(k) \in run.db.rows
        /\ done > 0 /\ Blocks[done] = CopyBlock =>
             \A k \in Owed \cap {"oc_member", "oc_invite"} : MovedTo(k) \in run.db.rows

MigrationsInv ==
    /\ version \in 0 .. Newest
    /\ rows \subseteq Kinds
    /\ writes \in 0 .. MaxWrites
    /\ Sound(objects)
    /\ Running => RunInv
    /\ Running /\ run.going = "up" => KeptSoFar

LEMMA MovedIs ==
    /\ MovedTo("oc_member") = "member" /\ MovedTo("oc_invite") = "invite"
    /\ \A k : k \notin {"oc_member", "oc_invite"} => MovedTo(k) = k
BY DEF MovedTo

\* What is left to run are blocks of the chain, in its order.
LEMMA BlocksAre ==
    ASSUME MigrationsInv, Running
    PROVE  /\ Len(Blocks) \in Nat
           /\ run.going = "up" => InOrder(Blocks)
           /\ run.going = "down" => \A p \in 1 .. Len(Blocks) : TypedBlock(Blocks[p])
<1>1. RunInv /\ version \in 0 .. Newest
  BY DEF MigrationsInv
<1>2. CASE run.going = "up"
  <2>1. InOrder(UpBlocks(run.from, run.to))
    BY <1>1, <1>2, UpBlocksInOrder DEF RunInv
  <2>2. InOrder(Blocks)
    BY <2>1, <1>2 DEF Blocks
  <2> QED
    BY <2>2, <1>2, LenProperties DEF InOrder
<1>3. CASE run.going = "down"
  <2>1. run.from \in 1 .. Newest
    BY <1>1, <1>3, NewestIs DEF RunInv
  <2>2. Downgrades(Chain[run.from])
    BY <2>1, EveryRevision DEF Kept
  <2>3. Blocks = Chain[run.from].down
    BY <1>3 DEF Blocks, DownBlocks
  <2> DEFINE b == Chain[run.from].down[1]
  <2>4. Blocks = <<b>> /\ TypedBlock(b)
    BY <2>2, <2>3 DEF Downgrades
  <2> HIDE DEF b
  <2>5. Len(Blocks) = 1 /\ Blocks[1] = b
    BY <2>4
  <2> QED
    BY <2>4, <2>5, <1>3
<1> QED
  BY <1>1, <1>2, <1>3 DEF RunInv

LEMMA ResultIs ==
    ASSUME MigrationsInv, Running, run.left > 0, Result.ok
    PROVE  Database(Result)
<1>1. RunInv /\ run.left \in 0 .. Len(Blocks) /\ Database(run.db)
  BY DEF MigrationsInv, RunInv
<1>2. Len(Blocks) - run.left + 1 \in 1 .. Len(Blocks)
  BY <1>1, BlocksAre
<1>3. TypedBlock(NextBlock)
  <2>1. CASE run.going = "up"
    <3>1. SparingBlock(NextBlock) \/ NextBlock = DropBlock
      BY <1>2, <2>1, BlocksAre DEF InOrder, NextBlock
    <3> QED
      BY <3>1, DropBlockIs, StatementsAreTyped DEF SparingBlock, TypedBlock
  <2>2. CASE run.going = "down"
    BY <1>2, <2>2, BlocksAre DEF NextBlock
  <2> QED
    BY <1>1, <2>1, <2>2 DEF RunInv
<1>4. PICK f : /\ ExecBlock(run.db, NextBlock) = f[Len(NextBlock)]
               /\ \A j \in 0 .. Len(NextBlock) : Database(f[j])
  BY <1>1, <1>3, BlockSteps DEF Result
<1>5. Len(NextBlock) \in 0 .. Len(NextBlock)
  BY <1>3 DEF TypedBlock
<1> QED
  BY <1>4, <1>5 DEF Result

LEMMA StepKeeps ==
    ASSUME MigrationsInv, Running, run.left > 0, Result.ok, run.going = "up"
    PROVE  /\ \A k \in Owed : k \in Result.rows \/ MovedTo(k) \in Result.rows
           /\ NextBlock = CopyBlock =>
                \A k \in Owed \cap {"oc_member", "oc_invite"} : MovedTo(k) \in Result.rows
<1> DEFINE p == Len(Blocks) - run.left + 1
<1>1. KeptSoFar /\ Database(run.db) /\ run.left \in 0 .. Len(Blocks)
  BY DEF MigrationsInv, RunInv
<1>2. p \in 1 .. Len(Blocks) /\ p - 1 = Len(Blocks) - run.left /\ Len(Blocks) \in Nat
  BY <1>1, BlocksAre
<1>3. NextBlock = Blocks[p] /\ ExecBlock(run.db, NextBlock).ok /\ Result = ExecBlock(run.db, NextBlock)
  BY DEF NextBlock, Result
<1>4. SparingBlock(NextBlock) \/ (p - 1 > 0 /\ NextBlock = DropBlock /\ Blocks[p - 1] = CopyBlock)
  BY <1>2, <1>3, BlocksAre DEF InOrder
<1>5. /\ \A k \in Owed : k \in run.db.rows \/ MovedTo(k) \in run.db.rows
      /\ p - 1 > 0 /\ Blocks[p - 1] = CopyBlock =>
           \A k \in Owed \cap {"oc_member", "oc_invite"} : MovedTo(k) \in run.db.rows
  BY <1>1, <1>2 DEF KeptSoFar
<1> HIDE DEF p
<1>6. \A k \in Owed : k \notin {"seeded", "abandoned"} /\ MovedTo(k) \notin {"seeded", "abandoned"}
  BY MovedIs DEF Owed
<1>7. ASSUME NEW k \in Owed
      PROVE  k \in Result.rows \/ MovedTo(k) \in Result.rows
  <2>1. CASE SparingBlock(NextBlock)
    BY <2>1, <1>1, <1>3, <1>5, <1>6, SparingKeeps
  <2>2. CASE p - 1 > 0 /\ NextBlock = DropBlock /\ Blocks[p - 1] = CopyBlock
    <3>1. ExecBlock(run.db, DropBlock).ok /\ Result = ExecBlock(run.db, DropBlock)
      BY <1>3, <2>2
    <3>2. MovedTo(k) \in run.db.rows /\ MovedTo(k) \notin {"oc_member", "oc_invite"}
      <4>1. CASE k \in {"oc_member", "oc_invite"}
        BY <4>1, <2>2, <1>5, MovedIs
      <4>2. CASE k \notin {"oc_member", "oc_invite"}
        BY <4>2, <1>5, MovedIs
      <4> QED
        BY <4>1, <4>2
    <3> QED
      BY <1>1, <3>1, <3>2, DropBlockKeeps
  <2> QED
    BY <1>4, <2>1, <2>2
<1>8. ASSUME NextBlock = CopyBlock, NEW k \in Owed \cap {"oc_member", "oc_invite"}
      PROVE  MovedTo(k) \in Result.rows
  <2>1. ExecBlock(run.db, CopyBlock).ok /\ Result = ExecBlock(run.db, CopyBlock)
    BY <1>3, <1>8
  <2>2. CASE k \in run.db.rows
    BY <1>1, <1>8, <2>1, <2>2, CopyBlockMoves, MovedIs
  <2>3. CASE MovedTo(k) \in run.db.rows
    BY <1>1, <1>6, <1>8, <2>1, <2>3, CopyBlockIs, SparingKeeps
  <2> QED
    BY <1>5, <1>8, <2>2, <2>3
<1> QED
  BY <1>7, <1>8

LEMMA WritesKeep ==
    ASSUME NEW S, NEW k, NEW x \in S, x # "invited" \/ k # "abandoned"
    PROVE  x \in Written(S, k)
BY DEF Written

LEMMA BeginIsSafe ==
    ASSUME MigrationsInv, NEW going, NEW to \in 0 .. Newest, NEW blocks, Begin(going, to, blocks),
           \/ going = "up" /\ version < to /\ blocks = UpBlocks(version, to)
           \/ going = "down" /\ version > 0 /\ blocks = DownBlocks(version)
    PROVE  MigrationsInv'
<1>1. /\ version \in 0 .. Newest /\ rows \subseteq Kinds /\ Sound(objects) /\ writes \in 0 .. MaxWrites
      /\ version' = version /\ rows' = rows /\ objects' = objects /\ writes' = writes
  BY DEF MigrationsInv, Begin
<1>2. run' = [going |-> going, to |-> to, left |-> Len(blocks), from |-> version,
              db |-> Found(objects, rows), late |-> {}]
  BY DEF Begin
<1>3. /\ DOMAIN run' = {"going", "to", "left", "from", "db", "late"}
      /\ run'.going = going /\ run'.to = to /\ run'.left = Len(blocks) /\ run'.from = version
      /\ run'.late = {} /\ run'.db.rows = rows /\ Database(run'.db)
  BY <1>1, <1>2 DEF Found, Database
<1>4. Blocks' = blocks
  BY <1>3 DEF Blocks
<1>5. Len(blocks) \in Nat
  <2>1. CASE going = "up"
    <3>1. InOrder(UpBlocks(version, to))
      BY <1>1, <2>1, UpBlocksInOrder
    <3> QED
      BY <3>1, <2>1, LenProperties DEF InOrder
  <2>2. CASE going = "down"
    <3>1. version \in 1 .. Newest
      BY <1>1, <2>2, NewestIs
    <3>2. blocks = <<Chain[version].down[1]>>
      BY <3>1, <2>2, EveryRevision DEF Kept, Downgrades, DownBlocks
    <3> QED
      BY <3>2
  <2> QED
    BY <2>1, <2>2
<1>6. RunInv'
  BY <1>1, <1>3, <1>4, <1>5 DEF RunInv
<1>7. KeptSoFar'
  BY <1>1, <1>3, <1>4, <1>5 DEF KeptSoFar, Owed
<1> QED
  BY <1>1, <1>6, <1>7 DEF MigrationsInv

LEMMA MigrationsStart == Init => MigrationsInv
BY NewestIs, MigrationsAssumption DEF Init, MigrationsInv, Running, Sound

LEMMA StepIsSafe ==
    ASSUME MigrationsInv, Step
    PROVE  MigrationsInv'
<1>1. /\ version \in 0 .. Newest /\ rows \subseteq Kinds /\ version' = version /\ rows' = rows /\ RunInv
      /\ Sound(objects) /\ writes \in 0 .. MaxWrites /\ objects' = objects /\ writes' = writes
      /\ Running /\ run.left > 0 /\ Result.ok /\ run' = [run EXCEPT !.db = Result, !.left = run.left - 1]
  BY DEF MigrationsInv, Step
<1>2. /\ DOMAIN run' = {"going", "to", "left", "from", "db", "late"}
      /\ run'.going = run.going /\ run'.to = run.to /\ run'.left = run.left - 1 /\ run'.from = run.from
      /\ run'.late = run.late /\ run'.db = Result /\ Database(run'.db)
  BY <1>1, ResultIs DEF RunInv
<1>3. Blocks' = Blocks /\ Owed' = Owed /\ Len(Blocks) \in Nat
  BY <1>1, <1>2, BlocksAre DEF Blocks, Owed
<1>4. RunInv'
  BY <1>1, <1>2, <1>3 DEF RunInv
<1>5. ASSUME run.going = "up"
      PROVE  KeptSoFar'
  <2>1. Len(Blocks) - (run.left - 1) = Len(Blocks) - run.left + 1
    BY <1>1, <1>3 DEF RunInv
  <2>2. Blocks[Len(Blocks) - (run.left - 1)] = NextBlock
    BY <2>1 DEF NextBlock
  <2> QED
    BY <1>1, <1>2, <1>3, <1>5, <2>2, StepKeeps DEF KeptSoFar
<1> QED
  BY <1>1, <1>2, <1>4, <1>5 DEF MigrationsInv

LEMMA WriteIsSafe ==
    ASSUME MigrationsInv, NEW k \in DOMAIN Writable, Write(k)
    PROVE  MigrationsInv'
<1>1. /\ version \in 0 .. Newest /\ rows \subseteq Kinds /\ version' = version /\ rows' = Written(rows, k)
      /\ Sound(objects) /\ objects' = objects /\ writes' \in 0 .. MaxWrites
      /\ run' = IF Running THEN [run EXCEPT !.db.rows = Written(@, k), !.late = @ \cup {k}] ELSE run
  BY MigrationsAssumption DEF MigrationsInv, Write
<1>2. k \in Kinds
  BY DEF Writable, Kinds, Home
<1>3. \A S : S \subseteq Kinds => Written(S, k) \subseteq Kinds
  BY <1>2 DEF Written
<1>4. CASE Running
  <2>1. RunInv
    BY <1>4 DEF MigrationsInv
  <2>2. /\ DOMAIN run' = {"going", "to", "left", "from", "db", "late"}
        /\ run'.going = run.going /\ run'.to = run.to /\ run'.left = run.left /\ run'.from = run.from
        /\ run'.late = run.late \cup {k} /\ run'.db = [run.db EXCEPT !.rows = Written(run.db.rows, k)]
    BY <1>1, <1>4, <2>1 DEF RunInv
  <2>3. Database(run'.db) /\ run'.db.rows = Written(run.db.rows, k)
    BY <2>1, <2>2, <1>3 DEF RunInv, Database
  <2>4. Blocks' = Blocks
    BY <2>2 DEF Blocks
  <2>5. RunInv'
    BY <1>1, <2>1, <2>2, <2>3, <2>4 DEF RunInv
  <2>6. \A x \in Owed' : x \in Owed /\ (x # "invited" \/ k # "abandoned")
    BY <1>1, <2>2 DEF Owed, Written
  <2>7. \A x : x \in run.db.rows /\ (x # "invited" \/ k # "abandoned") => x \in run'.db.rows
    BY <2>3, WritesKeep
  <2>8. \A x : x # "invited" => MovedTo(x) # "invited"
    BY MovedIs
  <2>9. ASSUME run.going = "up"
        PROVE  KeptSoFar'
    <3>1. KeptSoFar
      BY <1>4, <2>9 DEF MigrationsInv
    <3>2. \A x \in Owed' : x \in run.db.rows => x \in run'.db.rows
      BY <2>6, <2>7
    <3>3. \A x \in Owed' : MovedTo(x) \in run.db.rows => MovedTo(x) \in run'.db.rows
      BY <2>6, <2>7, <2>8
    <3> QED
      BY <2>2, <2>4, <2>6, <3>1, <3>2, <3>3 DEF KeptSoFar
  <2> QED
    BY <1>1, <1>3, <2>2, <2>5, <2>9 DEF MigrationsInv
<1>5. CASE ~Running
  BY <1>1, <1>3, <1>5 DEF MigrationsInv, Running
<1> QED
  BY <1>4, <1>5

LEMMA MigrationsStep == MigrationsInv /\ [Next]_vars => MigrationsInv'
<1> SUFFICES ASSUME MigrationsInv, [Next]_vars
             PROVE  MigrationsInv'
  OBVIOUS
<1>1. CASE BeginUpgrade
  <2>1. PICK to \in {version + 1} \cup Releases :
                 version < to /\ to <= Newest /\ Begin("up", to, UpBlocks(version, to))
    BY <1>1 DEF BeginUpgrade
  <2>2. to \in 0 .. Newest
    BY <2>1, NewestIs, MigrationsAssumption DEF MigrationsInv
  <2> QED
    BY <2>1, <2>2, BeginIsSafe
<1>2. CASE BeginDowngrade
  <2>1. version > 0 /\ Begin("down", version - 1, DownBlocks(version)) /\ version - 1 \in 0 .. Newest
    BY <1>2, NewestIs DEF BeginDowngrade, MigrationsInv
  <2> QED
    BY <2>1, BeginIsSafe
<1>3. CASE Step
  BY <1>3, StepIsSafe
<1>4. CASE Fail \/ Crash
  BY <1>4 DEF Fail, Crash, Rollback, MigrationsInv, Running
<1>5. CASE Commit
  BY <1>5 DEF Commit, MigrationsInv, Running, RunInv, Database
<1>6. CASE \E k \in DOMAIN Writable : Write(k)
  BY <1>6, WriteIsSafe
<1>7. CASE UNCHANGED vars
  BY <1>7 DEF vars, MigrationsInv, Running, RunInv, KeptSoFar, Owed, Blocks
<1> QED
  BY <1>1, <1>2, <1>3, <1>4, <1>5, <1>6, <1>7 DEF Next

LEMMA CommitsLoseNothing ==
    ASSUME MigrationsInv, [Next]_vars, Running, run.going = "up", version' = run.to
    PROVE  \A k \in rows \ (run.late \cup {"seeded", "abandoned"}) : k \in rows' \/ MovedTo(k) \in rows'
<1>1. version < run.to /\ version \in 0 .. Newest /\ KeptSoFar
  BY DEF MigrationsInv, RunInv
<1>2. version' # version
  BY <1>1
<1>3. Commit
  BY <1>2 DEF Next, vars, BeginUpgrade, BeginDowngrade, Begin, Step, Fail, Crash, Rollback, Write
<1> QED
  BY <1>1, <1>3 DEF Commit, KeptSoFar, Owed

\* Whatever releases are deployed: nothing hangs in the air, in what is committed and in what a run
\* has made (DROP TABLE and DROP COLUMN in the downgrades, create_table in the upgrades).
THEOREM NothingEverHangsInTheAir == Spec => []MigTypeOK
<1>1. MigrationsInv => MigTypeOK
  BY DEF MigrationsInv, MigTypeOK, RunInv, Database
<1> QED
  BY <1>1, MigrationsStart, MigrationsStep, PTL DEF Spec

\* Whatever releases are deployed, and however many rows are written while they are: an upgrade
\* that commits has kept every row that was committed before it began, in its table or in the one
\* that replaces it, but the memberships nobody granted (env.py, 20260312_0001, 20260609_0001).
THEOREM NothingIsEverLostGoingUp == Spec => NothingLostGoingUp
<1>1. MigrationsInv /\ [Next]_vars =>
        [Running /\ run.going = "up" /\ version' = run.to =>
           \A k \in rows \ (run.late \cup {"seeded", "abandoned"}) : k \in rows' \/ MovedTo(k) \in rows']_vars
  BY CommitsLoseNothing
<1> QED
  BY <1>1, MigrationsStart, MigrationsStep, PTL DEF Spec, NothingLostGoingUp

=============================================================================
