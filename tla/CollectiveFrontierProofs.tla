---------------------- MODULE CollectiveFrontierProofs ----------------------
(***************************************************************************)
(* That the collective frontier keeps its contract, for any searches and   *)
(* any number of clauses.                                                  *)
(***************************************************************************)
EXTENDS CollectiveFrontier, WellFoundedInduction, FiniteSetTheorems,
        SequenceTheorems, TLAPS

-----------------------------------------------------------------------------
(* Induction, and functions defined by recursion on their argument.        *)

NatLess == {p \in Nat \X Nat : p[1] < p[2]}

LEMMA NatLessWellFounded == IsWellFoundedOn(NatLess, Nat)
<1>1. NatLess = OpToRel(<, Nat) BY DEF NatLess, OpToRel
<1> QED BY <1>1, NatLessThanWellFounded

\* A set of numbers has a least one.
LEMMA Least == ASSUME NEW T \in SUBSET Nat, T # {}
               PROVE  \E m \in T : \A n \in T : m =< n
<1>1. PICK m \in T : \A n \in T : ~ (<<n, m>> \in NatLess)
  BY NatLessWellFounded, WFMin
<1>2. \A n \in T : ~(n < m)
  BY <1>1 DEF NatLess
<1> QED BY <1>2

LEMMA Induction == ASSUME NEW T, 0 \in T, \A n \in Nat : n \in T => n + 1 \in T
                   PROVE  Nat \subseteq T
<1> SUFFICES ASSUME Nat \ T # {} PROVE FALSE
  OBVIOUS
<1>1. PICK m \in Nat \ T : \A n \in Nat \ T : m =< n
  <2>1. Nat \ T \in SUBSET Nat OBVIOUS
  <2> QED BY <2>1, Least
<1>2. m # 0 /\ m - 1 \in Nat OBVIOUS
<1>3. m - 1 \in T BY <1>1, <1>2
<1> QED BY <1>2, <1>3

\* What holds of a and is kept by each step of G holds of every value of the function
\* that G defines from a.
IsIteration(f, a, G, n) == f = [i \in 0 .. n |-> IF i = 0 THEN a ELSE G[<<i, f[i - 1]>>]]

LEMMA IterationExists ==
  ASSUME NEW S, NEW a \in S, NEW n \in Nat, NEW G \in [(1 .. n) \X S -> S]
  PROVE  \E f \in [0 .. n -> S] : IsIteration(f, a, G, n)
<1> DEFINE T == {k \in Nat : k =< n => \E f \in [0 .. k -> S] : IsIteration(f, a, G, k)}
<1>1. 0 \in T
  <2> DEFINE f == [i \in 0 .. 0 |-> a]
  <2>1. f \in [0 .. 0 -> S] OBVIOUS
  <2>2. IsIteration(f, a, G, 0)
    <3>1. \A i \in 0 .. 0 : i = 0 OBVIOUS
    <3> QED BY <3>1 DEF IsIteration
  <2> QED BY <2>1, <2>2
<1>2. ASSUME NEW k \in Nat, k \in T PROVE k + 1 \in T
  <2> SUFFICES ASSUME k + 1 =< n
               PROVE  \E f \in [0 .. k + 1 -> S] : IsIteration(f, a, G, k + 1)
    OBVIOUS
  <2>1. PICK g \in [0 .. k -> S] : IsIteration(g, a, G, k)
    BY <1>2
  <2> DEFINE f == [i \in 0 .. k + 1 |-> IF i = k + 1 THEN G[<<k + 1, g[k]>>] ELSE g[i]]
  <2>2. G[<<k + 1, g[k]>>] \in S
    <3>1. k + 1 \in 1 .. n /\ g[k] \in S OBVIOUS
    <3> QED BY <3>1
  <2>3. f \in [0 .. k + 1 -> S]
    <3>1. \A i \in 0 .. k + 1 : i # k + 1 => i \in 0 .. k OBVIOUS
    <3> QED BY <2>2, <3>1
  <2>4. ASSUME NEW i \in 0 .. k + 1
        PROVE  f[i] = IF i = 0 THEN a ELSE G[<<i, f[i - 1]>>]
    <3>1. CASE i = k + 1
      <4>1. i # 0 /\ i - 1 = k /\ k \in 0 .. k + 1 /\ k # k + 1 BY <3>1
      <4> QED BY <3>1, <4>1
    <3>2. CASE i # k + 1
      <4>1. i \in 0 .. k BY <3>2
      <4>2. g[i] = IF i = 0 THEN a ELSE G[<<i, g[i - 1]>>] BY <2>1, <4>1 DEF IsIteration
      <4>3. i # 0 => i - 1 \in 0 .. k + 1 /\ i - 1 # k + 1 BY <4>1
      <4> QED BY <3>2, <4>2, <4>3
    <3> QED BY <3>1, <3>2
  <2>5. IsIteration(f, a, G, k + 1) BY <2>4 DEF IsIteration
  <2> QED BY <2>3, <2>5
<1> HIDE DEF T
<1>3. n \in T BY <1>1, <1>2, Induction
<1> QED BY <1>3 DEF T

LEMMA IterationIn ==
  ASSUME NEW S, NEW a \in S, NEW n \in Nat, NEW f, f[0] = a,
         \A i \in 1 .. n : f[i - 1] \in S => f[i] \in S
  PROVE  \A i \in 0 .. n : f[i] \in S
<1> DEFINE T == {k \in Nat : k =< n => f[k] \in S}
<1>1. 0 \in T OBVIOUS
<1>2. ASSUME NEW k \in Nat, k \in T PROVE k + 1 \in T
  <2> SUFFICES ASSUME k + 1 =< n PROVE f[k + 1] \in S OBVIOUS
  <2>1. k + 1 \in 1 .. n /\ (k + 1) - 1 = k /\ f[k] \in S BY <1>2
  <2> QED BY <2>1
<1> HIDE DEF T
<1>3. Nat \subseteq T BY <1>1, <1>2, Induction
<1> QED BY <1>3 DEF T

-----------------------------------------------------------------------------
(* Sequences.                                                              *)

LEMMA FrontAndLast ==
  ASSUME NEW T, NEW s \in Seq(T), s # <<>>
  PROVE  /\ Front(s) \in Seq(T) /\ Len(Front(s)) = Len(s) - 1 /\ Last(s) \in T
         /\ \A i \in 1 .. Len(s) - 1 : Front(s)[i] = s[i]
<1> DEFINE n == Len(s) - 1
<1>1. n \in Nat /\ Len(s) = n + 1 /\ \A i \in 1 .. n + 1 : s[i] \in T
  OBVIOUS
<1>2. \A i \in 1 .. n : s[i] \in T
  BY <1>1
<1> HIDE DEF n
<1>3. /\ SubSeq(s, 1, n) \in Seq(T)
      /\ Len(SubSeq(s, 1, n)) = n
      /\ \A i \in 1 .. n : SubSeq(s, 1, n)[i] = s[i]
  BY <1>1, <1>2, SubSeqProperties
<1>4. Len(s) - 1 = n BY <1>1
<1> QED BY <1>1, <1>3, <1>4 DEF Front, Last

LEMMA SwappedKeeps ==
  ASSUME NEW T, NEW s \in Seq(T), NEW i \in DOMAIN s, NEW j \in DOMAIN s
  PROVE  /\ Swapped(s, i, j) \in Seq(T)
         /\ Len(Swapped(s, i, j)) = Len(s)
         /\ ToSet(Swapped(s, i, j)) = ToSet(s)
         /\ IsInjective(s) => IsInjective(Swapped(s, i, j))
<1> DEFINE t == Swapped(s, i, j)
           back == [k \in DOMAIN s |-> IF k = i THEN j ELSE IF k = j THEN i ELSE k]
<1>1. t \in Seq(T) /\ Len(t) = Len(s) /\ DOMAIN t = DOMAIN s
  BY DEF Swapped
<1>2. \A k \in DOMAIN s : back[k] \in DOMAIN s /\ t[k] = s[back[k]] /\ back[back[k]] = k
  BY DEF Swapped
<1> HIDE DEF t, back
<1>3. ToSet(t) = ToSet(s)
  BY <1>1, <1>2 DEF ToSet
<1>4. IsInjective(s) => IsInjective(t)
  BY <1>1, <1>2 DEF IsInjective
<1> QED BY <1>1, <1>3, <1>4 DEF t

LEMMA Concatenated ==
  ASSUME NEW T, NEW s \in Seq(T), NEW t \in Seq(T)
  PROVE  /\ s \o t \in Seq(T)
         /\ ToSet(s \o t) = ToSet(s) \cup ToSet(t)
         /\ IsInjective(s) /\ IsInjective(t) /\ ToSet(s) \cap ToSet(t) = {}
            => IsInjective(s \o t)
<1> DEFINE u == s \o t
<1>1. u \in Seq(T) /\ Len(u) = Len(s) + Len(t) /\ Len(s) \in Nat /\ Len(t) \in Nat
  OBVIOUS
<1>2. \A i \in 1 .. Len(s) : i \in DOMAIN s /\ i \in DOMAIN u /\ u[i] = s[i]
  OBVIOUS
<1>3. \A i \in 1 .. Len(t) : i \in DOMAIN t /\ Len(s) + i \in DOMAIN u /\ u[Len(s) + i] = t[i]
  OBVIOUS
<1>4. \A i \in DOMAIN u : \/ i \in 1 .. Len(s)
                          \/ i - Len(s) \in 1 .. Len(t) /\ i = Len(s) + (i - Len(s))
  BY <1>1
<1>5. DOMAIN s = 1 .. Len(s) /\ DOMAIN t = 1 .. Len(t)
  OBVIOUS
<1> HIDE DEF u
<1>6. ToSet(u) = ToSet(s) \cup ToSet(t)
  BY <1>2, <1>3, <1>4, <1>5 DEF ToSet
<1>7. ASSUME IsInjective(s), IsInjective(t), ToSet(s) \cap ToSet(t) = {}
      PROVE  IsInjective(u)
  <2> SUFFICES ASSUME NEW i \in DOMAIN u, NEW j \in DOMAIN u, u[i] = u[j] PROVE i = j
    BY DEF IsInjective
  <2>1. CASE i \in 1 .. Len(s) /\ j \in 1 .. Len(s)
    BY <1>2, <1>7, <2>1 DEF IsInjective
  <2>2. CASE i \notin 1 .. Len(s) /\ j \notin 1 .. Len(s)
    <3>1. t[i - Len(s)] = t[j - Len(s)] /\ i - Len(s) \in DOMAIN t /\ j - Len(s) \in DOMAIN t
      BY <1>3, <1>4, <2>2
    <3>2. i - Len(s) = j - Len(s) BY <1>7, <3>1 DEF IsInjective
    <3> QED BY <1>1, <3>2
  <2>3. ASSUME NEW k \in DOMAIN u, NEW l \in DOMAIN u, u[k] = u[l],
               k \in 1 .. Len(s), l \notin 1 .. Len(s)
        PROVE  FALSE
    <3>1. u[k] \in ToSet(s) BY <1>2, <2>3 DEF ToSet
    <3>2. u[l] \in ToSet(t) BY <1>3, <1>4, <2>3 DEF ToSet
    <3> QED BY <1>7, <2>3, <3>1, <3>2
  <2> QED BY <2>1, <2>2, <2>3
<1> QED BY <1>1, <1>6, <1>7 DEF u

LEMMA Flattened ==
  ASSUME NEW T, NEW ss \in Seq(Seq(T))
  PROVE  /\ FlattenSeq(ss) \in Seq(T)
         /\ ToSet(FlattenSeq(ss)) = UNION {ToSet(ss[i]) : i \in DOMAIN ss}
         /\ (\A i \in DOMAIN ss : IsInjective(ss[i]))
            /\ (\A i, j \in DOMAIN ss : i # j => ToSet(ss[i]) \cap ToSet(ss[j]) = {})
            => IsInjective(FlattenSeq(ss))
<1> DEFINE n == Len(ss)
<1>0. n \in Nat /\ DOMAIN ss = 1 .. n /\ \A i \in 1 .. n : ss[i] \in Seq(T)
  OBVIOUS
<1>1. CASE n = 0
  <2>1. ss = <<>> BY <1>1
  <2>2. FlattenSeq(ss) = <<>> BY <1>1, <2>1 DEF FlattenSeq
  <2>3. ToSet(<<>>) = {} /\ DOMAIN ss = {} BY <2>1 DEF ToSet
  <2>4. <<>> \in Seq(T) /\ IsInjective(<<>>) BY DEF IsInjective
  <2> QED BY <2>2, <2>3, <2>4
<1>2. CASE n # 0
  <2> DEFINE IsFlat(f) == f = [i \in 1 .. n |-> IF i = 1 THEN ss[i] ELSE f[i - 1] \o ss[i]]
             flatten == CHOOSE f : IsFlat(f)
  <2>1. \E f : IsFlat(f)
    <3> DEFINE G == [p \in (1 .. n) \X Seq(T) |-> IF p[1] = 1 THEN ss[1] ELSE p[2] \o ss[p[1]]]
    <3>1. G \in [(1 .. n) \X Seq(T) -> Seq(T)]
      BY <1>0
    <3>2. <<>> \in Seq(T) OBVIOUS
    <3> HIDE DEF G, n
    <3>3. PICK f \in [0 .. n -> Seq(T)] : IsIteration(f, <<>>, G, n)
      BY <1>0, <3>1, <3>2, IterationExists
    <3> DEFINE g == [i \in 1 .. n |-> f[i]]
    <3>4. ASSUME NEW i \in 1 .. n PROVE g[i] = IF i = 1 THEN ss[i] ELSE g[i - 1] \o ss[i]
      <4>1. i # 0 /\ i - 1 \in 0 .. n /\ i \in 0 .. n BY <1>0
      <4>2. f[i] = G[<<i, f[i - 1]>>] /\ f[i - 1] \in Seq(T) BY <3>3, <4>1 DEF IsIteration
      <4>3. f[i] = IF i = 1 THEN ss[1] ELSE f[i - 1] \o ss[i] BY <4>2 DEF G
      <4>4. i # 1 => i - 1 \in 1 .. n BY <1>0
      <4> QED BY <4>3, <4>4
    <3>5. IsFlat(g) BY <3>4
    <3> QED BY <3>5
  <2>2. IsFlat(flatten) BY <2>1
  <2>3. FlattenSeq(ss) = flatten[n] BY <1>2 DEF FlattenSeq
  <2> DEFINE f == flatten
             Good(k) == /\ f[k] \in Seq(T)
                        /\ ToSet(f[k]) = UNION {ToSet(ss[i]) : i \in 1 .. k}
                        /\ (\A i \in 1 .. n : IsInjective(ss[i]))
                           /\ (\A i, j \in 1 .. n : i # j => ToSet(ss[i]) \cap ToSet(ss[j]) = {})
                           => IsInjective(f[k])
             Goods == {k \in Nat : \A m \in 1 .. n : m = k + 1 => Good(m)}
  <2>4. \A i \in 1 .. n : f[i] = IF i = 1 THEN ss[i] ELSE f[i - 1] \o ss[i] BY <2>2
  <2> HIDE DEF flatten, n, f
  <2>5. 0 \in Goods
    <3>1. 1 \in 1 .. n BY <1>0, <1>2
    <3>2. f[1] = ss[1] BY <2>4, <3>1
    <3>3. UNION {ToSet(ss[i]) : i \in 1 .. 1} = ToSet(ss[1]) OBVIOUS
    <3> QED BY <1>0, <3>1, <3>2, <3>3
  <2>6. ASSUME NEW k \in Nat, k \in Goods PROVE k + 1 \in Goods
    <3>0. k + 1 \in Nat OBVIOUS
    <3> SUFFICES ASSUME NEW m \in 1 .. n, m = (k + 1) + 1 PROVE Good(m)
      <4> HIDE DEF Good
      <4> QED BY <3>0
    <3>1. Good(k + 1)
      <4>1. k + 1 \in 1 .. n BY <1>0
      <4> QED BY <2>6, <4>1
    <3>2. m \in 1 .. n /\ m # 1 /\ m - 1 = k + 1 BY <1>0
    <3>3. f[m] = f[k + 1] \o ss[m] BY <2>4, <3>2
    <3>4. ss[m] \in Seq(T) /\ f[k + 1] \in Seq(T) BY <1>0, <3>1, <3>2
    <3>5. 1 .. m = (1 .. k + 1) \cup {m} OBVIOUS
    <3>6. ToSet(f[m]) = ToSet(f[k + 1]) \cup ToSet(ss[m])
      BY <3>3, <3>4, Concatenated
    <3>7. ToSet(f[m]) = UNION {ToSet(ss[i]) : i \in 1 .. m}
      BY <3>1, <3>5, <3>6
    <3>8. ASSUME \A i \in 1 .. n : IsInjective(ss[i]),
                 \A i, j \in 1 .. n : i # j => ToSet(ss[i]) \cap ToSet(ss[j]) = {}
          PROVE  IsInjective(f[m])
      <4>1. IsInjective(f[k + 1]) BY <3>1, <3>8
      <4>2. \A i \in 1 .. k + 1 : i \in 1 .. n /\ i # m BY <1>0, <3>2
      <4>3. \A i \in 1 .. k + 1 : ToSet(ss[i]) \cap ToSet(ss[m]) = {} BY <3>8, <4>2
      <4>5. ToSet(f[k + 1]) = UNION {ToSet(ss[i]) : i \in 1 .. k + 1} BY <3>1
      <4>6. ToSet(f[k + 1]) \cap ToSet(ss[m]) = {} BY <4>3, <4>5
      <4>4. IsInjective(ss[m]) BY <3>2, <3>8
      <4> QED BY <3>3, <3>4, <4>1, <4>4, <4>6, Concatenated
    <3>9. f[m] \in Seq(T) BY <3>3, <3>4, Concatenated
    <3> QED BY <3>7, <3>8, <3>9
  <2> HIDE DEF Goods
  <2>7. Nat \subseteq Goods BY <2>5, <2>6, Induction
  <2>8. Good(n)
    <3>1. n - 1 \in Nat /\ (n - 1) + 1 = n BY <1>0, <1>2
    <3>2. n - 1 \in Goods BY <2>7, <3>1
    <3> QED BY <1>0, <3>1, <3>2 DEF Goods
  <2> QED BY <1>0, <2>3, <2>8 DEF f
<1> QED BY <1>1, <1>2

-----------------------------------------------------------------------------
(* The priority heap holds each given clause at most once, and only those  *)
(* of descriptors in the queue: sifting rearranges it.                     *)

Keys == Nat \X Nat
Conclusions == [rule : Rules, given : Ids, partner : Ids, n : Nat, weight : Nat]
Batches == [given : Ids, cursor : Nat, limit : Nat, epoch : Nat, rules : SUBSET Rules,
            probe : BOOLEAN, promising : BOOLEAN, done : Nat, hash : Seq(Conclusions),
            at : Keys, next : Keys]

GivenIn(batches) == {batches[i].given : i \in DOMAIN batches}

Rearranged(h) ==
  {k \in Seq(Ids) : /\ Len(k) = Len(h)
                    /\ ToSet(k) = ToSet(h)
                    /\ IsInjective(h) => IsInjective(k)}

LEMMA SwapRearranges ==
  ASSUME NEW h \in Seq(Ids), NEW k \in Rearranged(h), NEW i \in 1 .. Len(h), NEW j \in 1 .. Len(h)
  PROVE  Swapped(k, i, j) \in Rearranged(h)
<1>1. k \in Seq(Ids) /\ Len(k) = Len(h) /\ i \in DOMAIN k /\ j \in DOMAIN k
  BY DEF Rearranged
<1> QED BY <1>1, SwappedKeeps DEF Rearranged

LEMMA Itself == ASSUME NEW h \in Seq(Ids) PROVE h \in Rearranged(h)
BY DEF Rearranged

\* Sifting is a sequence of swaps.
SiftingUp(batches, h, i) ==
  CHOOSE f : f = [m \in 0 .. Len(h) |-> IF m = 0 THEN <<h, i>> ELSE Raised(batches, f[m - 1])]

LEMMA SiftUpIterates ==
  ASSUME NEW batches, NEW h \in Seq(Ids), NEW i \in 1 .. Len(h)
  PROVE  LET f == SiftingUp(batches, h, i) IN
         /\ f[0] = <<h, i>>
         /\ \A m \in 1 .. Len(h) : f[m] = Raised(batches, f[m - 1])
         /\ \A m \in 0 .. Len(h) : f[m] \in Rearranged(h) \X (1 .. Len(h))
         /\ SiftUp(batches, h, i) = f[Len(h)][1]
<1> DEFINE S == Rearranged(h) \X (1 .. Len(h))
           n == Len(h)
           IsSift(f) == f = [m \in 0 .. n |-> IF m = 0 THEN <<h, i>> ELSE Raised(batches, f[m - 1])]
           sift == CHOOSE f : IsSift(f)
<1>1. n \in Nat OBVIOUS
<1>2. <<h, i>> \in S BY Itself
<1>3. ASSUME NEW at \in S PROVE Raised(batches, at) \in S
  <2>1. at[1] \in Rearranged(h) /\ at[2] \in 1 .. Len(h) OBVIOUS
  <2>2. at[2] > 1 => at[2] \div 2 \in 1 .. Len(h) BY <2>1
  <2>3. at[2] > 1 => Swapped(at[1], at[2], at[2] \div 2) \in Rearranged(h)
    BY <2>1, <2>2, SwapRearranges
  <2> QED BY <2>1, <2>2, <2>3 DEF Raised
<1> DEFINE G == [p \in (1 .. n) \X S |-> Raised(batches, p[2])]
<1>4. G \in [(1 .. n) \X S -> S] BY <1>3
<1>5. \E f : IsSift(f)
  <2> HIDE DEF S, n
  <2>1. PICK f \in [0 .. n -> S] : IsIteration(f, <<h, i>>, G, n)
    <3> HIDE DEF G
    <3> QED BY <1>1, <1>2, <1>4, IterationExists
  <2>2. ASSUME NEW m \in 0 .. n
        PROVE  f[m] = IF m = 0 THEN <<h, i>> ELSE Raised(batches, f[m - 1])
    <3>1. m # 0 => m \in 1 .. n /\ m - 1 \in 0 .. n BY <1>1
    <3>2. f[m] = IF m = 0 THEN <<h, i>> ELSE G[<<m, f[m - 1]>>] BY <2>1 DEF IsIteration
    <3> QED BY <3>1, <3>2
  <2> QED BY <2>1, <2>2
<1>6. IsSift(sift) BY <1>5
<1>7. /\ sift[0] = <<h, i>> /\ \A m \in 1 .. n : sift[m] = Raised(batches, sift[m - 1])
      /\ \A m \in 0 .. n : sift[m] \in S
  <2> HIDE DEF S, sift, n
  <2>1. sift[0] = <<h, i>> BY <1>1, <1>6
  <2>2. ASSUME NEW m \in 1 .. n PROVE sift[m] = Raised(batches, sift[m - 1])
    <3>1. m \in 0 .. n /\ m # 0 BY <1>1
    <3> QED BY <1>6, <3>1
  <2>3. \A m \in 0 .. n : sift[m] \in S BY <1>1, <1>2, <1>3, <2>1, <2>2, IterationIn
  <2> QED BY <2>1, <2>2, <2>3
<1>8. SiftUp(batches, h, i) = sift[n][1] BY DEF SiftUp
<1>9. SiftingUp(batches, h, i) = sift BY DEF SiftingUp
<1> HIDE DEF sift
<1> QED BY <1>7, <1>8, <1>9

LEMMA SiftUpRearranges ==
  ASSUME NEW batches, NEW h \in Seq(Ids), NEW i \in 1 .. Len(h)
  PROVE  SiftUp(batches, h, i) \in Rearranged(h)
<1>1. LET f == SiftingUp(batches, h, i) IN
      /\ \A m \in 0 .. Len(h) : f[m] \in Rearranged(h) \X (1 .. Len(h))
      /\ SiftUp(batches, h, i) = f[Len(h)][1]
  BY SiftUpIterates
<1>2. Len(h) \in 0 .. Len(h) OBVIOUS
<1> QED BY <1>1, <1>2

LEMMA BatchFound ==
  ASSUME NEW batches \in Seq(Batches), NEW g \in GivenIn(batches)
  PROVE  BatchOf(batches, g) \in Batches /\ BatchOf(batches, g).given = g
<1> DEFINE i == CHOOSE i \in DOMAIN batches : batches[i].given = g
<1>1. i \in DOMAIN batches /\ batches[i].given = g
  BY DEF GivenIn
<1> HIDE DEF i
<1>2. batches[i] \in Batches BY <1>1
<1> QED BY <1>1, <1>2 DEF BatchOf, i

LEMMA KeysDiffer ==
  ASSUME NEW batches \in Seq(Batches), NEW a \in GivenIn(batches), NEW b \in GivenIn(batches),
         a # b
  PROVE  Before(batches, a, b) \/ Before(batches, b, a)
<1> DEFINE k == PriorityKey(batches, a)  l == PriorityKey(batches, b)
<1>1. a \in Nat /\ b \in Nat
  <2>1. BatchOf(batches, a).given \in Ids /\ BatchOf(batches, b).given \in Ids
    BY BatchFound DEF Batches
  <2>2. a \in Ids /\ b \in Ids BY <2>1, BatchFound
  <2> QED BY <2>2 DEF Ids
<1>2. k \in Nat \X Nat \X Nat /\ k[2] = a
  BY <1>1, BatchFound DEF PriorityKey, Batches, Keys
<1>3. l \in Nat \X Nat \X Nat /\ l[2] = b
  BY <1>1, BatchFound DEF PriorityKey, Batches, Keys
<1> HIDE DEF k, l
<1>4. \A x, y \in Nat \X Nat \X Nat :
        x[1] < y[1] \/ (x[1] = y[1] /\ x[2] < y[2]) => Less(x, y)
  <2> TAKE x, y \in Nat \X Nat \X Nat
  <2>1. DOMAIN x = 1 .. 3 /\ 1 .. 1 - 1 = {} /\ 1 .. 2 - 1 = {1} /\ 1 \in 1 .. 3 /\ 2 \in 1 .. 3
    OBVIOUS
  <2> QED BY <2>1 DEF Less
<1>5. k[1] \in Nat /\ l[1] \in Nat BY <1>2, <1>3
<1>6. Less(k, l) \/ Less(l, k)
  <2>1. \/ k[1] < l[1] \/ l[1] < k[1]
        \/ k[1] = l[1] /\ (k[2] < l[2] \/ l[2] < k[2])
    BY <1>1, <1>2, <1>3, <1>5
  <2> QED BY <1>2, <1>3, <1>4, <2>1
<1> QED BY <1>6 DEF Before, k, l

LEMMA LoweredRearranges ==
  ASSUME NEW batches \in Seq(Batches),
         NEW h \in Seq(Ids), IsInjective(h), ToSet(h) \subseteq GivenIn(batches),
         NEW at \in Rearranged(h) \X (1 .. Len(h))
  PROVE  Lowered(batches, at) \in Rearranged(h) \X (1 .. Len(h))
<1> DEFINE k == at[1]  i == at[2]
           below == {j \in {2 * i, 2 * i + 1} : j =< Len(k) /\ Before(batches, k[j], k[i])}
           least == CHOOSE j \in below : \A l \in below \ {j} : Before(batches, k[j], k[l])
<1>1. /\ k \in Seq(Ids) /\ Len(k) = Len(h) /\ Len(h) \in Nat
      /\ IsInjective(k) /\ ToSet(k) \subseteq GivenIn(batches)
      /\ i \in 1 .. Len(h)
  BY DEF Rearranged
<1>2. below \subseteq 1 .. Len(h) BY <1>1
<1>3. ASSUME below # {} PROVE least \in below
  <2>1. \A j, l \in below : j # l => Before(batches, k[j], k[l]) \/ Before(batches, k[l], k[j])
    <3> SUFFICES ASSUME NEW j \in below, NEW l \in below, j # l
                 PROVE  Before(batches, k[j], k[l]) \/ Before(batches, k[l], k[j])
      OBVIOUS
    <3> HIDE DEF below
    <3>1. j \in DOMAIN k /\ l \in DOMAIN k BY <1>1, <1>2
    <3>2. k[j] # k[l] BY <1>1, <3>1 DEF IsInjective
    <3>3. k[j] \in GivenIn(batches) /\ k[l] \in GivenIn(batches) BY <1>1, <3>1 DEF ToSet
    <3> QED BY <3>2, <3>3, KeysDiffer
  <2>2. below \subseteq {2 * i, 2 * i + 1} OBVIOUS
  <2> DEFINE IsLeast(j) == \A l \in below \ {j} : Before(batches, k[j], k[l])
  <2>3. \E j \in below : IsLeast(j)
    <3> HIDE DEF below
    <3>1. CASE 2 * i \in below /\ 2 * i + 1 \in below
      <4> DEFINE j == 2 * i  l == 2 * i + 1
      <4>1. j # l BY <1>1
      <4>2. below = {j, l} BY <2>2, <3>1
      <4> HIDE DEF j, l
      <4>3. Before(batches, k[j], k[l]) \/ Before(batches, k[l], k[j]) BY <2>1, <4>1, <4>2
      <4>4. below \ {j} = {l} /\ below \ {l} = {j} BY <4>1, <4>2
      <4> QED BY <4>2, <4>3, <4>4
    <3>2. CASE 2 * i \notin below \/ 2 * i + 1 \notin below
      <4>1. PICK j \in below : TRUE BY <1>3
      <4>2. below \ {j} = {} BY <2>2, <3>2
      <4> QED BY <4>2
    <3> QED BY <3>1, <3>2
  <2> HIDE DEF below
  <2> QED BY <2>3
<1>4. Lowered(batches, at) = IF below = {} THEN at ELSE <<Swapped(k, i, least), least>>
  BY DEF Lowered
<1> HIDE DEF below, least
<1>5. CASE below = {} BY <1>4, <1>5
<1>6. CASE below # {}
  <2>1. least \in 1 .. Len(h) BY <1>2, <1>3, <1>6
  <2>2. Swapped(k, i, least) \in Rearranged(h) BY <1>1, <2>1, SwapRearranges
  <2> QED BY <1>4, <1>6, <2>1, <2>2
<1> QED BY <1>5, <1>6

SiftingDown(batches, h, i) ==
  CHOOSE f : f = [m \in 0 .. Len(h) |-> IF m = 0 THEN <<h, i>> ELSE Lowered(batches, f[m - 1])]

LEMMA SiftDownIterates ==
  ASSUME NEW batches \in Seq(Batches),
         NEW h \in Seq(Ids), IsInjective(h), ToSet(h) \subseteq GivenIn(batches),
         NEW i \in 1 .. Len(h)
  PROVE  LET f == SiftingDown(batches, h, i) IN
         /\ f[0] = <<h, i>>
         /\ \A m \in 1 .. Len(h) : f[m] = Lowered(batches, f[m - 1])
         /\ \A m \in 0 .. Len(h) : f[m] \in Rearranged(h) \X (1 .. Len(h))
         /\ SiftDown(batches, h, i) = f[Len(h)][1]
<1> DEFINE S == Rearranged(h) \X (1 .. Len(h))
           n == Len(h)
           IsSift(f) == f = [m \in 0 .. n |-> IF m = 0 THEN <<h, i>> ELSE Lowered(batches, f[m - 1])]
           sift == CHOOSE f : IsSift(f)
<1>1. n \in Nat OBVIOUS
<1>2. <<h, i>> \in S BY Itself
<1>3. ASSUME NEW at \in S PROVE Lowered(batches, at) \in S
  BY LoweredRearranges
<1> DEFINE G == [p \in (1 .. n) \X S |-> Lowered(batches, p[2])]
<1>4. G \in [(1 .. n) \X S -> S] BY <1>3
<1>5. \E f : IsSift(f)
  <2> HIDE DEF S, n
  <2>1. PICK f \in [0 .. n -> S] : IsIteration(f, <<h, i>>, G, n)
    <3> HIDE DEF G
    <3> QED BY <1>1, <1>2, <1>4, IterationExists
  <2>2. ASSUME NEW m \in 0 .. n
        PROVE  f[m] = IF m = 0 THEN <<h, i>> ELSE Lowered(batches, f[m - 1])
    <3>1. m # 0 => m \in 1 .. n /\ m - 1 \in 0 .. n BY <1>1
    <3>2. f[m] = IF m = 0 THEN <<h, i>> ELSE G[<<m, f[m - 1]>>] BY <2>1 DEF IsIteration
    <3> QED BY <3>1, <3>2
  <2> QED BY <2>1, <2>2
<1>6. IsSift(sift) BY <1>5
<1>7. /\ sift[0] = <<h, i>> /\ \A m \in 1 .. n : sift[m] = Lowered(batches, sift[m - 1])
      /\ \A m \in 0 .. n : sift[m] \in S
  <2> HIDE DEF S, sift, n
  <2>1. sift[0] = <<h, i>> BY <1>1, <1>6
  <2>2. ASSUME NEW m \in 1 .. n PROVE sift[m] = Lowered(batches, sift[m - 1])
    <3>1. m \in 0 .. n /\ m # 0 BY <1>1
    <3> QED BY <1>6, <3>1
  <2>3. \A m \in 0 .. n : sift[m] \in S BY <1>1, <1>2, <1>3, <2>1, <2>2, IterationIn
  <2> QED BY <2>1, <2>2, <2>3
<1>8. SiftDown(batches, h, i) = sift[n][1] BY DEF SiftDown
<1>9. SiftingDown(batches, h, i) = sift BY DEF SiftingDown
<1> HIDE DEF sift
<1> QED BY <1>7, <1>8, <1>9

LEMMA SiftDownRearranges ==
  ASSUME NEW batches \in Seq(Batches),
         NEW h \in Seq(Ids), IsInjective(h), ToSet(h) \subseteq GivenIn(batches),
         NEW i \in 1 .. Len(h)
  PROVE  SiftDown(batches, h, i) \in Rearranged(h)
<1>1. LET f == SiftingDown(batches, h, i) IN
      /\ \A m \in 0 .. Len(h) : f[m] \in Rearranged(h) \X (1 .. Len(h))
      /\ SiftDown(batches, h, i) = f[Len(h)][1]
  BY SiftDownIterates
<1>2. Len(h) \in 0 .. Len(h) OBVIOUS
<1> QED BY <1>1, <1>2

HeapOf(batches) ==
  {h \in Seq(Ids) : IsInjective(h) /\ ToSet(h) \subseteq GivenIn(batches)}

LEMMA GivenTyped == ASSUME NEW batches \in Seq(Batches) PROVE GivenIn(batches) \subseteq Ids
<1>1. \A i \in DOMAIN batches : batches[i] \in Batches OBVIOUS
<1> QED BY <1>1 DEF GivenIn, Batches

LEMMA InsertFits ==
  ASSUME NEW batches \in Seq(Batches), NEW h \in HeapOf(batches),
         NEW g \in GivenIn(batches), g \notin ToSet(h)
  PROVE  /\ HeapInsert(batches, h, g) \in HeapOf(batches)
         /\ ToSet(HeapInsert(batches, h, g)) \subseteq ToSet(h) \cup {g}
<1> DEFINE longer == Append(h, g)
<1>1. h \in Seq(Ids) /\ IsInjective(h) /\ ToSet(h) \subseteq GivenIn(batches) /\ g \in Ids
  BY GivenTyped DEF HeapOf
<1>2. longer \in Seq(Ids) /\ Len(longer) = Len(h) + 1 /\ Len(h) \in Nat
  BY <1>1
<1>3. \A i \in DOMAIN longer : longer[i] = IF i = Len(h) + 1 THEN g ELSE h[i]
  BY <1>1, <1>2
<1>4. DOMAIN longer = DOMAIN h \cup {Len(h) + 1} /\ DOMAIN h = 1 .. Len(h)
  BY <1>1, <1>2
<1> HIDE DEF longer
<1>5. ToSet(longer) = ToSet(h) \cup {g}
  BY <1>2, <1>3, <1>4 DEF ToSet
<1>6. IsInjective(longer)
  <2>1. \A i \in DOMAIN h : h[i] # g BY DEF ToSet
  <2> QED BY <1>1, <1>2, <1>3, <1>4, <2>1 DEF IsInjective
<1>7. SiftUp(batches, longer, Len(h) + 1) \in Rearranged(longer)
  <2>1. Len(h) + 1 \in 1 .. Len(longer) BY <1>2
  <2> QED BY <1>2, <2>1, SiftUpRearranges
<1> QED BY <1>1, <1>5, <1>6, <1>7 DEF HeapInsert, HeapOf, Rearranged, longer

LEMMA RemoveFits ==
  ASSUME NEW batches \in Seq(Batches), NEW h \in HeapOf(batches), NEW g
  PROVE  /\ HeapRemove(batches, h, g) \in HeapOf(batches)
         /\ ToSet(HeapRemove(batches, h, g)) = ToSet(h) \ {g}
<1>1. h \in Seq(Ids) /\ IsInjective(h) /\ ToSet(h) \subseteq GivenIn(batches)
  BY DEF HeapOf
<1>2. CASE g \notin ToSet(h)
  BY <1>2 DEF HeapRemove
<1>3. CASE g \in ToSet(h)
  <2> DEFINE at == CHOOSE i \in DOMAIN h : h[i] = g
             moved == [h EXCEPT ![at] = Last(h)]
             shorter == Front(moved)
             n == Len(h)
  <2>1. at \in DOMAIN h /\ h[at] = g BY <1>3 DEF ToSet
  <2>2. HeapRemove(batches, h, g) =
          IF at = n THEN shorter
          ELSE IF at > 1 /\ Before(batches, shorter[at], shorter[at \div 2])
          THEN SiftUp(batches, shorter, at) ELSE SiftDown(batches, shorter, at)
    BY <1>3 DEF HeapRemove
  <2> HIDE DEF at
  <2>3. n \in Nat \ {0} /\ at \in 1 .. n /\ DOMAIN h = 1 .. n BY <1>1, <2>1
  <2>4. Last(h) = h[n] /\ n \in DOMAIN h /\ h[n] \in Ids BY <1>1, <2>3 DEF Last
  <2>5. moved \in Seq(Ids) /\ Len(moved) = n
    <3>1. moved = [h EXCEPT ![at] = h[n]] BY <2>4
    <3> QED BY <1>1, <2>3, <2>4, <3>1
  <2>6. \A i \in 1 .. n : moved[i] = IF i = at THEN h[n] ELSE h[i] BY <2>3, <2>4
  <2>7. moved # <<>> BY <2>3, <2>5
  <2> HIDE DEF moved, n
  <2>8. shorter \in Seq(Ids) /\ Len(shorter) = n - 1
        /\ \A i \in 1 .. n - 1 : shorter[i] = IF i = at THEN h[n] ELSE h[i]
    <3>1. shorter \in Seq(Ids) /\ Len(shorter) = Len(moved) - 1
          /\ \A i \in 1 .. Len(moved) - 1 : shorter[i] = moved[i]
      BY <2>5, <2>7, FrontAndLast
    <3>2. 1 .. n - 1 \subseteq 1 .. n BY <2>3
    <3> HIDE DEF shorter
    <3> QED BY <2>5, <2>6, <3>1, <3>2
  <2> HIDE DEF shorter
  <2>9. DOMAIN shorter = 1 .. n - 1 BY <2>8
  <2>10. IsInjective(shorter)
    BY <1>1, <2>3, <2>8, <2>9 DEF IsInjective
  <2>11. ToSet(shorter) = ToSet(h) \ {g}
    <3>1. \A i \in 1 .. n : h[i] = g => i = at BY <1>1, <2>1, <2>3 DEF IsInjective
    <3>2. ASSUME NEW i \in 1 .. n - 1 PROVE shorter[i] \in ToSet(h) \ {g}
      <4>1. i \in 1 .. n /\ i # n BY <2>3
      <4>2. CASE i = at
        <5>1. shorter[i] = h[n] BY <2>8, <4>2
        <5>2. h[n] # g BY <2>3, <3>1, <4>1, <4>2
        <5> QED BY <2>4, <5>1, <5>2 DEF ToSet
      <4>3. CASE i # at
        <5>1. shorter[i] = h[i] BY <2>8, <4>3
        <5>2. h[i] # g BY <3>1, <4>1, <4>3
        <5> QED BY <2>3, <4>1, <5>1, <5>2 DEF ToSet
      <4> QED BY <4>2, <4>3
    <3>3. ASSUME NEW i \in 1 .. n, h[i] # g PROVE h[i] \in ToSet(shorter)
      <4>1. i # at BY <2>1, <3>3
      <4>2. CASE i = n
        <5>1. at \in 1 .. n - 1 BY <2>3, <4>1, <4>2
        <5>2. shorter[at] = h[i] BY <2>8, <4>2, <5>1
        <5> QED BY <2>9, <5>1, <5>2 DEF ToSet
      <4>3. CASE i # n
        <5>1. i \in 1 .. n - 1 BY <2>3, <4>3
        <5>2. shorter[i] = h[i] BY <2>8, <4>1, <5>1
        <5> QED BY <2>9, <5>1, <5>2 DEF ToSet
      <4> QED BY <4>2, <4>3
    <3> QED BY <2>3, <2>9, <3>2, <3>3 DEF ToSet
  <2>12. ToSet(shorter) \subseteq GivenIn(batches) BY <1>1, <2>11
  <2>13. CASE at = n BY <2>2, <2>8, <2>10, <2>11, <2>12, <2>13 DEF HeapOf
  <2>14. CASE at # n
    <3>1. at \in 1 .. Len(shorter) BY <2>3, <2>8, <2>14
    <3>2. SiftUp(batches, shorter, at) \in Rearranged(shorter)
      BY <2>8, <3>1, SiftUpRearranges
    <3>3. SiftDown(batches, shorter, at) \in Rearranged(shorter)
      BY <2>8, <2>10, <2>12, <3>1, SiftDownRearranges
    <3>4. HeapRemove(batches, h, g) \in Rearranged(shorter) BY <2>2, <2>14, <3>2, <3>3
    <3> QED BY <2>10, <2>11, <2>12, <3>4 DEF HeapOf, Rearranged
  <2> QED BY <2>13, <2>14
<1> QED BY <1>2, <1>3

\* A heap for some batches is one for any that have all its given clauses.
LEMMA HeapOfMore ==
  ASSUME NEW q, NEW r, NEW h \in HeapOf(q), ToSet(h) \subseteq GivenIn(r)
  PROVE  h \in HeapOf(r)
BY DEF HeapOf

Distinct(batches) ==
  \A i, j \in DOMAIN batches : batches[i].given = batches[j].given => i = j

Building ==
  CHOOSE f : f = [i \in 0 .. Len(queue) |->
                    IF i = 0 THEN <<>> ELSE HeapInsert(queue, f[i - 1], queue[i].given)]

LEMMA RebuiltIterates ==
  ASSUME queue \in Seq(Batches)
  PROVE  /\ Building[0] = <<>>
         /\ \A i \in 1 .. Len(queue) :
              Building[i] = HeapInsert(queue, Building[i - 1], queue[i].given)
         /\ Rebuilt = Building[Len(queue)]
<1> DEFINE n == Len(queue)
           IsBuilt(f) == f = [i \in 0 .. n |->
             IF i = 0 THEN <<>> ELSE HeapInsert(queue, f[i - 1], queue[i].given)]
           built == CHOOSE f : IsBuilt(f)
<1>1. n \in Nat /\ DOMAIN queue = 1 .. n OBVIOUS
<1>2. <<>> \in Seq(Ids) OBVIOUS
<1>3. \A i \in 1 .. n : queue[i].given \in GivenIn(queue) /\ queue[i].given \in Ids
  BY <1>1, GivenTyped DEF GivenIn
<1>4. ASSUME NEW h \in Seq(Ids), NEW i \in 1 .. n
      PROVE  HeapInsert(queue, h, queue[i].given) \in Seq(Ids)
  <2> DEFINE g == queue[i].given
  <2>1. g \in Ids BY <1>3
  <2> HIDE DEF g
  <2>2. Append(h, g) \in Seq(Ids) /\ Len(h) + 1 \in 1 .. Len(Append(h, g)) BY <2>1
  <2>3. SiftUp(queue, Append(h, g), Len(h) + 1) \in Seq(Ids)
    BY <2>2, SiftUpRearranges DEF Rearranged
  <2>4. HeapInsert(queue, h, g) \in Seq(Ids) BY <2>3 DEF HeapInsert
  <2> QED BY <2>4 DEF g
<1> DEFINE G == [p \in (1 .. n) \X Seq(Ids) |-> HeapInsert(queue, p[2], queue[p[1]].given)]
<1>5. G \in [(1 .. n) \X Seq(Ids) -> Seq(Ids)] BY <1>4
<1>6. \E f : IsBuilt(f)
  <2> HIDE DEF n
  <2>1. PICK f \in [0 .. n -> Seq(Ids)] : IsIteration(f, <<>>, G, n)
    <3> HIDE DEF G
    <3> QED BY <1>1, <1>2, <1>5, IterationExists
  <2>2. ASSUME NEW i \in 0 .. n
        PROVE  f[i] = IF i = 0 THEN <<>> ELSE HeapInsert(queue, f[i - 1], queue[i].given)
    <3>1. i # 0 => i \in 1 .. n /\ i - 1 \in 0 .. n BY <1>1
    <3>2. f[i] = IF i = 0 THEN <<>> ELSE G[<<i, f[i - 1]>>] BY <2>1 DEF IsIteration
    <3> QED BY <3>1, <3>2
  <2> QED BY <2>1, <2>2
<1>7. IsBuilt(built) BY <1>6
<1>8. Rebuilt = built[n] BY DEF Rebuilt
<1>9. built[0] = <<>> /\ \A i \in 1 .. n : built[i] = HeapInsert(queue, built[i - 1], queue[i].given)
  <2> HIDE DEF built, n
  <2>1. built[0] = <<>> BY <1>1, <1>7
  <2>2. ASSUME NEW i \in 1 .. n PROVE built[i] = HeapInsert(queue, built[i - 1], queue[i].given)
    <3>1. i \in 0 .. n /\ i # 0 BY <1>1
    <3> QED BY <1>7, <3>1
  <2> QED BY <2>1, <2>2
<1>10. Building = built BY DEF Building
<1> HIDE DEF built
<1> QED BY <1>8, <1>9, <1>10

LEMMA RebuiltFits ==
  ASSUME queue \in Seq(Batches), Distinct(queue)
  PROVE  Rebuilt \in HeapOf(queue)
<1> DEFINE n == Len(queue)
<1>1. n \in Nat /\ DOMAIN queue = 1 .. n OBVIOUS
<1>2. <<>> \in Seq(Ids) OBVIOUS
<1> DEFINE built == Building
<1>3. /\ built[0] = <<>>
      /\ \A i \in 1 .. n : built[i] = HeapInsert(queue, built[i - 1], queue[i].given)
      /\ Rebuilt = built[n]
  BY RebuiltIterates
<1>4. \A i \in 1 .. n : queue[i].given \in GivenIn(queue) BY <1>1 DEF GivenIn
<1> HIDE DEF n, built
<1> DEFINE T == {i \in Nat : i =< n =>
                   /\ built[i] \in HeapOf(queue)
                   /\ ToSet(built[i]) \subseteq {queue[j].given : j \in 1 .. i}}
<1>5. 0 \in T
  <2>1. built[0] = <<>> BY <1>3
  <2>2. ToSet(<<>>) = {} /\ IsInjective(<<>>) BY DEF ToSet, IsInjective
  <2>3. <<>> \in HeapOf(queue) BY <1>2, <2>2 DEF HeapOf
  <2> QED BY <2>1, <2>2, <2>3
<1>6. ASSUME NEW i \in Nat, i \in T PROVE i + 1 \in T
  <2> SUFFICES ASSUME i + 1 =< n
               PROVE  /\ built[i + 1] \in HeapOf(queue)
                      /\ ToSet(built[i + 1]) \subseteq {queue[j].given : j \in 1 .. i + 1}
    OBVIOUS
  <2> DEFINE g == queue[i + 1].given
  <2>1. i + 1 \in 1 .. n /\ i =< n /\ i + 1 \in 0 .. n /\ i + 1 # 0 /\ (i + 1) - 1 = i
    BY <1>1
  <2>2. built[i + 1] = HeapInsert(queue, built[i], g) BY <1>3, <2>1
  <2>3. built[i] \in HeapOf(queue) /\ ToSet(built[i]) \subseteq {queue[j].given : j \in 1 .. i}
    BY <1>6, <2>1
  <2>4. g \notin ToSet(built[i])
    <3>1. \A j \in 1 .. i : j \in 1 .. n /\ j # i + 1 BY <1>1, <2>1
    <3>2. \A j \in 1 .. i : queue[j].given # g BY <1>1, <2>1, <3>1 DEF Distinct
    <3> QED BY <2>3, <3>2
  <2>5. g \in GivenIn(queue) BY <1>4, <2>1
  <2> HIDE DEF g
  <2>6. built[i + 1] \in HeapOf(queue) /\ ToSet(built[i + 1]) \subseteq ToSet(built[i]) \cup {g}
    BY <2>2, <2>3, <2>4, <2>5, InsertFits
  <2>7. \A j \in 1 .. i : j \in 1 .. i + 1 OBVIOUS
  <2>8. i + 1 \in 1 .. i + 1 OBVIOUS
  <2> QED BY <2>3, <2>6, <2>7, <2>8 DEF g
<1> HIDE DEF T
<1>7. n \in T BY <1>1, <1>5, <1>6, Induction
<1> QED BY <1>1, <1>3, <1>7 DEF T

PlaceOf(q, g) == CHOOSE i \in DOMAIN q : q[i].given = g

\* Where the descriptors are after one of them came to the head.
LEMMA ToHeadPlaces ==
  ASSUME NEW q \in Seq(Batches), NEW g \in GivenIn(q)
  PROVE  LET at == PlaceOf(q, g) IN
         /\ at \in DOMAIN q /\ q[at].given = g
         /\ ToHead(q, g) \in Seq(Batches) /\ Len(ToHead(q, g)) = Len(q)
         /\ \A i \in 1 .. Len(q) :
              ToHead(q, g)[i] = q[IF i = 1 THEN at ELSE IF i - 1 < at THEN i - 1 ELSE i]
<1> DEFINE at == CHOOSE i \in DOMAIN q : q[i].given = g
           n == Len(q)
           r == ToHead(q, g)
<1>1. at \in DOMAIN q /\ q[at].given = g BY DEF GivenIn
<1>2. r = <<q[at]>> \o RemoveAt(q, at) BY DEF ToHead
<1> HIDE DEF at, r
<1>3. n \in Nat \ {0} /\ at \in 1 .. n /\ DOMAIN q = 1 .. n /\ \A i \in 1 .. n : q[i] \in Batches
  BY <1>1
<1> HIDE DEF n
<1>4. /\ SubSeq(q, 1, at - 1) \in Seq(Batches) /\ Len(SubSeq(q, 1, at - 1)) = at - 1
      /\ \A i \in 1 .. at - 1 : SubSeq(q, 1, at - 1)[i] = q[i]
  <2>1. \A i \in 1 .. at - 1 : q[i] \in Batches BY <1>3
  <2>2. 1 \in Int /\ at - 1 \in Int /\ at - 1 >= 0 BY <1>3
  <2> QED BY <2>1, <2>2, SubSeqProperties
<1>5. /\ SubSeq(q, at + 1, n) \in Seq(Batches) /\ Len(SubSeq(q, at + 1, n)) = n - at
      /\ \A i \in 1 .. n - at : SubSeq(q, at + 1, n)[i] = q[at + i]
  <2>1. \A i \in at + 1 .. n : q[i] \in Batches BY <1>3
  <2> DEFINE m == at + 1
  <2>2. m \in Int /\ n \in Int /\ at =< n BY <1>3
  <2>3. /\ SubSeq(q, m, n) \in Seq(Batches)
        /\ Len(SubSeq(q, m, n)) = IF m =< n THEN n - m + 1 ELSE 0
        /\ \A i \in 1 .. n - m + 1 : SubSeq(q, m, n)[i] = q[m + i - 1]
    <3> HIDE DEF m
    <3> QED BY <2>1, <2>2, SubSeqProperties DEF m
  <2>4. n - m + 1 = n - at /\ (m > n => n - at = 0) BY <1>3
  <2>5. \A i \in 1 .. n - at : m + i - 1 = at + i BY <1>3
  <2>6. Len(SubSeq(q, m, n)) = n - at BY <2>2, <2>3, <2>4
  <2> QED BY <2>3, <2>4, <2>5, <2>6
<1>6. RemoveAt(q, at) = SubSeq(q, 1, at - 1) \o SubSeq(q, at + 1, n) BY DEF RemoveAt, n
<1> DEFINE place == [i \in 1 .. n |-> IF i = 1 THEN at ELSE IF i - 1 < at THEN i - 1 ELSE i]
<1>7. r \in Seq(Batches) /\ Len(r) = n
  BY <1>2, <1>3, <1>4, <1>5, <1>6
<1>8. \A i \in 1 .. n : place[i] \in 1 .. n /\ r[i] = q[place[i]]
  <2> SUFFICES ASSUME NEW i \in 1 .. n PROVE place[i] \in 1 .. n /\ r[i] = q[place[i]] OBVIOUS
  <2> DEFINE s == SubSeq(q, 1, at - 1)  t == SubSeq(q, at + 1, n)
  <2>0. r = <<q[at]>> \o (s \o t) BY <1>2, <1>6
  <2>1. CASE i = 1 BY <1>3, <1>4, <1>5, <2>0, <2>1
  <2>2. CASE i # 1 /\ i - 1 < at
    <3>1. i - 1 \in 1 .. at - 1 BY <1>3, <2>2
    <3>2. s[i - 1] = q[i - 1] BY <1>4, <3>1
    <3> HIDE DEF s, t
    <3>3. (s \o t)[i - 1] = s[i - 1] BY <1>3, <1>4, <1>5, <3>1 DEF s, t
    <3>4. r[i] = (s \o t)[i - 1] BY <1>3, <1>4, <1>5, <2>0, <2>2, <3>1 DEF s, t
    <3> QED BY <1>3, <2>2, <3>2, <3>3, <3>4
  <2>3. CASE i # 1 /\ ~(i - 1 < at)
    <3>1. i - at \in 1 .. n - at /\ at + (i - at) = i BY <1>3, <2>3
    <3>2. t[i - at] = q[i] BY <1>5, <3>1
    <3> HIDE DEF s, t
    <3>3. (s \o t)[i - 1] = t[i - at] BY <1>3, <1>4, <1>5, <2>3, <3>1 DEF s, t
    <3>4. r[i] = (s \o t)[i - 1] BY <1>3, <1>4, <1>5, <2>0, <2>3, <3>1 DEF s, t
    <3> QED BY <1>3, <2>3, <3>2, <3>3, <3>4
  <2> QED BY <2>1, <2>2, <2>3
<1>9. PlaceOf(q, g) = at BY DEF PlaceOf, at
<1> HIDE DEF r
<1> QED BY <1>1, <1>7, <1>8, <1>9 DEF r, n

LEMMA ToHeadRearranges ==
  ASSUME NEW q \in Seq(Batches), Distinct(q), NEW g \in GivenIn(q)
  PROVE  /\ ToHead(q, g) \in Seq(Batches)
         /\ Distinct(ToHead(q, g))
         /\ ToSet(ToHead(q, g)) = ToSet(q)
         /\ ToHead(q, g) # <<>>
<1> DEFINE at == PlaceOf(q, g)
           n == Len(q)
           r == ToHead(q, g)
           place == [i \in 1 .. n |-> IF i = 1 THEN at ELSE IF i - 1 < at THEN i - 1 ELSE i]
<1>1. /\ at \in DOMAIN q /\ r \in Seq(Batches) /\ Len(r) = n
      /\ \A i \in 1 .. n : r[i] = q[place[i]]
  BY ToHeadPlaces
<1> HIDE DEF at, r
<1>2. n \in Nat \ {0} /\ at \in 1 .. n /\ DOMAIN q = 1 .. n BY <1>1
<1>3. \A i \in 1 .. n : place[i] \in 1 .. n BY <1>2
<1> HIDE DEF n
<1>4. \A i, j \in 1 .. n : place[i] = place[j] => i = j BY <1>2
<1>5. \A k \in 1 .. n : \E i \in 1 .. n : place[i] = k
  <2> SUFFICES ASSUME NEW k \in 1 .. n PROVE \E i \in 1 .. n : place[i] = k OBVIOUS
  <2>1. CASE k = at BY <1>2, <2>1
  <2>2. CASE k < at
    <3>1. k + 1 \in 1 .. n /\ place[k + 1] = k BY <1>2, <2>2
    <3> QED BY <3>1
  <2>3. CASE k > at
    <3>1. place[k] = k BY <1>2, <2>3
    <3> QED BY <3>1
  <2> QED BY <1>2, <2>1, <2>2, <2>3
<1> HIDE DEF place
<1>6. DOMAIN r = 1 .. n BY <1>2, <1>1
<1>7. ToSet(r) = ToSet(q)
  <2>1. \A i \in 1 .. n : r[i] \in ToSet(q) BY <1>2, <1>1, <1>3 DEF ToSet
  <2>2. \A k \in 1 .. n : q[k] \in ToSet(r)
    <3> SUFFICES ASSUME NEW k \in 1 .. n PROVE q[k] \in ToSet(r) OBVIOUS
    <3>1. PICK i \in 1 .. n : place[i] = k BY <1>5
    <3> QED BY <1>1, <1>6, <3>1 DEF ToSet
  <2>3. \A d \in ToSet(r) : d \in ToSet(q) BY <1>6, <2>1 DEF ToSet
  <2>4. \A d \in ToSet(q) : d \in ToSet(r) BY <1>2, <2>2 DEF ToSet
  <2> QED BY <2>3, <2>4
<1>8. Distinct(r)
  <2> SUFFICES ASSUME NEW i \in 1 .. n, NEW j \in 1 .. n, r[i].given = r[j].given PROVE i = j
    BY <1>6 DEF Distinct
  <2>1. q[place[i]].given = q[place[j]].given /\ place[i] \in 1 .. n /\ place[j] \in 1 .. n
    BY <1>1, <1>3
  <2>2. place[i] = place[j] BY <1>2, <2>1 DEF Distinct
  <2> QED BY <1>4, <2>2
<1> QED BY <1>2, <1>1, <1>7, <1>8 DEF r

-----------------------------------------------------------------------------
(* Weight order: the buffer holds the least candidates that are not drawn. *)

LEMMA KeyOrder ==
  /\ \A x, y \in Keys : Less(x, y) <=> x[1] < y[1] \/ (x[1] = y[1] /\ x[2] < y[2])
  /\ \A x \in Keys : ~Less(x, x)
  /\ \A x, y, z \in Keys : Less(x, y) /\ Less(y, z) => Less(x, z)
  /\ \A x, y \in Keys : x # y => Less(x, y) \/ Less(y, x)
<1>1. ASSUME NEW x \in Keys, NEW y \in Keys
      PROVE  Less(x, y) <=> x[1] < y[1] \/ (x[1] = y[1] /\ x[2] < y[2])
  <2>1. DOMAIN x = 1 .. 2 /\ 1 .. 1 - 1 = {} /\ 1 .. 2 - 1 = {1} /\ 1 .. 2 = {1, 2}
    BY DEF Keys
  <2> QED BY <2>1 DEF Less
<1> HIDE DEF Less
<1>2. \A x \in Keys : x[1] \in Nat /\ x[2] \in Nat BY DEF Keys
<1>3. \A x, y \in Keys : x[1] = y[1] /\ x[2] = y[2] => x = y BY DEF Keys
<1>4. \A x \in Keys : ~Less(x, x) BY <1>1, <1>2
<1>5. \A x, y, z \in Keys : Less(x, y) /\ Less(y, z) => Less(x, z) BY <1>1, <1>2
<1>6. \A x, y \in Keys : x # y => Less(x, y) \/ Less(y, x) BY <1>1, <1>2, <1>3
<1> QED BY <1>1, <1>4, <1>5, <1>6

\* A set of the first places has as many elements as its last place.
LEMMA FirstPlaces ==
  ASSUME NEW n \in Nat, NEW P \in SUBSET (1 .. n),
         \A i \in P : \A j \in 1 .. i : j \in P
  PROVE  Cardinality(P) \in 0 .. n /\ P = 1 .. Cardinality(P)
<1> DEFINE T == (1 .. n + 1) \ P
<1>1. T \in SUBSET Nat /\ n + 1 \in T OBVIOUS
<1>2. PICK m \in T : \A k \in T : m =< k BY <1>1, Least
<1>3. m \in 1 .. n + 1 /\ m \notin P OBVIOUS
<1>4. P = 1 .. m - 1
  <2>1. ASSUME NEW i \in 1 .. m - 1 PROVE i \in P
    <3>1. i \in 1 .. n + 1 /\ i < m BY <1>3
    <3> QED BY <1>2, <3>1
  <2>2. ASSUME NEW i \in P PROVE i \in 1 .. m - 1
    <3>1. i \in 1 .. n /\ m \notin 1 .. i BY <1>3
    <3> QED BY <1>3, <3>1
  <2> QED BY <2>1, <2>2
<1>5. Cardinality(1 .. m - 1) = m - 1
  <2>1. m - 1 \in Int /\ 1 \in Int BY <1>3
  <2>2. Cardinality(1 .. m - 1) = IF 1 > m - 1 THEN 0 ELSE (m - 1) - 1 + 1 BY <2>1, FS_Interval
  <2> QED BY <1>3, <2>2
<1> QED BY <1>3, <1>4, <1>5

Sorted(s) == \A i, j \in DOMAIN s : i < j => Less(s[i], s[j])

LEMMA Inserted ==
  ASSUME NEW s \in Seq(Keys), Sorted(s), NEW key \in Keys, key \notin ToSet(s)
  PROVE  LET at == Cardinality({i \in DOMAIN s : Less(s[i], key)})
             longer == InsertAt(s, at + 1, key)
         IN  /\ longer \in Seq(Keys) /\ Len(longer) = Len(s) + 1
             /\ Sorted(longer)
             /\ ToSet(longer) = ToSet(s) \cup {key}
<1> DEFINE n == Len(s)
           P == {i \in DOMAIN s : Less(s[i], key)}
           at == Cardinality(P)
           longer == InsertAt(s, at + 1, key)
<1>1. n \in Nat /\ DOMAIN s = 1 .. n /\ \A i \in 1 .. n : s[i] \in Keys OBVIOUS
<1>2. at \in 0 .. n /\ P = 1 .. at
  <2>1. P \in SUBSET (1 .. n) BY <1>1
  <2>2. ASSUME NEW i \in P, NEW j \in 1 .. i PROVE j \in P
    <3>1. j \in 1 .. n /\ i \in 1 .. n /\ (j = i \/ j < i) BY <1>1
    <3>2. j # i => Less(s[j], s[i]) BY <1>1, <3>1 DEF Sorted
    <3>3. Less(s[j], key) BY <1>1, <3>1, <3>2, KeyOrder
    <3> QED BY <1>1, <3>1, <3>3
  <2> HIDE DEF P, n
  <2> QED BY <1>1, <2>1, <2>2, FirstPlaces
<1>3. \A i \in 1 .. at : Less(s[i], key) BY <1>2
<1>4. \A i \in at + 1 .. n : Less(key, s[i])
  <2> SUFFICES ASSUME NEW i \in at + 1 .. n PROVE Less(key, s[i]) OBVIOUS
  <2>1. i \in 1 .. n /\ i \notin 1 .. at BY <1>1, <1>2
  <2>2. ~Less(s[i], key) BY <1>1, <1>2, <2>1
  <2>3. s[i] # key BY <1>1, <2>1 DEF ToSet
  <2> QED BY <1>1, <2>1, <2>2, <2>3, KeyOrder
<1>5. longer = SubSeq(s, 1, at) \o <<key>> \o SubSeq(s, at + 1, n)
  <2>1. (at + 1) - 1 = at BY <1>2
  <2> QED BY <2>1 DEF InsertAt
<1> HIDE DEF P, at, n, longer
<1>6. /\ SubSeq(s, 1, at) \in Seq(Keys) /\ Len(SubSeq(s, 1, at)) = at
      /\ \A i \in 1 .. at : SubSeq(s, 1, at)[i] = s[i]
  <2>1. \A i \in 1 .. at : s[i] \in Keys BY <1>1, <1>2
  <2>2. 1 \in Int /\ at \in Int /\ at >= 0 BY <1>2
  <2> QED BY <2>1, <2>2, SubSeqProperties
<1>7. /\ SubSeq(s, at + 1, n) \in Seq(Keys) /\ Len(SubSeq(s, at + 1, n)) = n - at
      /\ \A i \in 1 .. n - at : SubSeq(s, at + 1, n)[i] = s[at + i]
  <2>1. \A i \in at + 1 .. n : s[i] \in Keys BY <1>1, <1>2
  <2> DEFINE m == at + 1
  <2>2. m \in Int /\ n \in Int /\ at =< n BY <1>1, <1>2
  <2>3. /\ SubSeq(s, m, n) \in Seq(Keys)
        /\ Len(SubSeq(s, m, n)) = IF m =< n THEN n - m + 1 ELSE 0
        /\ \A i \in 1 .. n - m + 1 : SubSeq(s, m, n)[i] = s[m + i - 1]
    <3> HIDE DEF m
    <3> QED BY <2>1, <2>2, SubSeqProperties DEF m
  <2>4. n - m + 1 = n - at /\ (m > n => n - at = 0) BY <1>1, <1>2
  <2>5. \A i \in 1 .. n - at : m + i - 1 = at + i BY <1>1, <1>2
  <2>6. Len(SubSeq(s, m, n)) = n - at BY <2>2, <2>3, <2>4
  <2> QED BY <2>3, <2>4, <2>5, <2>6
<1>8. /\ longer \in Seq(Keys) /\ Len(longer) = n + 1
      /\ \A i \in 1 .. n + 1 :
           longer[i] = IF i =< at THEN s[i] ELSE IF i = at + 1 THEN key ELSE s[i - 1]
  <2> DEFINE t == SubSeq(s, 1, at)  u == SubSeq(s, at + 1, n)  v == t \o <<key>>
  <2>1. t \in Seq(Keys) /\ Len(t) = at /\ u \in Seq(Keys) /\ Len(u) = n - at BY <1>6, <1>7
  <2>2. longer = v \o u BY <1>5
  <2> HIDE DEF t, u
  <2>3. v \in Seq(Keys) /\ Len(v) = at + 1 /\ v[at + 1] = key
        /\ \A i \in 1 .. at : v[i] = t[i]
    BY <1>2, <2>1
  <2> HIDE DEF v
  <2>4. longer \in Seq(Keys) /\ Len(longer) = n + 1 BY <1>1, <1>2, <2>1, <2>2, <2>3
  <2>5. ASSUME NEW i \in 1 .. n + 1
        PROVE  longer[i] = IF i =< at THEN s[i] ELSE IF i = at + 1 THEN key ELSE s[i - 1]
    <3>1. CASE i =< at
      <4>1. i \in 1 .. at BY <1>2, <3>1
      <4>2. longer[i] = v[i] BY <1>1, <1>2, <2>1, <2>2, <2>3, <3>1
      <4> QED BY <1>6, <2>3, <3>1, <4>1, <4>2 DEF t
    <3>2. CASE i = at + 1
      <4>1. longer[i] = v[i] BY <1>1, <1>2, <2>1, <2>2, <2>3, <3>2
      <4> QED BY <1>2, <2>3, <3>2, <4>1
    <3>3. CASE i > at + 1
      <4>1. longer[i] = u[i - (at + 1)] BY <1>1, <1>2, <2>1, <2>2, <2>3, <3>3
      <4>2. i - (at + 1) \in 1 .. n - at /\ at + (i - (at + 1)) = i - 1 BY <1>1, <1>2, <3>3
      <4> QED BY <1>2, <1>7, <3>3, <4>1, <4>2 DEF u
    <3> QED BY <1>2, <3>1, <3>2, <3>3
  <2> QED BY <2>4, <2>5
<1>9. DOMAIN longer = 1 .. n + 1 BY <1>1, <1>8
<1>10. Sorted(longer)
  <2> SUFFICES ASSUME NEW i \in 1 .. n + 1, NEW j \in 1 .. n + 1, i < j
               PROVE  Less(longer[i], longer[j])
    BY <1>9 DEF Sorted
  <2>1. \A k, l \in 1 .. n : k < l => Less(s[k], s[l]) BY <1>1 DEF Sorted
  <2>2. CASE j =< at
    <3>1. i \in 1 .. n /\ j \in 1 .. n /\ i =< at BY <1>1, <1>2, <2>2
    <3>2. longer[i] = s[i] /\ longer[j] = s[j] BY <1>8, <2>2, <3>1
    <3> QED BY <2>1, <3>1, <3>2
  <2>3. CASE j = at + 1
    <3>1. i \in 1 .. at BY <1>2, <2>3
    <3>2. longer[i] = s[i] /\ longer[j] = key BY <1>2, <1>8, <2>3, <3>1
    <3> QED BY <1>3, <3>1, <3>2
  <2>4. CASE j > at + 1 /\ i = at + 1
    <3>1. j - 1 \in at + 1 .. n BY <1>1, <1>2, <2>4
    <3>2. longer[i] = key /\ longer[j] = s[j - 1] BY <1>2, <1>8, <2>4
    <3> QED BY <1>4, <3>1, <3>2
  <2>5. CASE j > at + 1 /\ i < at + 1
    <3>1. i \in 1 .. n /\ j - 1 \in 1 .. n /\ i < j - 1 /\ i =< at BY <1>1, <1>2, <2>5
    <3>2. longer[i] = s[i] /\ longer[j] = s[j - 1] BY <1>2, <1>8, <2>5, <3>1
    <3> QED BY <2>1, <3>1, <3>2
  <2>6. CASE i > at + 1
    <3>1. i - 1 \in 1 .. n /\ j - 1 \in 1 .. n /\ i - 1 < j - 1 BY <1>1, <1>2, <2>6
    <3>2. longer[i] = s[i - 1] /\ longer[j] = s[j - 1] BY <1>2, <1>8, <2>6
    <3> QED BY <2>1, <3>1, <3>2
  <2> QED BY <1>2, <2>2, <2>3, <2>4, <2>5, <2>6
<1>11. ToSet(longer) = ToSet(s) \cup {key}
  <2>1. ASSUME NEW i \in 1 .. n + 1 PROVE longer[i] \in ToSet(s) \cup {key}
    <3>1. i =< at => i \in 1 .. n BY <1>1, <1>2
    <3>2. i > at + 1 => i - 1 \in 1 .. n BY <1>1, <1>2
    <3>3. \A k \in 1 .. n : s[k] \in ToSet(s) BY <1>1 DEF ToSet
    <3> QED BY <1>2, <1>8, <3>1, <3>2, <3>3
  <2>2. ASSUME NEW i \in 1 .. n PROVE s[i] \in ToSet(longer)
    <3>1. CASE i =< at
      <4>1. i \in 1 .. n + 1 BY <1>1
      <4>2. longer[i] = s[i] BY <1>8, <3>1, <4>1
      <4> QED BY <1>9, <4>1, <4>2 DEF ToSet
    <3>2. CASE i > at
      <4>1. i + 1 \in 1 .. n + 1 /\ ~(i + 1 =< at) /\ i + 1 # at + 1 /\ (i + 1) - 1 = i
        BY <1>1, <1>2, <3>2
      <4>2. longer[i + 1] = s[i] BY <1>8, <4>1
      <4> QED BY <1>9, <4>1, <4>2 DEF ToSet
    <3> QED BY <1>2, <3>1, <3>2
  <2>3. key \in ToSet(longer)
    <3>1. at + 1 \in 1 .. n + 1 /\ ~(at + 1 =< at) BY <1>1, <1>2
    <3>2. longer[at + 1] = key BY <1>8, <3>1
    <3> QED BY <1>9, <3>1, <3>2 DEF ToSet
  <2> QED BY <1>1, <1>9, <2>1, <2>2, <2>3 DEF ToSet
<1> QED BY <1>8, <1>10, <1>11 DEF longer, at, P, n

Scans == [buffer : Seq(Keys), least : Keys, replayed : Nat, eligible : Nat]

LEMMA BufferInsertTyped ==
  ASSUME NEW scan \in Scans, NEW key \in Keys, NEW limit
  PROVE  BufferInsert(scan, key, limit) \in Scans
<1> DEFINE s == scan.buffer
           P == {i \in DOMAIN s : Less(s[i], key)}
           at == Cardinality(P)
           longer == InsertAt(s, at + 1, key)
<1>1. s \in Seq(Keys) /\ Len(s) \in Nat /\ DOMAIN s = 1 .. Len(s)
      /\ \A i \in 1 .. Len(s) : s[i] \in Keys
  BY DEF Scans
<1>2. at \in 0 .. Len(s)
  <2>1. IsFiniteSet(1 .. Len(s)) /\ Cardinality(1 .. Len(s)) = Len(s) BY <1>1, FS_Interval
  <2>2. P \subseteq 1 .. Len(s) BY <1>1
  <2> HIDE DEF P
  <2>3. Cardinality(P) =< Len(s) /\ IsFiniteSet(P) BY <2>1, <2>2, FS_Subset
  <2> QED BY <1>1, <2>3, FS_CardinalityType
<1> HIDE DEF P, at, s
<1>3. longer = SubSeq(s, 1, at) \o <<key>> \o SubSeq(s, at + 1, Len(s))
  <2>1. (at + 1) - 1 = at BY <1>2
  <2> QED BY <2>1 DEF InsertAt
<1>4. SubSeq(s, 1, at) \in Seq(Keys)
  <2>1. \A i \in 1 .. at : s[i] \in Keys BY <1>1, <1>2
  <2>2. 1 \in Int /\ at \in Int BY <1>2
  <2> QED BY <2>1, <2>2, SubSeqProperties
<1>5. SubSeq(s, at + 1, Len(s)) \in Seq(Keys)
  <2>1. \A i \in at + 1 .. Len(s) : s[i] \in Keys BY <1>1, <1>2
  <2>2. at + 1 \in Int /\ Len(s) \in Int BY <1>1, <1>2
  <2> QED BY <2>1, <2>2, SubSeqProperties
<1> HIDE DEF longer
<1>6. longer \in Seq(Keys) /\ longer # <<>> BY <1>3, <1>4, <1>5
<1>7. Front(longer) \in Seq(Keys) /\ Last(longer) \in Keys BY <1>6, FrontAndLast
<1>8. BufferInsert(scan, key, limit) =
        IF Len(s) < limit THEN [scan EXCEPT !.buffer = longer]
        ELSE [scan EXCEPT !.buffer = Front(longer),
                          !.least = IF scan.least = NoKey \/ Less(Last(longer), scan.least)
                                    THEN Last(longer) ELSE scan.least]
  BY DEF BufferInsert, longer, at, P, s
<1> QED BY <1>6, <1>7, <1>8 DEF Scans

\* The places up to m of candidates that were not drawn, and their keys.
Open(b, raw, m) == {i \in 1 .. m : ~Replayed(b, KeyAt(raw, i))}
OpenKeys(b, raw, m) == {KeyAt(raw, i) : i \in Open(b, raw, m)}

\* What a scan has found at place m.
Scanned(scan, b, raw, limit, m) ==
  LET keys == OpenKeys(b, raw, m)  held == ToSet(scan.buffer) IN
  /\ scan \in Scans
  /\ Sorted(scan.buffer) /\ Len(scan.buffer) =< limit
  /\ held \subseteq keys
  /\ scan.eligible = Cardinality(Open(b, raw, m))
  /\ scan.replayed = m - scan.eligible
  /\ \/ /\ scan.eligible = Len(scan.buffer)
        /\ held = keys
        /\ scan.least = NoKey
     \/ /\ Len(scan.buffer) = limit /\ limit < scan.eligible
        /\ scan.least \in keys \ held
        /\ \A k \in keys \ held : ~Less(k, scan.least) /\ \A h \in held : Less(h, k)

LEMMA FrontOfSorted ==
  ASSUME NEW s \in Seq(Keys), s # <<>>, Sorted(s)
  PROVE  /\ Sorted(Front(s))
         /\ Last(s) \notin ToSet(Front(s))
         /\ ToSet(s) = ToSet(Front(s)) \cup {Last(s)}
         /\ \A k \in ToSet(Front(s)) : Less(k, Last(s))
<1> DEFINE n == Len(s)  f == Front(s)
<1>1. n \in Nat \ {0} /\ DOMAIN s = 1 .. n /\ Last(s) = s[n] /\ \A i \in 1 .. n : s[i] \in Keys
  BY DEF Last
<1>2. f \in Seq(Keys) /\ Len(f) = n - 1 /\ \A i \in 1 .. n - 1 : f[i] = s[i]
  BY FrontAndLast
<1> HIDE DEF n, f
<1>3. DOMAIN f = 1 .. n - 1 BY <1>1, <1>2
<1>4. \A i \in 1 .. n - 1 : i \in 1 .. n /\ i < n BY <1>1
<1>5. \A i \in 1 .. n - 1 : Less(f[i], s[n]) BY <1>1, <1>2, <1>4 DEF Sorted
<1>6. Sorted(f) BY <1>1, <1>2, <1>3, <1>4 DEF Sorted
<1>7. \A i \in 1 .. n - 1 : f[i] # s[n]
  BY <1>1, <1>2, <1>4, <1>5, KeyOrder
<1>8. ToSet(s) = ToSet(f) \cup {s[n]}
  <2>1. \A i \in 1 .. n : i = n \/ i \in 1 .. n - 1 BY <1>1
  <2> QED BY <1>1, <1>2, <1>3, <1>4, <2>1 DEF ToSet
<1> QED BY <1>1, <1>3, <1>5, <1>6, <1>7, <1>8 DEF ToSet, f

ScanStep(scan, b, raw, limit, i) ==
  IF Replayed(b, KeyAt(raw, i)) THEN [scan EXCEPT !.replayed = @ + 1]
  ELSE BufferInsert([scan EXCEPT !.eligible = @ + 1], KeyAt(raw, i), limit)

LEMMA KeysOfRaw ==
  ASSUME NEW raw \in Seq(Conclusions)
  PROVE  \A i \in DOMAIN raw : KeyAt(raw, i) \in Keys /\ KeyAt(raw, i)[2] = i
                               /\ KeyAt(raw, i) # NoKey
<1> TAKE i \in DOMAIN raw
<1>1. raw[i] \in Conclusions /\ i \in Nat \ {0} OBVIOUS
<1>2. raw[i].weight \in Nat BY <1>1 DEF Conclusions
<1> QED BY <1>1, <1>2 DEF KeyAt, Keys, NoKey

LEMMA ScanSteps ==
  ASSUME NEW b \in Batches, NEW raw \in Seq(Conclusions), NEW limit \in Nat \ {0},
         NEW m \in Nat, m + 1 \in DOMAIN raw,
         NEW scan, Scanned(scan, b, raw, limit, m)
  PROVE  Scanned(ScanStep(scan, b, raw, limit, m + 1), b, raw, limit, m + 1)
<1> DEFINE key == KeyAt(raw, m + 1)
           new == ScanStep(scan, b, raw, limit, m + 1)
           O == Open(b, raw, m)  P == Open(b, raw, m + 1)
           K == OpenKeys(b, raw, m)  L == OpenKeys(b, raw, m + 1)
           s == scan.buffer  held == ToSet(s)
<1>1. m + 1 \in 1 .. Len(raw) /\ \A i \in 1 .. m + 1 : i \in DOMAIN raw
  OBVIOUS
<1>2. key \in Keys /\ key[2] = m + 1 /\ key # NoKey BY KeysOfRaw
<1>3. \A k \in K : k \in Keys /\ k[2] \in 1 .. m /\ k # key /\ k # NoKey
  <2> SUFFICES ASSUME NEW i \in O
               PROVE  LET k == KeyAt(raw, i) IN k \in Keys /\ k[2] \in 1 .. m /\ k # key /\ k # NoKey
    BY DEF OpenKeys
  <2>1. i \in 1 .. m /\ i \in DOMAIN raw BY <1>1 DEF Open
  <2>2. KeyAt(raw, i) \in Keys /\ KeyAt(raw, i)[2] = i /\ KeyAt(raw, i) # NoKey
    BY <2>1, KeysOfRaw
  <2>3. i # m + 1 BY <2>1
  <2> QED BY <1>2, <2>1, <2>2, <2>3
<1>4. IsFiniteSet(O) /\ Cardinality(O) \in Nat
  <2>1. IsFiniteSet(1 .. m) BY FS_Interval
  <2>2. O \subseteq 1 .. m BY DEF Open
  <2> HIDE DEF O
  <2>3. IsFiniteSet(O) BY <2>1, <2>2, FS_Subset
  <2> QED BY <2>3, FS_CardinalityType
<1>5. 1 .. m + 1 = (1 .. m) \cup {m + 1} /\ m + 1 \notin O BY DEF Open
<1>6. /\ scan \in Scans /\ s \in Seq(Keys) /\ scan.eligible \in Nat /\ scan.least \in Keys
      /\ Sorted(s) /\ Len(s) =< limit /\ held \subseteq K
      /\ scan.eligible = Cardinality(O) /\ scan.replayed = m - scan.eligible
      /\ Len(s) \in Nat
  BY DEF Scanned, Scans
<1>7. \/ scan.eligible = Len(s) /\ held = K /\ scan.least = NoKey
      \/ /\ Len(s) = limit /\ limit < scan.eligible /\ scan.least \in K \ held
         /\ \A k \in K \ held : ~Less(k, scan.least) /\ \A h \in held : Less(h, k)
  BY DEF Scanned
<1>8. CASE Replayed(b, key)
  <2>1. P = O BY <1>5, <1>8 DEF Open
  <2>2. L = K BY <2>1 DEF OpenKeys
  <2>3. new = [scan EXCEPT !.replayed = @ + 1] BY <1>8 DEF ScanStep
  <2>4. /\ new \in Scans /\ new.buffer = s /\ new.least = scan.least
        /\ new.eligible = scan.eligible /\ new.replayed = scan.replayed + 1
    BY <1>6, <2>3 DEF Scans
  <2>5. new.replayed = (m + 1) - new.eligible BY <1>6, <2>4
  <2> HIDE DEF new, O, P, K, L
  <2> QED BY <1>6, <1>7, <2>1, <2>2, <2>4, <2>5 DEF Scanned, O, P, K, L, new
<1>9. CASE ~Replayed(b, key)
  <2>1. P = O \cup {m + 1} BY <1>5, <1>9 DEF Open
  <2>2. L = K \cup {key} BY <2>1 DEF OpenKeys
  <2>3. Cardinality(P) = Cardinality(O) + 1
    <3> HIDE DEF O, P
    <3> QED BY <1>4, <1>5, <2>1, FS_AddElement
  <2> DEFINE scan1 == [scan EXCEPT !.eligible = @ + 1]
             longer == InsertAt(s, Cardinality({i \in DOMAIN s : Less(s[i], key)}) + 1, key)
  <2>4. new = BufferInsert(scan1, key, limit) BY <1>9 DEF ScanStep
  <2>5. /\ scan1 \in Scans /\ scan1.buffer = s /\ scan1.least = scan.least
        /\ scan1.eligible = scan.eligible + 1 /\ scan1.replayed = scan.replayed
    <3>1. scan \in Scans /\ scan.eligible + 1 \in Nat BY <1>6
    <3> QED BY <3>1 DEF Scans
  <2>6. new = IF Len(s) < limit THEN [scan1 EXCEPT !.buffer = longer]
              ELSE [scan1 EXCEPT !.buffer = Front(longer),
                                 !.least = IF scan.least = NoKey \/ Less(Last(longer), scan.least)
                                           THEN Last(longer) ELSE scan.least]
    BY <2>4, <2>5 DEF BufferInsert
  <2>7. key \notin held BY <1>3, <1>6
  <2>8. /\ longer \in Seq(Keys) /\ Len(longer) = Len(s) + 1 /\ Sorted(longer)
        /\ ToSet(longer) = held \cup {key}
    BY <1>2, <1>6, <2>7, Inserted
  <2>9. longer # <<>> BY <1>6, <2>8
  <2> HIDE DEF longer, scan1, new, O, P, K, L, key, held, s
  <2>10. /\ Front(longer) \in Seq(Keys) /\ Len(Front(longer)) = Len(s)
         /\ Last(longer) \in Keys
    BY <1>6, <2>8, <2>9, FrontAndLast
  <2>11. /\ Sorted(Front(longer)) /\ Last(longer) \notin ToSet(Front(longer))
         /\ ToSet(longer) = ToSet(Front(longer)) \cup {Last(longer)}
         /\ \A k \in ToSet(Front(longer)) : Less(k, Last(longer))
    BY <2>8, <2>9, FrontOfSorted
  <2>12. /\ new \in Scans /\ new.eligible = scan.eligible + 1 /\ new.replayed = scan.replayed
         /\ new.buffer = IF Len(s) < limit THEN longer ELSE Front(longer)
         /\ new.least = IF Len(s) < limit THEN scan.least
                        ELSE IF scan.least = NoKey \/ Less(Last(longer), scan.least)
                             THEN Last(longer) ELSE scan.least
    BY <1>6, <2>5, <2>6, <2>8, <2>10 DEF Scans
  <2>13. new.eligible = Cardinality(P) /\ new.replayed = (m + 1) - new.eligible
    BY <1>6, <2>3, <2>12
  <2>14. CASE Len(s) < limit
    <3>1. scan.eligible = Len(s) /\ held = K /\ scan.least = NoKey BY <1>7, <2>14
    <3>2. new.buffer = longer /\ new.least = NoKey BY <2>12, <2>14, <3>1
    <3>3. Len(longer) =< limit /\ ToSet(longer) = L /\ new.eligible = Len(longer)
      BY <1>6, <2>2, <2>8, <2>12, <2>14, <3>1
    <3> QED BY <2>8, <2>12, <2>13, <3>2, <3>3 DEF Scanned, P, L, new
  <2>15. CASE ~(Len(s) < limit)
    <3> DEFINE front == Front(longer)  last == Last(longer)  now == ToSet(front)
    <3>1. Len(s) = limit BY <1>6, <2>15
    <3>2. new.buffer = front /\ Len(front) = limit /\ limit < new.eligible
      BY <1>6, <1>7, <2>10, <2>12, <2>15, <3>1
    <3>3. now \cup {last} = held \cup {key} /\ last \notin now BY <2>8, <2>11
    <3>4. now \subseteq L /\ last \in L \ now BY <1>6, <2>2, <3>3
    <3>5. L \subseteq Keys BY <1>2, <1>3, <2>2
    <3> HIDE DEF front, last, now
    <3>6. \A h \in now : Less(h, last) BY <2>11 DEF front, last, now
    <3>7. \/ held = K /\ scan.least = NoKey
          \/ /\ scan.least \in K \ held /\ scan.least # NoKey
             /\ \A k \in K \ held : ~Less(k, scan.least) /\ \A h \in held : Less(h, k)
      BY <1>3, <1>7
    <3>8. L \ now = (K \ held) \cup {last}
      <4>1. K \cap {key} = {} BY <1>3
      <4>2. (L \ now) \subseteq (K \ held) \cup {last} BY <2>2, <3>3
      <4>3. \A k \in K \ held : k \in L \ now BY <2>2, <3>3, <4>1
      <4> QED BY <3>4, <4>2, <4>3
    <3>9. \A k \in K \ held, h \in now : Less(h, k)
      <4> SUFFICES ASSUME NEW k \in K \ held, NEW h \in now PROVE Less(h, k) OBVIOUS
      <4>1. \A g \in held : Less(g, k) BY <3>7
      <4>2. CASE h \in held BY <4>1, <4>2
      <4>3. CASE h \notin held
        <5>1. h = key /\ last # h BY <3>3, <4>3
        <5>2. last \in held BY <3>3, <5>1
        <5>3. Less(h, last) /\ Less(last, k) BY <3>6, <4>1, <5>2
        <5>4. h \in Keys /\ last \in Keys /\ k \in Keys BY <1>3, <3>4, <3>5
        <5> QED BY <5>3, <5>4, KeyOrder
      <4> QED BY <4>2, <4>3
    <3>10. \A k \in L \ now, h \in now : Less(h, k) BY <3>6, <3>8, <3>9
    <3>11. new.least = IF scan.least = NoKey \/ Less(last, scan.least) THEN last ELSE scan.least
      BY <2>12, <2>15 DEF last
    <3>12. new.least \in L \ now /\ \A k \in L \ now : ~Less(k, new.least)
      <4>1. CASE held = K /\ scan.least = NoKey
        <5>1. L \ now = {last} BY <3>8, <4>1
        <5> QED BY <3>5, <3>11, <4>1, <5>1, KeyOrder
      <4>2. CASE /\ scan.least \in K \ held /\ scan.least # NoKey
                 /\ \A k \in K \ held : ~Less(k, scan.least) /\ \A h \in held : Less(h, k)
        <5>1. last \in Keys /\ scan.least \in Keys /\ \A k \in K \ held : k \in Keys
          BY <1>3, <1>6, <3>4, <3>5
        <5>2. CASE Less(last, scan.least)
          <6>1. new.least = last BY <3>11, <5>2
          <6>2. \A k \in K \ held : ~Less(k, last) BY <4>2, <5>1, <5>2, KeyOrder
          <6> QED BY <3>8, <5>1, <6>1, <6>2, KeyOrder
        <5>3. CASE ~Less(last, scan.least)
          <6>1. new.least = scan.least BY <3>11, <4>2, <5>3
          <6> QED BY <3>8, <4>2, <5>3, <6>1
        <5> QED BY <5>2, <5>3
      <4> QED BY <3>7, <4>1, <4>2
    <3>13. Sorted(front) BY <2>11 DEF front
    <3>14. ToSet(new.buffer) = now /\ Sorted(new.buffer) /\ Len(new.buffer) = limit
      BY <3>2, <3>13 DEF now
    <3>15. Len(new.buffer) =< limit BY <1>6, <3>1, <3>14
    <3>16. \A k \in L \ now : ~Less(k, new.least) /\ \A h \in now : Less(h, k) BY <3>10, <3>12
    <3>17. new \in Scans /\ now \subseteq L /\ new.least \in L \ now /\ limit < new.eligible
      BY <2>12, <3>2, <3>4, <3>12
    <3> QED BY <2>13, <3>14, <3>15, <3>16, <3>17 DEF Scanned, P, L, new
  <2> QED BY <2>14, <2>15
<1> QED BY <1>8, <1>9

LEMMA CountsTyped ==
  ASSUME NEW s \in Scans
  PROVE  [s EXCEPT !.replayed = @ + 1] \in Scans /\ [s EXCEPT !.eligible = @ + 1] \in Scans
BY DEF Scans

LEMMA ScanExact ==
  ASSUME NEW b \in Batches, NEW raw \in Seq(Conclusions), NEW limit \in Nat \ {0}
  PROVE  Scanned(Scan(b, raw, limit), b, raw, limit, Len(raw))
<1> DEFINE n == Len(raw)
           empty == [buffer |-> <<>>, least |-> NoKey, replayed |-> 0, eligible |-> 0]
           IsScan(f) == f = [i \in 0 .. n |->
             IF i = 0 THEN [buffer |-> <<>>, least |-> NoKey, replayed |-> 0, eligible |-> 0]
             ELSE IF Replayed(b, KeyAt(raw, i)) THEN [f[i - 1] EXCEPT !.replayed = @ + 1]
             ELSE BufferInsert([f[i - 1] EXCEPT !.eligible = @ + 1], KeyAt(raw, i), limit)]
           scan == CHOOSE f : IsScan(f)
<1>1. n \in Nat /\ DOMAIN raw = 1 .. n OBVIOUS
<1>2. empty \in Scans
  <2>1. <<>> \in Seq(Keys) /\ NoKey \in Keys BY DEF NoKey, Keys
  <2> QED BY <2>1 DEF Scans
<1>3. ASSUME NEW s \in Scans, NEW i \in 1 .. n PROVE ScanStep(s, b, raw, limit, i) \in Scans
  <2>1. KeyAt(raw, i) \in Keys BY <1>1, KeysOfRaw
  <2>2. [s EXCEPT !.replayed = @ + 1] \in Scans BY CountsTyped
  <2>3. [s EXCEPT !.eligible = @ + 1] \in Scans BY CountsTyped
  <2>4. BufferInsert([s EXCEPT !.eligible = @ + 1], KeyAt(raw, i), limit) \in Scans
    BY <2>1, <2>3, BufferInsertTyped
  <2> QED BY <2>2, <2>4 DEF ScanStep
<1> DEFINE G == [p \in (1 .. n) \X Scans |-> ScanStep(p[2], b, raw, limit, p[1])]
<1>4. G \in [(1 .. n) \X Scans -> Scans] BY <1>3
<1>5. \E f : IsScan(f)
  <2> HIDE DEF n
  <2>1. PICK f \in [0 .. n -> Scans] : IsIteration(f, empty, G, n)
    <3> HIDE DEF G, empty
    <3> QED BY <1>1, <1>2, <1>4, IterationExists
  <2>2. ASSUME NEW i \in 0 .. n
        PROVE  f[i] = IF i = 0 THEN empty ELSE ScanStep(f[i - 1], b, raw, limit, i)
    <3> HIDE DEF empty
    <3>1. i # 0 => i \in 1 .. n /\ i - 1 \in 0 .. n BY <1>1
    <3>2. f[i] = IF i = 0 THEN empty ELSE G[<<i, f[i - 1]>>] BY <2>1 DEF IsIteration
    <3> QED BY <3>1, <3>2
  <2>3. IsScan(f) BY <2>1, <2>2 DEF ScanStep
  <2> QED BY <2>3
<1>6. IsScan(scan) BY <1>5
<1>7. Scan(b, raw, limit) = scan[n] BY DEF Scan
<1> HIDE DEF scan, n
<1>8. scan[0] = empty BY <1>1, <1>6
<1>9. ASSUME NEW i \in 1 .. n PROVE scan[i] = ScanStep(scan[i - 1], b, raw, limit, i)
  <2>1. i \in 0 .. n /\ i # 0 BY <1>1
  <2> QED BY <1>6, <2>1 DEF ScanStep
<1> DEFINE T == {i \in Nat : i =< n => Scanned(scan[i], b, raw, limit, i)}
<1>10. 0 \in T
  <2>1. Open(b, raw, 0) = {} /\ OpenKeys(b, raw, 0) = {} BY DEF Open, OpenKeys
  <2>2. Cardinality({}) = 0 BY FS_EmptySet
  <2>3. ToSet(<<>>) = {} /\ Sorted(<<>>) /\ Len(<<>>) = 0 BY DEF ToSet, Sorted
  <2>5. /\ empty.buffer = <<>> /\ empty.least = NoKey
        /\ empty.replayed = 0 /\ empty.eligible = 0
    OBVIOUS
  <2>6. 0 = 0 - 0 /\ 0 =< limit OBVIOUS
  <2> HIDE DEF empty
  <2>4. Scanned(empty, b, raw, limit, 0)
    BY <1>2, <2>1, <2>2, <2>3, <2>5, <2>6 DEF Scanned
  <2> QED BY <1>8, <2>4
<1>11. ASSUME NEW i \in Nat, i \in T PROVE i + 1 \in T
  <2> SUFFICES ASSUME i + 1 =< n PROVE Scanned(scan[i + 1], b, raw, limit, i + 1) OBVIOUS
  <2>1. i + 1 \in DOMAIN raw /\ i + 1 \in 1 .. n /\ (i + 1) - 1 = i /\ i =< n BY <1>1
  <2>2. Scanned(scan[i], b, raw, limit, i) BY <1>11, <2>1
  <2>3. scan[i + 1] = ScanStep(scan[i], b, raw, limit, i + 1) BY <1>9, <2>1
  <2> QED BY <2>1, <2>2, <2>3, ScanSteps
<1> HIDE DEF T
<1>12. n \in T BY <1>1, <1>10, <1>11, Induction
<1>13. Scanned(scan[n], b, raw, limit, n) BY <1>1, <1>12 DEF T
<1> QED BY <1>7, <1>13 DEF n

-----------------------------------------------------------------------------
(* A turn draws conclusions of its unit that were not drawn, and the       *)
(* descriptor knows exactly which ones were.                               *)

\* The cursor within a unit is at rest or in use.
Resting(b) == (b.done = 0 => b.hash = <<>>) /\ (b.promising => b.done # 0)

SameUnits(b, c) ==
  /\ c.given = b.given /\ c.cursor = b.cursor /\ c.limit = b.limit
  /\ c.epoch = b.epoch /\ c.rules = b.rules /\ c.probe = b.probe

DrawsFrom(b, raw, limit, did) ==
  /\ did.drawn \in Seq(Conclusions) /\ Len(did.drawn) =< limit
  /\ did.batch \in Batches /\ SameUnits(b, did.batch) /\ Resting(did.batch)
  /\ did.complete \in BOOLEAN
  /\ Drawn(b) \subseteq ToSet(raw)
  /\ ToSet(did.drawn) \subseteq ToSet(raw) \ Drawn(b)
  /\ did.complete => /\ ToSet(raw) = Drawn(b) \cup ToSet(did.drawn)
                     /\ did.batch.done = 0 /\ Drawn(did.batch) = {}
  /\ ~did.complete => Drawn(did.batch) = Drawn(b) \cup ToSet(did.drawn)

LEMMA MinOfTwo ==
  ASSUME NEW i \in Int, NEW j \in Int
  PROVE  Min({i, j}) = IF i =< j THEN i ELSE j
<1> DEFINE m == IF i =< j THEN i ELSE j
<1>1. m \in {i, j} /\ \A y \in {i, j} : m =< y OBVIOUS
<1>2. \A x \in {i, j} : (\A y \in {i, j} : x =< y) => x = m OBVIOUS
<1> HIDE DEF m
<1>3. Min({i, j}) = m BY <1>1, <1>2 DEF Min
<1> QED BY <1>3 DEF m

LEMMA SubSeqOf ==
  ASSUME NEW T, NEW s \in Seq(T), NEW i \in Nat \ {0}, NEW j \in Nat, j =< Len(s), i =< j + 1
  PROVE  /\ SubSeq(s, i, j) \in Seq(T) /\ Len(SubSeq(s, i, j)) = j + 1 - i
         /\ \A k \in 1 .. j + 1 - i : SubSeq(s, i, j)[k] = s[i + k - 1]
         /\ ToSet(SubSeq(s, i, j)) = {s[k] : k \in i .. j}
<1> DEFINE t == SubSeq(s, i, j)
<1>1. \A k \in i .. j : s[k] \in T OBVIOUS
<1>2. /\ t \in Seq(T) /\ Len(t) = IF i =< j THEN j - i + 1 ELSE 0
      /\ \A k \in 1 .. j - i + 1 : t[k] = s[i + k - 1]
  BY <1>1, SubSeqProperties
<1> HIDE DEF t
<1>3. Len(t) = j + 1 - i /\ j - i + 1 = j + 1 - i /\ DOMAIN t = 1 .. j + 1 - i BY <1>2
<1>4. ToSet(t) = {s[k] : k \in i .. j}
  <2>1. ASSUME NEW k \in 1 .. j + 1 - i PROVE i + k - 1 \in i .. j OBVIOUS
  <2>2. ASSUME NEW k \in i .. j PROVE s[k] \in ToSet(t)
    <3>1. k - i + 1 \in 1 .. j + 1 - i /\ i + (k - i + 1) - 1 = k OBVIOUS
    <3>2. t[k - i + 1] = s[k] BY <1>2, <1>3, <3>1
    <3> QED BY <1>3, <3>1, <3>2 DEF ToSet
  <2>3. \A k \in 1 .. j + 1 - i : t[k] = s[i + k - 1] BY <1>2, <1>3
  <2>4. ToSet(t) \subseteq {s[k] : k \in i .. j} BY <1>3, <2>1, <2>3 DEF ToSet
  <2> QED BY <2>2, <2>4
<1> QED BY <1>2, <1>3, <1>4 DEF t

LEMMA ResetTyped ==
  ASSUME NEW b \in Batches
  PROVE  /\ ResetConclusions(b) \in Batches /\ SameUnits(b, ResetConclusions(b))
         /\ Resting(ResetConclusions(b)) /\ ResetConclusions(b).done = 0
         /\ Drawn(ResetConclusions(b)) = {}
<1> DEFINE r == ResetConclusions(b)
<1>1. NoKey \in Keys /\ <<>> \in Seq(Conclusions) BY DEF NoKey, Keys
<1>2. r \in Batches /\ SameUnits(b, r) /\ r.done = 0 /\ r.hash = <<>> /\ r.promising = FALSE
  BY <1>1 DEF ResetConclusions, Batches, SameUnits
<1> HIDE DEF r
<1>3. Drawn(r) = {}
  <2>1. DOMAIN r.hash = {} BY <1>2
  <2> QED BY <2>1 DEF Drawn
<1>4. Resting(r) BY <1>2 DEF Resting
<1> QED BY <1>2, <1>3, <1>4 DEF r

LEMMA PrefixDraws ==
  ASSUME NEW b \in Batches, Resting(b), ~b.promising,
         NEW raw \in Seq(Conclusions), IsInjective(raw), NEW limit \in Nat \ {0},
         PrefixChunk(b, raw, limit).fatal = "none"
  PROVE  DrawsFrom(b, raw, limit, PrefixChunk(b, raw, limit))
<1> DEFINE n == Len(raw)  done == b.done
           upto == Min({b.done + limit, Len(raw)})
           did == PrefixChunk(b, raw, limit)
           drawn == SubSeq(raw, done + 1, upto)
           longer == [ResetConclusions(b) EXCEPT !.done = upto, !.hash = SubSeq(raw, 1, upto)]
<1>1. n \in Nat /\ done \in Nat /\ DOMAIN raw = 1 .. n BY DEF Batches
<1>2. upto = IF done + limit =< n THEN done + limit ELSE n BY <1>1, MinOfTwo
<1>3. done =< n /\ SubSeq(raw, 1, done) = b.hash
      /\ did = IF upto = n THEN Did(drawn, TRUE, ResetConclusions(b)) ELSE Did(drawn, FALSE, longer)
  <2>1. ~(Len(raw) < done \/ SubSeq(raw, 1, done) # b.hash)
    <3>1. Failed("replay", b).fatal = "replay" BY DEF Failed
    <3>2. ASSUME Len(raw) < done \/ SubSeq(raw, 1, done) # b.hash
          PROVE  did = Failed("replay", b)
      BY <3>2 DEF PrefixChunk
    <3> HIDE DEF did
    <3>3. did.fatal = "none" BY DEF did
    <3> QED BY <3>1, <3>2, <3>3
  <2>2. did = IF upto = n THEN Did(drawn, TRUE, ResetConclusions(b)) ELSE Did(drawn, FALSE, longer)
    BY <2>1 DEF PrefixChunk
  <2> QED BY <1>1, <2>1, <2>2
<1> HIDE DEF did, upto, n
<1>4. upto \in Nat /\ done =< upto /\ upto =< n /\ upto =< done + limit
      /\ (upto # n => upto = done + limit)
  BY <1>1, <1>2, <1>3
<1>5. drawn \in Seq(Conclusions) /\ Len(drawn) = upto - done
      /\ ToSet(drawn) = {raw[k] : k \in done + 1 .. upto}
  <2> DEFINE i == done + 1
  <2>1. upto + 1 - i = upto - done /\ i \in Nat \ {0} /\ i =< upto + 1 /\ upto =< Len(raw)
    <3>1. upto =< Len(raw) BY <1>4 DEF n
    <3>2. done \in Nat /\ upto \in Nat /\ done =< upto BY <1>1, <1>4
    <3> HIDE DEF done
    <3> QED BY <3>1, <3>2
  <2> HIDE DEF i
  <2>2. /\ SubSeq(raw, i, upto) \in Seq(Conclusions) /\ Len(SubSeq(raw, i, upto)) = upto + 1 - i
        /\ ToSet(SubSeq(raw, i, upto)) = {raw[k] : k \in i .. upto}
    <3>1. upto \in Nat /\ raw \in Seq(Conclusions) BY <1>4
    <3> QED BY <2>1, <3>1, SubSeqOf
  <2> QED BY <2>1, <2>2 DEF i
<1>6. Drawn(b) = {raw[k] : k \in 1 .. done}
  <2>1. Len(b.hash) = done /\ \A k \in 1 .. done : b.hash[k] = raw[k]
    <3>1. done + 1 - 1 = done /\ \A k \in 1 .. done : 1 + k - 1 = k BY <1>1
    <3> QED BY <1>1, <1>3, <3>1, SubSeqOf DEF n
  <2>2. b.hash \in Seq(Conclusions) BY DEF Batches
  <2>3. DOMAIN b.hash = 1 .. done BY <2>1, <2>2
  <2>4. {k \in DOMAIN b.hash : k =< done} = 1 .. done BY <1>1, <2>3
  <2> QED BY <2>1, <2>4 DEF Drawn
<1>7. ToSet(raw) = {raw[k] : k \in 1 .. n} BY <1>1 DEF ToSet
<1>8. Drawn(b) \subseteq ToSet(raw) BY <1>1, <1>3, <1>6, <1>7
<1>9. ToSet(drawn) \subseteq ToSet(raw) \ Drawn(b)
  <2> SUFFICES ASSUME NEW k \in done + 1 .. upto PROVE raw[k] \in ToSet(raw) \ Drawn(b)
    BY <1>5
  <2>1. k \in 1 .. n BY <1>1, <1>4
  <2>2. \A l \in 1 .. done : l \in 1 .. n /\ l # k BY <1>1, <1>3
  <2>3. \A l \in 1 .. done : raw[l] # raw[k] BY <1>1, <2>1, <2>2 DEF IsInjective
  <2> QED BY <1>6, <1>7, <2>1, <2>3
<1>10. \A m \in 0 .. n : m >= done => 1 .. m = (1 .. done) \cup (done + 1 .. m)
  BY <1>1
<1>11. {raw[k] : k \in 1 .. upto} = Drawn(b) \cup ToSet(drawn)
  <2>1. 1 .. upto = (1 .. done) \cup (done + 1 .. upto) BY <1>1, <1>4, <1>10
  <2> QED BY <1>5, <1>6, <2>1
<1>12. Len(drawn) =< limit BY <1>1, <1>4, <1>5
<1> HIDE DEF drawn
<1>13. CASE upto = n
  <2>1. did.drawn = drawn /\ did.complete = TRUE /\ did.batch = ResetConclusions(b)
    BY <1>3, <1>13 DEF Did
  <2>2. ToSet(raw) = Drawn(b) \cup ToSet(drawn) BY <1>7, <1>11, <1>13
  <2> QED BY <1>5, <1>8, <1>9, <1>12, <2>1, <2>2, ResetTyped DEF DrawsFrom, did
<1>14. CASE upto # n
  <2>1. did.drawn = drawn /\ did.complete = FALSE /\ did.batch = longer
    BY <1>3, <1>14 DEF Did
  <2>2. /\ SubSeq(raw, 1, upto) \in Seq(Conclusions) /\ Len(SubSeq(raw, 1, upto)) = upto
        /\ \A k \in 1 .. upto : SubSeq(raw, 1, upto)[k] = raw[k]
    <3>1. upto + 1 - 1 = upto /\ \A k \in 1 .. upto : 1 + k - 1 = k BY <1>4
    <3> QED BY <1>1, <1>4, <3>1, SubSeqOf DEF n
  <2>3. /\ longer \in Batches /\ SameUnits(b, longer) /\ longer.done = upto
        /\ longer.hash = SubSeq(raw, 1, upto) /\ longer.promising = FALSE
    <3>1. ResetConclusions(b) \in Batches /\ SameUnits(b, ResetConclusions(b))
          /\ ResetConclusions(b).promising = FALSE
      BY ResetTyped DEF ResetConclusions, Batches
    <3> HIDE DEF upto
    <3> QED BY <1>4, <2>2, <3>1 DEF Batches, SameUnits
  <2> HIDE DEF longer
  <2>4. upto # 0 BY <1>1, <1>4, <1>14
  <2>5. Resting(longer) BY <2>3, <2>4 DEF Resting
  <2>6. Drawn(longer) = {raw[k] : k \in 1 .. upto}
    <3>1. DOMAIN longer.hash = 1 .. upto BY <2>2, <2>3
    <3>2. {k \in DOMAIN longer.hash : k =< upto} = 1 .. upto BY <1>4, <3>1
    <3> QED BY <2>2, <2>3, <3>2 DEF Drawn
  <2>7. Drawn(longer) = Drawn(b) \cup ToSet(drawn) BY <1>11, <2>6
  <2> QED BY <1>5, <1>8, <1>9, <1>12, <2>1, <2>3, <2>5, <2>7 DEF DrawsFrom, did
<1> QED BY <1>13, <1>14

LEMMA PromisingDraws ==
  ASSUME NEW b \in Batches, Resting(b), b.done # 0 => b.promising,
         NEW raw \in Seq(Conclusions), IsInjective(raw), NEW limit \in Nat \ {0},
         PromisingChunk(b, raw, limit).fatal = "none"
  PROVE  DrawsFrom(b, raw, limit, PromisingChunk(b, raw, limit))
<1> DEFINE n == Len(raw)
           scan == Scan(b, raw, limit)
           s == scan.buffer  held == ToSet(s)
           K == OpenKeys(b, raw, n)
           drawn == [i \in DOMAIN s |-> raw[s[i][2]]]
           longer == [b EXCEPT !.promising = TRUE, !.done = @ + Len(drawn), !.hash = raw,
                               !.at = Last(s), !.next = scan.least]
           did == PromisingChunk(b, raw, limit)
<1>1. n \in Nat /\ DOMAIN raw = 1 .. n /\ \A i \in 1 .. n : raw[i] \in Conclusions OBVIOUS
<1>2. Scanned(scan, b, raw, limit, n) BY ScanExact
<1>3. /\ ~((b.done # 0 /\ raw # b.hash) \/ scan.replayed # b.done)
      /\ did = IF scan.eligible = Len(drawn) THEN Did(drawn, TRUE, ResetConclusions(b))
               ELSE Did(drawn, FALSE, longer)
  <2>1. ~((b.done # 0 /\ raw # b.hash) \/ scan.replayed # b.done)
    <3>1. Failed("replay", b).fatal = "replay" BY DEF Failed
    <3>2. ASSUME (b.done # 0 /\ raw # b.hash) \/ scan.replayed # b.done
          PROVE  did = Failed("replay", b)
      BY <3>2 DEF PromisingChunk
    <3> HIDE DEF did
    <3>3. did.fatal = "none" BY DEF did
    <3> QED BY <3>1, <3>2, <3>3
  <2>2. did = IF scan.eligible = Len(drawn) THEN Did(drawn, TRUE, ResetConclusions(b))
              ELSE Did(drawn, FALSE, longer)
    BY <2>1 DEF PromisingChunk
  <2> QED BY <2>1, <2>2
<1> HIDE DEF did, scan, n
<1>4. /\ scan \in Scans /\ Sorted(s) /\ Len(s) =< limit /\ held \subseteq K
      /\ \/ scan.eligible = Len(s) /\ held = K
         \/ /\ Len(s) = limit /\ limit < scan.eligible /\ scan.least \in K \ held
            /\ \A k \in K \ held : ~Less(k, scan.least) /\ \A h \in held : Less(h, k)
  BY <1>2 DEF Scanned
<1>5. s \in Seq(Keys) /\ Len(s) \in Nat /\ DOMAIN s = 1 .. Len(s)
      /\ scan.least \in Keys /\ scan.eligible \in Nat
  BY <1>4 DEF Scans
<1> DEFINE key(i) == KeyAt(raw, i)  open(i) == ~Replayed(b, KeyAt(raw, i))
<1>6. \A i \in 1 .. n : key(i) \in Keys /\ key(i)[2] = i BY <1>1, KeysOfRaw
<1>7. K = {key(i) : i \in {i \in 1 .. n : open(i)}} BY DEF OpenKeys, Open
<1>8. \A i \in 1 .. n : key(i) \in K <=> open(i)
  <2> SUFFICES ASSUME NEW i \in 1 .. n, key(i) \in K PROVE open(i) BY <1>7
  <2>1. PICK j \in 1 .. n : open(j) /\ key(i) = key(j) BY <1>7
  <2>2. i = j BY <1>6, <2>1
  <2> QED BY <2>1, <2>2
<1> HIDE DEF K, held, s
<1>9. ASSUME NEW i \in 1 .. Len(s)
      PROVE  /\ s[i][2] \in 1 .. n /\ open(s[i][2]) /\ s[i] = key(s[i][2])
             /\ drawn[i] = raw[s[i][2]] /\ s[i] \in held
  <2>1. s[i] \in held BY <1>5 DEF held, ToSet
  <2>2. PICK j \in 1 .. n : open(j) /\ s[i] = key(j) BY <1>4, <1>7, <2>1
  <2>3. s[i][2] = j BY <1>6, <2>2
  <2> QED BY <1>5, <2>1, <2>2, <2>3
<1>10. drawn \in Seq(Conclusions) /\ Len(drawn) = Len(s)
  <2>1. drawn \in [1 .. Len(s) -> Conclusions] BY <1>1, <1>5, <1>9
  <2> QED BY <1>5, <2>1
<1>11. ToSet(drawn) = {raw[i] : i \in {i \in 1 .. n : key(i) \in held}}
  <2>1. DOMAIN drawn = 1 .. Len(s) BY <1>5
  <2>2. ASSUME NEW i \in 1 .. n, key(i) \in held PROVE raw[i] \in ToSet(drawn)
    <3>1. PICK j \in 1 .. Len(s) : s[j] = key(i) BY <1>5, <2>2 DEF held, ToSet
    <3>2. drawn[j] = raw[i] BY <1>6, <1>9, <3>1
    <3> QED BY <2>1, <3>2 DEF ToSet
  <2>3. ASSUME NEW j \in 1 .. Len(s)
        PROVE  drawn[j] \in {raw[i] : i \in {i \in 1 .. n : key(i) \in held}}
    <3> DEFINE i == s[j][2]
    <3>1. i \in 1 .. n /\ key(i) \in held /\ drawn[j] = raw[i] BY <1>9
    <3> QED BY <3>1
  <2> HIDE DEF drawn
  <2> QED BY <2>1, <2>2, <2>3 DEF ToSet
<1>12. Drawn(b) = {raw[i] : i \in {i \in 1 .. n : ~open(i)}}
  <2>1. CASE b.done = 0
    <3>1. ~b.promising /\ DOMAIN b.hash = {} BY <2>1 DEF Resting
    <3>2. Drawn(b) = {} BY <3>1 DEF Drawn
    <3>3. \A i \in 1 .. n : open(i) BY <2>1 DEF Replayed
    <3> QED BY <3>2, <3>3
  <2>2. CASE b.done # 0
    <3>1. b.promising /\ b.hash = raw BY <1>3, <2>2
    <3>2. \A i \in 1 .. n : open(i) <=> Less(b.at, key(i)) BY <2>2 DEF Replayed
    <3>3. {i \in 1 .. n : ~Less(b.at, key(i))} = {i \in 1 .. n : ~open(i)} BY <3>2
    <3>4. Drawn(b) = {raw[i] : i \in {i \in 1 .. n : ~Less(b.at, key(i))}}
      BY <1>1, <3>1 DEF Drawn
    <3> QED BY <3>3, <3>4
  <2> QED BY <2>1, <2>2
<1> HIDE DEF drawn
<1>13. ToSet(raw) = {raw[i] : i \in 1 .. n} BY <1>1 DEF ToSet
<1>14. Drawn(b) \subseteq ToSet(raw) BY <1>12, <1>13
<1>15. ToSet(drawn) \subseteq ToSet(raw) \ Drawn(b)
  <2> SUFFICES ASSUME NEW i \in 1 .. n, key(i) \in held PROVE raw[i] \in ToSet(raw) \ Drawn(b)
    BY <1>11
  <2>1. open(i) BY <1>4, <1>8
  <2>2. \A j \in 1 .. n : raw[j] = raw[i] => j = i BY <1>1 DEF IsInjective
  <2> QED BY <1>12, <1>13, <2>1, <2>2
<1>16. Len(drawn) =< limit BY <1>4, <1>10
<1>17. CASE scan.eligible = Len(drawn)
  <2>1. did.drawn = drawn /\ did.complete = TRUE /\ did.batch = ResetConclusions(b)
    BY <1>3, <1>17 DEF Did
  <2>2. held = K
    <3>1. ~(Len(s) = limit /\ limit < scan.eligible)
      <4>1. scan.eligible = Len(s) BY <1>10, <1>17
      <4>2. scan.eligible \in Nat BY <1>5
      <4> QED BY <4>1, <4>2
    <3> QED BY <1>4, <3>1
  <2>3. \A i \in 1 .. n : open(i) => key(i) \in held BY <1>8, <2>2
  <2>4. ToSet(raw) = Drawn(b) \cup ToSet(drawn) BY <1>11, <1>12, <1>13, <1>14, <1>15, <2>3
  <2> QED BY <1>10, <1>14, <1>15, <1>16, <2>1, <2>4, ResetTyped DEF DrawsFrom, did
<1>18. CASE scan.eligible # Len(drawn)
  <2>1. did.drawn = drawn /\ did.complete = FALSE /\ did.batch = longer
    BY <1>3, <1>18 DEF Did
  <2>2. /\ Len(s) = limit
        /\ \A k \in K \ held : \A h \in held : Less(h, k)
    BY <1>4, <1>10, <1>18
  <2>3. Len(s) \in DOMAIN s /\ Last(s) = s[Len(s)] /\ Last(s) \in Keys /\ Last(s) \in held
    <3>1. Len(s) \in 1 .. Len(s) BY <1>5, <2>2
    <3> QED BY <1>5, <1>9, <3>1 DEF Last
  <2> DEFINE last == Last(s)
  <2>4. /\ longer \in Batches /\ SameUnits(b, longer) /\ longer.done # 0
        /\ longer.hash = raw /\ longer.promising = TRUE /\ longer.at = last
    <3>1. b.done + Len(drawn) \in Nat /\ b.done + Len(drawn) # 0
      BY <1>5, <1>10, <2>2 DEF Batches
    <3> QED BY <1>5, <2>3, <3>1 DEF Batches, SameUnits
  <2> HIDE DEF longer
  <2>5. Resting(longer) BY <2>4 DEF Resting
  <2>6. Drawn(longer) = {raw[i] : i \in {i \in 1 .. n : ~Less(last, key(i))}}
    BY <1>1, <2>4 DEF Drawn
  <2>7. \A h \in held : h \in Keys /\ ~Less(last, h)
    <3> SUFFICES ASSUME NEW i \in 1 .. Len(s) PROVE s[i] \in Keys /\ ~Less(last, s[i])
      BY <1>5 DEF held, ToSet
    <3>1. s[i] \in Keys BY <1>5
    <3>2. i = Len(s) \/ i < Len(s)
      <4>1. Len(s) \in Nat BY <1>5
      <4> QED BY <4>1
    <3>3. i < Len(s) => Less(s[i], last) BY <1>4, <1>5, <2>3 DEF Sorted
    <3> QED BY <2>3, <3>1, <3>2, <3>3, KeyOrder
  <2>8. ASSUME NEW i \in 1 .. n PROVE ~Less(last, key(i)) <=> ~open(i) \/ key(i) \in held
    <3>1. CASE ~open(i)
      <4>1. b.done # 0 /\ ~Less(b.at, key(i)) /\ b.at \in Keys BY <3>1 DEF Replayed, Batches
      <4>2. \A j \in 1 .. n : open(j) => Less(b.at, key(j)) BY <4>1 DEF Replayed
      <4>3. Less(b.at, last)
        <5>1. PICK j \in 1 .. n : open(j) /\ last = key(j) BY <1>4, <1>7, <2>3
        <5> QED BY <4>2, <5>1
      <4>4. key(i) \in Keys BY <1>6
      <4> HIDE DEF key, open, last
      <4>5. ~Less(last, key(i)) BY <2>3, <4>1, <4>3, <4>4, KeyOrder DEF last
      <4> QED BY <3>1, <4>5
    <3>2. CASE open(i) /\ key(i) \in held BY <2>7, <3>2
    <3>3. CASE open(i) /\ key(i) \notin held
      <4>1. key(i) \in K \ held BY <1>8, <3>3
      <4> QED BY <2>2, <2>3, <3>3, <4>1
    <3> QED BY <3>1, <3>2, <3>3
  <2>9. Drawn(longer) = Drawn(b) \cup ToSet(drawn)
    <3> HIDE DEF key, open, last
    <3>1. {i \in 1 .. n : ~Less(last, key(i))}
          = {i \in 1 .. n : ~open(i)} \cup {i \in 1 .. n : key(i) \in held}
      BY <1>4, <1>8, <2>8
    <3> QED BY <1>11, <1>12, <2>6, <3>1
  <2> QED BY <1>10, <1>14, <1>15, <1>16, <2>1, <2>4, <2>5, <2>9 DEF DrawsFrom, did
<1> QED BY <1>17, <1>18

-----------------------------------------------------------------------------
(* The invariant.                                                          *)

Entries == [id : Ids, clashable : BOOLEAN, epoch : Nat]

Typed ==
  /\ search \in Searches
  /\ epoch \in Nat /\ next \in Nat /\ unselected \in Nat
  /\ usable \subseteq Ids
  /\ history \in Seq(Entries)
  /\ deactivated \in [Ids -> Nat]
  /\ passive \subseteq [id : Ids, epoch : Nat] /\ IsFiniteSet(passive)
  /\ queue \in Seq(Batches)

\* The clauses of the history that did not go.
Active(log, gone) == {log[i].id : i \in {i \in DOMAIN log : gone[log[i].id] = 0}}

Deactivations ==
  \A id \in Ids : /\ deactivated[id] =< epoch
                  /\ deactivated[id] # 0 => \E i \in DOMAIN history : history[i].id = id

\* The history: each clause was activated once, the initial ones first, and the active
\* clauses are those that did not go.
Recorded ==
  /\ search.usable =< Len(history)
  /\ \A i \in 1 .. search.usable : history[i].id = i
  /\ \A i \in DOMAIN history :
       /\ history[i].id < next /\ history[i].epoch =< epoch
       /\ i > search.usable => history[i].id > search.usable
       /\ history[i].clashable <=> /\ search.rules \cap Hyper # {}
                                   /\ i > search.usable => ~Denial(history[i].id)
  /\ \A i, j \in DOMAIN history : history[i].id = history[j].id => i = j
  /\ usable = Active(history, deactivated)
  /\ Deactivations

\* A clause that waits was not active yet.
Fresh ==
  /\ search.usable < next
  /\ \A c \in passive :
       /\ c.id < next /\ c.id > search.usable
       /\ \A i \in DOMAIN history : history[i].id # c.id
  /\ \A c, d \in passive : c.id = d.id => c = d

\* A descriptor is of the activation of its given clause, has something to do, and knows
\* how far it is.
ReadyIn(se, e, log, b) ==
  /\ b.epoch =< e
  /\ b.limit > se.usable /\ b.limit =< Len(log) /\ log[b.limit].id = b.given
  /\ b.cursor =< b.limit
  /\ b.rules \subseteq se.rules
  /\ HyperPending(b) \/ ParaPending(b)
  /\ Resting(b)
Ready(b) == ReadyIn(search, epoch, history, b)

Queued == Distinct(queue) /\ \A b \in ToSet(queue) : Ready(b)

IInv == Typed /\ Recorded /\ Fresh /\ Queued /\ heap \in HeapOf(queue)

-----------------------------------------------------------------------------
(* What a descriptor stands for, as a function of the search and of the    *)
(* history.                                                                *)

RawIn(se, rule, g, p) ==
  LET weights == se.raw[rule][1 + ((g + p) % 2)]
  IN  [n \in DOMAIN weights |->
         [rule |-> rule, given |-> g, partner |-> p, n |-> n, weight |-> weights[n]]]

ActiveIn(gone, id, e) == gone[id] = 0 \/ gone[id] > e
HyperPlaces(log, gone, e) ==
  {i \in DOMAIN log : log[i].clashable /\ log[i].epoch =< e /\ ActiveIn(gone, log[i].id, e)}
ParaPlaces(se, log, gone, b) ==
  {i \in b.cursor + 1 .. b.limit :
     ActiveIn(gone, log[i].id, b.epoch) /\ log[i].id \notin se.denials}

With(se, log, g, rule, places) ==
  UNION {ToSet(RawIn(se, rule, g, log[i].id)) : i \in places}
HyperOwes(se, log, gone, b) ==
  UNION {With(se, log, b.given, r, HyperPlaces(log, gone, b.epoch)) : r \in b.rules \cap Hyper}
ParaOwes(se, log, gone, b) ==
  IF "para" \in b.rules THEN With(se, log, b.given, "para", ParaPlaces(se, log, gone, b)) ELSE {}
Owes(se, log, gone, b) == HyperOwes(se, log, gone, b) \cup ParaOwes(se, log, gone, b)

LEMMA RawTyped ==
  ASSUME NEW se \in Searches, NEW r \in Rules, NEW g \in Ids, NEW p \in Ids
  PROVE  /\ RawIn(se, r, g, p) \in Seq(Conclusions)
         /\ IsInjective(RawIn(se, r, g, p))
         /\ \A c \in ToSet(RawIn(se, r, g, p)) :
              c \in Conclusions /\ c.rule = r /\ c.given = g /\ c.partner = p
<1> DEFINE w == se.raw[r][1 + ((g + p) % 2)]
           raw == RawIn(se, r, g, p)
<1>1. w \in Seq(Nat)
  <2>1. g \in Nat /\ p \in Nat BY SearchesAssumption DEF Ids
  <2>2. 1 + ((g + p) % 2) \in 1 .. 2 BY <2>1
  <2> QED BY <2>2, SearchesAssumption
<1> HIDE DEF w
<1>2. raw = [n \in DOMAIN w |-> [rule |-> r, given |-> g, partner |-> p, n |-> n, weight |-> w[n]]]
  BY DEF RawIn, w
<1> HIDE DEF raw
<1>3. DOMAIN w = 1 .. Len(w) /\ Len(w) \in Nat /\ \A n \in 1 .. Len(w) : w[n] \in Nat /\ n \in Nat
  BY <1>1
<1>4. DOMAIN raw = 1 .. Len(w) /\ \A n \in 1 .. Len(w) :
        raw[n] = [rule |-> r, given |-> g, partner |-> p, n |-> n, weight |-> w[n]]
  BY <1>2, <1>3
<1>5. \A n \in 1 .. Len(w) :
        /\ raw[n] \in Conclusions /\ raw[n].n = n
        /\ raw[n].rule = r /\ raw[n].given = g /\ raw[n].partner = p
  BY <1>3, <1>4 DEF Conclusions
<1>6. raw \in Seq(Conclusions)
  <2>1. raw \in [1 .. Len(w) -> Conclusions] BY <1>2, <1>3, <1>5
  <2> QED BY <1>3, <2>1
<1>7. IsInjective(raw) BY <1>4, <1>5 DEF IsInjective
<1> QED BY <1>4, <1>5, <1>6, <1>7 DEF ToSet, raw

LEMMA HyperUnitIs ==
  ASSUME Typed, \A i, j \in DOMAIN history : history[i].id = history[j].id => i = j,
         NEW b \in Batches, NEW rule \in Rules
  PROVE  LET u == HyperUnit(b, rule) IN
         /\ u \in Seq(Conclusions) /\ IsInjective(u)
         /\ ToSet(u) = With(search, history, b.given, rule,
                            HyperPlaces(history, deactivated, b.epoch))
<1> DEFINE raw(i) == RawIn(search, rule, b.given, history[i].id)
           P == HyperPlaces(history, deactivated, b.epoch)
           ss == [i \in DOMAIN history |-> IF i \in P THEN raw(i) ELSE <<>>]
           n == Len(history)
<1>1. n \in Nat /\ DOMAIN history = 1 .. n /\ \A i \in 1 .. n : history[i] \in Entries
  BY DEF Typed
<1>2. \A i \in 1 .. n : history[i].id \in Ids BY <1>1 DEF Entries
<1>3. b.given \in Ids BY DEF Batches
<1>4. \A i \in 1 .. n : /\ raw(i) \in Seq(Conclusions) /\ IsInjective(raw(i))
                        /\ \A c \in ToSet(raw(i)) : c.partner = history[i].id
  BY <1>2, <1>3, RawTyped DEF Typed
<1>5. HyperUnit(b, rule) = FlattenSeq(ss)
  <2>1. \A i \in DOMAIN history : i \in P <=> Accepted(history[i], b.epoch)
    BY DEF HyperPlaces, Accepted, StillActive, ActiveIn
  <2>2. \A i \in DOMAIN history : raw(i) = RawOf(rule, b.given, history[i].id)
    BY DEF RawIn, RawOf
  <2> HIDE DEF P, raw
  <2>3. ss = [i \in DOMAIN history |->
                IF Accepted(history[i], b.epoch) THEN RawOf(rule, b.given, history[i].id) ELSE <<>>]
    BY <2>1, <2>2
  <2> QED BY <2>3 DEF HyperUnit
<1> HIDE DEF raw, P, n
<1>6. <<>> \in Seq(Conclusions) /\ IsInjective(<<>>) /\ ToSet(<<>>) = {}
  BY DEF IsInjective, ToSet
<1>7. DOMAIN ss = 1 .. n /\ \A i \in 1 .. n : ss[i] = IF i \in P THEN raw(i) ELSE <<>>
  BY <1>1
<1>8. ss \in Seq(Seq(Conclusions))
  <2>1. ss \in [1 .. n -> Seq(Conclusions)] BY <1>1, <1>4, <1>6
  <2> QED BY <1>1, <2>1
<1> HIDE DEF ss
<1>9. \A i \in DOMAIN ss : IsInjective(ss[i]) BY <1>4, <1>6, <1>7
<1>10. ASSUME NEW i \in DOMAIN ss, NEW j \in DOMAIN ss, i # j
       PROVE  ToSet(ss[i]) \cap ToSet(ss[j]) = {}
  <2>1. history[i].id # history[j].id BY <1>1, <1>7, <1>10
  <2>2. \A c \in ToSet(ss[i]) : c.partner = history[i].id BY <1>4, <1>6, <1>7
  <2>3. \A c \in ToSet(ss[j]) : c.partner = history[j].id BY <1>4, <1>6, <1>7
  <2> QED BY <2>1, <2>2, <2>3
<1>11. /\ FlattenSeq(ss) \in Seq(Conclusions) /\ IsInjective(FlattenSeq(ss))
       /\ ToSet(FlattenSeq(ss)) = UNION {ToSet(ss[i]) : i \in DOMAIN ss}
  BY <1>8, <1>9, <1>10, Flattened
<1>12. UNION {ToSet(ss[i]) : i \in DOMAIN ss} = UNION {ToSet(raw(i)) : i \in P}
  <2>1. P \subseteq 1 .. n BY <1>1 DEF P, HyperPlaces
  <2>2. \A i \in DOMAIN ss : ToSet(ss[i]) = IF i \in P THEN ToSet(raw(i)) ELSE {}
    BY <1>6, <1>7
  <2> QED BY <1>7, <2>1, <2>2
<1> QED BY <1>5, <1>11, <1>12 DEF With, raw, P

LEMMA UnitsOfBoth ==
  ASSUME NEW H, NEW P
  PROVE  UNION {ToSet(u) : u \in H \cup P}
         = (UNION {ToSet(u) : u \in H}) \cup (UNION {ToSet(u) : u \in P})
<1> DEFINE B == UNION {ToSet(u) : u \in H \cup P}
           h == UNION {ToSet(u) : u \in H}
           p == UNION {ToSet(u) : u \in P}
<1>1. h \subseteq B /\ p \subseteq B OBVIOUS
<1>2. \A u \in H \cup P : ToSet(u) \subseteq h \cup p OBVIOUS
<1>3. B \subseteq h \cup p BY <1>2
<1> HIDE DEF B, h, p
<1>4. B = h \cup p BY <1>1, <1>3
<1> QED BY <1>4 DEF B, h, p

LEMMA PendingIs ==
  ASSUME Typed, Recorded, NEW b \in Batches
  PROVE  Pending(b) = Owes(search, history, deactivated, b) \ Drawn(b)
<1> DEFINE partners == {i \in b.cursor + 1 .. b.limit :
                          StillActive(history[i].id, b.epoch) /\ ~Denial(history[i].id)}
           H == {HyperUnit(b, r) : r \in b.rules \cap Hyper}
           P == IF "para" \in b.rules
                THEN {RawOf("para", b.given, history[i].id) : i \in partners} ELSE {}
           hyper == HyperOwes(search, history, deactivated, b)
           para == ParaOwes(search, history, deactivated, b)
<1>1. \A i, j \in DOMAIN history : history[i].id = history[j].id => i = j BY DEF Recorded
<1>2. UNION {ToSet(u) : u \in H} = hyper
  <2>1. \A r \in b.rules \cap Hyper :
          ToSet(HyperUnit(b, r)) = With(search, history, b.given, r,
                                        HyperPlaces(history, deactivated, b.epoch))
    BY <1>1, HyperUnitIs DEF Rules
  <2> QED BY <2>1 DEF HyperOwes
<1>3. UNION {ToSet(u) : u \in P} = para
  <2>1. partners = ParaPlaces(search, history, deactivated, b)
    BY DEF ParaPlaces, ActiveIn, StillActive, Denial
  <2>2. \A i : RawOf("para", b.given, history[i].id) = RawIn(search, "para", b.given, history[i].id)
    BY DEF RawOf, RawIn
  <2> HIDE DEF partners
  <2>3. CASE "para" \in b.rules
    <3>1. UNION {ToSet(u) : u \in P}
          = UNION {ToSet(RawOf("para", b.given, history[i].id)) : i \in partners}
      BY <2>3
    <3> QED BY <2>1, <2>2, <2>3, <3>1 DEF With, ParaOwes
  <2>4. CASE "para" \notin b.rules BY <2>4 DEF ParaOwes
  <2> QED BY <2>3, <2>4
<1>4. Pending(b) = (UNION {ToSet(u) : u \in H \cup P}) \ Drawn(b) BY DEF Pending
<1>5. Owes(search, history, deactivated, b) = hyper \cup para BY DEF Owes
<1> HIDE DEF H, P, hyper, para
<1>6. UNION {ToSet(u) : u \in H \cup P} = hyper \cup para BY <1>2, <1>3, UnitsOfBoth
<1> QED BY <1>4, <1>5, <1>6

\* What descriptors stand for is of their given clauses.
LEMMA OwesOfGiven ==
  ASSUME NEW se \in Searches, NEW log \in Seq(Entries), NEW gone, NEW b \in Batches,
         b.limit =< Len(log)
  PROVE  \A c \in Owes(se, log, gone, b) : c.given = b.given
<1>1. b.given \in Ids /\ b.cursor \in Nat /\ b.limit \in Nat BY DEF Batches
<1>2. \A i \in DOMAIN log : log[i].id \in Ids
  <2>1. \A i \in DOMAIN log : log[i] \in Entries OBVIOUS
  <2> QED BY <2>1 DEF Entries
<1>3. HyperPlaces(log, gone, b.epoch) \subseteq DOMAIN log BY DEF HyperPlaces
<1>4. ParaPlaces(se, log, gone, b) \subseteq DOMAIN log
  <2>1. DOMAIN log = 1 .. Len(log) /\ Len(log) \in Nat OBVIOUS
  <2> QED BY <1>1, <2>1 DEF ParaPlaces
<1>5. ASSUME NEW r \in Rules, NEW P \in SUBSET (DOMAIN log), NEW c \in With(se, log, b.given, r, P)
      PROVE  c.given = b.given
  <2>1. PICK i \in P : c \in ToSet(RawIn(se, r, b.given, log[i].id)) BY <1>5 DEF With
  <2> QED BY <1>1, <1>2, <2>1, RawTyped
<1>6. "para" \in Rules /\ Hyper \subseteq Rules BY DEF Rules
<1>7. \A c \in HyperOwes(se, log, gone, b) : c.given = b.given
  BY <1>3, <1>5, <1>6 DEF HyperOwes
<1>8. \A c \in ParaOwes(se, log, gone, b) : c.given = b.given
  BY <1>4, <1>5, <1>6 DEF ParaOwes
<1> QED BY <1>7, <1>8 DEF Owes


\* It depends on the units that are left.
LEMMA OwesSame ==
  ASSUME NEW se, NEW log, NEW gone, NEW b, NEW c,
         c.given = b.given, c.cursor = b.cursor, c.limit = b.limit, c.epoch = b.epoch,
         c.rules = b.rules
  PROVE  Owes(se, log, gone, c) = Owes(se, log, gone, b)
<1>1. ParaPlaces(se, log, gone, c) = ParaPlaces(se, log, gone, b) BY DEF ParaPlaces
<1> QED BY <1>1 DEF Owes, HyperOwes, ParaOwes

LEMMA NothingOwed ==
  ASSUME NEW se, NEW log, NEW gone, NEW b \in Batches, ~HyperPending(b), ~ParaPending(b)
  PROVE  Owes(se, log, gone, b) = {}
<1>1. HyperOwes(se, log, gone, b) = {} BY DEF HyperOwes, HyperPending
<1>2. ParaOwes(se, log, gone, b) = {}
  <2>1. CASE "para" \notin b.rules BY <2>1 DEF ParaOwes
  <2>2. CASE ~(b.cursor < b.limit)
    <3>1. b.cursor + 1 .. b.limit = {} BY <2>2 DEF Batches
    <3>2. ParaPlaces(se, log, gone, b) = {} BY <3>1 DEF ParaPlaces
    <3>3. \A g, r : With(se, log, g, r, {}) = {} BY DEF With
    <3> QED BY <3>2, <3>3 DEF ParaOwes
  <2> QED BY <2>1, <2>2 DEF ParaPending
<1> QED BY <1>1, <1>2 DEF Owes

LEMMA RulesOfWith ==
  ASSUME NEW se \in Searches, NEW log \in Seq(Entries), NEW g \in Ids, NEW r \in Rules,
         NEW P \in SUBSET (DOMAIN log)
  PROVE  \A c \in With(se, log, g, r, P) : c.rule = r /\ \E i \in P : c.partner = log[i].id
<1>1. \A i \in DOMAIN log : log[i].id \in Ids
  <2>1. \A i \in DOMAIN log : log[i] \in Entries OBVIOUS
  <2> QED BY <2>1 DEF Entries
<1>2. TAKE c \in With(se, log, g, r, P)
<1>3. PICK i \in P : c \in ToSet(RawIn(se, r, g, log[i].id)) BY DEF With
<1>4. log[i].id \in Ids BY <1>1
<1>5. c.rule = r /\ c.partner = log[i].id BY <1>3, <1>4, RawTyped
<1> QED BY <1>5

LEMMA PlacesTyped ==
  ASSUME NEW se, NEW log \in Seq(Entries), NEW gone, NEW b \in Batches, b.limit =< Len(log)
  PROVE  /\ HyperPlaces(log, gone, b.epoch) \in SUBSET (DOMAIN log)
         /\ ParaPlaces(se, log, gone, b) \in SUBSET (DOMAIN log)
<1>1. b.cursor \in Nat /\ b.limit \in Nat BY DEF Batches
<1>2. DOMAIN log = 1 .. Len(log) /\ Len(log) \in Nat OBVIOUS
<1> QED BY <1>1, <1>2 DEF HyperPlaces, ParaPlaces

\* The conclusions of one rule of hyperresolution, and the others.
LEMMA HyperSplits ==
  ASSUME NEW se \in Searches, NEW log \in Seq(Entries), NEW gone, NEW b \in Batches,
         b.limit =< Len(log), NEW r \in b.rules \cap Hyper, NEW c,
         c.given = b.given, c.cursor = b.cursor, c.limit = b.limit, c.epoch = b.epoch,
         c.rules = b.rules \ {r}
  PROVE  LET U == With(se, log, b.given, r, HyperPlaces(log, gone, b.epoch)) IN
         /\ Owes(se, log, gone, b) = U \cup Owes(se, log, gone, c)
         /\ U \cap Owes(se, log, gone, c) = {}
<1> DEFINE H == HyperPlaces(log, gone, b.epoch)
           P == ParaPlaces(se, log, gone, b)
           W(x, Q) == With(se, log, b.given, x, Q)
<1>1. b.given \in Ids /\ b.rules \subseteq Rules BY DEF Batches
<1>2. H \in SUBSET (DOMAIN log) /\ P \in SUBSET (DOMAIN log) BY PlacesTyped
<1>3. ParaPlaces(se, log, gone, c) = P BY DEF ParaPlaces
<1>4. "para" # r /\ "para" \in Rules BY DEF Hyper, Rules
<1>5. ParaOwes(se, log, gone, b) = (IF "para" \in b.rules THEN W("para", P) ELSE {})
      /\ ParaOwes(se, log, gone, c) = ParaOwes(se, log, gone, b)
  BY <1>3, <1>4 DEF ParaOwes
<1>6. HyperOwes(se, log, gone, b) = UNION {W(x, H) : x \in b.rules \cap Hyper}
      /\ HyperOwes(se, log, gone, c) = UNION {W(x, H) : x \in (b.rules \ {r}) \cap Hyper}
  BY DEF HyperOwes
<1> HIDE DEF H, P, W
<1>7. b.rules \cap Hyper = ((b.rules \ {r}) \cap Hyper) \cup {r} OBVIOUS
<1>8. HyperOwes(se, log, gone, b) = W(r, H) \cup HyperOwes(se, log, gone, c)
  BY <1>6, <1>7
<1>9. \A x \in b.rules : x \in Rules BY <1>1
<1>10. \A x \in b.rules : \A d \in W(x, H) \cup W(x, P) : d.rule = x
  <2>1. \A x \in Rules : \A d \in W(x, H) : d.rule = x BY <1>1, <1>2, RulesOfWith DEF W
  <2>2. \A x \in Rules : \A d \in W(x, P) : d.rule = x BY <1>1, <1>2, RulesOfWith DEF W
  <2> QED BY <1>9, <2>1, <2>2
<1>11. \A d \in HyperOwes(se, log, gone, c) : d.rule # r BY <1>6, <1>10
<1>12. \A d \in ParaOwes(se, log, gone, c) : d.rule # r BY <1>4, <1>5, <1>10
<1>13. \A d \in W(r, H) : d.rule = r BY <1>10
<1> QED BY <1>5, <1>8, <1>11, <1>12, <1>13 DEF Owes, W, H

\* The conclusions with one partner of paramodulation, and the others.
LEMMA ParaSplits ==
  ASSUME NEW se \in Searches, NEW log \in Seq(Entries), NEW gone, NEW b \in Batches,
         b.limit =< Len(log), "para" \in b.rules, b.cursor < b.limit,
         \A i, j \in DOMAIN log : log[i].id = log[j].id => i = j,
         b.cursor + 1 \in ParaPlaces(se, log, gone, b), NEW c,
         c.given = b.given, c.cursor = b.cursor + 1, c.limit = b.limit, c.epoch = b.epoch,
         c.rules = b.rules
  PROVE  LET U == ToSet(RawIn(se, "para", b.given, log[b.cursor + 1].id)) IN
         /\ Owes(se, log, gone, b) = U \cup Owes(se, log, gone, c)
         /\ U \cap Owes(se, log, gone, c) = {}
<1> DEFINE H == HyperPlaces(log, gone, b.epoch)
           P == ParaPlaces(se, log, gone, b)
           Q == ParaPlaces(se, log, gone, c)
           k == b.cursor + 1
           W(x, R) == With(se, log, b.given, x, R)
           U == ToSet(RawIn(se, "para", b.given, log[k].id))
<1>1. b.given \in Ids /\ b.rules \subseteq Rules /\ b.cursor \in Nat /\ b.limit \in Nat
  BY DEF Batches
<1>2. H \in SUBSET (DOMAIN log) /\ P \in SUBSET (DOMAIN log) BY PlacesTyped
<1>3. k .. b.limit = (k + 1 .. b.limit) \cup {k} /\ k \notin k + 1 .. b.limit BY <1>1
<1>4. P = Q \cup {k} /\ k \notin Q BY <1>3 DEF ParaPlaces
<1>5. HyperOwes(se, log, gone, c) = HyperOwes(se, log, gone, b)
      /\ HyperOwes(se, log, gone, b) = UNION {W(x, H) : x \in b.rules \cap Hyper}
  BY DEF HyperOwes
<1>6. ParaOwes(se, log, gone, b) = W("para", P) /\ ParaOwes(se, log, gone, c) = W("para", Q)
  BY DEF ParaOwes
<1>7. W("para", P) = U \cup W("para", Q) BY <1>4 DEF With
<1>8. "para" \in Rules /\ "para" \notin Hyper BY DEF Rules, Hyper
<1> HIDE DEF H, P, Q, W, k
<1>9. Q \in SUBSET (DOMAIN log) /\ k \in DOMAIN log BY <1>2, <1>4
<1>10. \A x \in b.rules \cap Hyper : \A d \in W(x, H) : d.rule = x
  BY <1>1, <1>2, RulesOfWith DEF W
<1>11. \A d \in W("para", Q) : \E i \in Q : d.partner = log[i].id
  BY <1>1, <1>8, <1>9, RulesOfWith DEF W
<1>12. \A d \in U : d.rule = "para" /\ d.partner = log[k].id
  <2>1. log[k] \in Entries BY <1>9
  <2>2. log[k].id \in Ids BY <2>1 DEF Entries
  <2> QED BY <1>1, <1>8, <2>2, RawTyped
<1>13. U \cap W("para", Q) = {}
  <2>1. \A i \in Q : log[i].id # log[k].id BY <1>4, <1>9
  <2> HIDE DEF U
  <2> QED BY <1>11, <1>12, <2>1
<1>14. U \cap HyperOwes(se, log, gone, c) = {}
  <2> HIDE DEF U
  <2>1. \A d \in HyperOwes(se, log, gone, c) : d.rule # "para" BY <1>5, <1>8, <1>10
  <2> QED BY <1>12, <2>1
<1> HIDE DEF U
<1> QED BY <1>5, <1>6, <1>7, <1>13, <1>14 DEF Owes, U, k

-----------------------------------------------------------------------------
(* The work of a turn.                                                     *)

LEMMA BudgetBound ==
  ASSUME Typed
  PROVE  /\ Budget \in Nat /\ Budget =< search.chunk
         /\ search.chunk \in Nat \ {0}
<1>1. Cardinality(passive) \in Nat BY FS_CardinalityType DEF Typed
<1>2. Occupancy \in Nat BY <1>1 DEF Occupancy, Typed
<1>3. search.cache \in Nat /\ search.chunk \in Nat \ {0} BY SearchesAssumption DEF Typed
<1>4. CASE ~Space BY <1>3, <1>4 DEF Budget
<1>5. CASE Space
  <2>1. search.cache - Occupancy \in Nat BY <1>2, <1>3, <1>5 DEF Space
  <2>2. Budget = IF search.cache - Occupancy =< search.chunk
                 THEN search.cache - Occupancy ELSE search.chunk
    BY <1>3, <1>5, <2>1, MinOfTwo DEF Budget
  <2> QED BY <1>3, <2>1, <2>2
<1> QED BY <1>3, <1>4, <1>5

LEMMA ChunkDraws ==
  ASSUME Typed, NEW b \in Batches, Resting(b), NEW raw \in Seq(Conclusions), IsInjective(raw),
         Chunk(b, raw).fatal = "none"
  PROVE  DrawsFrom(b, raw, search.chunk, Chunk(b, raw))
<1> DEFINE did == Chunk(b, raw)
<1>1. Budget # 0
  <2>1. Failed("space", b).fatal = "space" BY DEF Failed
  <2>2. ASSUME Budget = 0 PROVE did = Failed("space", b) BY <2>2 DEF Chunk
  <2> HIDE DEF did
  <2>3. did.fatal = "none" BY DEF did
  <2> QED BY <2>1, <2>2, <2>3
<1>2. Budget \in Nat \ {0} /\ Budget =< search.chunk /\ search.chunk \in Nat
  BY <1>1, BudgetBound
<1>3. DrawsFrom(b, raw, Budget, did)
  <2>1. CASE b.promising \/ (b.done = 0 /\ search.promising)
    <3>1. did = PromisingChunk(b, raw, Budget) BY <1>1, <2>1 DEF Chunk
    <3>2. PromisingChunk(b, raw, Budget).fatal = "none" BY <3>1
    <3>3. b.done # 0 => b.promising BY <2>1
    <3>4. DrawsFrom(b, raw, Budget, PromisingChunk(b, raw, Budget))
      BY <1>2, <3>2, <3>3, PromisingDraws
    <3> QED BY <3>1, <3>4
  <2>2. CASE ~(b.promising \/ (b.done = 0 /\ search.promising))
    <3>1. did = PrefixChunk(b, raw, Budget) BY <1>1, <2>2 DEF Chunk
    <3>2. PrefixChunk(b, raw, Budget).fatal = "none" BY <3>1
    <3>3. DrawsFrom(b, raw, Budget, PrefixChunk(b, raw, Budget))
      BY <1>2, <2>2, <3>2, PrefixDraws
    <3> QED BY <3>1, <3>3
  <2> QED BY <2>1, <2>2
<1> HIDE DEF did
<1>4. did.drawn \in Seq(Conclusions) /\ Len(did.drawn) =< Budget BY <1>3 DEF DrawsFrom
<1>5. Len(did.drawn) =< search.chunk
  <2>1. Len(did.drawn) \in Nat BY <1>4
  <2> QED BY <1>2, <1>4, <2>1
<1> QED BY <1>3, <1>5 DEF DrawsFrom, did

\* What a descriptor still stands for.
Left(b) == Owes(search, history, deactivated, b) \ Drawn(b)

\* A turn draws some of the conclusions that are left, and leaves the others.
WorkedOn(b, did) ==
  /\ did.drawn \in Seq(Conclusions) /\ Len(did.drawn) =< search.chunk
  /\ did.batch \in Batches /\ Resting(did.batch)
  /\ did.batch.given = b.given /\ did.batch.limit = b.limit /\ did.batch.epoch = b.epoch
  /\ did.batch.cursor =< b.limit /\ did.batch.rules \subseteq b.rules
  /\ ToSet(did.drawn) \subseteq Left(b)
  /\ Left(did.batch) = Left(b) \ ToSet(did.drawn)

\* The cursor of a unit, apart from the units that are left.
SameCursor(b, c) ==
  /\ c.hash = b.hash /\ c.promising = b.promising /\ c.at = b.at /\ c.done = b.done

LEMMA DrawnSame ==
  ASSUME NEW b, NEW c, SameCursor(b, c)
  PROVE  Drawn(c) = Drawn(b) /\ (Resting(b) => Resting(c))
BY DEF SameCursor, Drawn, Resting

\* A unit is left, and when it is complete the descriptor c stands for the other units.
LEMMA UnitWorked ==
  ASSUME Typed, NEW b \in Batches, NEW raw, NEW did, DrawsFrom(b, raw, search.chunk, did),
         b.cursor =< b.limit,
         NEW new, new.drawn = did.drawn,
         NEW R, ToSet(raw) \cap R = {},
         Owes(search, history, deactivated, b) = ToSet(raw) \cup R,
         ~did.complete => new = did,
         did.complete =>
           /\ new.batch \in Batches /\ SameCursor(did.batch, new.batch)
           /\ new.batch.given = b.given /\ new.batch.limit = b.limit
           /\ new.batch.epoch = b.epoch
           /\ new.batch.cursor =< b.limit /\ new.batch.rules \subseteq b.rules
           /\ Owes(search, history, deactivated, new.batch) = R
  PROVE  WorkedOn(b, new)
<1> DEFINE T == ToSet(raw)  D == ToSet(did.drawn)  B == Drawn(b)
           OwesNow(c) == Owes(search, history, deactivated, c)
<1>1. B \subseteq T /\ D \subseteq T \ B
      /\ (did.complete => T = B \cup D /\ Drawn(did.batch) = {})
      /\ (~did.complete => Drawn(did.batch) = B \cup D)
  BY DEF DrawsFrom
<1>2. /\ did.drawn \in Seq(Conclusions) /\ Len(did.drawn) =< search.chunk
      /\ did.batch \in Batches /\ SameUnits(b, did.batch) /\ Resting(did.batch)
  BY DEF DrawsFrom
<1>3. OwesNow(b) = T \cup R /\ T \cap R = {} OBVIOUS
<1> HIDE DEF T, B
<1>4. Left(b) = (T \cup R) \ B BY <1>3 DEF Left, B
<1>5. D \subseteq Left(b)
  <2> HIDE DEF D
  <2> QED BY <1>1, <1>4
<1>6. CASE did.complete
  <2>1. Drawn(new.batch) = {} /\ Resting(new.batch) BY <1>1, <1>2, <1>6, DrawnSame
  <2>2. Left(new.batch) = R BY <1>6, <2>1 DEF Left
  <2>3. Left(b) \ D = R
    <3> HIDE DEF D
    <3> QED BY <1>1, <1>3, <1>4, <1>6
  <2> QED BY <1>2, <1>5, <1>6, <2>1, <2>2, <2>3 DEF WorkedOn
<1>7. CASE ~did.complete
  <2> DEFINE c == did.batch
  <2>1. new.batch = c /\ c.given = b.given /\ c.cursor = b.cursor /\ c.limit = b.limit
        /\ c.epoch = b.epoch /\ c.rules = b.rules
    BY <1>2, <1>7 DEF SameUnits
  <2> HIDE DEF c
  <2>2. OwesNow(c) = OwesNow(b) BY <2>1, OwesSame
  <2>3. Drawn(c) = B \cup D BY <1>1, <1>7 DEF c
  <2>4. Left(c) = Left(b) \ D
    <3>1. Left(c) = (T \cup R) \ (B \cup D) BY <1>3, <2>2, <2>3 DEF Left
    <3> HIDE DEF D
    <3> QED BY <1>4, <3>1
  <2> QED BY <1>2, <1>5, <2>1, <2>4 DEF WorkedOn, c
<1> QED BY <1>6, <1>7

Shaped(did) ==
  did = [drawn |-> did.drawn, complete |-> did.complete, batch |-> did.batch, fatal |-> did.fatal]

LEMMA ChunkShaped == ASSUME NEW b, NEW raw PROVE Shaped(Chunk(b, raw))
<1>1. \A drawn, complete, c : Shaped(Did(drawn, complete, c)) BY DEF Did, Shaped
<1>2. \A why, c : Shaped(Failed(why, c)) BY DEF Failed, Shaped
<1>3. \A limit : Shaped(PrefixChunk(b, raw, limit)) BY <1>1, <1>2 DEF PrefixChunk
<1>4. \A limit : Shaped(PromisingChunk(b, raw, limit)) BY <1>1, <1>2 DEF PromisingChunk
<1> QED BY <1>2, <1>3, <1>4 DEF Chunk

LEMMA HyperWorked ==
  ASSUME Typed, Recorded, NEW b \in Batches, Ready(b), HyperPending(b),
         HyperWork(b).fatal = "none"
  PROVE  WorkedOn(b, HyperWork(b))
<1> DEFINE rule == IF "posHyper" \in b.rules THEN "posHyper" ELSE "negHyper"
           u == HyperUnit(b, rule)
           did == Chunk(b, u)
           new == HyperWork(b)
           U == With(search, history, b.given, rule,
                     HyperPlaces(history, deactivated, b.epoch))
           less == [b EXCEPT !.rules = @ \ {rule}]
           R == Owes(search, history, deactivated, less)
<1>1. rule \in b.rules \cap Hyper /\ rule \in Rules BY DEF HyperPending, Hyper, Rules
<1>2. /\ \A i, j \in DOMAIN history : history[i].id = history[j].id => i = j
      /\ b.cursor =< b.limit /\ b.limit =< Len(history) /\ Resting(b)
  BY DEF Recorded, Ready, ReadyIn
<1>3. u \in Seq(Conclusions) /\ IsInjective(u) /\ ToSet(u) = U BY <1>1, <1>2, HyperUnitIs
<1>4. new = IF did.complete THEN [did EXCEPT !.batch.rules = @ \ {rule}] ELSE did
  BY DEF HyperWork
<1>5. Shaped(did) BY ChunkShaped
<1>6. search \in Searches /\ history \in Seq(Entries) BY DEF Typed
<1>7. less.given = b.given /\ less.cursor = b.cursor /\ less.limit = b.limit
      /\ less.epoch = b.epoch /\ less.rules = b.rules \ {rule}
  BY DEF Batches
<1> HIDE DEF did, new, rule, u, less
<1>8. Owes(search, history, deactivated, b) = U \cup R /\ U \cap R = {}
  BY <1>1, <1>2, <1>6, <1>7, HyperSplits
<1>9. new.drawn = did.drawn /\ new.fatal = did.fatal
      /\ (did.complete => new.batch = [did.batch EXCEPT !.rules = @ \ {rule}])
  BY <1>4, <1>5 DEF Shaped
<1>10. did.fatal = "none" BY <1>9 DEF new
<1>11. DrawsFrom(b, u, search.chunk, did) BY <1>2, <1>3, <1>10, ChunkDraws DEF did
<1>12. ASSUME did.complete
       PROVE  /\ new.batch \in Batches /\ SameCursor(did.batch, new.batch)
              /\ new.batch.given = b.given /\ new.batch.limit = b.limit
              /\ new.batch.epoch = b.epoch
              /\ new.batch.cursor =< b.limit /\ new.batch.rules \subseteq b.rules
              /\ Owes(search, history, deactivated, new.batch) = R
  <2> DEFINE c == new.batch
  <2>1. did.batch \in Batches /\ SameUnits(b, did.batch) BY <1>11 DEF DrawsFrom
  <2>2. /\ c \in Batches /\ SameCursor(did.batch, c)
        /\ c.given = b.given /\ c.cursor = b.cursor /\ c.limit = b.limit /\ c.epoch = b.epoch
        /\ c.rules = b.rules \ {rule}
    <3> DEFINE d == did.batch
    <3>1. c = [d EXCEPT !.rules = @ \ {rule}] BY <1>9, <1>12
    <3> HIDE DEF d, c
    <3>2. d \in Batches /\ SameUnits(b, d) BY <2>1 DEF d
    <3>3. /\ c \in Batches /\ SameCursor(d, c) /\ c.given = d.given /\ c.cursor = d.cursor
          /\ c.limit = d.limit /\ c.epoch = d.epoch /\ c.rules = d.rules \ {rule}
      BY <3>1, <3>2 DEF Batches, SameCursor
    <3> QED BY <3>2, <3>3 DEF SameUnits, d
  <2> HIDE DEF c
  <2>3. Owes(search, history, deactivated, c) = R BY <1>7, <2>2, OwesSame
  <2> QED BY <1>2, <2>2, <2>3 DEF c
<1> HIDE DEF U, R
<1>13. ~did.complete => new = did BY <1>4
<1>14. Owes(search, history, deactivated, b) = ToSet(u) \cup R /\ ToSet(u) \cap R = {}
  BY <1>3, <1>8
<1>15. b.cursor =< b.limit /\ new.drawn = did.drawn BY <1>2, <1>9
<1>16. WorkedOn(b, new)
  BY <1>11, <1>12, <1>13, <1>14, <1>15, UnitWorked
<1> QED BY <1>16 DEF new

\* Skipping partners changes nothing of what is left.
LEMMA Skips ==
  ASSUME Typed, NEW b \in Batches, b.cursor =< b.limit, b.limit =< Len(history)
  PROVE  LET c == SkipInactive(b) IN
         /\ c \in Batches /\ c.given = b.given /\ c.limit = b.limit /\ c.epoch = b.epoch
         /\ c.rules = b.rules /\ SameCursor(b, c)
         /\ c.cursor \in b.cursor .. b.limit
         /\ c.cursor # b.limit => StillActive(history[c.cursor + 1].id, b.epoch)
         /\ Owes(search, history, deactivated, c) = Owes(search, history, deactivated, b)
<1> DEFINE alive == {i \in b.cursor + 1 .. b.limit : StillActive(history[i].id, b.epoch)}
           at == IF alive = {} THEN b.limit ELSE Min(alive) - 1
           c == SkipInactive(b)
<1>1. c = [b EXCEPT !.cursor = at] BY DEF SkipInactive
<1>2. b.cursor \in Nat /\ b.limit \in Nat BY DEF Batches
<1>3. /\ at \in b.cursor .. b.limit
      /\ at # b.limit => at + 1 \in alive
      /\ \A i \in alive : i >= at + 1
  <2>1. CASE alive = {} BY <1>2, <2>1
  <2>2. CASE alive # {}
    <3>1. alive \in SUBSET Nat BY <1>2
    <3>2. PICK m \in alive : \A n \in alive : m =< n
      <4> HIDE DEF alive
      <4> QED BY <2>2, <3>1, Least
    <3>3. Min(alive) = m
      <4>1. \A x \in alive : (\A y \in alive : x =< y) => x = m
        <5> HIDE DEF alive
        <5> QED BY <3>1, <3>2
      <4> HIDE DEF alive
      <4> QED BY <3>2, <4>1 DEF Min
    <3>4. m \in b.cursor + 1 .. b.limit OBVIOUS
    <3>5. at = m - 1 BY <2>2, <3>3
    <3>6. m \in Nat /\ at + 1 = m /\ at \in b.cursor .. b.limit BY <1>2, <3>4, <3>5
    <3> HIDE DEF alive, at
    <3> QED BY <3>1, <3>2, <3>6
  <2> QED BY <2>1, <2>2
<1> HIDE DEF at, c
<1>4. /\ c \in Batches /\ c.given = b.given /\ c.limit = b.limit /\ c.epoch = b.epoch
      /\ c.rules = b.rules /\ SameCursor(b, c) /\ c.cursor = at
  BY <1>1, <1>2, <1>3 DEF Batches, SameCursor
<1>5. c.cursor # b.limit => StillActive(history[c.cursor + 1].id, b.epoch) BY <1>3, <1>4
<1>6. ParaPlaces(search, history, deactivated, c) = ParaPlaces(search, history, deactivated, b)
  <2> DEFINE Good(i) == ActiveIn(deactivated, history[i].id, b.epoch)
                        /\ history[i].id \notin search.denials
  <2>1. \A i \in b.cursor + 1 .. b.limit : Good(i) => i \in alive
    BY DEF ActiveIn, StillActive
  <2>2. \A i \in b.cursor + 1 .. b.limit : Good(i) => i \in at + 1 .. b.limit
    BY <1>2, <1>3, <2>1
  <2>3. \A i \in at + 1 .. b.limit : i \in b.cursor + 1 .. b.limit BY <1>2, <1>3
  <2>4. ParaPlaces(search, history, deactivated, b) = {i \in b.cursor + 1 .. b.limit : Good(i)}
    BY DEF ParaPlaces
  <2>5. ParaPlaces(search, history, deactivated, c) = {i \in at + 1 .. b.limit : Good(i)}
    BY <1>4 DEF ParaPlaces
  <2> HIDE DEF Good
  <2> QED BY <2>2, <2>3, <2>4, <2>5
<1>7. Owes(search, history, deactivated, c) = Owes(search, history, deactivated, b)
  BY <1>4, <1>6 DEF Owes, HyperOwes, ParaOwes
<1> QED BY <1>3, <1>4, <1>5, <1>7 DEF c

LEMMA ParaWorked ==
  ASSUME Typed, Recorded, NEW b0 \in Batches, Ready(b0), ParaPending(b0),
         ParaWork(b0).fatal = "none"
  PROVE  WorkedOn(b0, ParaWork(b0))
<1> DEFINE b == SkipInactive(b0)
           k == b.cursor + 1
           partner == history[k].id
           raw == RawOf("para", b.given, partner)
           did == Chunk(b, raw)
           next1 == [b EXCEPT !.cursor = @ + 1]
           new == ParaWork(b0)
           OwesNow(x) == Owes(search, history, deactivated, x)
<1>1. /\ \A i, j \in DOMAIN history : history[i].id = history[j].id => i = j
      /\ b0.cursor =< b0.limit /\ b0.limit =< Len(history) /\ Resting(b0)
      /\ "para" \in b0.rules /\ b0.cursor < b0.limit
  BY DEF Recorded, Ready, ReadyIn, ParaPending
<1>2. /\ b \in Batches /\ b.given = b0.given /\ b.limit = b0.limit /\ b.epoch = b0.epoch
      /\ b.rules = b0.rules /\ SameCursor(b0, b)
      /\ b.cursor \in b0.cursor .. b0.limit
      /\ b.cursor # b0.limit => StillActive(history[b.cursor + 1].id, b0.epoch)
      /\ OwesNow(b) = OwesNow(b0)
  BY <1>1, Skips
<1>3. \/ new = Failed("internal", b0)
      \/ new = Failed("internal", b)
      \/ /\ b.cursor = b.limit
         /\ new = Did(<<>>, TRUE, b)
      \/ /\ b.cursor # b.limit /\ Denial(partner) /\ b.done = 0
         /\ new = Did(<<>>, TRUE, next1)
      \/ /\ b.cursor # b.limit /\ ~Denial(partner)
         /\ new = IF did.complete THEN [did EXCEPT !.batch.cursor = @ + 1] ELSE did
  BY DEF ParaWork
<1>4. new.fatal = "none" OBVIOUS
<1> HIDE DEF b, new, k
<1>5. Drawn(b) = Drawn(b0) /\ Resting(b) BY <1>1, <1>2, DrawnSame
<1>6. Left(b) = Left(b0) BY <1>2, <1>5 DEF Left
<1>7. b0.cursor \in Nat /\ b0.limit \in Nat /\ b.cursor \in Nat /\ b.limit \in Nat
      /\ b.cursor =< b.limit
  BY <1>2 DEF Batches
<1>8. ASSUME WorkedOn(b, new) PROVE WorkedOn(b0, new) BY <1>2, <1>6, <1>8 DEF WorkedOn
<1>9. ASSUME NEW c \in Batches, SameCursor(b, c), c.given = b.given, c.limit = b.limit,
             c.epoch = b.epoch, c.rules = b.rules, c.cursor =< b.limit,
             OwesNow(c) = OwesNow(b), new = Did(<<>>, TRUE, c)
      PROVE  WorkedOn(b, new)
  <2>1. new.drawn = <<>> /\ new.batch = c BY <1>9 DEF Did
  <2>2. ToSet(<<>>) = {} BY DEF ToSet
  <2>3. Drawn(c) = Drawn(b) /\ Resting(c) BY <1>5, <1>9, DrawnSame
  <2>4. Left(c) = Left(b) BY <1>9, <2>3 DEF Left
  <2>5. search.chunk \in Nat BY BudgetBound
  <2>6. <<>> \in Seq(Conclusions) /\ Len(<<>>) =< search.chunk BY <2>5
  <2>7. c.rules \subseteq b.rules /\ ToSet(<<>>) \subseteq Left(b)
        /\ Left(c) = Left(b) \ ToSet(<<>>)
    BY <1>9, <2>2, <2>4
  <2> QED BY <1>9, <2>1, <2>3, <2>6, <2>7 DEF WorkedOn
<1>10. CASE new = Failed("internal", b0) \/ new = Failed("internal", b)
  BY <1>4, <1>10 DEF Failed
<1>11. CASE b.cursor = b.limit /\ new = Did(<<>>, TRUE, b)
  <2>1. SameCursor(b, b) BY DEF SameCursor
  <2>2. WorkedOn(b, new) BY <1>2, <1>7, <1>9, <1>11, <2>1
  <2> QED BY <1>8, <2>2 DEF new
<1>12. ASSUME b.cursor # b.limit
       PROVE  /\ k \in DOMAIN history /\ k =< b.limit /\ partner \in Ids
              /\ ActiveIn(deactivated, partner, b.epoch)
              /\ next1 \in Batches /\ next1.given = b.given /\ next1.cursor = k
              /\ next1.limit = b.limit /\ next1.epoch = b.epoch /\ next1.rules = b.rules
              /\ SameCursor(b, next1)
  <2>1. k \in Nat /\ k >= 1 /\ k =< b.limit BY <1>7, <1>12 DEF k
  <2>2. Len(history) \in Nat /\ DOMAIN history = 1 .. Len(history) BY DEF Typed
  <2>3. k \in DOMAIN history BY <1>1, <1>2, <1>7, <2>1, <2>2
  <2>4. history[k] \in Entries BY <2>3 DEF Typed
  <2>5. partner \in Ids BY <2>4 DEF Entries
  <2>6. ActiveIn(deactivated, partner, b.epoch)
    BY <1>2, <1>12 DEF StillActive, ActiveIn, k
  <2>7. /\ next1 \in Batches /\ next1.given = b.given /\ next1.cursor = k
        /\ next1.limit = b.limit /\ next1.epoch = b.epoch /\ next1.rules = b.rules
        /\ SameCursor(b, next1)
    BY <1>2, <2>1 DEF Batches, SameCursor, k
  <2> QED BY <2>1, <2>3, <2>5, <2>6, <2>7
<1>13. CASE b.cursor # b.limit /\ Denial(partner) /\ b.done = 0 /\ new = Did(<<>>, TRUE, next1)
  <2>1. ParaPlaces(search, history, deactivated, next1)
        = ParaPlaces(search, history, deactivated, b)
    <3>1. k \notin ParaPlaces(search, history, deactivated, b)
      BY <1>13 DEF ParaPlaces, Denial
    <3>2. k .. b.limit = (k + 1 .. b.limit) \cup {k} BY <1>7, <1>12, <1>13 DEF k
    <3>3. next1.cursor + 1 = k + 1 /\ next1.limit = b.limit /\ next1.epoch = b.epoch
      BY <1>12, <1>13
    <3> HIDE DEF next1
    <3> QED BY <3>1, <3>2, <3>3 DEF ParaPlaces, k
  <2> HIDE DEF next1
  <2>2. OwesNow(next1) = OwesNow(b) BY <1>12, <1>13, <2>1 DEF Owes, HyperOwes, ParaOwes
  <2>3. next1 \in Batches /\ SameCursor(b, next1) /\ next1.given = b.given
        /\ next1.limit = b.limit /\ next1.epoch = b.epoch /\ next1.rules = b.rules
        /\ next1.cursor =< b.limit
    BY <1>12, <1>13
  <2>4. WorkedOn(b, new) BY <1>9, <1>13, <2>2, <2>3
  <2> QED BY <1>8, <2>4 DEF new
<1>14. CASE /\ b.cursor # b.limit /\ ~Denial(partner)
            /\ new = IF did.complete THEN [did EXCEPT !.batch.cursor = @ + 1] ELSE did
  <2> DEFINE R == OwesNow(next1)
  <2>1. /\ k \in DOMAIN history /\ k =< b.limit /\ partner \in Ids
        /\ ActiveIn(deactivated, partner, b.epoch)
        /\ next1 \in Batches /\ next1.given = b.given /\ next1.cursor = k
        /\ next1.limit = b.limit /\ next1.epoch = b.epoch /\ next1.rules = b.rules
    BY <1>12, <1>14
  <2> HIDE DEF next1
  <2>2. raw = RawIn(search, "para", b.given, partner) BY DEF RawOf, RawIn
  <2>3. raw \in Seq(Conclusions) /\ IsInjective(raw)
    <3>1. search \in Searches /\ "para" \in Rules /\ b.given \in Ids
      BY <1>2 DEF Typed, Rules, Batches
    <3> HIDE DEF partner, raw
    <3> QED BY <2>1, <2>2, <3>1, RawTyped
  <2>4. OwesNow(b) = ToSet(raw) \cup R /\ ToSet(raw) \cap R = {}
    <3>1. b.cursor + 1 \in ParaPlaces(search, history, deactivated, b)
      BY <1>7, <1>14, <2>1 DEF ParaPlaces, Denial, k
    <3>2. b.cursor < b.limit /\ b.limit =< Len(history) /\ "para" \in b.rules
      BY <1>1, <1>2, <1>7, <1>14
    <3>3. search \in Searches /\ history \in Seq(Entries) BY DEF Typed
    <3>4. next1.cursor = b.cursor + 1 BY <2>1 DEF k
    <3> DEFINE U == ToSet(RawIn(search, "para", b.given, history[b.cursor + 1].id))
    <3>5. OwesNow(b) = U \cup R /\ U \cap R = {}
      BY <1>1, <1>2, <2>1, <3>1, <3>2, <3>3, <3>4, ParaSplits
    <3> QED BY <2>2, <3>5 DEF k
  <2> HIDE DEF raw, did, R
  <2>5. Shaped(did) BY ChunkShaped DEF did
  <2>6. new.drawn = did.drawn /\ new.fatal = did.fatal /\ (~did.complete => new = did)
        /\ (did.complete => new.batch = [did.batch EXCEPT !.cursor = @ + 1])
    BY <1>14, <2>5 DEF Shaped
  <2>7. did.fatal = "none" BY <1>4, <2>6
  <2>8. DrawsFrom(b, raw, search.chunk, did) BY <1>2, <1>5, <2>3, <2>7, ChunkDraws DEF did
  <2>9. ASSUME did.complete
        PROVE  /\ new.batch \in Batches /\ SameCursor(did.batch, new.batch)
               /\ new.batch.given = b.given /\ new.batch.limit = b.limit
               /\ new.batch.epoch = b.epoch
               /\ new.batch.cursor =< b.limit /\ new.batch.rules \subseteq b.rules
               /\ OwesNow(new.batch) = R
    <3> DEFINE c == new.batch
    <3>1. did.batch \in Batches /\ SameUnits(b, did.batch) BY <2>8 DEF DrawsFrom
    <3>2. k \in Nat /\ did.batch.cursor + 1 = k BY <1>7, <3>1 DEF SameUnits, k
    <3>3. c = [did.batch EXCEPT !.cursor = k] BY <2>6, <2>9, <3>2
    <3> HIDE DEF c
    <3>4. /\ c \in Batches /\ SameCursor(did.batch, c)
          /\ c.given = b.given /\ c.cursor = k /\ c.limit = b.limit /\ c.epoch = b.epoch
          /\ c.rules = b.rules
      BY <3>1, <3>2, <3>3 DEF Batches, SameCursor, SameUnits
    <3>5. OwesNow(c) = R BY <2>1, <3>4, OwesSame DEF R
    <3> QED BY <2>1, <3>4, <3>5 DEF c
  <2>10. b.cursor =< b.limit /\ new.drawn = did.drawn /\ (~did.complete => new = did)
    BY <1>7, <2>6
  <2>11. WorkedOn(b, new) BY <2>4, <2>8, <2>9, <2>10, <1>2, UnitWorked
  <2> QED BY <1>8, <2>11 DEF new
<1> HIDE DEF next1, partner, raw, did
<1> QED BY <1>3, <1>10, <1>11, <1>13, <1>14

LEMMA WorkExact ==
  ASSUME Typed, Recorded, NEW b \in Batches, Ready(b), Work(b).fatal = "none"
  PROVE  WorkedOn(b, Work(b))
<1>1. history[b.limit].id = b.given /\ (HyperPending(b) \/ ParaPending(b)) BY DEF Ready, ReadyIn
<1>2. Work(b) = IF HyperTurn(b) THEN HyperWork(b) ELSE ParaWork(b) BY <1>1 DEF Work
<1>3. CASE HyperTurn(b)
  <2>1. HyperPending(b) BY <1>3 DEF HyperTurn
  <2> QED BY <1>2, <1>3, <2>1, HyperWorked
<1>4. CASE ~HyperTurn(b)
  <2>1. ParaPending(b) BY <1>1, <1>4 DEF HyperTurn
  <2> QED BY <1>2, <1>4, <2>1, ParaWorked
<1> QED BY <1>3, <1>4

-----------------------------------------------------------------------------
(* The queue of descriptors.                                               *)

LEMMA GivenOf ==
  ASSUME NEW batches
  PROVE  GivenIn(batches) = {b.given : b \in ToSet(batches)}
BY DEF GivenIn, ToSet

LEMMA HeadSplits ==
  ASSUME NEW q \in Seq(Batches), q # <<>>, Distinct(q)
  PROVE  /\ Head(q) \in Batches /\ Tail(q) \in Seq(Batches) /\ Distinct(Tail(q))
         /\ ToSet(q) = {Head(q)} \cup ToSet(Tail(q))
         /\ \A b \in ToSet(Tail(q)) : b.given # Head(q).given
<1> DEFINE n == Len(q)
<1>1. n \in Nat /\ n >= 1 /\ DOMAIN q = 1 .. n /\ \A i \in 1 .. n : q[i] \in Batches OBVIOUS
<1>2. Head(q) = q[1] /\ Tail(q) \in Seq(Batches) /\ Len(Tail(q)) = n - 1
      /\ \A i \in 1 .. n - 1 : Tail(q)[i] = q[i + 1]
  OBVIOUS
<1> DEFINE t == Tail(q)
<1>3. DOMAIN t = 1 .. n - 1 BY <1>2
<1> HIDE DEF n, t
<1>4. \A i \in 1 .. n - 1 : i + 1 \in 1 .. n /\ i + 1 # 1 /\ t[i] = q[i + 1]
  BY <1>1, <1>2 DEF t
<1>5. \A i \in 2 .. n : i - 1 \in 1 .. n - 1 /\ t[i - 1] = q[i]
  <2>1. \A i \in 2 .. n : i - 1 \in 1 .. n - 1 /\ (i - 1) + 1 = i BY <1>1
  <2> QED BY <1>4, <2>1
<1>6. \A i \in 1 .. n : i = 1 \/ i \in 2 .. n BY <1>1
<1>7. Distinct(t)
  <2>1. \A i, j \in 1 .. n - 1 : t[i].given = t[j].given => i = j
    <3> SUFFICES ASSUME NEW i \in 1 .. n - 1, NEW j \in 1 .. n - 1, t[i].given = t[j].given
                 PROVE  i = j
      OBVIOUS
    <3>1. i + 1 \in 1 .. n /\ j + 1 \in 1 .. n /\ q[i + 1].given = q[j + 1].given BY <1>4
    <3>2. \A k, l \in 1 .. n : q[k].given = q[l].given => k = l BY <1>1 DEF Distinct
    <3>3. i + 1 = j + 1 BY <3>1, <3>2
    <3> QED BY <1>1, <3>3
  <2> QED BY <1>3, <2>1 DEF Distinct
<1>8. ToSet(q) = {q[1]} \cup ToSet(t)
  <2>1. \A i \in 1 .. n : q[i] = q[1] \/ q[i] \in ToSet(t)
    <3> SUFFICES ASSUME NEW i \in 2 .. n PROVE q[i] \in ToSet(t) BY <1>6
    <3> QED BY <1>3, <1>5 DEF ToSet
  <2>2. \A i \in 1 .. n - 1 : t[i] \in ToSet(q) BY <1>1, <1>4 DEF ToSet
  <2>3. q[1] \in ToSet(q) BY <1>1 DEF ToSet
  <2> QED BY <1>1, <1>3, <2>1, <2>2, <2>3 DEF ToSet
<1>9. \A i \in 1 .. n - 1 : t[i].given # q[1].given
  <2>1. 1 \in 1 .. n BY <1>1
  <2> QED BY <1>1, <1>4, <2>1 DEF Distinct
<1>10. \A b \in ToSet(t) : b.given # q[1].given BY <1>3, <1>9 DEF ToSet
<1>11. q[1] \in Batches BY <1>1
<1> QED BY <1>2, <1>7, <1>8, <1>10, <1>11 DEF t

LEMMA AppendJoins ==
  ASSUME NEW q \in Seq(Batches), Distinct(q), NEW b \in Batches,
         \A c \in ToSet(q) : c.given # b.given
  PROVE  /\ Append(q, b) \in Seq(Batches) /\ Distinct(Append(q, b))
         /\ ToSet(Append(q, b)) = ToSet(q) \cup {b}
<1> DEFINE n == Len(q)  a == Append(q, b)
<1>1. n \in Nat /\ DOMAIN q = 1 .. n OBVIOUS
<1>2. a \in Seq(Batches) /\ DOMAIN a = 1 .. n + 1 /\ a[n + 1] = b /\ \A i \in 1 .. n : a[i] = q[i]
  OBVIOUS
<1> HIDE DEF n, a
<1>3. 1 .. n + 1 = (1 .. n) \cup {n + 1} BY <1>1
<1>4. \A i \in 1 .. n : q[i] \in ToSet(q) BY <1>1 DEF ToSet
<1>5. Distinct(a) BY <1>1, <1>2, <1>3, <1>4 DEF Distinct
<1>6. ToSet(a) = ToSet(q) \cup {b} BY <1>1, <1>2, <1>3 DEF ToSet
<1> QED BY <1>2, <1>5, <1>6 DEF a

LEMMA ConsJoins ==
  ASSUME NEW q \in Seq(Batches), Distinct(q), NEW b \in Batches,
         \A c \in ToSet(q) : c.given # b.given
  PROVE  /\ <<b>> \o q \in Seq(Batches) /\ Distinct(<<b>> \o q)
         /\ ToSet(<<b>> \o q) = ToSet(q) \cup {b}
<1> DEFINE n == Len(q)  a == <<b>> \o q
<1>1. n \in Nat /\ DOMAIN q = 1 .. n OBVIOUS
<1>2. a \in Seq(Batches) /\ DOMAIN a = 1 .. n + 1 /\ a[1] = b /\ \A i \in 1 .. n : a[i + 1] = q[i]
  OBVIOUS
<1> HIDE DEF n, a
<1>3. \A i \in 1 .. n + 1 : i = 1 \/ (i - 1 \in 1 .. n /\ a[i] = q[i - 1])
  <2>1. \A i \in 1 .. n + 1 : i = 1 \/ (i - 1 \in 1 .. n /\ (i - 1) + 1 = i) BY <1>1
  <2> QED BY <1>2, <2>1
<1>4. \A i \in 1 .. n : i + 1 \in 1 .. n + 1 /\ q[i] \in ToSet(q) BY <1>1 DEF ToSet
<1>5. Distinct(a)
  <2> SUFFICES ASSUME NEW i \in 1 .. n + 1, NEW j \in 1 .. n + 1, a[i].given = a[j].given
               PROVE  i = j
    BY <1>2 DEF Distinct
  <2>1. CASE i = 1 \/ j = 1 BY <1>2, <1>3, <1>4, <2>1
  <2>2. CASE i # 1 /\ j # 1
    <3> DEFINE k == i - 1  l == j - 1
    <3>1. k \in DOMAIN q /\ l \in DOMAIN q /\ a[i] = q[k] /\ a[j] = q[l] BY <1>1, <1>3, <2>2
    <3>2. k = l => i = j BY <1>1
    <3> HIDE DEF k, l
    <3> QED BY <3>1, <3>2 DEF Distinct
  <2> QED BY <2>1, <2>2
<1>6. ToSet(a) = ToSet(q) \cup {b}
  <2>1. \A i \in 1 .. n + 1 : a[i] \in ToSet(q) \cup {b} BY <1>2, <1>3, <1>4
  <2>2. \A i \in 1 .. n : q[i] \in ToSet(a) BY <1>2, <1>4 DEF ToSet
  <2>3. 1 \in 1 .. n + 1 BY <1>1
  <2>4. b \in ToSet(a) BY <1>2, <2>3 DEF ToSet
  <2> QED BY <1>1, <1>2, <2>1, <2>2, <2>4 DEF ToSet
<1> QED BY <1>2, <1>5, <1>6 DEF a

LEMMA ChosenFits ==
  ASSUME queue \in Seq(Batches), Distinct(queue), heap \in HeapOf(queue), queue # <<>>
  PROVE  /\ Chosen.queue \in Seq(Batches) /\ Distinct(Chosen.queue) /\ Chosen.queue # <<>>
         /\ ToSet(Chosen.queue) = ToSet(queue)
<1>1. \/ Chosen.queue = queue
      \/ heap # <<>> /\ Chosen.queue = ToHead(queue, heap[1])
  BY DEF Chosen
<1>2. CASE Chosen.queue = queue BY <1>2
<1>3. CASE heap # <<>> /\ Chosen.queue = ToHead(queue, heap[1])
  <2>1. heap \in Seq(Ids) /\ ToSet(heap) \subseteq GivenIn(queue) BY DEF HeapOf
  <2>2. 1 \in DOMAIN heap BY <1>3, <2>1
  <2>3. heap[1] \in GivenIn(queue) BY <2>1, <2>2 DEF ToSet
  <2> QED BY <1>3, <2>3, ToHeadRearranges
<1> QED BY <1>1, <1>2, <1>3

\* The descriptor of a clause that becomes active, for all its rules.
NewEntry(g, rules, e, limit) ==
  [given |-> g, cursor |-> 0, limit |-> limit, epoch |-> e, rules |-> rules,
   probe |-> FALSE, promising |-> FALSE, done |-> 0, hash |-> <<>>,
   at |-> NoKey, next |-> NoKey]

Grown(q, g, rules, e, limit) ==
  IF rules = {} THEN q ELSE Append(q, NewEntry(g, rules, e, limit))

LEMMA SameBatch ==
  ASSUME NEW b \in Batches, NEW c \in Batches, SameUnits(b, c), SameCursor(b, c), c.next = b.next
  PROVE  b = c
BY DEF Batches, SameUnits, SameCursor

LEMMA EntryTyped ==
  ASSUME NEW g \in Ids, NEW rules \in SUBSET Rules, NEW e \in Nat, NEW limit \in Nat
  PROVE  LET b == NewEntry(g, rules, e, limit) IN
         /\ b \in Batches /\ b.given = g /\ b.rules = rules /\ b.epoch = e /\ b.limit = limit
         /\ b.cursor = 0 /\ Resting(b) /\ Drawn(b) = {}
<1> DEFINE b == NewEntry(g, rules, e, limit)
<1>1. NoKey \in Keys /\ <<>> \in Seq(Conclusions) BY DEF NoKey, Keys
<1>2. /\ b \in Batches /\ b.given = g /\ b.rules = rules /\ b.epoch = e /\ b.limit = limit
      /\ b.cursor = 0 /\ b.done = 0 /\ b.hash = <<>> /\ b.promising = FALSE
  BY <1>1 DEF NewEntry, Batches
<1> HIDE DEF b
<1>3. Resting(b) BY <1>2 DEF Resting
<1>4. DOMAIN b.hash = {} BY <1>2
<1>5. Drawn(b) = {} BY <1>4 DEF Drawn
<1> QED BY <1>2, <1>3, <1>5 DEF b

LEMMA EnqueueGrows ==
  ASSUME NEW q \in Seq(Batches), NEW g \in Ids, \A b \in ToSet(q) : b.given # g,
         NEW rules \in SUBSET Rules, NEW rule \in Rules, NEW e \in Nat, NEW limit \in Nat
  PROVE  Enqueue(Grown(q, g, rules, e, limit), g, rule, e, limit)
         = Grown(q, g, rules \cup {rule}, e, limit)
<1> DEFINE new == NewEntry(g, rules \cup {rule}, e, limit)
<1>1. Grown(q, g, rules \cup {rule}, e, limit) = Append(q, new) BY DEF Grown
<1>2. CASE rules = {}
  <2>1. Grown(q, g, rules, e, limit) = q BY <1>2 DEF Grown
  <2>2. ~(q # <<>> /\ Last(q).given = g)
    <3>1. q # <<>> => Len(q) \in DOMAIN q /\ Last(q) = q[Len(q)] BY DEF Last
    <3> QED BY <3>1 DEF ToSet
  <2>3. Enqueue(q, g, rule, e, limit) = Append(q, NewBatch(g, rule, e, limit))
    BY <2>2 DEF Enqueue
  <2>4. new = NewBatch(g, rule, e, limit)
    <3>1. rules \cup {rule} = {rule} BY <1>2
    <3> QED BY <3>1 DEF NewEntry, NewBatch
  <2> QED BY <1>1, <2>1, <2>3, <2>4
<1>3. CASE rules # {}
  <2> DEFINE b == NewEntry(g, rules, e, limit)  a == Append(q, b)
  <2>1. Grown(q, g, rules, e, limit) = a BY <1>3 DEF Grown
  <2>2. b \in Batches BY EntryTyped
  <2> HIDE DEF b
  <2>3. b.given = g /\ b.epoch = e BY DEF b, NewEntry
  <2>4. a \in Seq(Batches) /\ a # <<>> /\ Len(a) = Len(q) + 1 /\ a[Len(a)] = b BY <2>2
  <2>5. Last(a) = b BY <2>4 DEF Last
  <2>6. Front(a) = q
    <3>1. Front(a) \in Seq(Batches) /\ Len(Front(a)) = Len(a) - 1
          /\ \A i \in 1 .. Len(a) - 1 : Front(a)[i] = a[i]
      <4> HIDE DEF a
      <4> QED BY <2>4, FrontAndLast
    <3>2. Len(Front(a)) = Len(q) /\ \A i \in 1 .. Len(q) : Front(a)[i] = q[i]
      BY <2>2, <2>4, <3>1
    <3> HIDE DEF a
    <3> QED BY <3>1, <3>2
  <2> HIDE DEF a
  <2>7. Enqueue(a, g, rule, e, limit)
        = Append(q, [b EXCEPT !.rules = @ \cup {rule}, !.limit = limit])
    BY <2>3, <2>4, <2>5, <2>6 DEF Enqueue
  <2>8. [b EXCEPT !.rules = @ \cup {rule}, !.limit = limit] = new
    <3> DEFINE c == [b EXCEPT !.rules = @ \cup {rule}, !.limit = limit]
    <3>1. new \in Batches
      <4>1. rules \cup {rule} \in SUBSET Rules OBVIOUS
      <4> QED BY <4>1, EntryTyped
    <3>2. c \in Batches BY <2>2 DEF Batches
    <3>3. SameUnits(c, new) /\ SameCursor(c, new) /\ new.next = c.next
      BY <2>2 DEF Batches, SameUnits, SameCursor, b, NewEntry
    <3> HIDE DEF c, new
    <3> QED BY <3>1, <3>2, <3>3, SameBatch DEF c
  <2> QED BY <1>1, <2>1, <2>7, <2>8
<1> QED BY <1>2, <1>3

LEMMA EnqueueAllGrows ==
  ASSUME Typed, NEW g \in Ids, \A b \in ToSet(queue) : b.given # g,
         NEW e \in Nat, NEW limit \in Nat
  PROVE  EnqueueAll(g, e, limit) = Grown(queue, g, search.rules, e, limit)
<1> DEFINE with(q, rule) ==
             IF rule \in search.rules THEN Enqueue(q, g, rule, e, limit) ELSE q
           grown(rules) == Grown(queue, g, rules, e, limit)
           R1 == {"posHyper"} \cap search.rules
           R2 == {"posHyper", "negHyper"} \cap search.rules
           R3 == {"posHyper", "negHyper", "para"} \cap search.rules
<1>1. EnqueueAll(g, e, limit) = with(with(with(queue, "posHyper"), "negHyper"), "para")
  BY DEF EnqueueAll
<1>2. queue = grown({}) BY DEF Grown
<1>3. ASSUME NEW rules \in SUBSET Rules, NEW rule \in Rules
      PROVE  with(grown(rules), rule) = grown(rules \cup ({rule} \cap search.rules))
  <2>1. CASE rule \in search.rules
    <3>1. rules \cup ({rule} \cap search.rules) = rules \cup {rule} BY <2>1
    <3>2. queue \in Seq(Batches) BY DEF Typed
    <3> QED BY <2>1, <3>1, <3>2, EnqueueGrows
  <2>2. CASE rule \notin search.rules
    <3>1. rules \cup ({rule} \cap search.rules) = rules BY <2>2
    <3> QED BY <2>2, <3>1
  <2> QED BY <2>1, <2>2
<1> HIDE DEF with, grown
<1>4. Rules = {"posHyper", "negHyper", "para"} BY DEF Rules, Hyper
<1>5. {} \cup ({"posHyper"} \cap search.rules) = R1
      /\ R1 \cup ({"negHyper"} \cap search.rules) = R2
      /\ R2 \cup ({"para"} \cap search.rules) = R3
  OBVIOUS
<1>6. {} \in SUBSET Rules /\ R1 \in SUBSET Rules /\ R2 \in SUBSET Rules BY <1>4
<1>7. "posHyper" \in Rules /\ "negHyper" \in Rules /\ "para" \in Rules BY <1>4
<1>8. search.rules = R3
  <2>1. search.rules \subseteq Rules BY SearchesAssumption DEF Typed
  <2> QED BY <1>4, <2>1
<1> HIDE DEF R1, R2, R3
<1>9. with(queue, "posHyper") = grown(R1) BY <1>2, <1>3, <1>5, <1>6, <1>7
<1>10. with(grown(R1), "negHyper") = grown(R2) BY <1>3, <1>5, <1>6, <1>7
<1>11. with(grown(R2), "para") = grown(R3) BY <1>3, <1>5, <1>6, <1>7
<1> QED BY <1>1, <1>8, <1>9, <1>10, <1>11 DEF grown

\* What cl_process keeps.
LEMMA Kept ==
  ASSUME Typed, Fresh, NEW n \in Nat, NEW e \in Nat, NEW gone, Keep(n, e, gone)
  PROVE  /\ next' \in Nat /\ next =< next' /\ unselected' \in Nat
         /\ passive' \subseteq [id : Ids, epoch : Nat] /\ IsFiniteSet(passive')
         /\ \A c \in passive' :
              \/ c \in passive /\ c \notin gone
              \/ c.id >= next /\ c.id < next'
         /\ \A c, d \in passive' : c.id = d.id => c = d
<1>1. /\ next \in Nat /\ unselected \in Nat /\ MaxId \in Nat
      /\ passive \subseteq [id : Ids, epoch : Nat] /\ IsFiniteSet(passive)
      /\ \A c \in passive : c.id < next
      /\ \A c, d \in passive : c.id = d.id => c = d
  BY SearchesAssumption DEF Typed, Fresh
<1>2. PICK kept \in 0 .. Min({n, MaxId + 1 - next}) :
        \E hidden \in 0 .. (IF search.unselected THEN kept ELSE 0) :
          /\ next' = next + kept
          /\ passive' = (passive \ gone)
                          \cup {[id |-> i, epoch |-> e] : i \in next .. next + kept - hidden - 1}
          /\ unselected' = unselected + hidden
  BY DEF Keep
<1>3. PICK hidden \in 0 .. (IF search.unselected THEN kept ELSE 0) :
          /\ next' = next + kept
          /\ passive' = (passive \ gone)
                          \cup {[id |-> i, epoch |-> e] : i \in next .. next + kept - hidden - 1}
          /\ unselected' = unselected + hidden
  BY <1>2
<1> DEFINE m == Min({n, MaxId + 1 - next})
           new == next .. next + kept - hidden - 1
           made1 == {[id |-> i, epoch |-> e] : i \in new}
<1>4. m = IF n =< MaxId + 1 - next THEN n ELSE MaxId + 1 - next BY <1>1, MinOfTwo
<1>5. kept \in 0 .. m OBVIOUS
<1>6. m \in Int /\ m =< MaxId + 1 - next BY <1>1, <1>4
<1> HIDE DEF m
<1>7. kept \in Nat /\ kept =< MaxId + 1 - next BY <1>1, <1>5, <1>6
<1>8. hidden \in 0 .. kept BY <1>7
<1>9. next' \in Nat /\ next =< next' /\ unselected' \in Nat BY <1>1, <1>3, <1>7, <1>8
<1>10. \A i \in new : i \in Nat /\ i >= next /\ i < next' /\ i \in Ids
  <2> SUFFICES ASSUME NEW i \in new PROVE i \in Nat /\ i >= next /\ i < next' /\ i \in Ids
    OBVIOUS
  <2>1. i \in Int /\ i >= next /\ i =< next + kept - hidden - 1 BY <1>1, <1>7, <1>8
  <2>2. i < next' /\ i =< MaxId BY <1>1, <1>3, <1>7, <1>8, <2>1
  <2>3. i >= 1
    <3>1. search.usable \in Nat /\ search.usable < next
      BY SearchesAssumption DEF Typed, Fresh
    <3> QED BY <1>1, <2>1, <3>1
  <2> QED BY <1>1, <2>1, <2>2, <2>3 DEF Ids
<1>11. IsFiniteSet(made1)
  <2>1. IsFiniteSet(new) BY <1>1, <1>7, <1>8, FS_Interval
  <2> DEFINE f == [i \in new |-> [id |-> i, epoch |-> e]]
  <2>2. made1 = {f[i] : i \in new} OBVIOUS
  <2> HIDE DEF new, f, made1
  <2>3. f \in Surjection(new, {f[i] : i \in new}) BY DEF f, Surjection
  <2>4. IsFiniteSet({f[i] : i \in new}) BY <2>1, <2>3, FS_Surjection
  <2> QED BY <2>2, <2>4
<1>12. IsFiniteSet(passive \ gone) BY <1>1, FS_Difference
<1>13. IsFiniteSet(passive') BY <1>3, <1>11, <1>12, FS_Union
<1> HIDE DEF new
<1>14. passive' = (passive \ gone) \cup made1 BY <1>3 DEF new
<1>15. \A c \in made1 : /\ c \in [id : Ids, epoch : Nat] /\ c.id >= next /\ c.id < next'
                        /\ \A d \in made1 : c.id = d.id => c = d
  BY <1>10
<1> HIDE DEF made1
<1>16. passive' \subseteq [id : Ids, epoch : Nat] BY <1>1, <1>14, <1>15
<1>17. \A c \in passive' :
         \/ c \in passive /\ c \notin gone
         \/ c.id >= next /\ c.id < next'
  BY <1>14, <1>15
<1>18. \A c, d \in passive' : c.id = d.id => c = d
  <2> SUFFICES ASSUME NEW c \in passive', NEW d \in passive', c.id = d.id PROVE c = d
    OBVIOUS
  <2>1. CASE c \in passive /\ d \in passive BY <1>1, <2>1
  <2>2. CASE c \in made1 /\ d \in made1 BY <1>15, <2>2
  <2>3. \A x \in passive : \A y \in made1 : x.id # y.id
    <3> SUFFICES ASSUME NEW x \in passive, NEW y \in made1, x.id = y.id PROVE FALSE OBVIOUS
    <3>1. x.id < next /\ y.id >= next /\ x.id \in Nat
      BY <1>1, <1>15 DEF Ids
    <3> QED BY <1>1, <3>1
  <2> QED BY <1>14, <2>1, <2>2, <2>3
<1> QED BY <1>9, <1>13, <1>16, <1>17, <1>18

-----------------------------------------------------------------------------
(* What is owed when clauses come and go.                                  *)

\* Activations and deactivations after the epoch of a descriptor do not concern it.
LEMMA OwesLater ==
  ASSUME NEW se, NEW log \in Seq(Entries), NEW later \in Seq(Entries),
         NEW gone \in [Ids -> Nat], NEW goneLater \in [Ids -> Nat],
         NEW b \in Batches, b.limit =< Len(log),
         Len(log) =< Len(later), \A i \in DOMAIN log : later[i] = log[i],
         \A i \in DOMAIN later : i \in DOMAIN log \/ later[i].epoch > b.epoch,
         \A id \in Ids : \/ goneLater[id] = gone[id]
                         \/ gone[id] = 0 /\ goneLater[id] > b.epoch
  PROVE  Owes(se, later, goneLater, b) = Owes(se, log, gone, b)
<1> DEFINE H == HyperPlaces(log, gone, b.epoch)
           P == ParaPlaces(se, log, gone, b)
<1>1. b.cursor \in Nat /\ b.limit \in Nat /\ b.epoch \in Nat BY DEF Batches
<1>2. DOMAIN log = 1 .. Len(log) /\ DOMAIN later = 1 .. Len(later)
      /\ Len(log) \in Nat /\ Len(later) \in Nat
  OBVIOUS
<1>3. DOMAIN log \subseteq DOMAIN later BY <1>2
<1>4. \A i \in DOMAIN later : later[i].id \in Ids /\ later[i].epoch \in Nat
  <2>1. \A i \in DOMAIN later : later[i] \in Entries OBVIOUS
  <2> QED BY <2>1 DEF Entries
<1>5. \A i \in DOMAIN log : log[i].id \in Ids /\ log[i].epoch \in Nat BY <1>3, <1>4
<1>6. \A id \in Ids : ActiveIn(goneLater, id, b.epoch) <=> ActiveIn(gone, id, b.epoch)
  <2> SUFFICES ASSUME NEW id \in Ids
               PROVE  ActiveIn(goneLater, id, b.epoch) <=> ActiveIn(gone, id, b.epoch)
    OBVIOUS
  <2>1. CASE goneLater[id] = gone[id] BY <2>1 DEF ActiveIn
  <2>2. CASE gone[id] = 0 /\ goneLater[id] > b.epoch BY <2>2 DEF ActiveIn
  <2> QED BY <2>1, <2>2
<1>7. HyperPlaces(later, goneLater, b.epoch) = H
  <2>1. \A i \in DOMAIN later : later[i].epoch =< b.epoch => i \in DOMAIN log BY <1>1, <1>4
  <2> QED BY <1>3, <1>5, <1>6, <2>1 DEF HyperPlaces
<1>8. \A i \in b.cursor + 1 .. b.limit : i \in DOMAIN log BY <1>1, <1>2
<1>9. ParaPlaces(se, later, goneLater, b) = P BY <1>5, <1>6, <1>8 DEF ParaPlaces
<1>10. H \subseteq DOMAIN log /\ P \subseteq DOMAIN log BY <1>8 DEF HyperPlaces, ParaPlaces
<1>11. ASSUME NEW r, NEW Q \in SUBSET (DOMAIN log)
       PROVE  With(se, later, b.given, r, Q) = With(se, log, b.given, r, Q)
  <2>1. \A i \in Q : later[i].id = log[i].id OBVIOUS
  <2> QED BY <2>1 DEF With
<1> HIDE DEF H, P
<1>12. HyperOwes(se, later, goneLater, b) = HyperOwes(se, log, gone, b)
  BY <1>7, <1>10, <1>11 DEF HyperOwes, H
<1>13. ParaOwes(se, later, goneLater, b) = ParaOwes(se, log, gone, b)
  BY <1>9, <1>10, <1>11 DEF ParaOwes, P
<1> QED BY <1>12, <1>13 DEF Owes

YieldOf(se, g, p) ==
  UNION {ToSet(RawIn(se, r, g, p)) :
           r \in {r \in se.rules : p \notin se.denials \/ (r \in Hyper /\ p =< se.usable)}}

\* A new descriptor stands for what its given clause yields with the active clauses.
LEMMA OwesAll ==
  ASSUME NEW se \in Searches, NEW log \in Seq(Entries), NEW gone \in [Ids -> Nat],
         NEW b \in Batches, b.cursor = 0, b.limit = Len(log), b.rules = se.rules,
         \A i \in DOMAIN log :
           /\ log[i].epoch =< b.epoch
           /\ i > se.usable <=> log[i].id > se.usable
           /\ log[i].clashable <=> /\ se.rules \cap Hyper # {}
                                   /\ i > se.usable => log[i].id \notin se.denials,
         \A id \in Ids : gone[id] =< b.epoch
  PROVE  Owes(se, log, gone, b) = UNION {YieldOf(se, b.given, p) : p \in Active(log, gone)}
<1> DEFINE H == HyperPlaces(log, gone, b.epoch)
           P == ParaPlaces(se, log, gone, b)
           now == {i \in DOMAIN log : gone[log[i].id] = 0}
           id(i) == log[i].id
           raw(r, i) == ToSet(RawIn(se, r, b.given, log[i].id))
           open(r, i) == id(i) \notin se.denials \/ (r \in Hyper /\ id(i) =< se.usable)
           all == UNION {YieldOf(se, b.given, p) : p \in Active(log, gone)}
<1>1. b.epoch \in Nat BY DEF Batches
<1>2. DOMAIN log = 1 .. Len(log) /\ Len(log) \in Nat OBVIOUS
<1>3. \A i \in DOMAIN log : id(i) \in Ids
  <2>1. \A i \in DOMAIN log : log[i] \in Entries OBVIOUS
  <2> QED BY <2>1 DEF Entries
<1>4. se.usable \in Nat /\ se.rules \subseteq Rules BY SearchesAssumption
<1>5. \A i \in DOMAIN log : ActiveIn(gone, id(i), b.epoch) <=> i \in now
  <2> SUFFICES ASSUME NEW i \in DOMAIN log
               PROVE  ActiveIn(gone, id(i), b.epoch) <=> gone[id(i)] = 0
    OBVIOUS
  <2>1. gone[id(i)] \in Nat /\ gone[id(i)] =< b.epoch BY <1>3
  <2> QED BY <1>1, <2>1 DEF ActiveIn
<1>6. \A i \in DOMAIN log : i > se.usable <=> ~(id(i) =< se.usable)
  BY <1>2, <1>3, <1>4 DEF Ids
<1>7. H = {i \in now : log[i].clashable} BY <1>5 DEF HyperPlaces
<1>8. P = {i \in now : id(i) \notin se.denials}
  <2>1. b.cursor + 1 .. b.limit = DOMAIN log BY <1>2
  <2> QED BY <1>5, <2>1 DEF ParaPlaces
<1>9. now \subseteq DOMAIN log OBVIOUS
<1>10. \A x : x \in all <=> \E i \in now : \E r \in se.rules : open(r, i) /\ x \in raw(r, i)
  BY DEF Active, YieldOf
<1>11. \A x : x \in HyperOwes(se, log, gone, b)
              <=> \E r \in se.rules \cap Hyper : \E i \in H : x \in raw(r, i)
  BY DEF HyperOwes, With
<1>12. \A x : x \in ParaOwes(se, log, gone, b)
              <=> "para" \in se.rules /\ \E i \in P : x \in raw("para", i)
  BY DEF ParaOwes, With
<1>13. \A r \in se.rules \cap Hyper : \A i \in now : i \in H <=> open(r, i)
  BY <1>6, <1>7, <1>9
<1>14. \A i \in now : i \in P <=> open("para", i)
  <2>1. "para" \notin Hyper BY DEF Hyper
  <2> QED BY <1>8, <2>1
<1>15. H \subseteq now /\ P \subseteq now BY <1>7, <1>8
<1>16. \A r \in se.rules : r \in Hyper \/ r = "para" BY <1>4 DEF Rules
<1> HIDE DEF H, P, now, raw, open, all
<1>17. ASSUME NEW x
       PROVE  x \in all <=> x \in HyperOwes(se, log, gone, b) \cup ParaOwes(se, log, gone, b)
  <2>1. ASSUME x \in all
        PROVE  x \in HyperOwes(se, log, gone, b) \cup ParaOwes(se, log, gone, b)
    <3>1. PICK i \in now, r \in se.rules : open(r, i) /\ x \in raw(r, i) BY <1>10, <2>1
    <3>2. CASE r \in Hyper BY <1>11, <1>13, <3>1, <3>2
    <3>3. CASE r = "para" BY <1>12, <1>14, <3>1, <3>3
    <3> QED BY <1>16, <3>2, <3>3
  <2>2. ASSUME x \in HyperOwes(se, log, gone, b) PROVE x \in all
    <3>1. PICK r \in se.rules \cap Hyper : \E i \in H : x \in raw(r, i) BY <1>11, <2>2
    <3>2. PICK i \in H : x \in raw(r, i) BY <3>1
    <3> QED BY <1>10, <1>13, <1>15, <3>2
  <2>3. ASSUME x \in ParaOwes(se, log, gone, b) PROVE x \in all
    <3>1. "para" \in se.rules /\ \E i \in P : x \in raw("para", i) BY <1>12, <2>3
    <3> QED BY <1>10, <1>14, <1>15, <3>1
  <2> QED BY <2>1, <2>2, <2>3
<1>18. all = HyperOwes(se, log, gone, b) \cup ParaOwes(se, log, gone, b) BY <1>17
<1> QED BY <1>18 DEF Owes, all

OwedBy(se, log, gone, q) == UNION {Owes(se, log, gone, b) \ Drawn(b) : b \in ToSet(q)}

LEMMA OwedIs == Typed /\ Recorded => Owed = OwedBy(search, history, deactivated, queue)
<1> SUFFICES ASSUME Typed, Recorded
             PROVE  Owed = OwedBy(search, history, deactivated, queue)
  OBVIOUS
<1>1. Owed = UNION {Pending(b) : b \in ToSet(queue)} BY DEF Owed, ToSet
<1>2. ToSet(queue) \subseteq Batches
  <2>1. \A i \in DOMAIN queue : queue[i] \in Batches BY DEF Typed
  <2> QED BY <2>1 DEF ToSet
<1>3. \A b \in ToSet(queue) : Pending(b) = Owes(search, history, deactivated, b) \ Drawn(b)
  BY <1>2, PendingIs
<1> QED BY <1>1, <1>3 DEF OwedBy

LEMMA YieldIs == \A g, p : Yield(g, p) = YieldOf(search, g, p)
<1>1. \A r, g, p : RawOf(r, g, p) = RawIn(search, r, g, p) BY DEF RawOf, RawIn
<1> QED BY <1>1 DEF Yield, YieldOf, Denial

-----------------------------------------------------------------------------
(* A turn.                                                                 *)

LEMMA SizeOfToSet ==
  ASSUME NEW T, NEW s \in Seq(T)
  PROVE  IsFiniteSet(ToSet(s)) /\ Cardinality(ToSet(s)) =< Len(s)
<1> DEFINE n == Len(s)
<1>1. n \in Nat /\ DOMAIN s = 1 .. n /\ s \in [1 .. n -> T] OBVIOUS
<1> HIDE DEF n
<1>2. IsFiniteSet(1 .. n) /\ Cardinality(1 .. n) = n
  <2>1. IsFiniteSet(1 .. n) /\ Cardinality(1 .. n) = IF 1 > n THEN 0 ELSE n - 1 + 1
    BY <1>1, FS_Interval
  <2> QED BY <1>1, <2>1
<1>3. s \in Surjection(1 .. n, ToSet(s)) BY <1>1 DEF Surjection, ToSet
<1>4. IsFiniteSet(ToSet(s)) /\ Cardinality(ToSet(s)) =< Cardinality(1 .. n)
  BY <1>2, <1>3, FS_Surjection
<1> QED BY <1>2, <1>4 DEF n

LEMMA OwedSplits ==
  ASSUME NEW se, NEW log, NEW gone, NEW q, NEW t, NEW b, ToSet(q) = {b} \cup ToSet(t)
  PROVE  OwedBy(se, log, gone, q)
         = (Owes(se, log, gone, b) \ Drawn(b)) \cup OwedBy(se, log, gone, t)
BY DEF OwedBy

\* A turn that fails has drawn nothing.
LEMMA FailedDrawsNothing ==
  ASSUME NEW b
  PROVE  Work(b).fatal # "none" => Work(b).drawn = <<>>
<1> DEFINE Empty(did) == did.fatal # "none" => did.drawn = <<>>
<1>1. \A drawn, complete, c : Empty(Did(drawn, complete, c)) BY DEF Did
<1>2. \A why, c : Empty(Failed(why, c)) BY DEF Failed
<1> HIDE DEF Empty
<1>3. \A c, raw, limit : Empty(PrefixChunk(c, raw, limit)) BY <1>1, <1>2 DEF PrefixChunk
<1>4. ASSUME NEW c, NEW raw, NEW limit PROVE Empty(PromisingChunk(c, raw, limit))
  <2>1. \/ \E why, d : PromisingChunk(c, raw, limit) = Failed(why, d)
        \/ \E drawn, complete, d : PromisingChunk(c, raw, limit) = Did(drawn, complete, d)
    BY DEF PromisingChunk
  <2> QED BY <1>1, <1>2, <2>1
<1>5. \A c, raw : Empty(Chunk(c, raw)) BY <1>2, <1>3, <1>4 DEF Chunk
<1>6. Empty(HyperWork(b))
  <2> DEFINE rule == IF "posHyper" \in b.rules THEN "posHyper" ELSE "negHyper"
             did == Chunk(b, HyperUnit(b, rule))
             more == [did EXCEPT !.batch.rules = @ \ {rule}]
  <2>1. HyperWork(b) = IF did.complete THEN more ELSE did BY DEF HyperWork
  <2>2. Empty(did) /\ Shaped(did) BY <1>5, ChunkShaped
  <2> HIDE DEF did
  <2>3. Empty(more) BY <2>2 DEF Empty, Shaped
  <2> QED BY <2>1, <2>2, <2>3
<1>7. Empty(ParaWork(b))
  <2> DEFINE c == SkipInactive(b)
             did == Chunk(c, RawOf("para", c.given, history[c.cursor + 1].id))
             more == [did EXCEPT !.batch.cursor = @ + 1]
  <2>1. \/ \E why, d : ParaWork(b) = Failed(why, d)
        \/ \E d : ParaWork(b) = Did(<<>>, TRUE, d)
        \/ ParaWork(b) = more
        \/ ParaWork(b) = did
    BY DEF ParaWork
  <2>2. Empty(did) /\ Shaped(did) BY <1>5, ChunkShaped
  <2> HIDE DEF did
  <2>3. Empty(more) BY <2>2 DEF Empty, Shaped
  <2> QED BY <1>1, <1>2, <2>1, <2>2, <2>3
<1>8. Empty(Work(b)) BY <1>2, <1>6, <1>7 DEF Work
<1> QED BY <1>8 DEF Empty

LEMMA TurnFails ==
  ASSUME IInv, Turn, fatal' # "none"
  PROVE  /\ queue' \in Seq(Batches) /\ Distinct(queue') /\ ToSet(queue') = ToSet(queue)
         /\ heap' \in HeapOf(queue')
         /\ UNCHANGED <<search, record, clauses, made>>
<1> DEFINE did == Work(Head(Chosen.queue))
<1>1. /\ queue # <<>> /\ fatal' = did.fatal /\ made' = made \cup ToSet(did.drawn)
      /\ queue' = Chosen.queue
      /\ UNCHANGED <<search, record, clauses, heap>>
  BY DEF Turn, TurnIsNext, Due
<1>2. did.drawn = <<>> BY <1>1, FailedDrawsNothing
<1>3. ToSet(<<>>) = {} BY DEF ToSet
<1>4. made' = made BY <1>1, <1>2, <1>3
<1>5. /\ queue' \in Seq(Batches) /\ Distinct(queue') /\ ToSet(queue') = ToSet(queue)
  BY <1>1, ChosenFits DEF IInv, Typed, Queued
<1>6. heap \in HeapOf(queue') BY <1>5, GivenOf DEF IInv, HeapOf
<1> QED BY <1>1, <1>4, <1>5, <1>6

LEMMA TurnEnds ==
  ASSUME IInv, Turn, fatal' = "none"
  PROVE  LET now(q) == OwedBy(search, history, deactivated, q) IN
         /\ queue' \in Seq(Batches) /\ Distinct(queue') /\ \A b \in ToSet(queue') : Ready(b)
         /\ heap' \in HeapOf(queue')
         /\ \E D : /\ made' = made \cup D /\ D \subseteq now(queue) /\ now(queue') = now(queue) \ D
                   /\ Cardinality(D) =< search.chunk
         /\ \E n \in Nat : Keep(n, epoch, {})
         /\ UNCHANGED <<search, record>>
<1> DEFINE now(r) == OwedBy(search, history, deactivated, r)
           q == Chosen.queue
           b == Head(q)
           t == Tail(q)
           did == Work(b)
           c == did.batch
           d == [c EXCEPT !.probe = FALSE]
           D == ToSet(did.drawn)
           rest == HeapRemove(q, heap, c.given)
           more == HyperPending(c) \/ ParaPending(c)
<1>1. /\ queue # <<>> /\ did.fatal = "none" /\ made' = made \cup D
      /\ FinishTurn(Chosen, c) /\ Keep(Len(did.drawn), epoch, {})
      /\ UNCHANGED <<search, record>>
  BY DEF Turn, TurnIsNext, Due
<1>2. /\ queue' = IF more THEN Append(t, d) ELSE t
      /\ heap' = IF more THEN HeapInsert(Append(t, d), rest, c.given) ELSE rest
  BY <1>1 DEF FinishTurn
<1>3. /\ Typed /\ Recorded /\ queue \in Seq(Batches) /\ Distinct(queue)
      /\ \A x \in ToSet(queue) : Ready(x)
      /\ heap \in HeapOf(queue)
  BY DEF IInv, Typed, Queued
<1>4. q \in Seq(Batches) /\ Distinct(q) /\ q # <<>> /\ ToSet(q) = ToSet(queue)
  BY <1>1, <1>3, ChosenFits
<1> HIDE DEF q
<1>5. /\ b \in Batches /\ t \in Seq(Batches) /\ Distinct(t)
      /\ ToSet(q) = {b} \cup ToSet(t)
      /\ \A x \in ToSet(t) : x.given # b.given
  BY <1>4, HeadSplits
<1> HIDE DEF b, t
<1>6. WorkedOn(b, did) BY <1>1, <1>3, <1>4, <1>5, WorkExact
<1> HIDE DEF did
<1>7. /\ c \in Batches /\ Resting(c) /\ c.given = b.given /\ c.limit = b.limit
      /\ c.epoch = b.epoch /\ c.cursor =< b.limit /\ c.rules \subseteq b.rules
      /\ D \subseteq Left(b) /\ Left(c) = Left(b) \ D
      /\ did.drawn \in Seq(Conclusions) /\ Len(did.drawn) =< search.chunk
  BY <1>6 DEF WorkedOn
<1> HIDE DEF c
<1>8. /\ d \in Batches /\ d.given = b.given /\ d.limit = c.limit /\ d.epoch = c.epoch
      /\ d.cursor = c.cursor /\ d.rules = c.rules /\ SameCursor(c, d)
  BY <1>7 DEF Batches, SameCursor
<1> HIDE DEF d
<1>9. Left(d) = Left(c) /\ Resting(d)
  <2>1. Drawn(d) = Drawn(c) /\ Resting(d) BY <1>7, <1>8, DrawnSame
  <2>2. d.given = c.given BY <1>7, <1>8
  <2>3. Owes(search, history, deactivated, d) = Owes(search, history, deactivated, c)
    BY <1>8, <2>2, OwesSame
  <2> QED BY <2>1, <2>3 DEF Left
<1>10. more => Ready(d)
  <2>1. Ready(b) BY <1>3, <1>4, <1>5
  <2>2. more => HyperPending(d) \/ ParaPending(d) BY <1>8 DEF HyperPending, ParaPending
  <2> QED BY <1>7, <1>8, <1>9, <2>1, <2>2 DEF Ready, ReadyIn
<1>11. ~more => Left(c) = {}
  <2>1. ~more => Owes(search, history, deactivated, c) = {} BY <1>7, NothingOwed
  <2> QED BY <2>1 DEF Left
<1>12. \A x \in ToSet(t) : Ready(x) /\ x.given # d.given BY <1>3, <1>4, <1>5, <1>8
<1>13. /\ Append(t, d) \in Seq(Batches) /\ Distinct(Append(t, d))
       /\ ToSet(Append(t, d)) = ToSet(t) \cup {d}
  BY <1>5, <1>8, <1>12, AppendJoins
<1> HIDE DEF more
<1>14. queue' \in Seq(Batches) /\ Distinct(queue') /\ \A x \in ToSet(queue') : Ready(x)
  <2>1. CASE more BY <1>2, <1>10, <1>12, <1>13, <2>1
  <2>2. CASE ~more BY <1>2, <1>5, <1>12, <2>2
  <2> QED BY <2>1, <2>2
<1>15. heap' \in HeapOf(queue')
  <2>1. heap \in HeapOf(q) BY <1>3, <1>4, GivenOf DEF HeapOf
  <2>2. rest \in HeapOf(q) /\ ToSet(rest) = ToSet(heap) \ {c.given}
    BY <1>4, <2>1, RemoveFits
  <2>3. ToSet(rest) \subseteq GivenIn(t) /\ c.given \notin ToSet(rest)
    <3>1. ToSet(heap) \subseteq {x.given : x \in ToSet(q)} BY <2>1, GivenOf DEF HeapOf
    <3>2. \A x \in ToSet(q) : x.given = c.given \/ x \in ToSet(t) BY <1>5, <1>7
    <3> QED BY <2>2, <3>1, <3>2, GivenOf
  <2> HIDE DEF rest
  <2>4. rest \in HeapOf(t) BY <2>2, <2>3, HeapOfMore
  <2>5. GivenIn(t) \subseteq GivenIn(Append(t, d)) /\ c.given \in GivenIn(Append(t, d))
    BY <1>7, <1>8, <1>13, GivenOf
  <2>6. rest \in HeapOf(Append(t, d)) BY <2>3, <2>4, <2>5, HeapOfMore
  <2>7. HeapInsert(Append(t, d), rest, c.given) \in HeapOf(Append(t, d))
    BY <1>13, <2>3, <2>5, <2>6, InsertFits
  <2> QED BY <1>2, <2>4, <2>7
<1>16. now(queue) = Left(b) \cup now(t)
  <2>1. now(q) = Left(b) \cup now(t) BY <1>5, OwedSplits DEF Left
  <2> QED BY <1>4, <2>1 DEF OwedBy
<1>17. now(queue') = Left(c) \cup now(t)
  <2>1. CASE more
    <3>1. ToSet(queue') = {d} \cup ToSet(t) BY <1>2, <1>13, <2>1
    <3>2. ASSUME NEW r, ToSet(r) = {d} \cup ToSet(t) PROVE now(r) = Left(d) \cup now(t)
      <4> DEFINE l == Left(d)
      <4>1. l = Owes(search, history, deactivated, d) \ Drawn(d) BY DEF Left
      <4> HIDE DEF l
      <4>2. OwedBy(search, history, deactivated, r) = l \cup OwedBy(search, history, deactivated, t)
        BY <3>2, <4>1, OwedSplits
      <4> QED BY <4>2 DEF l
    <3>3. now(queue') = Left(d) \cup now(t)
      <4> HIDE DEF now
      <4> QED BY <3>1, <3>2
    <3> QED BY <1>9, <3>3
  <2>2. CASE ~more BY <1>2, <1>11, <2>2
  <2> QED BY <2>1, <2>2
<1>18. Left(b) \cap now(t) = {}
  <2>1. \A x \in ToSet(queue) : x \in Batches /\ x.limit =< Len(history)
    <3>1. \A i \in DOMAIN queue : queue[i] \in Batches BY <1>3
    <3> QED BY <1>3, <3>1 DEF Ready, ReadyIn, ToSet
  <2>2. search \in Searches /\ history \in Seq(Entries) BY <1>3 DEF Typed
  <2>3. \A x \in ToSet(queue) : \A y \in Left(x) : y.given = x.given
    BY <2>1, <2>2, OwesOfGiven DEF Left
  <2>4. now(t) = UNION {Left(x) : x \in ToSet(t)} BY DEF OwedBy, Left
  <2> QED BY <1>4, <1>5, <2>3, <2>4
<1>19. D \subseteq now(queue) /\ now(queue') = now(queue) \ D
  <2> HIDE DEF now, D
  <2> QED BY <1>7, <1>16, <1>17, <1>18
<1>20. Cardinality(D) =< search.chunk
  <2>1. Cardinality(D) =< Len(did.drawn) /\ IsFiniteSet(D) BY <1>7, SizeOfToSet
  <2>2. Cardinality(D) \in Nat /\ Len(did.drawn) \in Nat /\ search.chunk \in Nat
    BY <1>3, <1>7, <2>1, FS_CardinalityType, BudgetBound
  <2> HIDE DEF D
  <2> QED BY <1>7, <2>1, <2>2
<1>21. Len(did.drawn) \in Nat BY <1>7
<1>22. \E n \in Nat : Keep(n, epoch, {}) BY <1>1, <1>21 DEF did, b
<1> HIDE DEF now, D
<1>23. \E E : /\ made' = made \cup E /\ E \subseteq now(queue) /\ now(queue') = now(queue) \ E
              /\ Cardinality(E) =< search.chunk
  BY <1>1, <1>19, <1>20
<1> QED BY <1>1, <1>14, <1>15, <1>22, <1>23 DEF now

-----------------------------------------------------------------------------
(* Each action keeps the invariant.                                        *)

LEMMA EntriesTyped ==
  ASSUME NEW log \in Seq(Entries)
  PROVE  \A i \in DOMAIN log :
           log[i].id \in Ids /\ log[i].epoch \in Nat /\ log[i].clashable \in BOOLEAN
<1>1. \A i \in DOMAIN log : log[i] \in Entries OBVIOUS
<1> QED BY <1>1 DEF Entries

LEMMA InitInv == Init => IInv
<1> SUFFICES ASSUME Init PROVE IInv OBVIOUS
<1>1. search \in Searches /\ search.usable \in Nat /\ search.sos \in Nat
      /\ search.usable + search.sos =< MaxId /\ MaxId \in Nat
  BY SearchesAssumption DEF Init
<1>2. /\ epoch = 1 /\ unselected = 0 /\ next = search.usable + search.sos + 1
      /\ usable = 1 .. search.usable
      /\ deactivated = [i \in Ids |-> 0]
      /\ queue = <<>> /\ heap = <<>>
      /\ history = [i \in 1 .. search.usable |-> Noted(i, search.rules \cap Hyper # {}, 1)]
      /\ passive = {[id |-> i, epoch |-> 1] :
                      i \in search.usable + 1 .. search.usable + search.sos}
  BY DEF Init
<1> DEFINE n == search.usable
           waiting == n + 1 .. n + search.sos
<1>3. /\ \A i \in 1 .. n : i \in Ids
      /\ \A i \in waiting : i \in Ids /\ i > n /\ i < next /\ i \in Nat
      /\ n < next /\ next \in Nat
  BY <1>1, <1>2 DEF Ids
<1>4. /\ history \in Seq(Entries) /\ Len(history) = n /\ DOMAIN history = 1 .. n
      /\ \A i \in 1 .. n :
           /\ history[i].id = i /\ history[i].epoch = 1
           /\ history[i].clashable = (search.rules \cap Hyper # {})
  <2> DEFINE hyper == search.rules \cap Hyper # {}
  <2>1. hyper \in BOOLEAN OBVIOUS
  <2>2. history = [i \in 1 .. n |-> Noted(i, hyper, 1)] BY <1>2
  <2> HIDE DEF hyper
  <2>3. \A i \in 1 .. n : /\ Noted(i, hyper, 1) \in Entries
                           /\ Noted(i, hyper, 1).id = i /\ Noted(i, hyper, 1).epoch = 1
                           /\ Noted(i, hyper, 1).clashable = hyper
    BY <1>3, <2>1 DEF Noted, Entries
  <2>4. DOMAIN history = 1 .. n /\ \A i \in 1 .. n : history[i] = Noted(i, hyper, 1) BY <2>2
  <2>5. history \in [1 .. n -> Entries] BY <2>2, <2>3
  <2>6. history \in Seq(Entries) /\ Len(history) = n BY <1>1, <2>5
  <2> QED BY <2>3, <2>4, <2>6 DEF hyper
<1>5. \A c \in passive : /\ c \in [id : Ids, epoch : Nat] /\ c.id \in waiting
                         /\ c = [id |-> c.id, epoch |-> 1]
  BY <1>2, <1>3
<1>6. IsFiniteSet(passive)
  <2> DEFINE f == [i \in waiting |-> [id |-> i, epoch |-> 1]]
  <2>1. passive = {f[i] : i \in waiting} BY <1>2
  <2>2. IsFiniteSet(waiting)
    <3>1. n + 1 \in Int /\ n + search.sos \in Int BY <1>1
    <3> HIDE DEF n
    <3> QED BY <3>1, FS_Interval
  <2> HIDE DEF waiting
  <2>3. f \in Surjection(waiting, {f[i] : i \in waiting}) BY DEF Surjection
  <2> HIDE DEF f
  <2> QED BY <2>1, <2>2, <2>3, FS_Surjection
<1> HIDE DEF n, waiting
<1>7. queue \in Seq(Batches) /\ deactivated \in [Ids -> Nat] /\ usable \subseteq Ids
  BY <1>2, <1>3 DEF n
<1>8. Typed BY <1>1, <1>2, <1>3, <1>4, <1>5, <1>6, <1>7 DEF Typed
<1>9. Recorded
  <2>1. \A i \in 1 .. n : i =< n /\ ~(i > n) /\ i < next /\ i \in Ids
    BY <1>1, <1>2, <1>3 DEF n
  <2>2. Active(history, deactivated) = 1 .. n
    <3>1. \A i \in 1 .. n : deactivated[history[i].id] = 0 BY <1>2, <1>3, <1>4
    <3> QED BY <1>4, <3>1 DEF Active
  <2>3. usable = 1 .. n BY <1>2 DEF n
  <2>4. n =< Len(history) BY <1>1, <1>4 DEF n
  <2>5. ASSUME NEW i \in 1 .. n
        PROVE  /\ history[i].id < next /\ history[i].epoch =< epoch
               /\ i > n => history[i].id > n
               /\ history[i].clashable <=> /\ search.rules \cap Hyper # {}
                                           /\ i > n => ~Denial(history[i].id)
    <3>1. history[i].id = i /\ history[i].epoch = 1 BY <1>4
    <3>2. history[i].clashable <=> search.rules \cap Hyper # {} BY <1>4
    <3>3. history[i].id < next /\ history[i].epoch =< epoch BY <1>2, <2>1, <3>1
    <3>4. ~(i > n) BY <2>1
    <3> QED BY <3>2, <3>3, <3>4
  <2>6. \A i, j \in 1 .. n : history[i].id = history[j].id => i = j BY <1>4
  <2>7. \A id \in Ids : deactivated[id] = 0 /\ deactivated[id] =< epoch BY <1>2
  <2>8. n = search.usable /\ DOMAIN history = 1 .. n /\ \A i \in 1 .. n : history[i].id = i
    BY <1>4 DEF n
  <2> QED BY <2>2, <2>3, <2>4, <2>5, <2>6, <2>7, <2>8 DEF Recorded, Deactivations
<1>10. Fresh
  <2>1. \A i \in 1 .. n : \A j \in waiting : i # j BY <1>1 DEF n, waiting
  <2>2. \A c \in passive : \A i \in DOMAIN history : history[i].id # c.id
    BY <1>4, <1>5, <2>1
  <2>3. \A c \in passive : \A d \in passive : c.id = d.id => c = d BY <1>5
  <2> QED BY <1>3, <1>5, <2>2, <2>3 DEF Fresh, n
<1>11. Queued
  <2>1. DOMAIN queue = {} BY <1>2
  <2> QED BY <2>1 DEF Queued, Distinct, ToSet
<1>12. heap \in HeapOf(queue)
  <2>1. DOMAIN heap = {} /\ heap \in Seq(Ids) BY <1>2
  <2> QED BY <2>1 DEF HeapOf, IsInjective, ToSet
<1> QED BY <1>8, <1>9, <1>10, <1>11, <1>12 DEF IInv

\* The clauses that wait after a step.
LEMMA StaysFresh ==
  ASSUME IInv, search' = search, NEW n \in Nat, NEW e \in Nat, NEW gone, Keep(n, e, gone),
         \A i \in DOMAIN history' : history'[i].id \in Ids /\ history'[i].id < next,
         \A c \in passive : c \notin gone => \A i \in DOMAIN history' : history'[i].id # c.id
  PROVE  /\ Fresh'
         /\ next' \in Nat /\ next =< next' /\ unselected' \in Nat
         /\ passive' \subseteq [id : Ids, epoch : Nat] /\ IsFiniteSet(passive')
<1>1. /\ Typed /\ Fresh /\ next \in Nat
      /\ search.usable \in Nat /\ search.usable < next
      /\ \A c \in passive : c.id < next /\ c.id > search.usable
  BY SearchesAssumption DEF IInv, Typed, Fresh
<1>2. /\ next' \in Nat /\ next =< next' /\ unselected' \in Nat
      /\ passive' \subseteq [id : Ids, epoch : Nat] /\ IsFiniteSet(passive')
      /\ \A c \in passive' :
           \/ c \in passive /\ c \notin gone
           \/ c.id >= next /\ c.id < next'
      /\ \A c, d \in passive' : c.id = d.id => c = d
  BY <1>1, Kept
<1>3. ASSUME NEW c \in passive'
      PROVE  /\ c.id < next' /\ c.id > search.usable
             /\ \A i \in DOMAIN history' : history'[i].id # c.id
  <2>1. c.id \in Nat
    <3>1. c.id \in Ids BY <1>2
    <3> QED BY <3>1 DEF Ids
  <2>2. CASE c \in passive /\ c \notin gone
    <3>1. c.id < next /\ c.id > search.usable BY <1>1, <2>2
    <3>2. c.id < next' BY <1>1, <1>2, <2>1, <3>1
    <3> QED BY <2>2, <3>1, <3>2
  <2>3. CASE c.id >= next /\ c.id < next'
    <3>1. c.id > search.usable BY <1>1, <2>1, <2>3
    <3>2. ASSUME NEW i \in DOMAIN history', history'[i].id = c.id PROVE FALSE
      <4>1. history'[i].id < next BY <3>2
      <4> QED BY <1>1, <2>1, <2>3, <3>2, <4>1
    <3> QED BY <2>3, <3>1, <3>2
  <2> QED BY <1>2, <2>2, <2>3
<1>4. search.usable < next' BY <1>1, <1>2
<1>5. Fresh' BY <1>2, <1>3, <1>4 DEF Fresh
<1> QED BY <1>2, <1>5

\* A step that activates and deactivates nothing.
LEMMA SameRecord ==
  ASSUME IInv, UNCHANGED <<search, record>>, next' \in Nat, next =< next', Fresh',
         unselected' \in Nat, passive' \subseteq [id : Ids, epoch : Nat], IsFiniteSet(passive'),
         queue' \in Seq(Batches), Distinct(queue'), \A b \in ToSet(queue') : Ready(b),
         heap' \in HeapOf(queue')
  PROVE  IInv'
<1>1. search' = search /\ epoch' = epoch /\ usable' = usable /\ history' = history
      /\ deactivated' = deactivated
  BY DEF record
<1>2. Typed' BY <1>1 DEF IInv, Typed
<1>3. Recorded'
  <2>1. \A i \in DOMAIN history : history[i].id \in Nat
    BY EntriesTyped DEF IInv, Typed, Ids
  <2>2. next \in Nat BY DEF IInv, Typed
  <2>3. \A i \in DOMAIN history : history[i].id < next => history[i].id < next' BY <2>1, <2>2
  <2> QED BY <1>1, <2>3 DEF IInv, Recorded, Deactivations, Denial
<1>4. Queued' BY <1>1 DEF Queued, Ready
<1> QED BY <1>2, <1>3, <1>4 DEF IInv

LEMMA SameClauses ==
  ASSUME IInv, UNCHANGED <<search, record, clauses>>
  PROVE  /\ Fresh' /\ next' \in Nat /\ next =< next' /\ unselected' \in Nat
         /\ passive' \subseteq [id : Ids, epoch : Nat] /\ IsFiniteSet(passive')
<1>1. search' = search /\ history' = history /\ next' = next /\ passive' = passive
      /\ unselected' = unselected
  BY DEF record, clauses
<1>2. next =< next BY DEF IInv, Typed
<1> QED BY <1>1, <1>2 DEF IInv, Typed, Fresh

LEMMA KeepsRecord ==
  ASSUME IInv, UNCHANGED <<search, record>>, NEW n \in Nat, NEW e \in Nat, NEW gone,
         Keep(n, e, gone)
  PROVE  /\ Fresh' /\ next' \in Nat /\ next =< next' /\ unselected' \in Nat
         /\ passive' \subseteq [id : Ids, epoch : Nat] /\ IsFiniteSet(passive')
<1>1. search' = search /\ history' = history BY DEF record
<1>2. \A i \in DOMAIN history : history[i].id \in Ids /\ history[i].id < next
  BY EntriesTyped DEF IInv, Typed, Recorded
<1>3. \A c \in passive : \A i \in DOMAIN history : history[i].id # c.id BY DEF IInv, Fresh
<1> QED BY <1>1, <1>2, <1>3, StaysFresh

LEMMA TurnInv == ASSUME IInv, Turn PROVE IInv'
<1>1. CASE fatal' = "none"
  <2>1. /\ queue' \in Seq(Batches) /\ Distinct(queue') /\ \A b \in ToSet(queue') : Ready(b)
        /\ heap' \in HeapOf(queue')
        /\ \E n \in Nat : Keep(n, epoch, {})
        /\ UNCHANGED <<search, record>>
    BY <1>1, TurnEnds
  <2>2. PICK n \in Nat : Keep(n, epoch, {}) BY <2>1
  <2>3. epoch \in Nat BY DEF IInv, Typed
  <2>4. /\ Fresh' /\ next' \in Nat /\ next =< next' /\ unselected' \in Nat
        /\ passive' \subseteq [id : Ids, epoch : Nat] /\ IsFiniteSet(passive')
    BY <2>1, <2>2, <2>3, KeepsRecord
  <2> QED BY <2>1, <2>4, SameRecord
<1>2. CASE fatal' # "none"
  <2>1. /\ queue' \in Seq(Batches) /\ Distinct(queue') /\ ToSet(queue') = ToSet(queue)
        /\ heap' \in HeapOf(queue')
        /\ UNCHANGED <<search, record, clauses, made>>
    BY <1>2, TurnFails
  <2>2. \A b \in ToSet(queue') : Ready(b) BY <2>1 DEF IInv, Queued
  <2>3. /\ Fresh' /\ next' \in Nat /\ next =< next' /\ unselected' \in Nat
        /\ passive' \subseteq [id : Ids, epoch : Nat] /\ IsFiniteSet(passive')
    BY <2>1, SameClauses
  <2> QED BY <2>1, <2>2, <2>3, SameRecord
<1> QED BY <1>1, <1>2

LEMMA RefreshInv == ASSUME IInv, Refresh PROVE IInv'
<1>1. PICK c \in passive : c.epoch # epoch /\ Keep(1, epoch, {c}) BY DEF Refresh
<1>2. UNCHANGED <<search, record, queue, heap>> BY DEF Refresh
<1>3. epoch \in Nat BY DEF IInv, Typed
<1>4. /\ Fresh' /\ next' \in Nat /\ next =< next' /\ unselected' \in Nat
      /\ passive' \subseteq [id : Ids, epoch : Nat] /\ IsFiniteSet(passive')
  BY <1>1, <1>2, <1>3, KeepsRecord
<1>5. /\ queue' \in Seq(Batches) /\ Distinct(queue') /\ \A b \in ToSet(queue') : Ready(b)
      /\ heap' \in HeapOf(queue')
  BY <1>2 DEF IInv, Typed, Queued
<1> QED BY <1>2, <1>4, <1>5, SameRecord

LEMMA ResumeInv == ASSUME IInv, Resume \/ UNCHANGED vars PROVE IInv'
<1>1. UNCHANGED <<search, clauses, record, queue>> /\ (heap' = Rebuilt \/ heap' = heap)
  BY DEF Resume, vars
<1>2. /\ queue \in Seq(Batches) /\ Distinct(queue) /\ \A b \in ToSet(queue) : Ready(b)
      /\ heap \in HeapOf(queue)
  BY DEF IInv, Typed, Queued
<1>3. Rebuilt \in HeapOf(queue) BY <1>2, RebuiltFits
<1>4. /\ Fresh' /\ next' \in Nat /\ next =< next' /\ unselected' \in Nat
      /\ passive' \subseteq [id : Ids, epoch : Nat] /\ IsFiniteSet(passive')
  BY <1>1, SameClauses
<1>5. queue' = queue /\ heap' \in HeapOf(queue') BY <1>1, <1>2, <1>3
<1> QED BY <1>1, <1>2, <1>4, <1>5, SameRecord

\* A step that retires some of the active clauses.
LEMMA Retires ==
  ASSUME IInv, NEW retired \in SUBSET usable, epoch' = epoch + 1,
         deactivated' = [i \in Ids |-> IF i \in retired /\ deactivated[i] = 0
                                       THEN epoch + 1 ELSE deactivated[i]]
  PROVE  /\ deactivated' \in [Ids -> Nat]
         /\ Active(history, deactivated') = usable \ retired
         /\ \A id \in Ids :
              /\ deactivated'[id] =< epoch'
              /\ deactivated'[id] # 0 => \E i \in DOMAIN history : history[i].id = id
              /\ \/ deactivated'[id] = deactivated[id]
                 \/ deactivated[id] = 0 /\ deactivated'[id] > epoch
              /\ id \notin retired => deactivated'[id] = deactivated[id]
<1>1. /\ epoch \in Nat /\ deactivated \in [Ids -> Nat] /\ usable \subseteq Ids
      /\ history \in Seq(Entries) /\ usable = Active(history, deactivated)
      /\ \A id \in Ids : /\ deactivated[id] =< epoch
                         /\ deactivated[id] # 0 => \E i \in DOMAIN history : history[i].id = id
  <2>1. Typed /\ Recorded BY DEF IInv
  <2>2. \A id \in Ids : /\ deactivated[id] =< epoch
                        /\ deactivated[id] # 0 => \E i \in DOMAIN history : history[i].id = id
    BY <2>1 DEF Recorded, Deactivations
  <2>3. usable = Active(history, deactivated) BY <2>1 DEF Recorded
  <2> QED BY <2>1, <2>2, <2>3 DEF Typed
<1>2. \A i \in DOMAIN history : history[i].id \in Ids BY <1>1, EntriesTyped
<1>3. \A id \in retired : deactivated[id] = 0 /\ \E i \in DOMAIN history : history[i].id = id
  BY <1>1 DEF Active
<1>4. deactivated' \in [Ids -> Nat] BY <1>1
<1>5. \A id \in Ids : deactivated'[id] = IF id \in retired THEN epoch + 1 ELSE deactivated[id]
  BY <1>3
<1>6. ASSUME NEW id \in Ids
      PROVE  /\ deactivated'[id] =< epoch'
             /\ deactivated'[id] # 0 => \E i \in DOMAIN history : history[i].id = id
             /\ \/ deactivated'[id] = deactivated[id]
                \/ deactivated[id] = 0 /\ deactivated'[id] > epoch
             /\ id \notin retired => deactivated'[id] = deactivated[id]
  <2>1. CASE id \in retired
    <3>1. deactivated'[id] = epoch + 1 /\ deactivated[id] = 0 BY <1>3, <1>5, <2>1
    <3>2. epoch + 1 =< epoch' /\ epoch + 1 > epoch BY <1>1
    <3>3. \E i \in DOMAIN history : history[i].id = id BY <1>3, <2>1
    <3> QED BY <2>1, <3>1, <3>2, <3>3
  <2>2. CASE id \notin retired
    <3>1. deactivated'[id] = deactivated[id] BY <1>5, <2>2
    <3>2. deactivated[id] \in Nat /\ deactivated[id] =< epoch BY <1>1
    <3>3. deactivated[id] =< epoch' BY <1>1, <3>2
    <3>4. deactivated[id] # 0 => \E i \in DOMAIN history : history[i].id = id BY <1>1
    <3> QED BY <3>1, <3>3, <3>4
  <2> QED BY <2>1, <2>2
<1>7. Active(history, deactivated') = usable \ retired
  <2>1. \A id \in Ids : deactivated'[id] = 0 <=> deactivated[id] = 0 /\ id \notin retired
    <3>1. epoch + 1 # 0 BY <1>1
    <3> QED BY <1>5, <3>1
  <2>2. \A i \in DOMAIN history : deactivated'[history[i].id] = 0
                                  <=> deactivated[history[i].id] = 0 /\ history[i].id \notin retired
    BY <1>2, <2>1
  <2> DEFINE id(i) == history[i].id
  <2>3. Active(history, deactivated') = {id(i) : i \in {i \in DOMAIN history : deactivated'[id(i)] = 0}}
    BY DEF Active
  <2>4. usable = {id(i) : i \in {i \in DOMAIN history : deactivated[id(i)] = 0}}
    BY <1>1 DEF Active
  <2>5. \A i \in DOMAIN history : deactivated'[id(i)] = 0
                                 <=> deactivated[id(i)] = 0 /\ id(i) \notin retired
    BY <2>2
  <2> HIDE DEF id
  <2> QED BY <2>3, <2>4, <2>5
<1> QED BY <1>4, <1>6, <1>7

\* What the descriptors in the queue stand for is what it was.
LEMMA OwesOn ==
  ASSUME IInv, search' = search, epoch' = epoch + 1, history' \in Seq(Entries),
         Len(history) =< Len(history'), \A i \in DOMAIN history : history'[i] = history[i],
         \A i \in DOMAIN history' : i \in DOMAIN history \/ history'[i].epoch > epoch,
         deactivated' \in [Ids -> Nat],
         \A id \in Ids : \/ deactivated'[id] = deactivated[id]
                         \/ deactivated[id] = 0 /\ deactivated'[id] > epoch
  PROVE  \A b \in ToSet(queue) :
           /\ b \in Batches /\ ReadyIn(search', epoch', history', b)
           /\ Owes(search', history', deactivated', b) = Owes(search, history, deactivated, b)
<1>1. /\ epoch \in Nat /\ deactivated \in [Ids -> Nat] /\ history \in Seq(Entries)
      /\ queue \in Seq(Batches)
  BY DEF IInv, Typed
<1>2. TAKE b \in ToSet(queue)
<1>3. b \in Batches
  <2>1. \A i \in DOMAIN queue : queue[i] \in Batches BY <1>1
  <2> QED BY <2>1 DEF ToSet
<1>4. ReadyIn(search, epoch, history, b) BY DEF IInv, Queued, Ready
<1>5. b.epoch \in Nat /\ b.limit \in Nat /\ b.epoch =< epoch /\ b.limit =< Len(history)
      /\ search.usable \in Nat /\ b.limit > search.usable
  BY <1>3, <1>4, SearchesAssumption DEF Batches, ReadyIn, IInv, Typed
<1>6. ReadyIn(search', epoch', history', b)
  <2>1. Len(history) \in Nat /\ Len(history') \in Nat /\ DOMAIN history = 1 .. Len(history)
    BY <1>1
  <2>2. b.limit \in DOMAIN history BY <1>5, <2>1
  <2>3. b.epoch =< epoch' /\ b.limit =< Len(history') BY <1>1, <1>5, <2>1
  <2> QED BY <1>4, <2>2, <2>3 DEF ReadyIn
<1>7. \A i \in DOMAIN history' : i \in DOMAIN history \/ history'[i].epoch > b.epoch
  <2>1. \A i \in DOMAIN history' : history'[i].epoch \in Nat
    <3> DEFINE log == history'
    <3>1. log \in Seq(Entries) OBVIOUS
    <3> HIDE DEF log
    <3>2. \A i \in DOMAIN log : log[i].epoch \in Nat BY <3>1, EntriesTyped
    <3> QED BY <3>2 DEF log
  <2>2. \A e \in Nat : e > epoch => e > b.epoch BY <1>1, <1>5
  <2> QED BY <2>1, <2>2
<1>8. \A id \in Ids : \/ deactivated'[id] = deactivated[id]
                      \/ deactivated[id] = 0 /\ deactivated'[id] > b.epoch
  <2>1. \A id \in Ids : deactivated'[id] \in Nat OBVIOUS
  <2>2. \A e \in Nat : e > epoch => e > b.epoch BY <1>1, <1>5
  <2> QED BY <2>1, <2>2
<1> DEFINE log == history'  gone == deactivated'
<1>9. /\ log \in Seq(Entries) /\ gone \in [Ids -> Nat]
      /\ Len(history) =< Len(log) /\ \A i \in DOMAIN history : log[i] = history[i]
  OBVIOUS
<1>10. /\ \A i \in DOMAIN log : i \in DOMAIN history \/ log[i].epoch > b.epoch
       /\ \A id \in Ids : \/ gone[id] = deactivated[id]
                          \/ deactivated[id] = 0 /\ gone[id] > b.epoch
  BY <1>7, <1>8
<1> HIDE DEF log, gone
<1>11. Owes(search, log, gone, b) = Owes(search, history, deactivated, b)
  <2>1. ASSUME NEW later \in Seq(Entries), NEW goneLater \in [Ids -> Nat],
               Len(history) =< Len(later), \A i \in DOMAIN history : later[i] = history[i],
               \A i \in DOMAIN later : i \in DOMAIN history \/ later[i].epoch > b.epoch,
               \A id \in Ids : \/ goneLater[id] = deactivated[id]
                               \/ deactivated[id] = 0 /\ goneLater[id] > b.epoch
        PROVE  Owes(search, later, goneLater, b) = Owes(search, history, deactivated, b)
    <3>1. history \in Seq(Entries) /\ deactivated \in [Ids -> Nat] /\ b \in Batches
          /\ b.limit =< Len(history)
      BY <1>1, <1>3, <1>5
    <3> QED BY <2>1, <3>1, OwesLater, SMTT(30)
  <2> QED BY <1>9, <1>10, <2>1
<1> QED BY <1>3, <1>6, <1>11 DEF log, gone

LEMMA NotActivatedDoes ==
  ASSUME IInv, NotActivated
  PROVE  /\ IInv'
         /\ \E retired \in SUBSET usable : usable' = usable \ retired
         /\ OwedBy(search', history', deactivated', queue')
            = OwedBy(search, history, deactivated, queue)
         /\ UNCHANGED <<search, history, made>>
<1>1. PICK c \in passive, retired \in SUBSET usable :
         /\ epoch' = epoch + 1
         /\ usable' = usable \ retired
         /\ deactivated' = [i \in Ids |-> IF i \in retired /\ deactivated[i] = 0
                                          THEN epoch' ELSE deactivated[i]]
         /\ Keep(search.eager, epoch', {c})
  BY DEF NotActivated
<1>2. UNCHANGED <<search, history, queue, heap, made>> BY DEF NotActivated
<1>3. deactivated' = [i \in Ids |-> IF i \in retired /\ deactivated[i] = 0
                                    THEN epoch + 1 ELSE deactivated[i]]
  BY <1>1
<1>4. /\ deactivated' \in [Ids -> Nat]
      /\ Active(history, deactivated') = usable \ retired
      /\ \A id \in Ids :
           /\ deactivated'[id] =< epoch'
           /\ deactivated'[id] # 0 => \E i \in DOMAIN history : history[i].id = id
           /\ \/ deactivated'[id] = deactivated[id]
              \/ deactivated[id] = 0 /\ deactivated'[id] > epoch
  BY <1>1, <1>3, Retires
<1>5. /\ epoch \in Nat /\ history \in Seq(Entries) /\ Typed /\ Recorded /\ Fresh
      /\ search.eager \in Nat /\ epoch' \in Nat
  BY <1>1, SearchesAssumption DEF IInv, Typed
<1>6. \A i \in DOMAIN history : history[i].id \in Ids /\ history[i].epoch \in Nat
  BY <1>5, EntriesTyped
<1>7. /\ Fresh' /\ next' \in Nat /\ next =< next' /\ unselected' \in Nat
      /\ passive' \subseteq [id : Ids, epoch : Nat] /\ IsFiniteSet(passive')
  <2>1. \A i \in DOMAIN history' : history'[i].id \in Ids /\ history'[i].id < next
    BY <1>2, <1>5, <1>6 DEF Recorded
  <2>2. \A d \in passive : \A i \in DOMAIN history' : history'[i].id # d.id
    BY <1>2, <1>5 DEF Fresh
  <2> QED BY <1>1, <1>2, <1>5, <2>1, <2>2, StaysFresh
<1>8. Typed'
  <2>1. usable' \subseteq Ids BY <1>1, <1>5 DEF Typed
  <2> QED BY <1>2, <1>4, <1>5, <1>7, <2>1 DEF Typed
<1>9. Recorded'
  <2>1. \A i \in DOMAIN history : history[i].id < next' /\ history[i].epoch =< epoch'
    <3>1. \A i \in DOMAIN history : history[i].id < next /\ history[i].epoch =< epoch
      BY <1>5 DEF Recorded
    <3>2. next \in Nat BY <1>5 DEF Typed
    <3>3. \A i \in DOMAIN history : history[i].id \in Nat BY <1>6 DEF Ids
    <3> QED BY <1>1, <1>5, <1>6, <1>7, <3>1, <3>2, <3>3
  <2>2. usable' = Active(history', deactivated') BY <1>1, <1>2, <1>4
  <2> QED BY <1>2, <1>4, <1>5, <2>1, <2>2 DEF Recorded, Deactivations, Denial
<1>10. \A b \in ToSet(queue) :
         /\ ReadyIn(search', epoch', history', b)
         /\ Owes(search', history', deactivated', b) = Owes(search, history, deactivated, b)
  <2>1. Len(history) =< Len(history') /\ history' \in Seq(Entries) BY <1>2, <1>5
  <2> QED BY <1>1, <1>2, <1>4, <2>1, OwesOn
<1>11. Queued' /\ heap' \in HeapOf(queue') BY <1>2, <1>10 DEF Queued, Ready, IInv
<1>12. OwedBy(search', history', deactivated', queue')
       = OwedBy(search, history, deactivated, queue)
  BY <1>2, <1>10 DEF OwedBy
<1>13. IInv' BY <1>7, <1>8, <1>9, <1>11 DEF IInv
<1> QED BY <1>1, <1>2, <1>12, <1>13

Entered(b, g, e, limit) ==
  /\ b \in Batches /\ b.given = g /\ b.rules = search.rules /\ b.epoch = e /\ b.limit = limit
  /\ b.cursor = 0 /\ Resting(b) /\ Drawn(b) = {}

Joins(q, b) == q \in Seq(Batches) /\ Distinct(q) /\ ToSet(q) = ToSet(queue) \cup {b}

\* A clause that becomes active has one more descriptor, unless there are no rules.
LEMMA EnqueuedFits ==
  ASSUME Typed, Distinct(queue), NEW g \in Ids, \A b \in ToSet(queue) : b.given # g,
         NEW e \in Nat, NEW limit \in Nat
  PROVE  LET batches == EnqueueAll(g, e, limit) IN
         /\ search.rules = {} => batches = queue
         /\ search.rules # {} =>
              /\ \E b : Entered(b, g, e, limit) /\ Joins(batches, b)
              /\ \E b : Entered(b, g, e, limit) /\ Joins(ProbeFirst(batches), b)
<1> DEFINE batches == EnqueueAll(g, e, limit)
           b == NewEntry(g, search.rules, e, limit)
           p == [b EXCEPT !.probe = TRUE]
<1>1. batches = Grown(queue, g, search.rules, e, limit) BY EnqueueAllGrows
<1>2. search.rules \in SUBSET Rules /\ queue \in Seq(Batches)
  BY SearchesAssumption DEF Typed
<1>3. search.rules = {} => batches = queue BY <1>1 DEF Grown
<1>4. ASSUME search.rules # {}
      PROVE  /\ \E x : Entered(x, g, e, limit) /\ Joins(batches, x)
             /\ \E x : Entered(x, g, e, limit) /\ Joins(ProbeFirst(batches), x)
  <2>1. batches = Append(queue, b) BY <1>1, <1>4 DEF Grown
  <2>2. Entered(b, g, e, limit) BY <1>2, EntryTyped DEF Entered
  <2> HIDE DEF b, batches
  <2>3. b \in Batches /\ b.given = g BY <2>2 DEF Entered
  <2>4. Joins(batches, b) BY <1>2, <2>1, <2>3, AppendJoins DEF Joins
  <2>5. Len(batches) = Len(queue) + 1 /\ batches[Len(queue) + 1] = b /\ batches # <<>>
        /\ batches \in Seq(Batches) /\ \A i \in 1 .. Len(queue) : batches[i] = queue[i]
    BY <1>2, <2>1, <2>3
  <2>6. Last(batches) = b BY <2>5 DEF Last
  <2>7. Front(batches) = queue
    <3>1. Front(batches) \in Seq(Batches) /\ Len(Front(batches)) = Len(batches) - 1
          /\ \A i \in 1 .. Len(batches) - 1 : Front(batches)[i] = batches[i]
      BY <2>5, FrontAndLast
    <3>2. Len(batches) - 1 = Len(queue) /\ Len(queue) \in Nat BY <1>2, <2>5
    <3>3. Len(Front(batches)) = Len(queue)
          /\ \A i \in 1 .. Len(queue) : Front(batches)[i] = queue[i]
      BY <2>5, <3>1, <3>2
    <3> QED BY <1>2, <3>1, <3>3
  <2>8. ProbeFirst(batches) = <<p>> \o queue BY <2>6, <2>7 DEF ProbeFirst
  <2>9. /\ p \in Batches /\ p.given = b.given /\ p.rules = b.rules /\ p.epoch = b.epoch
        /\ p.limit = b.limit /\ p.cursor = b.cursor /\ SameCursor(b, p)
    BY <2>3 DEF Batches, SameCursor
  <2> HIDE DEF p
  <2>10. Entered(p, g, e, limit)
    <3>1. Drawn(p) = Drawn(b) /\ (Resting(b) => Resting(p)) BY <2>9, DrawnSame
    <3> QED BY <2>2, <2>9, <3>1 DEF Entered
  <2>11. Joins(ProbeFirst(batches), p)
    <3>1. \A x \in ToSet(queue) : x.given # p.given BY <2>3, <2>9
    <3> QED BY <1>2, <2>8, <2>9, <3>1, ConsJoins DEF Joins
  <2> QED BY <2>2, <2>4, <2>10, <2>11
<1> QED BY <1>3, <1>4

LEMMA ActivateDoes ==
  ASSUME IInv, Activate
  PROVE  /\ IInv'
         /\ \E g \in Ids, retired \in SUBSET usable :
              /\ g > search.usable /\ \A i \in DOMAIN history : history[i].id # g
              /\ DOMAIN history' = DOMAIN history \cup {Len(history) + 1}
              /\ \A i \in DOMAIN history : history'[i] = history[i]
              /\ history'[Len(history) + 1].id = g
              /\ usable' = (usable \ retired) \cup {g}
              /\ OwedBy(search', history', deactivated', queue')
                 = OwedBy(search, history, deactivated, queue)
                     \cup UNION {YieldOf(search, g, p) : p \in usable'}
         /\ UNCHANGED <<search, made>>
<1> DEFINE e == epoch + 1
           clash(g) == search.rules \cap Hyper # {} /\ ~Denial(g)
           Log(g) == Append(history, Noted(g, clash(g), e))
<1>1. PICK c \in passive, retired \in SUBSET usable, probed \in BOOLEAN :
        LET batches == EnqueueAll(c.id, e, Len(Log(c.id))) IN
         /\ epoch' = e
         /\ usable' = (usable \ retired) \cup {c.id}
         /\ deactivated' = [i \in Ids |-> IF i \in retired /\ deactivated[i] = 0
                                          THEN e ELSE deactivated[i]]
         /\ history' = Log(c.id)
         /\ Keep(search.eager, e, {c})
         /\ probed => Len(batches) > Len(queue)
         /\ queue' = IF probed THEN ProbeFirst(batches) ELSE batches
  <2>1. PICK c \in passive, retired \in SUBSET usable, hint \in {search.probes, FALSE} :
          Activation(c, retired, hint)
    BY DEF Activate
  <2> DEFINE batches == EnqueueAll(c.id, e, Len(Log(c.id)))
             probed == IF Probed(batches, hint) THEN TRUE ELSE FALSE
  <2>2. probed \in BOOLEAN /\ (probed => Len(batches) > Len(queue)) BY DEF Probed
  <2>3. queue' = IF probed THEN ProbeFirst(batches) ELSE batches BY <2>1 DEF Activation
  <2>4. /\ epoch' = e
        /\ usable' = (usable \ retired) \cup {c.id}
        /\ deactivated' = [i \in Ids |-> IF i \in retired /\ deactivated[i] = 0
                                         THEN e ELSE deactivated[i]]
        /\ history' = Log(c.id)
        /\ Keep(search.eager, e, {c})
    BY <2>1 DEF Activation
  <2> HIDE DEF batches, probed
  <2> QED BY <2>2, <2>3, <2>4 DEF batches
<1>2. UNCHANGED <<search, heap, made>> BY DEF Activate
<1> DEFINE g == c.id
           n == Len(history)
           x == Noted(g, clash(g), e)
           batches == EnqueueAll(g, e, n + 1)
<1>3. /\ Typed /\ Recorded /\ Fresh /\ Queued /\ epoch \in Nat /\ history \in Seq(Entries)
      /\ search \in Searches /\ search.eager \in Nat /\ search.usable \in Nat
      /\ search.rules \in SUBSET Rules /\ next \in Nat /\ usable \subseteq Ids
  BY SearchesAssumption DEF IInv, Typed
<1>4. /\ g \in Ids /\ g \in Nat /\ g < next /\ g > search.usable
      /\ \A i \in DOMAIN history : history[i].id # g
  <2>1. c \in [id : Ids, epoch : Nat] BY <1>3 DEF Typed
  <2> QED BY <1>3, <2>1 DEF Fresh, Ids
<1> HIDE DEF g
<1>5. e \in Nat /\ n \in Nat /\ DOMAIN history = 1 .. n BY <1>3
<1> DEFINE b1 == clash(g)
<1>6. /\ x \in Entries /\ x.id = g /\ x.epoch = e
      /\ x.clashable <=> search.rules \cap Hyper # {} /\ ~Denial(g)
  <2>1. b1 \in BOOLEAN OBVIOUS
  <2>2. x = [id |-> g, clashable |-> b1, epoch |-> e] BY DEF Noted
  <2>3. b1 <=> search.rules \cap Hyper # {} /\ ~Denial(g) OBVIOUS
  <2> HIDE DEF b1, x, e
  <2>4. x \in Entries /\ x.id = g /\ x.epoch = e /\ x.clashable = b1
    BY <1>4, <1>5, <2>1, <2>2 DEF Entries
  <2> QED BY <2>3, <2>4
<1> HIDE DEF b1, x
<1>7. /\ history' = Append(history, x) /\ history' \in Seq(Entries) /\ Len(history') = n + 1
      /\ history'[n + 1] = x /\ \A i \in DOMAIN history : history'[i] = history[i]
      /\ DOMAIN history' = DOMAIN history \cup {n + 1}
  <2>1. history' = Append(history, x) BY <1>1 DEF x, g
  <2> QED BY <1>3, <1>5, <1>6, <2>1
<1>8. /\ deactivated' \in [Ids -> Nat]
      /\ Active(history, deactivated') = usable \ retired
      /\ \A id \in Ids :
           /\ deactivated'[id] =< epoch'
           /\ deactivated'[id] # 0 => \E i \in DOMAIN history : history[i].id = id
           /\ \/ deactivated'[id] = deactivated[id]
              \/ deactivated[id] = 0 /\ deactivated'[id] > epoch
           /\ id \notin retired => deactivated'[id] = deactivated[id]
  BY <1>1, Retires
<1>9. deactivated'[g] = 0 BY <1>4, <1>8
<1>10. epoch' = epoch + 1 /\ epoch' \in Nat /\ e = epoch' BY <1>1, <1>5
<1>11. \A i \in DOMAIN history : history[i].id \in Ids /\ history[i].epoch \in Nat
  BY <1>3, EntriesTyped
<1>12. \A b \in ToSet(queue) :
         /\ b \in Batches /\ ReadyIn(search', epoch', history', b)
         /\ Owes(search', history', deactivated', b) = Owes(search, history, deactivated, b)
  <2>1. n =< Len(history') BY <1>5, <1>7
  <2>2. \A i \in DOMAIN history' : i \in DOMAIN history \/ history'[i].epoch > epoch
    <3>1. x.epoch > epoch BY <1>3, <1>6
    <3> QED BY <1>7, <3>1
  <2> QED BY <1>2, <1>7, <1>8, <1>10, <2>1, <2>2, OwesOn
<1>13. \A b \in ToSet(queue) : b.given # g
  <2> SUFFICES ASSUME NEW b \in ToSet(queue) PROVE b.given # g OBVIOUS
  <2>1. ReadyIn(search, epoch, history, b) /\ b \in Batches BY <1>3, <1>12 DEF Queued, Ready
  <2>2. b.limit \in DOMAIN history /\ history[b.limit].id = b.given
    BY <1>3, <1>5, <2>1 DEF ReadyIn, Batches
  <2> QED BY <1>4, <2>2
<1>14. /\ search.rules = {} => queue' = queue
       /\ search.rules # {} => \E b : Entered(b, g, e, n + 1) /\ Joins(queue', b)
  <2>1. /\ probed => Len(batches) > Len(queue)
        /\ queue' = IF probed THEN ProbeFirst(batches) ELSE batches
    <3>1. Log(c.id) = history' /\ Len(history') = n + 1 BY <1>1, <1>7
    <3> QED BY <1>1, <3>1 DEF g
  <2>2. n + 1 \in Nat /\ Distinct(queue) BY <1>3, <1>5 DEF Queued
  <2>3. /\ search.rules = {} => batches = queue
        /\ search.rules # {} =>
             /\ \E b : Entered(b, g, e, n + 1) /\ Joins(batches, b)
             /\ \E b : Entered(b, g, e, n + 1) /\ Joins(ProbeFirst(batches), b)
    <3> HIDE DEF n, e
    <3> QED BY <1>3, <1>4, <1>5, <1>13, <2>2, EnqueuedFits
  <2> HIDE DEF batches
  <2>4. search.rules = {} => ~probed
    <3>1. Len(queue) \in Nat BY <1>3 DEF Typed
    <3> QED BY <2>1, <2>3, <3>1
  <2> QED BY <2>1, <2>3, <2>4
<1>15. usable' = Active(history', deactivated')
  <2> DEFINE log == history'  gone == deactivated'
             now == {i \in DOMAIN history : gone[history[i].id] = 0}
  <2>1. {i \in DOMAIN log : gone[log[i].id] = 0} = now \cup {n + 1}
    BY <1>6, <1>7, <1>9
  <2>2. Active(log, gone) = {log[i].id : i \in now \cup {n + 1}} BY <2>1 DEF Active
  <2>3. log[n + 1].id = g /\ \A i \in now : log[i].id = history[i].id BY <1>6, <1>7
  <2>4. usable \ retired = {history[i].id : i \in now} BY <1>8 DEF Active
  <2>5. usable' = (usable \ retired) \cup {g} BY <1>1 DEF g
  <2> HIDE DEF log, gone, now
  <2>6. {log[i].id : i \in now \cup {n + 1}} = {history[i].id : i \in now} \cup {g} BY <2>3
  <2> QED BY <2>2, <2>4, <2>5, <2>6 DEF log, gone
<1>16. \A i \in DOMAIN history' :
         \/ i \in DOMAIN history /\ history'[i] = history[i] /\ history[i].id # g
         \/ i = n + 1 /\ history'[i] = x
  BY <1>4, <1>7
<1>17. \A i \in DOMAIN history : /\ history[i].id \in Ids /\ history[i].id < next
                                 /\ history[i].epoch =< epoch
  BY <1>3, <1>11 DEF Recorded
<1>18. /\ Fresh' /\ next' \in Nat /\ next =< next' /\ unselected' \in Nat
       /\ passive' \subseteq [id : Ids, epoch : Nat] /\ IsFiniteSet(passive')
  <2>1. \A i \in DOMAIN history' : history'[i].id \in Ids /\ history'[i].id < next
    BY <1>4, <1>6, <1>16, <1>17
  <2>2. \A d \in passive : d \notin {c} => \A i \in DOMAIN history' : history'[i].id # d.id
    <3> SUFFICES ASSUME NEW d \in passive, d # c, NEW i \in DOMAIN history'
                 PROVE  history'[i].id # d.id
      OBVIOUS
    <3>1. d.id # g BY <1>3 DEF Fresh, g
    <3>2. \A j \in DOMAIN history : history[j].id # d.id BY <1>3 DEF Fresh
    <3> QED BY <1>6, <1>16, <3>1, <3>2
  <2>3. Keep(search.eager, e, {c}) BY <1>1
  <2> HIDE DEF e
  <2> QED BY <1>2, <1>3, <1>5, <2>1, <2>2, <2>3, StaysFresh
<1>19. /\ queue' \in Seq(Batches) /\ Distinct(queue')
       /\ \A b \in ToSet(queue') : ReadyIn(search', epoch', history', b)
       /\ GivenIn(queue) \subseteq GivenIn(queue')
  <2>1. CASE search.rules = {}
    <3>1. queue' = queue BY <1>14, <2>1
    <3> QED BY <1>3, <1>12, <3>1 DEF Typed, Queued
  <2>2. CASE search.rules # {}
    <3>1. PICK b : Entered(b, g, e, n + 1) /\ Joins(queue', b) BY <1>14, <2>2
    <3>2. /\ b \in Batches /\ b.given = g /\ b.rules = search.rules /\ b.epoch = e
          /\ b.limit = n + 1 /\ b.cursor = 0 /\ Resting(b)
      BY <3>1 DEF Entered
    <3>3. HyperPending(b) \/ ParaPending(b)
      <4>1. 0 < n + 1 BY <1>5
      <4>2. \A r \in search.rules : r \in Hyper \/ r = "para" BY <1>3 DEF Rules
      <4> QED BY <2>2, <3>2, <4>1, <4>2 DEF HyperPending, ParaPending
    <3>4. ReadyIn(search', epoch', history', b)
      <4>1. n + 1 > search.usable /\ n + 1 =< Len(history') /\ 0 =< n + 1 /\ b.epoch =< epoch'
        BY <1>3, <1>5, <1>7, <1>10, <3>2 DEF Recorded
      <4>2. history'[b.limit].id = b.given BY <1>6, <1>7, <3>2
      <4> QED BY <1>2, <3>2, <3>3, <4>1, <4>2 DEF ReadyIn
    <3>5. queue' \in Seq(Batches) /\ Distinct(queue') /\ ToSet(queue') = ToSet(queue) \cup {b}
      BY <3>1 DEF Joins
    <3>6. GivenIn(queue) \subseteq GivenIn(queue') BY <3>5, GivenOf
    <3> QED BY <1>12, <3>4, <3>5, <3>6
  <2> QED BY <2>1, <2>2
<1>20. Queued' BY <1>19 DEF Queued, Ready
<1>21. heap' \in HeapOf(queue')
  <2>1. heap \in HeapOf(queue) BY DEF IInv
  <2> QED BY <1>2, <1>19, <2>1, HeapOfMore DEF HeapOf
<1>22. Typed'
  <2>1. usable' \subseteq Ids BY <1>1, <1>3, <1>4 DEF g
  <2> QED BY <1>2, <1>3, <1>7, <1>8, <1>10, <1>18, <1>19, <2>1 DEF Typed
<1>23. Recorded'
  <2>1. Len(history') >= n /\ search.usable =< n BY <1>3, <1>5, <1>7 DEF Recorded
  <2>2. search'.usable =< Len(history') BY <1>2, <1>3, <1>5, <1>7, <2>1
  <2>3. \A i \in 1 .. search'.usable : history'[i].id = i
    <3>1. \A i \in 1 .. search.usable : i \in DOMAIN history /\ history[i].id = i
      BY <1>3, <1>5 DEF Recorded
    <3> QED BY <1>2, <1>7, <3>1
  <2>4. ASSUME NEW i \in DOMAIN history'
        PROVE  /\ history'[i].id < next' /\ history'[i].epoch =< epoch'
               /\ i > search'.usable => history'[i].id > search'.usable
               /\ history'[i].clashable <=> /\ search'.rules \cap Hyper # {}
                                            /\ i > search'.usable => history'[i].id \notin search'.denials
    <3>1. CASE i \in DOMAIN history /\ history'[i] = history[i]
      <4>1. history[i].id \in Nat /\ history[i].epoch \in Nat BY <1>11, <3>1 DEF Ids
      <4>2. history[i].id < next' /\ history[i].epoch =< epoch'
        BY <1>3, <1>10, <1>17, <1>18, <3>1, <4>1
      <4>3. /\ i > search.usable => history[i].id > search.usable
            /\ history[i].clashable <=> /\ search.rules \cap Hyper # {}
                                        /\ i > search.usable => ~Denial(history[i].id)
        BY <1>3, <3>1 DEF Recorded
      <4> QED BY <1>2, <3>1, <4>2, <4>3 DEF Denial
    <3>2. CASE i = n + 1 /\ history'[i] = x
      <4>1. g < next' BY <1>3, <1>4, <1>18
      <4>2. e =< epoch' /\ i > search.usable BY <1>5, <1>10, <1>3, <2>1, <3>2
      <4>3. /\ x.id > search.usable
            /\ x.clashable <=> /\ search.rules \cap Hyper # {}
                               /\ i > search.usable => ~Denial(x.id)
        BY <1>4, <1>6, <4>2
      <4> HIDE DEF e
      <4> QED BY <1>2, <1>6, <3>2, <4>1, <4>2, <4>3 DEF Denial
    <3> QED BY <1>16, <3>1, <3>2
  <2>5. \A i, j \in DOMAIN history' : history'[i].id = history'[j].id => i = j
    <3>1. \A i, j \in DOMAIN history : history[i].id = history[j].id => i = j
      BY <1>3 DEF Recorded
    <3>2. x.id = g BY <1>6
    <3> HIDE DEF n
    <3> QED BY <1>16, <3>1, <3>2
  <2>6. Deactivations'
    <3>1. ASSUME NEW id \in Ids
          PROVE  /\ deactivated'[id] =< epoch'
                 /\ deactivated'[id] # 0 => \E i \in DOMAIN history' : history'[i].id = id
      <4>1. deactivated'[id] # 0 => \E i \in DOMAIN history : history[i].id = id BY <1>8
      <4> QED BY <1>7, <1>8, <4>1
    <3> QED BY <3>1 DEF Deactivations
  <2> QED BY <1>15, <2>2, <2>3, <2>4, <2>5, <2>6 DEF Recorded, Denial
<1>24. OwedBy(search', history', deactivated', queue')
       = OwedBy(search, history, deactivated, queue)
           \cup UNION {YieldOf(search, g, p) : p \in usable'}
  <2> DEFINE log == history'  gone == deactivated'
             before == OwedBy(search, history, deactivated, queue)
             due == UNION {YieldOf(search, g, p) : p \in usable'}
  <2>1. \A b \in ToSet(queue) : Owes(search, log, gone, b) = Owes(search, history, deactivated, b)
    BY <1>2, <1>12
  <2>2. OwedBy(search, log, gone, queue) = before
    <3> HIDE DEF log, gone
    <3> QED BY <2>1 DEF OwedBy
  <2>3. CASE search.rules = {}
    <3>1. queue' = queue BY <1>14, <2>3
    <3>2. due = {} BY <2>3 DEF YieldOf
    <3> QED BY <1>2, <2>2, <3>1, <3>2
  <2>4. CASE search.rules # {}
    <3>1. PICK b : Entered(b, g, e, n + 1) /\ Joins(queue', b) BY <1>14, <2>4
    <3>2. /\ b \in Batches /\ b.given = g /\ b.rules = search.rules /\ b.epoch = epoch'
          /\ b.limit = Len(log) /\ b.cursor = 0 /\ Drawn(b) = {}
      BY <1>7, <1>10, <3>1 DEF Entered
    <3>3. ToSet(queue') = {b} \cup ToSet(queue) BY <3>1 DEF Joins
    <3>4. /\ search \in Searches /\ log \in Seq(Entries) /\ gone \in [Ids -> Nat]
          /\ \A id \in Ids : gone[id] =< b.epoch
      BY <1>3, <1>7, <1>8, <3>2
    <3>5. \A i \in DOMAIN log :
            /\ log[i].epoch =< b.epoch
            /\ i > search.usable <=> log[i].id > search.usable
            /\ log[i].clashable <=> /\ search.rules \cap Hyper # {}
                                    /\ i > search.usable => log[i].id \notin search.denials
      <4> SUFFICES ASSUME NEW i \in DOMAIN log
                   PROVE  /\ log[i].epoch =< b.epoch
                          /\ i > search.usable <=> log[i].id > search.usable
                          /\ log[i].clashable <=>
                               /\ search.rules \cap Hyper # {}
                               /\ i > search.usable => log[i].id \notin search.denials
        OBVIOUS
      <4>1. /\ log[i].epoch =< epoch'
            /\ i > search'.usable => log[i].id > search'.usable
            /\ log[i].clashable <=> /\ search'.rules \cap Hyper # {}
                                    /\ i > search'.usable => ~(log[i].id \in search'.denials)
        BY <1>23 DEF Recorded, Denial
      <4>2. i =< search.usable => log[i].id = i
        <5>1. \A k \in 1 .. search'.usable : log[k].id = k BY <1>23 DEF Recorded
        <5>2. i \in Nat /\ i >= 1 BY <3>4
        <5> QED BY <1>2, <1>3, <5>1, <5>2
      <4>3. i \in Nat BY <3>4
      <4> HIDE DEF log
      <4> QED BY <1>2, <1>3, <3>2, <4>1, <4>2, <4>3
    <3>6. usable' = Active(log, gone) BY <1>15
    <3> HIDE DEF log, gone
    <3>7. Owes(search, log, gone, b)
          = UNION {YieldOf(search, b.given, p) : p \in Active(log, gone)}
      <4>1. b.cursor = 0 /\ b.limit = Len(log) /\ b.rules = search.rules BY <3>2
      <4> QED BY <3>2, <3>4, <3>5, <4>1, OwesAll
    <3>8. Owes(search, log, gone, b) \ Drawn(b) = due BY <3>2, <3>6, <3>7
    <3>9. OwedBy(search, log, gone, queue')
          = (Owes(search, log, gone, b) \ Drawn(b)) \cup OwedBy(search, log, gone, queue)
      BY <3>3, OwedSplits
    <3> HIDE DEF before, due
    <3>10. OwedBy(search, log, gone, queue') = before \cup due BY <2>2, <3>8, <3>9
    <3> QED BY <1>2, <3>10 DEF before, due, log, gone
  <2> QED BY <2>3, <2>4
<1>25. IInv' BY <1>18, <1>20, <1>21, <1>22, <1>23 DEF IInv
<1>26. usable' = (usable \ retired) \cup {g} BY <1>1 DEF g
<1>27. history'[n + 1].id = g BY <1>6, <1>7
<1> QED BY <1>2, <1>4, <1>7, <1>24, <1>25, <1>26, <1>27 DEF n

-----------------------------------------------------------------------------
(* The invariant holds.                                                    *)

LEMMA NextInv == ASSUME IInv, [Next]_vars PROVE IInv'
<1>1. CASE Turn BY <1>1, TurnInv
<1>2. CASE Refresh BY <1>2, RefreshInv
<1>3. CASE Activate BY <1>3, ActivateDoes
<1>4. CASE NotActivated BY <1>4, NotActivatedDoes
<1>5. CASE Resume BY <1>5, ResumeInv
<1>6. CASE UNCHANGED vars BY <1>6, ResumeInv
<1> QED BY <1>1, <1>2, <1>3, <1>4, <1>5, <1>6 DEF Next

\* The record of activations, the waiting clauses and the descriptors fit together: every
\* descriptor in the queue is of a clause of the history, has something left to do, and
\* its cursor is at a conclusion of the unit it is in.
THEOREM Invariant == Spec => []IInv
<1>1. Init => IInv BY InitInv
<1>2. IInv /\ [Next]_vars => IInv' BY NextInv
<1> QED BY <1>1, <1>2, PTL DEF Spec

-----------------------------------------------------------------------------
(* The frontier implements its contract.                                   *)

LEMMA YieldTyped ==
  ASSUME NEW se \in Searches, NEW g \in Ids, NEW p \in Ids
  PROVE  /\ YieldOf(se, g, p) \subseteq Conclusions
         /\ \A c \in YieldOf(se, g, p) : c.given = g
<1>1. se.rules \subseteq Rules BY SearchesAssumption
<1>2. \A r \in se.rules : \A c \in ToSet(RawIn(se, r, g, p)) : c \in Conclusions /\ c.given = g
  BY <1>1, RawTyped
<1> QED BY <1>2 DEF YieldOf

LEMMA InitContract == ASSUME Init PROVE Contract!Init
<1> DEFINE yield == [g \in Ids |-> [p \in Ids |-> Yield(g, p)]]
           C == [given : Ids, partner : Ids, rule : Rules, n : Nat, weight : Nat]
<1>1. search \in Searches /\ IInv BY InitInv DEF Init
<1>2. \A g, p \in Ids : Yield(g, p) \subseteq C /\ \A c \in Yield(g, p) : c.given = g
  <2>1. Conclusions = C BY DEF Conclusions
  <2> QED BY <1>1, <2>1, YieldIs, YieldTyped
<1>3. yield \in [Ids -> [Ids -> SUBSET C]] BY <1>2
<1>4. \A g, p \in Ids : yield[g][p] \subseteq {c \in C : c.given = g} BY <1>2
<1>5. search.chunk \in Nat \ {0} /\ search.usable \in Nat BY <1>1, SearchesAssumption
<1>6. Given = {}
  <2>1. Len(history) = search.usable BY <1>5 DEF Init
  <2>2. search.usable + 1 .. Len(history) = {} BY <1>5, <2>1
  <2> QED BY <2>2 DEF Given
<1>7. usable \subseteq Ids BY <1>1 DEF IInv, Typed
<1>8. Owed = {}
  <2>1. queue = <<>> BY DEF Init
  <2>2. DOMAIN queue = {} BY <2>1
  <2> QED BY <2>2 DEF Owed
<1>9. made = {} BY DEF Init
<1> HIDE DEF yield, C
<1> QED BY <1>3, <1>4, <1>5, <1>6, <1>7, <1>8, <1>9
        DEF Contract!Init, Contract!ConclusionsOf, yield, C

\* The clauses that were given, when the history stays or grows by one.
LEMMA GivenGrows ==
  ASSUME IInv, search' = search, NEW g,
         DOMAIN history' = DOMAIN history \cup {Len(history) + 1},
         \A i \in DOMAIN history : history'[i] = history[i],
         history'[Len(history) + 1].id = g, history' \in Seq(Entries)
  PROVE  Given' = Given \cup {g}
<1> DEFINE n == Len(history)  u == search.usable
<1>1. n \in Nat /\ u \in Nat /\ u =< n /\ DOMAIN history = 1 .. n
  BY SearchesAssumption DEF IInv, Typed, Recorded
<1>2. Len(history') = n + 1
  <2>1. DOMAIN history' = 1 .. Len(history') /\ Len(history') \in Nat OBVIOUS
  <2> HIDE DEF n
  <2> QED BY <1>1, <2>1
<1>3. Given' = {history'[i].id : i \in u + 1 .. n + 1} BY <1>2 DEF Given
<1>4. Given = {history[i].id : i \in u + 1 .. n} BY DEF Given
<1>5. history'[n + 1].id = g OBVIOUS
<1> HIDE DEF n, u
<1>6. u + 1 .. n + 1 = (u + 1 .. n) \cup {n + 1} BY <1>1
<1>7. \A i \in u + 1 .. n : history'[i].id = history[i].id
  <2>1. u + 1 .. n \subseteq 1 .. n BY <1>1
  <2> QED BY <1>1, <2>1
<1> DEFINE I == u + 1 .. n
           old(i) == history[i].id
           new(i) == history'[i].id
<1>8. Given' = {new(i) : i \in I \cup {n + 1}} /\ Given = {old(i) : i \in I}
  BY <1>3, <1>4, <1>6
<1>9. new(n + 1) = g /\ \A i \in I : new(i) = old(i) BY <1>5, <1>7
<1> HIDE DEF I, old, new
<1> QED BY <1>8, <1>9

LEMMA StepContract ==
  ASSUME IInv, IInv', [Next]_vars
  PROVE  [Contract!Next]_Contract!vars
<1> DEFINE before == OwedBy(search, history, deactivated, queue)
           after == OwedBy(search', history', deactivated', queue')
           yield == [g \in Ids |-> [p \in Ids |-> Yield(g, p)]]
<1>1. Owed = before BY OwedIs DEF IInv
<1>2. Owed' = after
  <2>1. (Typed /\ Recorded => Owed = OwedBy(search, history, deactivated, queue))'
    BY OwedIs, PTL
  <2> QED BY <2>1 DEF IInv
<1>3. search' = search => yield' = yield /\ (search.chunk)' = search.chunk
  <2>1. search' = search => \A g, p \in Ids : Yield(g, p)' = Yield(g, p)
    BY DEF Yield, RawOf, Denial
  <2> QED BY <2>1
<1>4. search' = search /\ history' = history => Given' = Given BY DEF Given
<1>5. ASSUME UNCHANGED <<search, history, usable, made>>, after = before
      PROVE  UNCHANGED Contract!vars
  <2>1. Given' = Given /\ yield' = yield /\ (search.chunk)' = search.chunk /\ Owed' = Owed
    BY <1>1, <1>2, <1>3, <1>4, <1>5
  <2> QED BY <1>5, <2>1 DEF Contract!vars
<1>6. CASE Turn
  <2>1. CASE fatal' # "none"
    <3>1. /\ ToSet(queue') = ToSet(queue)
          /\ UNCHANGED <<search, record, made>>
      BY <1>6, <2>1, TurnFails
    <3>2. after = before BY <3>1 DEF OwedBy, record
    <3> QED BY <1>5, <3>1, <3>2 DEF record
  <2>2. CASE fatal' = "none"
    <3> DEFINE now(q) == OwedBy(search, history, deactivated, q)
    <3>1. PICK D : /\ made' = made \cup D /\ D \subseteq now(queue) /\ now(queue') = now(queue) \ D
                   /\ Cardinality(D) =< search.chunk
      BY <1>6, <2>2, TurnEnds
    <3>2. UNCHANGED <<search, record>> BY <1>6 DEF Turn
    <3>3. before = now(queue) /\ after = now(queue') BY <3>2 DEF record
    <3> HIDE DEF now
    <3>4. Owed' = Owed \ D /\ D \subseteq Owed BY <1>1, <1>2, <3>1, <3>3
    <3>5. Owed \ Owed' = D /\ Owed' \subseteq Owed BY <3>4
    <3>6. Given' = Given /\ yield' = yield /\ (search.chunk)' = search.chunk
      BY <1>3, <1>4, <3>2 DEF record
    <3>7. usable' = usable BY <3>2 DEF record
    <3>8. Cardinality(Owed \ Owed') =< search.chunk /\ made' = made \cup (Owed \ Owed')
      BY <3>1, <3>5
    <3> HIDE DEF before, after
    <3>9. Contract!Draw
      <4>1. Contract!Cardinality(Owed \ Owed') = Cardinality(Owed \ Owed')
        BY DEF Contract!Cardinality, Cardinality
      <4> QED BY <3>5, <3>6, <3>7, <3>8, <4>1 DEF Contract!Draw, Contract!input
    <3> QED BY <3>9 DEF Contract!Next
  <2> QED BY <2>1, <2>2
<1>7. CASE Refresh \/ Resume \/ UNCHANGED vars
  <2>1. UNCHANGED <<search, record, queue, made>> BY <1>7 DEF Refresh, Resume, vars
  <2> QED BY <1>5, <2>1 DEF record
<1>8. CASE Activate
  <2>1. PICK g \in Ids, retired \in SUBSET usable :
          /\ g > search.usable /\ \A i \in DOMAIN history : history[i].id # g
          /\ DOMAIN history' = DOMAIN history \cup {Len(history) + 1}
          /\ \A i \in DOMAIN history : history'[i] = history[i]
          /\ history'[Len(history) + 1].id = g
          /\ usable' = (usable \ retired) \cup {g}
          /\ after = before \cup UNION {YieldOf(search, g, p) : p \in usable'}
    BY <1>8, ActivateDoes
  <2>2. search' = search /\ made' = made BY <1>8 DEF Activate
  <2>3. usable' \subseteq Ids /\ history' \in Seq(Entries) BY DEF IInv, Typed
  <2>4. Given' = Given \cup {g} BY <2>1, <2>2, <2>3, GivenGrows
  <2>5. g \notin Given
    <3>1. search.usable \in Nat /\ history \in Seq(Entries) BY SearchesAssumption DEF IInv, Typed
    <3>2. search.usable + 1 .. Len(history) \subseteq DOMAIN history BY <3>1
    <3> QED BY <2>1, <3>2 DEF Given
  <2>6. Owed' = Owed \cup UNION {yield[g][p] : p \in usable'}
    <3>1. \A p \in usable' : yield[g][p] = YieldOf(search, g, p) BY <2>3, YieldIs
    <3> HIDE DEF before, after, yield
    <3> QED BY <1>1, <1>2, <2>1, <3>1
  <2>7. yield' = yield /\ (search.chunk)' = search.chunk BY <1>3, <2>2
  <2>8. Contract!Activate(g, retired)
    <3>1. Owed' = Owed \cup UNION {[x \in Ids |-> [y \in Ids |-> Yield(x, y)]][g][p] : p \in usable'}
      BY <2>6
    <3> QED BY <2>1, <2>2, <2>4, <2>5, <2>7, <3>1 DEF Contract!Activate, Contract!input
  <2> QED BY <2>8 DEF Contract!Next
<1>9. CASE NotActivated
  <2>1. PICK retired \in SUBSET usable : usable' = usable \ retired BY <1>9, NotActivatedDoes
  <2>2. after = before /\ UNCHANGED <<search, history, made>> BY <1>9, NotActivatedDoes
  <2>3. Given' = Given /\ yield' = yield /\ (search.chunk)' = search.chunk /\ Owed' = Owed
    BY <1>1, <1>2, <1>3, <1>4, <2>2
  <2>4. Contract!Retire(retired) BY <2>1, <2>2, <2>3 DEF Contract!Retire, Contract!input
  <2> QED BY <2>4 DEF Contract!Next
<1> QED BY <1>6, <1>7, <1>8, <1>9 DEF Next

\* Whatever the search, its inputs and its clauses, the descriptors, cursors and epochs
\* stand for exactly the conclusions that are due.  A turn draws at most
\* collective_candidate_chunk of them, and each is drawn once.
THEOREM ImplementsContract == Spec => KeepsFrontierContract
<1>1. Init => Contract!Init BY InitContract
<1>2. IInv /\ IInv' /\ [Next]_vars => [Contract!Next]_Contract!vars BY StepContract
<1> QED BY <1>1, <1>2, Invariant, PTL DEF Spec, KeepsFrontierContract, Contract!Spec
=============================================================================
