----------------------- MODULE CollectiveOrderProofs -----------------------
(***************************************************************************)
(* That the collective frontier never loses its place: the replay of a     *)
(* unit fails in one situation only, the heap of partial descriptors is in *)
(* order, and no descriptor starves, for any searches and any number of    *)
(* clauses.                                                                *)
(***************************************************************************)
EXTENDS CollectiveFrontierProofs

-----------------------------------------------------------------------------
(* The place of a descriptor in its unit.                                  *)

\* The next candidate of a partial descriptor is the least of those that were not drawn.
Above(b) == {k \in DOMAIN b.hash : Less(b.at, KeyAt(b.hash, k))}
KnowsNext(b) ==
  /\ b.done = Len(b.hash) - Cardinality(Above(b))
  /\ b.next \in {KeyAt(b.hash, k) : k \in Above(b)}
  /\ \A k \in Above(b) : ~Less(KeyAt(b.hash, k), b.next)

Keyed(b) ==
  /\ b.promising => KnowsNext(b)
  /\ ~b.promising => b.at = NoKey /\ b.next = NoKey

\* What the hash of a descriptor says of the unit it is in.
DrawnOf(b, unit) ==
  IF b.promising THEN b.hash = unit
  ELSE b.done =< Len(unit) /\ b.hash = SubSeq(unit, 1, b.done)

\* What a turn of a unit makes of its descriptor.
Advanced(b, unit, did) ==
  /\ did.fatal = "none" /\ did.complete \in BOOLEAN
  /\ did.batch \in Batches /\ SameUnits(b, did.batch) /\ Resting(did.batch) /\ Keyed(did.batch)
  /\ did.complete => did.batch.done = 0
  /\ ~did.complete => did.batch.done # 0 /\ DrawnOf(did.batch, unit)

LEMMA ResetKeyed ==
  ASSUME NEW b \in Batches
  PROVE  LET r == ResetConclusions(b) IN
         r \in Batches /\ SameUnits(b, r) /\ Resting(r) /\ Keyed(r) /\ r.done = 0
<1> DEFINE r == ResetConclusions(b)
<1>1. r \in Batches /\ SameUnits(b, r) /\ Resting(r) /\ r.done = 0 BY ResetTyped
<1>2. r.promising = FALSE /\ r.at = NoKey /\ r.next = NoKey
  BY DEF ResetConclusions, Batches
<1> HIDE DEF r
<1>3. Keyed(r) BY <1>2 DEF Keyed
<1> QED BY <1>1, <1>3 DEF r

LEMMA PrefixAdvances ==
  ASSUME NEW b \in Batches, Resting(b), ~b.promising,
         NEW raw \in Seq(Conclusions), b.done # 0 => DrawnOf(b, raw), NEW limit \in Nat \ {0}
  PROVE  Advanced(b, raw, PrefixChunk(b, raw, limit))
<1> DEFINE n == Len(raw)  done == b.done
           upto == Min({b.done + limit, Len(raw)})
           did == PrefixChunk(b, raw, limit)
           drawn == SubSeq(raw, done + 1, upto)
           longer == [ResetConclusions(b) EXCEPT !.done = upto, !.hash = SubSeq(raw, 1, upto)]
<1>1. n \in Nat /\ done \in Nat BY DEF Batches
<1>2. upto = IF done + limit =< n THEN done + limit ELSE n BY <1>1, MinOfTwo
<1>3. done =< n /\ b.hash = SubSeq(raw, 1, done)
  <2>1. CASE done = 0
    <3>1. b.hash = <<>> BY <2>1 DEF Resting
    <3>2. SubSeq(raw, 1, 0) = <<>> OBVIOUS
    <3> QED BY <1>1, <2>1, <3>1, <3>2
  <2>2. CASE done # 0 BY <2>2 DEF DrawnOf
  <2> QED BY <2>1, <2>2
<1>4. did = IF upto = n THEN Did(drawn, TRUE, ResetConclusions(b)) ELSE Did(drawn, FALSE, longer)
  <2>1. ~(Len(raw) < done \/ SubSeq(raw, 1, done) # b.hash) BY <1>1, <1>3
  <2> QED BY <2>1 DEF PrefixChunk
<1> HIDE DEF did, upto, n
<1>5. upto \in Nat /\ upto =< n /\ (upto # n => upto # 0) BY <1>1, <1>2, <1>3
<1>6. CASE upto = n
  <2>1. did.fatal = "none" /\ did.complete = TRUE /\ did.batch = ResetConclusions(b)
    BY <1>4, <1>6 DEF Did
  <2> QED BY <2>1, ResetKeyed DEF Advanced, did
<1>7. CASE upto # n
  <2>1. did.fatal = "none" /\ did.complete = FALSE /\ did.batch = longer
    BY <1>4, <1>7 DEF Did
  <2>2. SubSeq(raw, 1, upto) \in Seq(Conclusions)
    <3>1. upto =< Len(raw) BY <1>5 DEF n
    <3>2. 1 =< upto + 1 BY <1>5
    <3> HIDE DEF upto
    <3> QED BY <1>5, <3>1, <3>2, SubSeqOf
  <2> DEFINE r == ResetConclusions(b)
  <2>3. r \in Batches /\ SameUnits(b, r) /\ r.promising = FALSE /\ r.at = NoKey /\ r.next = NoKey
    <3>1. r \in Batches /\ SameUnits(b, r) BY ResetKeyed
    <3> QED BY <3>1 DEF ResetConclusions, Batches
  <2> HIDE DEF r
  <2>4. longer = [r EXCEPT !.done = upto, !.hash = SubSeq(raw, 1, upto)] BY DEF r
  <2> HIDE DEF longer
  <2>5. /\ longer \in Batches /\ SameUnits(b, longer) /\ longer.done = upto
        /\ longer.hash = SubSeq(raw, 1, upto) /\ longer.promising = FALSE
        /\ longer.at = NoKey /\ longer.next = NoKey
    BY <1>5, <2>2, <2>3, <2>4 DEF Batches, SameUnits
  <2>6. Resting(longer) /\ Keyed(longer) BY <1>5, <1>7, <2>5 DEF Resting, Keyed
  <2>7. DrawnOf(longer, raw) BY <1>5, <2>5 DEF DrawnOf, n
  <2> QED BY <1>5, <1>7, <2>1, <2>5, <2>6, <2>7 DEF Advanced, did
<1> QED BY <1>6, <1>7

HeldOf(keys, n, s) == {i \in 1 .. n : keys[i] \in ToSet(s)}

\* A sorted buffer of keys of a unit has as many of them as there are places.
LEMMA HeldPlaces ==
  ASSUME NEW s \in Seq(Keys), Sorted(s), NEW n, NEW keys,
         \A i \in 1 .. n : keys[i] \in Keys /\ keys[i][2] = i,
         \A i \in DOMAIN s : s[i][2] \in 1 .. n /\ s[i] = keys[s[i][2]]
  PROVE  IsFiniteSet(HeldOf(keys, n, s)) /\ Cardinality(HeldOf(keys, n, s)) = Len(s)
<1> DEFINE P == HeldOf(keys, n, s)
           f == [i \in 1 .. Len(s) |-> s[i][2]]
<1>1. Len(s) \in Nat /\ DOMAIN s = 1 .. Len(s) /\ \A i \in 1 .. Len(s) : s[i] \in Keys
  OBVIOUS
<1>2. \A i \in 1 .. Len(s) : f[i] \in P /\ s[i] = keys[f[i]]
  <2> SUFFICES ASSUME NEW i \in 1 .. Len(s) PROVE s[i][2] \in P /\ s[i] = keys[s[i][2]]
    OBVIOUS
  <2>1. s[i] \in ToSet(s) BY <1>1 DEF ToSet
  <2> QED BY <1>1, <2>1 DEF HeldOf
<1>3. \A i \in P : \E j \in 1 .. Len(s) : f[j] = i
  <2> SUFFICES ASSUME NEW i \in P PROVE \E j \in 1 .. Len(s) : s[j][2] = i OBVIOUS
  <2>1. PICK j \in 1 .. Len(s) : s[j] = keys[i] BY <1>1 DEF ToSet, HeldOf
  <2>2. keys[i][2] = i BY DEF HeldOf
  <2> QED BY <2>1, <2>2
<1>4. \A i, j \in 1 .. Len(s) : f[i] = f[j] => i = j
  <2> SUFFICES ASSUME NEW i \in 1 .. Len(s), NEW j \in 1 .. Len(s), f[i] = f[j], i < j
               PROVE  FALSE
    BY <1>1
  <2>1. s[i] = s[j] BY <1>2
  <2>2. Less(s[i], s[j]) BY <1>1 DEF Sorted
  <2>3. s[i] \in Keys /\ s[j] \in Keys BY <1>1
  <2> QED BY <2>1, <2>2, <2>3, KeyOrder
<1> HIDE DEF f, P
<1>5. f \in Bijection(1 .. Len(s), P)
  <2>1. DOMAIN f = 1 .. Len(s) /\ f \in [1 .. Len(s) -> P] BY <1>2 DEF f
  <2> QED BY <1>3, <1>4, <2>1 DEF Bijection, Injection, Surjection, IsInjective
<1>6. IsFiniteSet(1 .. Len(s)) /\ Cardinality(1 .. Len(s)) = Len(s) BY <1>1, FS_Interval
<1>7. IsFiniteSet(P) /\ Cardinality(P) = Len(s)
  BY <1>5, <1>6, FS_Bijection DEF ExistsBijection
<1> QED BY <1>7 DEF P

LEMMA PromisingAdvances ==
  ASSUME NEW b \in Batches, Resting(b), Keyed(b), b.done # 0 => b.promising,
         NEW raw \in Seq(Conclusions), b.done # 0 => DrawnOf(b, raw), NEW limit \in Nat \ {0}
  PROVE  Advanced(b, raw, PromisingChunk(b, raw, limit))
<1> DEFINE n == Len(raw)
           scan == Scan(b, raw, limit)
           s == scan.buffer  held == ToSet(s)
           O == Open(b, raw, n)
           K == OpenKeys(b, raw, n)
           drawn == [i \in DOMAIN s |-> raw[s[i][2]]]
           longer == [b EXCEPT !.promising = TRUE, !.done = @ + Len(drawn), !.hash = raw,
                               !.at = Last(s), !.next = scan.least]
           did == PromisingChunk(b, raw, limit)
           keys == [i \in 1 .. n |-> KeyAt(raw, i)]
<1>1. n \in Nat /\ DOMAIN raw = 1 .. n /\ \A i \in 1 .. n : raw[i] \in Conclusions OBVIOUS
<1>2. Scanned(scan, b, raw, limit, n) BY ScanExact
<1> HIDE DEF scan, n
<1>3. /\ scan \in Scans /\ Sorted(s) /\ Len(s) =< limit /\ held \subseteq K
      /\ scan.eligible = Cardinality(O) /\ scan.replayed = n - scan.eligible
      /\ \/ scan.eligible = Len(s) /\ held = K
         \/ /\ Len(s) = limit /\ limit < scan.eligible /\ scan.least \in K \ held
            /\ \A k \in K \ held : ~Less(k, scan.least) /\ \A h \in held : Less(h, k)
  BY <1>2 DEF Scanned
<1>4. s \in Seq(Keys) /\ Len(s) \in Nat /\ DOMAIN s = 1 .. Len(s)
      /\ scan.least \in Keys /\ scan.eligible \in Nat
  BY <1>3 DEF Scans
<1> DEFINE open(i) == ~Replayed(b, KeyAt(raw, i))
<1>5. \A i \in 1 .. n : keys[i] = KeyAt(raw, i) /\ keys[i] \in Keys /\ keys[i][2] = i
  BY <1>1, KeysOfRaw
<1>6. O = {i \in 1 .. n : open(i)} /\ IsFiniteSet(O)
  <2>1. O = {i \in 1 .. n : open(i)} BY DEF Open
  <2>2. IsFiniteSet(1 .. n) BY <1>1, FS_Interval
  <2> HIDE DEF O
  <2> QED BY <2>1, <2>2, FS_Subset
<1>7. K = {keys[i] : i \in O}
  <2>1. K = {KeyAt(raw, i) : i \in O} BY DEF OpenKeys
  <2> HIDE DEF K, keys
  <2> QED BY <1>5, <1>6, <2>1
<1> HIDE DEF O, K, keys, open
<1>8. \A i \in 1 .. n : keys[i] \in K <=> i \in O
  <2> SUFFICES ASSUME NEW i \in 1 .. n, keys[i] \in K PROVE i \in O BY <1>7
  <2>1. PICK j \in O : keys[i] = keys[j] BY <1>7
  <2>2. i = j BY <1>5, <1>6, <2>1
  <2> QED BY <2>1, <2>2
<1>9. \A i \in 1 .. Len(s) : s[i] \in held /\ s[i][2] \in O /\ s[i] = keys[s[i][2]]
  <2> SUFFICES ASSUME NEW i \in 1 .. Len(s)
               PROVE  s[i] \in held /\ s[i][2] \in O /\ s[i] = keys[s[i][2]]
    OBVIOUS
  <2>1. s[i] \in held BY <1>4 DEF ToSet
  <2>2. PICK j \in O : s[i] = keys[j] BY <1>3, <1>7, <2>1
  <2>3. s[i][2] = j BY <1>5, <1>6, <2>2
  <2> QED BY <2>1, <2>2, <2>3
<1> DEFINE H == {i \in 1 .. n : keys[i] \in held}
<1>10. IsFiniteSet(H) /\ Cardinality(H) = Len(s)
  <2>1. \A i \in DOMAIN s : s[i][2] \in 1 .. n /\ s[i] = keys[s[i][2]] BY <1>4, <1>6, <1>9
  <2>2. \A i \in 1 .. n : keys[i] \in Keys /\ keys[i][2] = i BY <1>5
  <2>3. s \in Seq(Keys) /\ Sorted(s) BY <1>3, <1>4
  <2>4. H = HeldOf(keys, n, s) BY DEF HeldOf
  <2> HIDE DEF s, H
  <2> QED BY <2>1, <2>2, <2>3, <2>4, HeldPlaces
<1>11. H \subseteq O BY <1>3, <1>8
<1>12. Len(drawn) = Len(s) BY <1>4
<1> HIDE DEF held, s, H
<1>13. b.done = n - Cardinality(O)
  <2>1. CASE b.done = 0
    <3>1. \A i \in 1 .. n : open(i) BY <2>1 DEF Replayed, open
    <3>2. O = 1 .. n BY <1>6, <3>1
    <3>3. Cardinality(1 .. n) = IF 1 > n THEN 0 ELSE n - 1 + 1
      <4>1. 1 \in Int /\ n \in Int BY <1>1
      <4> QED BY <4>1, FS_Interval
    <3> QED BY <1>1, <2>1, <3>2, <3>3
  <2>2. CASE b.done # 0
    <3>1. b.promising /\ b.hash = raw /\ KnowsNext(b) BY <2>2 DEF DrawnOf, Keyed
    <3>2. \A i \in 1 .. n : open(i) <=> Less(b.at, KeyAt(raw, i)) BY <2>2 DEF Replayed, open
    <3>3. O = Above(b) BY <1>1, <1>6, <3>1, <3>2 DEF Above
    <3> QED BY <3>1, <3>3 DEF KnowsNext, n
  <2> QED BY <2>1, <2>2
<1>14. did = IF scan.eligible = Len(drawn) THEN Did(drawn, TRUE, ResetConclusions(b))
             ELSE Did(drawn, FALSE, longer)
  <2>1. ~((b.done # 0 /\ raw # b.hash) \/ scan.replayed # b.done)
    BY <1>3, <1>13 DEF DrawnOf
  <2> QED BY <2>1 DEF PromisingChunk, scan, s
<1> HIDE DEF did, drawn
<1>15. CASE scan.eligible = Len(drawn)
  <2>1. did.fatal = "none" /\ did.complete = TRUE /\ did.batch = ResetConclusions(b)
    BY <1>14, <1>15 DEF Did
  <2> QED BY <2>1, ResetKeyed DEF Advanced, did
<1>16. CASE scan.eligible # Len(drawn)
  <2>1. did.fatal = "none" /\ did.complete = FALSE /\ did.batch = longer
    BY <1>14, <1>16 DEF Did
  <2>2. /\ Len(s) = limit /\ scan.least \in K \ held
        /\ \A k \in K \ held : ~Less(k, scan.least) /\ \A h \in held : Less(h, k)
    BY <1>3, <1>12, <1>16
  <2> DEFINE last == Last(s)
  <2>3. last = s[Len(s)] /\ Len(s) \in DOMAIN s /\ last \in Keys /\ last \in held
    <3>1. Len(s) \in 1 .. Len(s) BY <1>4, <2>2
    <3> QED BY <1>4, <1>9, <3>1 DEF Last
  <2>4. /\ longer \in Batches /\ SameUnits(b, longer) /\ longer.done = b.done + Len(s)
        /\ longer.done # 0 /\ longer.hash = raw /\ longer.promising = TRUE /\ longer.at = last
        /\ longer.next = scan.least
    <3>1. b.done + Len(drawn) \in Nat /\ b.done + Len(drawn) # 0
      BY <1>4, <1>12, <2>2 DEF Batches
    <3> QED BY <1>4, <1>12, <2>3, <3>1 DEF Batches, SameUnits
  <2> HIDE DEF longer, last
  <2>5. \A h \in held : h \in Keys /\ ~Less(last, h)
    <3> SUFFICES ASSUME NEW i \in 1 .. Len(s) PROVE s[i] \in Keys /\ ~Less(last, s[i])
      BY <1>4 DEF held, ToSet
    <3>1. s[i] \in Keys BY <1>4
    <3>2. i = Len(s) \/ i < Len(s)
      <4>1. Len(s) \in Nat BY <1>4
      <4> QED BY <4>1
    <3>3. i < Len(s) => Less(s[i], last) BY <1>3, <1>4, <2>3 DEF Sorted
    <3> QED BY <2>3, <3>1, <3>2, <3>3, KeyOrder
  <2>6. ASSUME NEW i \in 1 .. n PROVE Less(last, keys[i]) <=> i \in O \ H
    <3>1. CASE i \notin O
      <4>1. ~open(i) BY <1>6, <3>1
      <4>2. b.done # 0 /\ ~Less(b.at, keys[i]) /\ b.at \in Keys
        BY <1>5, <4>1 DEF Replayed, Batches, open
      <4>3. \A j \in O : Less(b.at, keys[j]) BY <1>5, <1>6, <4>2 DEF Replayed, open
      <4>4. Less(b.at, last)
        <5>1. PICK j \in O : last = keys[j] BY <1>3, <1>7, <2>3
        <5> QED BY <4>3, <5>1
      <4>5. keys[i] \in Keys BY <1>5
      <4>6. ~Less(last, keys[i]) BY <2>3, <4>2, <4>4, <4>5, KeyOrder
      <4> QED BY <3>1, <4>6
    <3>2. CASE i \in H BY <2>5, <3>2 DEF H
    <3>3. CASE i \in O \ H
      <4>1. keys[i] \in K \ held BY <1>8, <3>3 DEF H
      <4> QED BY <2>2, <2>3, <3>3, <4>1
    <3> QED BY <3>1, <3>2, <3>3
  <2>7. Above(longer) = O \ H
    <3>1. Above(longer) = {i \in 1 .. n : Less(last, KeyAt(raw, i))} BY <1>1, <2>4 DEF Above
    <3>2. \A i \in 1 .. n : Less(last, KeyAt(raw, i)) <=> i \in O \ H BY <1>5, <2>6
    <3>3. O \ H \subseteq 1 .. n BY <1>6
    <3> QED BY <3>1, <3>2, <3>3
  <2>8. Cardinality(O \ H) = Cardinality(O) - Len(s)
    <3>1. Cardinality(O \ H) = Cardinality(O) - Cardinality(O \cap H)
      BY <1>6, FS_Difference
    <3>2. O \cap H = H BY <1>11
    <3> QED BY <1>10, <3>1, <3>2
  <2>9. longer.done = Len(longer.hash) - Cardinality(Above(longer))
    <3>1. Cardinality(O) \in Nat BY <1>6, FS_CardinalityType
    <3>2. Len(longer.hash) = n BY <2>4 DEF n
    <3> QED BY <1>1, <1>4, <1>13, <2>4, <2>7, <2>8, <3>1, <3>2
  <2>10. {KeyAt(longer.hash, k) : k \in Above(longer)} = K \ held
    <3>1. \A k \in O \ H : KeyAt(longer.hash, k) = keys[k] BY <1>5, <1>6, <2>4
    <3>2. \A k \in O : keys[k] \in held <=> k \in H BY <1>6 DEF H
    <3> QED BY <1>7, <2>7, <3>1, <3>2
  <2>11. KnowsNext(longer)
    <3>1. longer.next \in {KeyAt(longer.hash, k) : k \in Above(longer)} BY <2>2, <2>4, <2>10
    <3>2. \A k \in Above(longer) : ~Less(KeyAt(longer.hash, k), longer.next)
      BY <2>2, <2>4, <2>10
    <3> QED BY <2>9, <3>1, <3>2 DEF KnowsNext
  <2>12. Resting(longer) /\ Keyed(longer) BY <2>4, <2>11 DEF Resting, Keyed
  <2>13. DrawnOf(longer, raw) BY <2>4 DEF DrawnOf
  <2> QED BY <2>1, <2>4, <2>12, <2>13 DEF Advanced, did
<1> QED BY <1>15, <1>16

LEMMA ChunkAdvances ==
  ASSUME Typed, Budget # 0, NEW b \in Batches, Resting(b), Keyed(b),
         NEW raw \in Seq(Conclusions), b.done # 0 => DrawnOf(b, raw)
  PROVE  Advanced(b, raw, Chunk(b, raw))
<1>1. Budget \in Nat \ {0} BY BudgetBound
<1>2. CASE b.promising \/ (b.done = 0 /\ search.promising)
  <2>1. Chunk(b, raw) = PromisingChunk(b, raw, Budget) BY <1>2 DEF Chunk
  <2>2. b.done # 0 => b.promising BY <1>2
  <2> QED BY <1>1, <2>1, <2>2, PromisingAdvances
<1>3. CASE ~(b.promising \/ (b.done = 0 /\ search.promising))
  <2>1. Chunk(b, raw) = PrefixChunk(b, raw, Budget) BY <1>3 DEF Chunk
  <2>2. ~b.promising BY <1>3
  <2> QED BY <1>1, <2>1, <2>2, PrefixAdvances
<1> QED BY <1>2, <1>3

FirstRule(b) == IF "posHyper" \in b.rules THEN "posHyper" ELSE "negHyper"

\* A descriptor in the middle of a hyper rule, or of a partner of paramodulation.
InHyper(b) == HyperPending(b) /\ DrawnOf(b, HyperUnit(b, FirstRule(b)))
InPara(b) ==
  LET partner == history[b.cursor + 1].id
  IN  /\ ParaPending(b)
      /\ StillActive(partner, b.epoch) /\ ~Denial(partner)
      /\ DrawnOf(b, RawOf("para", b.given, partner))
      /\ HyperPending(b) => search.probes
Midway(b) == b.done # 0 => InHyper(b) \/ InPara(b)

\* A descriptor that knows its place.
Placed(b) ==
  /\ b.probe => b.done = 0 /\ search.probes
  /\ Keyed(b)
  /\ Midway(b)

\* The next turn of a descriptor takes what it drew of a partner of paramodulation for
\* what it drew by a hyper rule.
Mistaken(b) == search.probes /\ HyperPending(b) /\ b.done > 0 /\ b.hash[1].rule = "para"

\* What a turn does to its descriptor.
Moves(b, did) ==
  \/ did.fatal = "space" /\ Budget = 0
  \/ did.fatal = "replay" /\ Mistaken(b)
  \/ did.fatal = "none" /\ Keyed(did.batch) /\ Midway(did.batch)

LEMMA HyperMoves ==
  ASSUME Typed, Recorded, NEW b \in Batches, Ready(b), Placed(b), HyperPending(b)
  PROVE  Moves(b, HyperWork(b))
<1> DEFINE rule == FirstRule(b)
           u == HyperUnit(b, rule)
           did == Chunk(b, u)
           new == HyperWork(b)
<1>1. new = IF did.complete THEN [did EXCEPT !.batch.rules = @ \ {rule}] ELSE did
  BY DEF HyperWork, FirstRule
<1>2. Shaped(did) BY ChunkShaped
<1>3. u \in Seq(Conclusions)
  <2>1. rule \in Rules BY DEF FirstRule, Rules, Hyper
  <2> HIDE DEF rule
  <2> QED BY <2>1, HyperUnitIs DEF Recorded
<1>4. Resting(b) /\ Keyed(b) /\ b.done \in Nat BY DEF Ready, ReadyIn, Placed, Batches
<1>5. CASE Budget = 0
  <2>1. did = Failed("space", b) BY <1>5 DEF Chunk
  <2>2. did.fatal = "space" /\ did.complete = FALSE BY <2>1 DEF Failed
  <2> HIDE DEF did, new
  <2>3. new.fatal = "space" BY <1>1, <2>2
  <2> QED BY <1>5, <2>3 DEF Moves, new
<1>6. CASE Budget # 0 /\ (b.done # 0 => InHyper(b))
  <2>1. b.done # 0 => DrawnOf(b, u) BY <1>6 DEF InHyper
  <2>2. Advanced(b, u, did)
    <3> HIDE DEF did, u
    <3> QED BY <1>3, <1>4, <1>6, <2>1, ChunkAdvances DEF did
  <2> DEFINE d == did.batch  c == new.batch
  <2>3. /\ did.fatal = "none" /\ did.complete \in BOOLEAN
        /\ d \in Batches /\ SameUnits(b, d) /\ Resting(d) /\ Keyed(d)
        /\ did.complete => d.done = 0
        /\ ~did.complete => d.done # 0 /\ DrawnOf(d, u)
    BY <2>2 DEF Advanced
  <2> HIDE DEF did, new, rule
  <2>4. CASE did.complete
    <3>1. new.fatal = "none" /\ c = [d EXCEPT !.rules = @ \ {rule}]
      BY <1>1, <1>2, <2>3, <2>4 DEF Shaped
    <3> HIDE DEF d, c
    <3>2. c.done = 0 /\ c.promising = d.promising /\ c.at = d.at /\ c.next = d.next
          /\ d.hash = c.hash /\ c.done = d.done
      BY <2>3, <2>4, <3>1 DEF Batches
    <3>3. Keyed(c) BY <2>3, <3>2 DEF Keyed, KnowsNext, Above
    <3>4. Midway(c) BY <3>2 DEF Midway
    <3> QED BY <3>1, <3>3, <3>4 DEF Moves, new, c
  <2>5. CASE ~did.complete
    <3>1. new = did /\ new.fatal = "none" /\ c = d BY <1>1, <2>3, <2>5
    <3>2. HyperPending(d) /\ FirstRule(d) = rule /\ HyperUnit(d, rule) = HyperUnit(b, rule)
      BY <2>3 DEF SameUnits, HyperPending, FirstRule, HyperUnit, rule
    <3>3. InHyper(d) BY <2>3, <2>5, <3>2 DEF InHyper
    <3> QED BY <2>3, <3>1, <3>3 DEF Moves, new, Midway
  <2> QED BY <2>3, <2>4, <2>5
<1>7. CASE Budget # 0 /\ b.done # 0 /\ ~InHyper(b)
  <2> DEFINE raw == RawOf("para", b.given, history[b.cursor + 1].id)
  <2>1. InPara(b) BY <1>7 DEF Placed, Midway
  <2>2. search.probes /\ DrawnOf(b, raw) BY <2>1 DEF InPara
  <2>3. ~DrawnOf(b, u) BY <1>7 DEF InHyper
  <2>4. did = Failed("replay", b)
    <3>1. CASE b.promising
      <4>1. did = PromisingChunk(b, u, Budget) BY <1>7, <3>1 DEF Chunk
      <4>2. u # b.hash BY <2>3, <3>1 DEF DrawnOf
      <4> HIDE DEF did, u
      <4> QED BY <1>7, <4>1, <4>2 DEF PromisingChunk
    <3>2. CASE ~b.promising
      <4>1. did = PrefixChunk(b, u, Budget) BY <1>7, <3>2 DEF Chunk
      <4>2. ~(b.done =< Len(u)) \/ b.hash # SubSeq(u, 1, b.done) BY <2>3, <3>2 DEF DrawnOf
      <4>3. Len(u) < b.done \/ SubSeq(u, 1, b.done) # b.hash
        <5>1. Len(u) \in Nat BY <1>3
        <5> HIDE DEF u
        <5> QED BY <1>4, <4>2, <5>1
      <4> HIDE DEF did, u
      <4> QED BY <4>1, <4>3 DEF PrefixChunk
    <3> QED BY <3>1, <3>2
  <2>5. did.fatal = "replay" /\ did.complete = FALSE BY <2>4 DEF Failed
  <2>6. new.fatal = "replay"
    <3> HIDE DEF did, new
    <3> QED BY <1>1, <2>5
  <2>7. b.hash # <<>> /\ b.hash[1] = raw[1] /\ 1 \in DOMAIN raw
    <3>1. raw \in Seq(Conclusions)
      <4>1. search \in Searches /\ "para" \in Rules /\ b.given \in Ids
        BY DEF Typed, Rules, Batches
      <4>2. history[b.cursor + 1].id \in Ids
        <5>1. b.cursor \in Nat /\ b.limit \in Nat /\ b.cursor < b.limit /\ b.limit =< Len(history)
          BY <2>1 DEF InPara, ParaPending, Ready, ReadyIn, Batches
        <5>2. history \in Seq(Entries) BY DEF Typed
        <5>3. b.cursor + 1 \in DOMAIN history BY <5>1, <5>2
        <5> QED BY <5>2, <5>3, EntriesTyped
      <4>3. raw = RawIn(search, "para", b.given, history[b.cursor + 1].id)
        BY DEF RawOf, RawIn
      <4> HIDE DEF raw
      <4> QED BY <4>1, <4>2, <4>3, RawTyped
    <3> HIDE DEF raw
    <3>2. CASE b.promising
      <4>1. b.hash = raw BY <2>2, <3>2 DEF DrawnOf
      <4>2. Len(raw) # 0
        <5>1. IsFiniteSet(Above(b))
          <6>1. IsFiniteSet(1 .. Len(raw)) BY <3>1, FS_Interval
          <6>2. Above(b) \subseteq 1 .. Len(raw) BY <3>1, <4>1 DEF Above
          <6> QED BY <6>1, <6>2, FS_Subset
        <5>2. b.done = Len(raw) - Cardinality(Above(b)) BY <1>4, <3>2, <4>1 DEF Keyed, KnowsNext
        <5>3. Cardinality(Above(b)) \in Nat BY <5>1, FS_CardinalityType
        <5> QED BY <1>4, <1>7, <5>2, <5>3
      <4> QED BY <3>1, <4>1, <4>2
    <3>3. CASE ~b.promising
      <4>1. b.done =< Len(raw) /\ b.hash = SubSeq(raw, 1, b.done) BY <2>2, <3>3 DEF DrawnOf
      <4>2. 1 =< b.done + 1 /\ 1 \in 1 .. b.done /\ b.done + 1 - 1 = b.done BY <1>4, <1>7
      <4>3. Len(b.hash) = b.done + 1 - 1
            /\ \A k \in 1 .. b.done + 1 - 1 : b.hash[k] = raw[1 + k - 1]
        BY <1>4, <3>1, <4>1, <4>2, SubSeqOf
      <4>4. Len(b.hash) = b.done /\ b.hash[1] = raw[1] BY <1>4, <4>2, <4>3
      <4>5. Len(raw) \in Nat /\ DOMAIN raw = 1 .. Len(raw) /\ 1 =< b.done BY <1>4, <1>7, <3>1
      <4> QED BY <1>4, <4>1, <4>4, <4>5
    <3> QED BY <3>2, <3>3
  <2>8. raw[1].rule = "para" BY <2>7 DEF RawOf
  <2>9. Mistaken(b) BY <1>4, <1>7, <2>2, <2>7, <2>8 DEF Mistaken
  <2> QED BY <2>6, <2>9 DEF Moves
<1> QED BY <1>5, <1>6, <1>7

LEMMA ParaMoves ==
  ASSUME Typed, Recorded, NEW b0 \in Batches, Ready(b0), Placed(b0), ParaPending(b0),
         ~HyperTurn(b0)
  PROVE  Moves(b0, ParaWork(b0))
<1> DEFINE b == SkipInactive(b0)
           k == b.cursor + 1
           partner == history[k].id
           raw == RawOf("para", b.given, partner)
           did == Chunk(b, raw)
           next1 == [b EXCEPT !.cursor = @ + 1]
           new == ParaWork(b0)
           at == LET alive == {i \in b0.cursor + 1 .. b0.limit : StillActive(history[i].id, b0.epoch)}
                 IN  IF alive = {} THEN b0.limit ELSE Min(alive) - 1
<1>1. /\ b0.cursor \in Nat /\ b0.limit \in Nat /\ b0.done \in Nat
      /\ b0.cursor =< b0.limit /\ b0.limit =< Len(history) /\ Resting(b0)
      /\ "para" \in b0.rules /\ b0.cursor < b0.limit
  BY DEF Ready, ReadyIn, ParaPending, Batches
<1>2. b = [b0 EXCEPT !.cursor = at] BY DEF SkipInactive
<1>3. /\ b \in Batches /\ b.given = b0.given /\ b.limit = b0.limit /\ b.epoch = b0.epoch
      /\ b.rules = b0.rules /\ SameCursor(b0, b)
      /\ b.cursor \in b0.cursor .. b0.limit
      /\ b.cursor # b0.limit => StillActive(history[b.cursor + 1].id, b0.epoch)
  BY <1>1, Skips
<1>4. ParaWork(b0) =
        IF b # b0 /\ b.done # 0 THEN Failed("internal", b0)
        ELSE IF b.cursor = b.limit THEN Did(<<>>, TRUE, b)
        ELSE IF Denial(partner)
        THEN IF b.done # 0 THEN Failed("internal", b)
             ELSE Did(<<>>, TRUE, next1)
        ELSE IF did.complete THEN [did EXCEPT !.batch.cursor = @ + 1] ELSE did
  BY DEF ParaWork
<1>5. Shaped(did) BY ChunkShaped
<1>6. b.next = b0.next /\ b.probe = b0.probe
  <2> HIDE DEF at, b
  <2> QED BY <1>2 DEF Batches
<1> HIDE DEF at, b, next1, raw, did, new
<1>7. Keyed(b) /\ Resting(b)
  <2>1. Keyed(b0) BY DEF Placed
  <2>2. b.promising = b0.promising /\ b.done = b0.done /\ b.hash = b0.hash /\ b.at = b0.at
    BY <1>3 DEF SameCursor
  <2> QED BY <1>1, <1>6, <2>1, <2>2 DEF Keyed, KnowsNext, Above, Resting
<1>8. HyperPending(b) => search.probes
  <2>1. HyperPending(b) => HyperPending(b0) BY <1>3 DEF HyperPending
  <2>2. HyperPending(b0) => b0.probe BY DEF HyperTurn
  <2>3. b0.probe => search.probes BY DEF Placed
  <2> QED BY <2>1, <2>2, <2>3
<1>9. ASSUME b0.done # 0
      PROVE  b = b0 /\ b.cursor # b.limit /\ ~Denial(partner) /\ DrawnOf(b, raw)
  <2>1. ~HyperPending(b0)
    <3>1. ~b0.probe BY <1>9 DEF Placed
    <3> QED BY <3>1 DEF HyperTurn
  <2>2. InPara(b0) BY <1>9, <2>1 DEF Placed, Midway, InHyper
  <2>3. StillActive(history[b0.cursor + 1].id, b0.epoch) BY <2>2 DEF InPara
  <2>4. at = b0.cursor
    <3> DEFINE alive == {i \in b0.cursor + 1 .. b0.limit : StillActive(history[i].id, b0.epoch)}
               m == b0.cursor + 1
    <3>1. m \in alive /\ m \in Nat BY <1>1, <2>3
    <3>2. \A i \in alive : i \in Nat /\ m =< i BY <1>1
    <3>3. \A x \in alive : (\A y \in alive : x =< y) => x = m
      <4> HIDE DEF alive, m
      <4> QED BY <3>1, <3>2
    <3>4. Min(alive) = m
      <4> HIDE DEF alive, m
      <4> QED BY <3>1, <3>2, <3>3 DEF Min
    <3>5. alive # {} BY <3>1
    <3>6. at = Min(alive) - 1 BY <3>5 DEF at
    <3> HIDE DEF alive
    <3> QED BY <1>1, <3>4, <3>6
  <2>5. b = b0
    <3>1. [b0 EXCEPT !.cursor = b0.cursor] = b0 BY DEF Batches
    <3> QED BY <1>2, <2>4, <3>1
  <2>6. b.cursor # b.limit BY <1>1, <2>5
  <2>7. ~Denial(partner) /\ DrawnOf(b, raw) BY <2>2, <2>5 DEF InPara, raw
  <2> QED BY <2>5, <2>6, <2>7
<1>10. b.done = b0.done BY <1>3 DEF SameCursor
<1>11. b.cursor \in Nat /\ b.limit \in Nat /\ b.cursor =< b.limit BY <1>1, <1>3
<1>12. CASE b.cursor = b.limit
  <2>1. b0.done = 0 BY <1>9, <1>12
  <2>2. new = Did(<<>>, TRUE, b) BY <1>4, <1>10, <1>12, <2>1 DEF new
  <2>3. new.fatal = "none" /\ new.batch = b BY <2>2 DEF Did
  <2> QED BY <1>7, <1>10, <2>1, <2>3 DEF Moves, Midway, new
<1>13. CASE b.cursor # b.limit /\ Denial(partner)
  <2>1. b0.done = 0 BY <1>9, <1>13
  <2>2. new = Did(<<>>, TRUE, next1) BY <1>4, <1>10, <1>13, <2>1 DEF new
  <2>3. new.fatal = "none" /\ new.batch = next1 BY <2>2 DEF Did
  <2>4. next1.done = 0 /\ next1.promising = b.promising /\ next1.at = b.at
        /\ next1.next = b.next /\ next1.hash = b.hash
    BY <1>3, <1>10, <2>1 DEF next1, Batches
  <2>5. Keyed(next1) BY <1>7, <1>10, <2>1, <2>4 DEF Keyed, KnowsNext, Above
  <2> QED BY <2>3, <2>4, <2>5 DEF Moves, Midway, new
<1>14. CASE b.cursor # b.limit /\ ~Denial(partner)
  <2>1. new = IF did.complete THEN [did EXCEPT !.batch.cursor = @ + 1] ELSE did
    <3>1. ~(b # b0 /\ b.done # 0) BY <1>9, <1>10
    <3> QED BY <1>4, <1>14, <3>1 DEF new
  <2>2. raw \in Seq(Conclusions)
    <3>1. search \in Searches /\ "para" \in Rules /\ b.given \in Ids
      BY <1>3 DEF Typed, Rules, Batches
    <3>2. partner \in Ids
      <4>1. history \in Seq(Entries) BY DEF Typed
      <4>2. k \in DOMAIN history BY <1>1, <1>3, <1>11, <1>14, <4>1
      <4> QED BY <4>1, <4>2, EntriesTyped
    <3>3. raw = RawIn(search, "para", b.given, partner) BY DEF RawOf, RawIn, raw
    <3> HIDE DEF partner
    <3> QED BY <3>1, <3>2, <3>3, RawTyped
  <2>3. CASE Budget = 0
    <3>1. did = Failed("space", b) BY <2>3 DEF Chunk, did
    <3>2. did.fatal = "space" /\ did.complete = FALSE BY <3>1 DEF Failed
    <3>3. new.fatal = "space" BY <2>1, <3>2
    <3> QED BY <2>3, <3>3 DEF Moves, new
  <2>4. CASE Budget # 0
    <3>1. Advanced(b, raw, did)
      <4>1. b.done # 0 => DrawnOf(b, raw) BY <1>9, <1>10
      <4> QED BY <1>3, <1>7, <2>2, <2>4, <4>1, ChunkAdvances DEF did
    <3> DEFINE d == did.batch  c == new.batch
    <3>2. /\ did.fatal = "none" /\ did.complete \in BOOLEAN
          /\ d \in Batches /\ SameUnits(b, d) /\ Resting(d) /\ Keyed(d)
          /\ did.complete => d.done = 0
          /\ ~did.complete => d.done # 0 /\ DrawnOf(d, raw)
      BY <3>1 DEF Advanced
    <3>3. CASE did.complete
      <4>1. new.fatal = "none" /\ c = [d EXCEPT !.cursor = @ + 1]
        BY <1>5, <2>1, <3>2, <3>3 DEF Shaped
      <4> HIDE DEF d, c
      <4>2. c.done = 0 /\ c.promising = d.promising /\ c.at = d.at /\ c.next = d.next
            /\ d.hash = c.hash /\ c.done = d.done
        BY <3>2, <3>3, <4>1 DEF Batches
      <4>3. Keyed(c) BY <3>2, <4>2 DEF Keyed, KnowsNext, Above
      <4>4. Midway(c) BY <4>2 DEF Midway
      <4> QED BY <4>1, <4>3, <4>4 DEF Moves, new, c
    <3>4. CASE ~did.complete
      <4>1. new = did /\ new.fatal = "none" /\ c = d BY <2>1, <3>2, <3>4
      <4>2. d.given = b.given /\ d.cursor = b.cursor /\ d.limit = b.limit /\ d.epoch = b.epoch
            /\ d.rules = b.rules
        BY <3>2 DEF SameUnits
      <4> HIDE DEF d
      <4>3. ParaPending(d) BY <1>1, <1>3, <1>11, <1>14, <4>2 DEF ParaPending
      <4>4. HyperPending(d) => search.probes BY <1>8, <4>2 DEF HyperPending
      <4>5. raw = RawOf("para", d.given, partner) BY <4>2 DEF raw
      <4>6. StillActive(partner, d.epoch) BY <1>3, <1>14, <4>2
      <4>7. InPara(d) BY <1>14, <3>2, <3>4, <4>2, <4>3, <4>4, <4>5, <4>6 DEF InPara
      <4>8. Midway(d) /\ Keyed(d) BY <3>2, <4>7 DEF Midway
      <4> QED BY <4>1, <4>8 DEF Moves, new
    <3> QED BY <3>2, <3>3, <3>4
  <2> QED BY <2>3, <2>4
<1> QED BY <1>12, <1>13, <1>14

LEMMA WorkMoves ==
  ASSUME Typed, Recorded, NEW b \in Batches, Ready(b), Placed(b)
  PROVE  Moves(b, Work(b))
<1>1. history[b.limit].id = b.given /\ (HyperPending(b) \/ ParaPending(b)) BY DEF Ready, ReadyIn
<1>2. Work(b) = IF HyperTurn(b) THEN HyperWork(b) ELSE ParaWork(b) BY <1>1 DEF Work
<1>3. CASE HyperTurn(b)
  <2>1. HyperPending(b) BY <1>3 DEF HyperTurn
  <2> QED BY <1>2, <1>3, <2>1, HyperMoves
<1>4. CASE ~HyperTurn(b)
  <2>1. ParaPending(b) BY <1>1, <1>4 DEF HyperTurn
  <2> QED BY <1>2, <1>4, <2>1, ParaMoves
<1> QED BY <1>3, <1>4

-----------------------------------------------------------------------------
(* A descriptor keeps its place when clauses come and go.                  *)

IsFlat(f, ss) == f = [i \in 1 .. Len(ss) |-> IF i = 1 THEN ss[i] ELSE f[i - 1] \o ss[i]]

LEMMA FlatExists ==
  ASSUME NEW T, NEW ss \in Seq(Seq(T)), Len(ss) # 0
  PROVE  \E f : IsFlat(f, ss) /\ FlattenSeq(ss) = f[Len(ss)]
<1> DEFINE n == Len(ss)
           Flat(f) == f = [i \in 1 .. n |-> IF i = 1 THEN ss[i] ELSE f[i - 1] \o ss[i]]
           flatten == CHOOSE f : Flat(f)
           G == [p \in (1 .. n) \X Seq(T) |-> IF p[1] = 1 THEN ss[1] ELSE p[2] \o ss[p[1]]]
<1>1. n \in Nat /\ DOMAIN ss = 1 .. n /\ \A i \in 1 .. n : ss[i] \in Seq(T) OBVIOUS
<1>2. G \in [(1 .. n) \X Seq(T) -> Seq(T)] BY <1>1
<1>3. \E f : Flat(f)
  <2>1. <<>> \in Seq(T) OBVIOUS
  <2> HIDE DEF G, n
  <2>2. PICK f \in [0 .. n -> Seq(T)] : IsIteration(f, <<>>, G, n)
    BY <1>1, <1>2, <2>1, IterationExists
  <2> DEFINE g == [i \in 1 .. n |-> f[i]]
  <2>3. ASSUME NEW i \in 1 .. n PROVE g[i] = IF i = 1 THEN ss[i] ELSE g[i - 1] \o ss[i]
    <3>1. i # 0 /\ i - 1 \in 0 .. n /\ i \in 0 .. n BY <1>1
    <3>2. f[i] = G[<<i, f[i - 1]>>] /\ f[i - 1] \in Seq(T) BY <2>2, <3>1 DEF IsIteration
    <3>3. f[i] = IF i = 1 THEN ss[1] ELSE f[i - 1] \o ss[i] BY <3>2 DEF G
    <3>4. i # 1 => i - 1 \in 1 .. n BY <1>1
    <3> QED BY <3>3, <3>4
  <2>4. Flat(g) BY <2>3
  <2> QED BY <2>4
<1>4. Flat(flatten) BY <1>3
<1>5. FlattenSeq(ss) = flatten[n] BY DEF FlattenSeq
<1> QED BY <1>4, <1>5 DEF IsFlat

LEMMA AppendIs ==
  ASSUME NEW T, NEW s \in Seq(T), NEW e \in T, NEW n, n = Len(s)
  PROVE  Append(s, e) = [i \in 1 .. n + 1 |-> IF i = n + 1 THEN e ELSE s[i]]
<1> DEFINE t == Append(s, e)
<1>1. n \in Nat /\ t \in Seq(T) /\ Len(t) = n + 1 /\ \A i \in 1 .. n + 1 : t[i] = IF i = n + 1 THEN e ELSE s[i]
  OBVIOUS
<1> HIDE DEF t
<1>2. DOMAIN t = 1 .. n + 1 /\ t = [i \in DOMAIN t |-> t[i]] BY <1>1
<1>3. t = [i \in 1 .. n + 1 |-> t[i]] BY <1>2
<1> QED BY <1>1, <1>3 DEF t

\* An empty piece at the end adds nothing.
LEMMA FlattenMore ==
  ASSUME NEW T, NEW ss \in Seq(Seq(T))
  PROVE  FlattenSeq(Append(ss, <<>>)) = FlattenSeq(ss)
<1> DEFINE n == Len(ss)  tt == Append(ss, <<>>)
<1>1. n \in Nat /\ DOMAIN ss = 1 .. n /\ \A i \in 1 .. n : ss[i] \in Seq(T) OBVIOUS
<1>2. <<>> \in Seq(T) OBVIOUS
<1>3. tt \in Seq(Seq(T)) /\ Len(tt) = n + 1 /\ tt[n + 1] = <<>> /\ \A i \in 1 .. n : tt[i] = ss[i]
  BY <1>2
<1>4. FlattenSeq(ss) \in Seq(T) BY Flattened
<1> HIDE DEF n, tt
<1>5. PICK g : IsFlat(g, tt) /\ FlattenSeq(tt) = g[n + 1] BY <1>1, <1>3, FlatExists
<1>6. \A i \in 1 .. n + 1 : g[i] = IF i = 1 THEN tt[i] ELSE g[i - 1] \o tt[i]
  BY <1>3, <1>5 DEF IsFlat
<1>7. CASE n = 0
  <2>1. ss = <<>> BY <1>7 DEF n
  <2>2. FlattenSeq(ss) = <<>> BY <1>7, <2>1 DEF FlattenSeq, n
  <2>3. g[1] = <<>> BY <1>3, <1>6, <1>7
  <2> QED BY <1>5, <1>7, <2>2, <2>3 DEF tt
<1>8. CASE n # 0
  <2>1. PICK f : IsFlat(f, ss) /\ FlattenSeq(ss) = f[n] BY <1>8, FlatExists DEF n
  <2>2. \A i \in 1 .. n : f[i] = IF i = 1 THEN ss[i] ELSE f[i - 1] \o ss[i]
    BY <2>1 DEF IsFlat, n
  <2> DEFINE Same == {i \in Nat : i \in 1 .. n => g[i] = f[i]}
  <2>3. 0 \in Same OBVIOUS
  <2>4. ASSUME NEW i \in Nat, i \in Same PROVE i + 1 \in Same
    <3> SUFFICES ASSUME i + 1 \in 1 .. n PROVE g[i + 1] = f[i + 1] OBVIOUS
    <3>1. i + 1 \in 1 .. n + 1 /\ (i + 1) - 1 = i /\ (i + 1 # 1 => i \in 1 .. n) BY <1>1
    <3>2. i + 1 # 1 => g[i] = f[i] BY <2>4, <3>1
    <3>3. g[i + 1] = IF i + 1 = 1 THEN tt[i + 1] ELSE g[i] \o tt[i + 1] BY <1>6, <3>1
    <3>4. f[i + 1] = IF i + 1 = 1 THEN ss[i + 1] ELSE f[i] \o ss[i + 1] BY <2>2, <3>1
    <3> QED BY <1>3, <3>2, <3>3, <3>4
  <2> HIDE DEF Same
  <2>5. n \in Same BY <1>1, <2>3, <2>4, Induction
  <2>6. g[n] = f[n]
    <3>1. n \in 1 .. n BY <1>1, <1>8
    <3> QED BY <2>5, <3>1 DEF Same
  <2>7. g[n + 1] = g[n] \o <<>>
    <3>1. n + 1 \in 1 .. n + 1 /\ n + 1 # 1 /\ (n + 1) - 1 = n BY <1>1, <1>8
    <3> QED BY <1>3, <1>6, <3>1
  <2>8. f[n] \o <<>> = f[n] BY <1>4, <2>1
  <2> QED BY <1>5, <2>1, <2>6, <2>7, <2>8 DEF tt
<1> QED BY <1>7, <1>8

\* What the clauses of the history give by a hyper rule, as a function of the history.
PiecesIn(se, log, gone, b, rule) ==
  [i \in DOMAIN log |->
     IF log[i].clashable /\ log[i].epoch =< b.epoch /\ ActiveIn(gone, log[i].id, b.epoch)
     THEN RawIn(se, rule, b.given, log[i].id) ELSE <<>>]

LEMMA UnitOfPieces ==
  \A b, rule : HyperUnit(b, rule) = FlattenSeq(PiecesIn(search, history, deactivated, b, rule))
BY DEF HyperUnit, PiecesIn, Accepted, StillActive, ActiveIn, RawOf, RawIn

\* A history that is the same, or has one clause more.
Longer(log, later, e) ==
  \/ later = log
  \/ \E entry \in Entries : later = Append(log, entry) /\ entry.epoch > e

LEMMA PiecesLater ==
  ASSUME NEW se \in Searches, NEW b \in Batches, NEW rule \in Rules, NEW gone, NEW goneLater,
         NEW log \in Seq(Entries), NEW later, Longer(log, later, b.epoch),
         \A id \in Ids : ActiveIn(goneLater, id, b.epoch) <=> ActiveIn(gone, id, b.epoch)
  PROVE  FlattenSeq(PiecesIn(se, later, goneLater, b, rule))
         = FlattenSeq(PiecesIn(se, log, gone, b, rule))
<1> DEFINE ss == PiecesIn(se, log, gone, b, rule)
           n == Len(log)
<1>1. n \in Nat /\ DOMAIN log = 1 .. n /\ b.epoch \in Nat /\ b.given \in Ids BY DEF Batches
<1>2. \A i \in 1 .. n : log[i].id \in Ids BY <1>1, EntriesTyped
<1>3. CASE later = log
  <2>1. PiecesIn(se, later, goneLater, b, rule) = ss BY <1>1, <1>2, <1>3 DEF PiecesIn
  <2> QED BY <2>1
<1>4. ASSUME NEW entry \in Entries, later = Append(log, entry), entry.epoch > b.epoch
      PROVE  FlattenSeq(PiecesIn(se, later, goneLater, b, rule)) = FlattenSeq(ss)
  <2> DEFINE tt == PiecesIn(se, later, goneLater, b, rule)
  <2>1. later \in Seq(Entries) /\ DOMAIN later = 1 .. n + 1 /\ later[n + 1] = entry
        /\ \A i \in 1 .. n : later[i] = log[i]
    BY <1>1, <1>4
  <2>2. ss \in Seq(Seq(Conclusions)) /\ Len(ss) = n
    <3>1. \A i \in 1 .. n : RawIn(se, rule, b.given, log[i].id) \in Seq(Conclusions)
      BY <1>1, <1>2, RawTyped
    <3>2. <<>> \in Seq(Conclusions) OBVIOUS
    <3>3. ss \in [1 .. n -> Seq(Conclusions)] BY <1>1, <3>1, <3>2 DEF PiecesIn
    <3> HIDE DEF ss
    <3> QED BY <1>1, <3>3
  <2>3. tt = Append(ss, <<>>)
    <3>1. DOMAIN tt = 1 .. n + 1 /\ tt = [i \in 1 .. n + 1 |-> tt[i]] BY <2>1 DEF PiecesIn
    <3>2. \A i \in 1 .. n : tt[i] = ss[i] BY <1>1, <1>2, <2>1 DEF PiecesIn
    <3>3. tt[n + 1] = <<>>
      <4>1. n + 1 \in 1 .. n + 1 BY <1>1
      <4>2. ~(entry.epoch =< b.epoch)
        <5>1. entry.epoch \in Nat BY DEF Entries
        <5> QED BY <1>1, <1>4, <5>1
      <4> QED BY <2>1, <4>1, <4>2 DEF PiecesIn
    <3>4. Append(ss, <<>>) = [i \in 1 .. n + 1 |-> IF i = n + 1 THEN <<>> ELSE ss[i]]
      <4> DEFINE e == <<>>  T == Seq(Conclusions)
      <4>1. e \in T OBVIOUS
      <4>2. ss \in Seq(T) /\ n = Len(ss) BY <2>2
      <4> HIDE DEF ss, n, e, T
      <4>3. Append(ss, e) = [i \in 1 .. n + 1 |-> IF i = n + 1 THEN e ELSE ss[i]]
        BY <4>1, <4>2, AppendIs
      <4> QED BY <4>3 DEF e
    <3>5. \A i \in 1 .. n + 1 : i = n + 1 \/ i \in 1 .. n BY <1>1
    <3> HIDE DEF tt, ss, n
    <3> QED BY <3>1, <3>2, <3>3, <3>4, <3>5
  <2> HIDE DEF ss, tt
  <2>4. FlattenSeq(tt) = FlattenSeq(ss) BY <2>2, <2>3, FlattenMore
  <2> QED BY <2>4 DEF tt
<1> QED BY <1>3, <1>4 DEF Longer


\* A descriptor keeps its place when clauses become active, and others go.
LEMMA PlacedOn ==
  ASSUME IInv, search' = search, Longer(history, history', epoch),
         deactivated' \in [Ids -> Nat],
         \A id \in Ids : \/ deactivated'[id] = deactivated[id]
                         \/ deactivated[id] = 0 /\ deactivated'[id] > epoch,
         NEW b \in ToSet(queue), Placed(b)
  PROVE  Placed(b)'
<1>1. /\ search \in Searches /\ history \in Seq(Entries) /\ deactivated \in [Ids -> Nat]
      /\ epoch \in Nat /\ queue \in Seq(Batches)
  BY DEF IInv, Typed
<1>2. b \in Batches /\ Ready(b)
  <2>1. b \in Batches BY <1>1 DEF ToSet
  <2> QED BY <2>1 DEF IInv, Queued
<1>3. b.epoch \in Nat /\ b.epoch =< epoch /\ b.cursor \in Nat /\ b.limit \in Nat
      /\ b.limit =< Len(history)
  BY <1>2 DEF Ready, ReadyIn, Batches
<1>4. Longer(history, history', b.epoch)
  <2>1. \A entry \in Entries : entry.epoch > epoch => entry.epoch > b.epoch
    <3>1. \A entry \in Entries : entry.epoch \in Nat BY DEF Entries
    <3> QED BY <1>1, <1>3, <3>1
  <2> QED BY <2>1 DEF Longer
<1>5. \A id \in Ids : ActiveIn(deactivated', id, b.epoch) <=> ActiveIn(deactivated, id, b.epoch)
  <2> SUFFICES ASSUME NEW id \in Ids
               PROVE  ActiveIn(deactivated', id, b.epoch) <=> ActiveIn(deactivated, id, b.epoch)
    OBVIOUS
  <2>1. deactivated[id] \in Nat /\ deactivated'[id] \in Nat BY <1>1
  <2> QED BY <1>1, <1>3, <2>1 DEF ActiveIn
<1>6. \A i \in DOMAIN history : history'[i] = history[i]
  <2>1. \A entry : \A i \in DOMAIN history : Append(history, entry)[i] = history[i] BY <1>1
  <2> QED BY <2>1 DEF Longer
<1>7. ASSUME NEW rule \in Rules PROVE HyperUnit(b, rule)' = HyperUnit(b, rule)
  <2>1. HyperUnit(b, rule) = FlattenSeq(PiecesIn(search, history, deactivated, b, rule))
    BY UnitOfPieces
  <2>3. HyperUnit(b, rule)' = FlattenSeq(PiecesIn(search', history', deactivated', b, rule))
    BY DEF HyperUnit, PiecesIn, Accepted, StillActive, ActiveIn, RawOf, RawIn
  <2>4. FlattenSeq(PiecesIn(search, history', deactivated', b, rule))
        = FlattenSeq(PiecesIn(search, history, deactivated, b, rule))
    BY <1>1, <1>2, <1>4, <1>5, PiecesLater
  <2> QED BY <2>1, <2>3, <2>4
<1>8. FirstRule(b) \in Rules BY DEF FirstRule, Rules, Hyper
<1>9. HyperUnit(b, FirstRule(b))' = HyperUnit(b, FirstRule(b))
  <2> DEFINE rule == FirstRule(b)
  <2>1. HyperUnit(b, rule)' = HyperUnit(b, rule)
    <3> HIDE DEF rule
    <3> QED BY <1>7, <1>8 DEF rule
  <2> QED BY <2>1
<1>10. InHyper(b) => InHyper(b)' BY <1>9 DEF InHyper
<1>11. ASSUME InPara(b) PROVE InPara(b)'
  <2> DEFINE k == b.cursor + 1  partner == history[k].id
  <2>1. /\ ParaPending(b) /\ StillActive(partner, b.epoch) /\ ~Denial(partner)
        /\ DrawnOf(b, RawOf("para", b.given, partner))
        /\ HyperPending(b) => search.probes
    BY <1>11 DEF InPara
  <2>2. k \in DOMAIN history
    <3>1. b.cursor < b.limit BY <2>1 DEF ParaPending
    <3> QED BY <1>1, <1>3, <3>1
  <2>3. partner \in Ids /\ history'[k].id = partner BY <1>1, <1>6, <2>2, EntriesTyped
  <2>4. StillActive(partner, b.epoch)' BY <1>5, <2>1, <2>3 DEF StillActive, ActiveIn
  <2>5. RawOf("para", b.given, partner)' = RawOf("para", b.given, partner)
    <3>1. history'[k].id = partner BY <2>3
    <3> HIDE DEF k
    <3> QED BY <3>1 DEF RawOf
  <2>6. ~Denial(partner)' BY <2>1, <2>3 DEF Denial
  <2> QED BY <2>1, <2>4, <2>5, <2>6 DEF InPara, ParaPending
<1> QED BY <1>10, <1>11 DEF Placed, Midway

-----------------------------------------------------------------------------
(* The search ends in a fatal error in two situations only.                *)

\* Only the first descriptor is a probe, and its credit is spent.
ProbeAhead(q, c) == \A i \in DOMAIN q : q[i].probe => i = 1 /\ ~c

Fair ==
  /\ sinceFair \in Nat /\ sinceFair < search.interval
  /\ Scheduling \/ sinceFair = 0

PInv ==
  /\ \A b \in ToSet(queue) : Placed(b)
  /\ ProbeAhead(queue, credit) /\ credit \in BOOLEAN
  /\ Fair
  /\ FatalOnlyThen

LEMMA ChosenFair ==
  ASSUME IInv, PInv, queue # <<>>
  PROVE  /\ Chosen.sinceFair \in Nat /\ Chosen.sinceFair < search.interval
         /\ Scheduling \/ Chosen.sinceFair = 0
         /\ ProbeAhead(Chosen.queue, credit)
<1>1. search \in Searches /\ queue \in Seq(Batches) BY DEF IInv, Typed
<1>2. search.interval \in Nat \ {0} BY <1>1, SearchesAssumption
<1>3. sinceFair \in Nat /\ sinceFair < search.interval /\ (Scheduling \/ sinceFair = 0)
      /\ ProbeAhead(queue, credit)
  BY DEF PInv, Fair
<1>4. Distinct(queue) /\ heap \in HeapOf(queue) BY DEF IInv, Queued
<1> DEFINE first == heap # <<>> /\ sinceFair < search.interval - 1
           turned == [queue |-> ToHead(queue, heap[1]), sinceFair |-> sinceFair + 1]
<1>5. Chosen = IF ~Scheduling THEN [queue |-> queue, sinceFair |-> 0]
               ELSE IF Head(queue).probe THEN [queue |-> queue, sinceFair |-> sinceFair]
               ELSE IF first THEN turned ELSE [queue |-> queue, sinceFair |-> 0]
  BY DEF Chosen
<1>6. CASE Scheduling /\ ~Head(queue).probe /\ first
  <2> DEFINE q == ToHead(queue, heap[1])
  <2>1. Chosen.queue = q /\ Chosen.sinceFair = sinceFair + 1 BY <1>5, <1>6
  <2>2. heap[1] \in GivenIn(queue)
    <3>1. heap \in Seq(Ids) /\ ToSet(heap) \subseteq GivenIn(queue) BY <1>4 DEF HeapOf
    <3>2. 1 \in DOMAIN heap BY <1>6, <3>1
    <3> QED BY <3>1, <3>2 DEF ToSet
  <2>3. ToSet(q) = ToSet(queue) BY <1>1, <1>4, <2>2, ToHeadRearranges
  <2>4. \A b \in ToSet(queue) : ~b.probe
    <3>1. Head(queue) = queue[1] BY <1>1
    <3>2. \A i \in DOMAIN queue : ~queue[i].probe BY <1>3, <1>6, <3>1 DEF ProbeAhead
    <3> QED BY <3>2 DEF ToSet
  <2>5. ProbeAhead(q, credit)
    <3> HIDE DEF q
    <3>1. \A i \in DOMAIN q : q[i] \in ToSet(q) BY DEF ToSet
    <3> QED BY <2>3, <2>4, <3>1 DEF ProbeAhead
  <2> HIDE DEF first, turned, q
  <2>6. sinceFair < search.interval - 1 BY <1>6 DEF first
  <2> QED BY <1>2, <1>3, <1>6, <2>1, <2>5, <2>6
<1>7. CASE ~(Scheduling /\ ~Head(queue).probe /\ first)
  <2>1. Chosen.queue = queue /\ Chosen.sinceFair \in {0, sinceFair}
    <3> HIDE DEF first, turned
    <3> QED BY <1>5, <1>7
  <2> HIDE DEF first, turned
  <2> QED BY <1>2, <1>3, <2>1
<1> QED BY <1>6, <1>7

LEMMA NoBudget ==
  ASSUME Typed, Budget = 0
  PROVE  ~Space
<1> SUFFICES ASSUME Space PROVE FALSE OBVIOUS
<1>1. search.cache \in Nat /\ search.chunk \in Nat \ {0} BY SearchesAssumption DEF Typed
<1>2. Occupancy \in Nat
  <2>1. Cardinality(passive) \in Nat BY FS_CardinalityType DEF Typed
  <2> QED BY <2>1 DEF Typed, Occupancy
<1>3. Occupancy < search.cache BY DEF Space
<1> DEFINE room == search.cache - Occupancy
<1>4. Budget = Min({room, search.chunk}) BY DEF Budget
<1>5. room \in Int /\ room >= 1 BY <1>1, <1>2, <1>3
<1> HIDE DEF room
<1>6. Budget = IF room =< search.chunk THEN room ELSE search.chunk BY <1>1, <1>4, <1>5, MinOfTwo
<1> QED BY <1>1, <1>5, <1>6

\* What a descriptor knows depends on the search and the history.
LEMMA PlacedSame ==
  ASSUME UNCHANGED <<search, record>>
  PROVE  \A b : Placed(b)' <=> Placed(b)
BY DEF record, Placed, Midway, InHyper, InPara, HyperUnit, Accepted, StillActive, RawOf, Denial,
       FirstRule, HyperPending, ParaPending

LEMMA Rests ==
  ASSUME NEW b \in Batches, Keyed(b), Midway(b)
  PROVE  Placed([b EXCEPT !.probe = FALSE])
<1> DEFINE c == [b EXCEPT !.probe = FALSE]
<1>1. /\ c.given = b.given /\ c.cursor = b.cursor /\ c.limit = b.limit /\ c.epoch = b.epoch
      /\ c.rules = b.rules /\ c.promising = b.promising /\ c.done = b.done /\ c.hash = b.hash
      /\ c.at = b.at /\ c.next = b.next /\ c.probe = FALSE
  BY DEF Batches
<1> HIDE DEF c
<1>2. Keyed(c) BY <1>1 DEF Keyed, KnowsNext, Above
<1>3. Midway(c)
  <2>1. HyperPending(c) = HyperPending(b) /\ FirstRule(c) = FirstRule(b)
        /\ ParaPending(c) = ParaPending(b)
    BY <1>1 DEF HyperPending, FirstRule, ParaPending
  <2>2. \A u : DrawnOf(c, u) = DrawnOf(b, u) BY <1>1 DEF DrawnOf
  <2>3. \A r : HyperUnit(c, r) = HyperUnit(b, r) BY <1>1 DEF HyperUnit
  <2>4. InHyper(b) => InHyper(c) BY <2>1, <2>2, <2>3 DEF InHyper
  <2>5. InPara(b) => InPara(c) BY <1>1, <2>1, <2>2 DEF InPara
  <2> QED BY <1>1, <2>4, <2>5 DEF Midway
<1> QED BY <1>1, <1>2, <1>3 DEF Placed, c

LEMMA TurnPlaces ==
  ASSUME IInv, PInv, Turn
  PROVE  PInv'
<1> DEFINE chosen == Chosen
           b == Head(chosen.queue)
           did == Work(b)
           d == [did.batch EXCEPT !.probe = FALSE]
<1>1. /\ fatal = "none" /\ TurnIsNext /\ queue # <<>>
      /\ UNCHANGED <<search, record>>
      /\ fatal' = did.fatal /\ sinceFair' = chosen.sinceFair
      /\ did.fatal = "none" => FinishTurn(chosen, did.batch)
      /\ did.fatal # "none" => queue' = chosen.queue /\ UNCHANGED <<clauses, credit>>
  BY DEF Turn, TurnIsNext, Due
<1> HIDE DEF chosen
<1>2. Typed /\ Recorded /\ Queued /\ search \in Searches /\ queue \in Seq(Batches)
      /\ Distinct(queue) /\ heap \in HeapOf(queue)
  BY DEF IInv, Typed, Queued
<1>3. /\ chosen.queue \in Seq(Batches) /\ Distinct(chosen.queue) /\ chosen.queue # <<>>
      /\ ToSet(chosen.queue) = ToSet(queue)
  BY <1>1, <1>2, ChosenFits DEF chosen
<1>4. /\ chosen.sinceFair \in Nat /\ chosen.sinceFair < search.interval
      /\ Scheduling \/ chosen.sinceFair = 0
      /\ ProbeAhead(chosen.queue, credit)
  BY <1>1, ChosenFair DEF chosen
<1>5. b \in Batches /\ b = chosen.queue[1] /\ 1 \in DOMAIN chosen.queue /\ b \in ToSet(queue)
      /\ ToSet(Tail(chosen.queue)) \subseteq ToSet(queue)
  BY <1>3, HeadSplits
<1>6. Ready(b) /\ Placed(b) BY <1>2, <1>5 DEF Queued, PInv
<1> HIDE DEF b
<1>7. Moves(b, did) BY <1>2, <1>5, <1>6, WorkMoves
<1> HIDE DEF did
<1>8. Fair'
  <2>1. search' = search BY <1>1
  <2>2. Scheduling' = Scheduling BY <2>1 DEF Scheduling
  <2> QED BY <1>1, <1>4, <2>1, <2>2 DEF Fair
<1>9. credit \in BOOLEAN BY DEF PInv
<1>10. CASE did.fatal = "none"
  <2>1. Keyed(did.batch) /\ Midway(did.batch) BY <1>7, <1>10 DEF Moves
  <2>2. did.batch \in Batches
    <3>1. WorkedOn(b, did) BY <1>2, <1>5, <1>6, <1>10, WorkExact DEF did
    <3> QED BY <3>1 DEF WorkedOn
  <2>3. Placed(d) /\ d \in Batches /\ d.probe = FALSE
    <3>1. Placed(d) BY <2>1, <2>2, Rests
    <3>2. d \in Batches /\ d.probe = FALSE BY <2>2 DEF Batches
    <3> QED BY <3>1, <3>2
  <2> DEFINE t == Tail(chosen.queue)
  <2>4. queue' \in {t, Append(t, d)} /\ credit' \in BOOLEAN
    <3>1. credit' = (did.batch.probe => credit) /\ did.batch.probe \in BOOLEAN
      BY <1>1, <1>10, <2>2 DEF FinishTurn, Batches
    <3>2. credit' \in BOOLEAN BY <1>9, <3>1
    <3>3. queue' \in {t, Append(t, d)} BY <1>1, <1>10 DEF FinishTurn
    <3> QED BY <3>2, <3>3
  <2>5. t \in Seq(Batches) /\ ToSet(t) \subseteq ToSet(queue) /\ \A i \in DOMAIN t : ~t[i].probe
    <3>1. t \in Seq(Batches) /\ \A i \in DOMAIN t : i + 1 \in DOMAIN chosen.queue /\ i + 1 # 1
                                /\ t[i] = chosen.queue[i + 1]
      BY <1>3
    <3> QED BY <1>4, <1>5, <3>1 DEF ProbeAhead
  <2> HIDE DEF t, d
  <2>6. /\ \A i \in DOMAIN Append(t, d) : Append(t, d)[i] = d \/ \E j \in DOMAIN t : Append(t, d)[i] = t[j]
    BY <2>3, <2>5
  <2>7. \A i \in DOMAIN queue' : ~queue'[i].probe /\ (queue'[i] = d \/ queue'[i] \in ToSet(t))
    <3>1. \A i \in DOMAIN t : t[i] \in ToSet(t) BY DEF ToSet
    <3> QED BY <2>3, <2>4, <2>5, <2>6, <3>1
  <2>8. \A c \in ToSet(queue') : c = d \/ c \in ToSet(queue) BY <2>5, <2>7 DEF ToSet
  <2>9. \A c \in ToSet(queue') : Placed(c) BY <2>3, <2>8 DEF PInv
  <2>10. \A c \in ToSet(queue') : Placed(c)' BY <1>1, <2>9, PlacedSame
  <2>11. ProbeAhead(queue', credit') BY <2>7 DEF ProbeAhead
  <2>12. FatalOnlyThen' BY <1>1, <1>10 DEF FatalOnlyThen
  <2> QED BY <1>8, <2>4, <2>10, <2>11, <2>12 DEF PInv
<1>11. CASE did.fatal # "none"
  <2>1. queue' = chosen.queue /\ credit' = credit /\ UNCHANGED clauses BY <1>1, <1>11
  <2>2. \A c \in ToSet(queue') : Placed(c) BY <1>3, <2>1 DEF PInv
  <2>3. \A c \in ToSet(queue') : Placed(c)' BY <1>1, <2>2, PlacedSame
  <2>4. ProbeAhead(queue', credit') BY <1>4, <2>1
  <2>5. FatalOnlyThen'
    <3>1. CASE did.fatal = "space" /\ Budget = 0
      <4>1. ~Space BY <1>2, <3>1, NoBudget
      <4>2. passive = {} BY <1>1, <4>1 DEF TurnIsNext, Selectable
      <4>3. Cardinality(passive) = 0 BY <4>2, FS_EmptySet
      <4>4. unselected >= search.cache
        <5>1. unselected \in Nat /\ search.cache \in Nat BY <1>2, SearchesAssumption DEF Typed
        <5> QED BY <4>1, <4>3, <5>1 DEF Space, Occupancy
      <4>5. passive' = passive /\ unselected' = unselected /\ search' = search
        BY <1>1, <2>1 DEF clauses
      <4> QED BY <1>1, <3>1, <4>2, <4>4, <4>5 DEF FatalOnlyThen
    <3>2. CASE did.fatal = "replay" /\ Mistaken(b)
      <4>1. search' = search /\ queue'[1] = b /\ 1 \in DOMAIN queue' BY <1>1, <1>5, <2>1
      <4>2. search.probes /\ HyperPending(b) /\ b.done > 0 /\ b.hash[1].rule = "para"
        BY <3>2 DEF Mistaken
      <4>3. (HyperPending(queue[1]))'
        BY <4>1, <4>2 DEF HyperPending
      <4> QED BY <1>1, <3>2, <4>1, <4>2, <4>3 DEF FatalOnlyThen
    <3> QED BY <1>7, <1>11, <3>1, <3>2 DEF Moves
  <2> QED BY <1>8, <1>9, <2>1, <2>3, <2>4, <2>5 DEF PInv
<1> QED BY <1>10, <1>11

LEMMA EntryPlaced ==
  ASSUME NEW g \in Ids, NEW rules \in SUBSET Rules, NEW e \in Nat, NEW limit \in Nat
  PROVE  LET b == NewEntry(g, rules, e, limit) IN
         /\ Placed(b) /\ ~b.probe /\ ~b.promising /\ b.done = 0
         /\ search.probes => Placed([b EXCEPT !.probe = TRUE])
         /\ [b EXCEPT !.probe = TRUE].probe = TRUE
         /\ ~[b EXCEPT !.probe = TRUE].promising /\ [b EXCEPT !.probe = TRUE].done = 0
<1> DEFINE b == NewEntry(g, rules, e, limit)
           c == [b EXCEPT !.probe = TRUE]
<1>1. b.probe = FALSE /\ b.promising = FALSE /\ b.done = 0 /\ b.at = NoKey /\ b.next = NoKey
  BY DEF NewEntry
<1>2. c.probe = TRUE /\ c.promising = FALSE /\ c.done = 0 /\ c.at = NoKey /\ c.next = NoKey
  BY DEF NewEntry
<1> HIDE DEF b, c
<1>3. Placed(b) /\ (search.probes => Placed(c)) BY <1>1, <1>2 DEF Placed, Keyed, Midway
<1> QED BY <1>1, <1>2, <1>3 DEF b, c

\* What an activation makes of the queue.
Enqueued(q, g, c) ==
  \/ q = queue /\ c = credit
  \/ \E b : /\ b \in Batches /\ b.given = g /\ ~b.promising /\ b.done = 0 /\ Placed(b)
            /\ \/ q = Append(queue, b) /\ ~b.probe /\ c = credit
               \/ q = <<b>> \o queue /\ b.probe /\ credit /\ c = FALSE

LEMMA ActivationQueues ==
  ASSUME IInv, PInv, NEW c \in passive, NEW retired, NEW hint, Activation(c, retired, hint)
  PROVE  Enqueued(queue', c.id, credit') /\ \A b \in ToSet(queue) : b.given # c.id
<1> DEFINE e == epoch + 1
           log == Append(history, Noted(c.id, search.rules \cap Hyper # {} /\ ~Denial(c.id), e))
           batches == EnqueueAll(c.id, e, Len(log))
           probed == Probed(batches, hint)
           b == NewEntry(c.id, search.rules, e, Len(log))
           p == [b EXCEPT !.probe = TRUE]
<1>1. Typed /\ Distinct(queue) /\ queue \in Seq(Batches) /\ search \in Searches
  BY DEF IInv, Queued, Typed
<1>2. c.id \in Ids /\ e \in Nat /\ history \in Seq(Entries) BY <1>1 DEF Typed
<1>3. Len(log) = Len(history) + 1 BY <1>2
<1>4. Len(log) \in Nat /\ search.rules \in SUBSET Rules
  BY <1>1, <1>2, <1>3, SearchesAssumption
<1>5. \A d \in ToSet(queue) : d.given # c.id
  <2> SUFFICES ASSUME NEW d \in ToSet(queue) PROVE d.given # c.id OBVIOUS
  <2>1. Ready(d) /\ d \in Batches BY <1>1 DEF IInv, Queued, ToSet
  <2>2. d.limit \in DOMAIN history /\ history[d.limit].id = d.given
    <3>1. search.usable \in Nat BY <1>1, SearchesAssumption
    <3>2. d.limit \in Nat /\ d.limit > search.usable /\ d.limit =< Len(history)
          /\ history[d.limit].id = d.given
      BY <2>1 DEF Ready, ReadyIn, Batches
    <3> QED BY <1>2, <3>1, <3>2
  <2> QED BY <2>2 DEF IInv, Fresh
<1>6. queue' = (IF probed THEN ProbeFirst(batches) ELSE batches) /\ credit' = (credit /\ ~probed)
  BY DEF Activation
<1>7. probed => search.probes /\ credit BY DEF Probed
<1>8. credit \in BOOLEAN /\ probed \in BOOLEAN
  BY DEF PInv, Probed
<1> DEFINE limit == Len(log)
<1> HIDE DEF log, probed, e
<1>9. batches = Grown(queue, c.id, search.rules, e, limit)
  <2> HIDE DEF limit
  <2> QED BY <1>1, <1>2, <1>4, <1>5, EnqueueAllGrows DEF limit
<1>10. batches = IF search.rules = {} THEN queue ELSE Append(queue, b)
  <2> HIDE DEF batches
  <2> QED BY <1>9 DEF Grown
<1>11. b \in Batches /\ b.given = c.id /\ p \in Batches /\ p.given = c.id
  <2> HIDE DEF limit
  <2>1. b \in Batches /\ b.given = c.id
    <3>1. limit \in Nat BY <1>4 DEF limit
    <3> QED BY <1>2, <1>4, <3>1 DEF NewEntry, Batches, NoKey, Keys
  <2> HIDE DEF b
  <2>2. p \in Batches /\ p.given = b.given BY <2>1 DEF Batches
  <2> QED BY <2>1, <2>2
<1>12. /\ Placed(b) /\ ~b.probe /\ ~b.promising /\ b.done = 0
       /\ (search.probes => Placed(p)) /\ ~p.promising /\ p.done = 0 /\ p.probe = TRUE
  <2> HIDE DEF limit
  <2> QED BY <1>2, <1>4, EntryPlaced DEF limit
<1> HIDE DEF b, batches
<1>13. CASE ~probed
  <2>1. queue' = batches /\ credit' = credit BY <1>6, <1>8, <1>13
  <2> QED BY <1>5, <1>10, <1>11, <1>12, <2>1 DEF Enqueued
<1>14. CASE probed
  <2>1. search.rules # {}
    <3>1. Len(batches) > Len(queue) BY <1>14 DEF Probed, probed
    <3>2. Len(queue) \in Nat BY <1>1
    <3> QED BY <1>10, <3>1, <3>2
  <2>2. batches = Append(queue, b) BY <1>10, <2>1
  <2>3. Last(batches) = b /\ Front(batches) = queue
    <3> DEFINE t == Append(queue, b)
    <3>1. t \in Seq(Batches) /\ Len(t) = Len(queue) + 1 /\ t[Len(t)] = b
          /\ \A i \in 1 .. Len(queue) : t[i] = queue[i]
      BY <1>1, <1>11
    <3> HIDE DEF t
    <3>2. t # <<>> BY <1>1, <3>1
    <3>3. Front(t) \in Seq(Batches) /\ Len(Front(t)) = Len(t) - 1
          /\ \A i \in 1 .. Len(t) - 1 : Front(t)[i] = t[i]
      BY <3>1, <3>2, FrontAndLast
    <3>4. Front(t) = queue BY <1>1, <3>1, <3>3
    <3> QED BY <2>2, <3>1, <3>4 DEF Last, t
  <2>4. queue' = <<p>> \o queue /\ credit' = FALSE /\ credit BY <1>6, <1>7, <1>14, <2>3 DEF ProbeFirst
  <2> QED BY <1>5, <1>7, <1>11, <1>12, <1>14, <2>4 DEF Enqueued
<1> QED BY <1>13, <1>14

LEMMA EnqueuedPlaces ==
  ASSUME IInv, PInv, NEW q, NEW g, NEW c, Enqueued(q, g, c)
  PROVE  /\ \A b \in ToSet(q) : Placed(b) /\ (b \in ToSet(queue) \/ (b.given = g /\ b.done = 0))
         /\ ProbeAhead(q, c) /\ c \in BOOLEAN
<1>1. queue \in Seq(Batches) /\ (\A b \in ToSet(queue) : Placed(b)) /\ credit \in BOOLEAN
      /\ ProbeAhead(queue, credit)
  BY DEF IInv, Typed, PInv
<1>2. CASE q = queue /\ c = credit BY <1>1, <1>2
<1>3. ASSUME NEW b \in Batches, b.given = g, b.done = 0, Placed(b), q = Append(queue, b), ~b.probe, c = credit
      PROVE  /\ \A d \in ToSet(q) : Placed(d) /\ (d \in ToSet(queue) \/ (d.given = g /\ d.done = 0))
             /\ ProbeAhead(q, c) /\ c \in BOOLEAN
  <2>1. \A i \in DOMAIN q : q[i] = b \/ (i \in DOMAIN queue /\ q[i] = queue[i]) BY <1>1, <1>3
  <2> QED BY <1>1, <1>3, <2>1 DEF ToSet, ProbeAhead
<1>4. ASSUME NEW b \in Batches, b.given = g, b.done = 0, Placed(b), q = <<b>> \o queue, credit, c = FALSE
      PROVE  /\ \A d \in ToSet(q) : Placed(d) /\ (d \in ToSet(queue) \/ (d.given = g /\ d.done = 0))
             /\ ProbeAhead(q, c) /\ c \in BOOLEAN
  <2>1. \A i \in DOMAIN q : i = 1 \/ (i - 1 \in DOMAIN queue /\ q[i] = queue[i - 1]) BY <1>1, <1>4
  <2>2. \A i \in DOMAIN queue : ~queue[i].probe BY <1>1, <1>4 DEF ProbeAhead
  <2>3. q[1] = b BY <1>1, <1>4
  <2>4. \A i \in DOMAIN q : q[i] = b \/ q[i] \in ToSet(queue) BY <2>1, <2>3 DEF ToSet
  <2>5. \A d \in ToSet(q) : d = b \/ d \in ToSet(queue) BY <2>4 DEF ToSet
  <2>6. ProbeAhead(q, c) BY <1>4, <2>1, <2>2 DEF ProbeAhead
  <2> QED BY <1>1, <1>4, <2>5, <2>6
<1> QED BY <1>2, <1>3, <1>4 DEF Enqueued

\* What an activation and the retirement that goes with it leave of the record.
RecordGoesOn ==
  /\ search' = search /\ epoch' = epoch + 1 /\ Longer(history, history', epoch)
  /\ deactivated' \in [Ids -> Nat]
  /\ \A id \in Ids : \/ deactivated'[id] = deactivated[id]
                     \/ deactivated[id] = 0 /\ deactivated'[id] > epoch

LEMMA ActivateGoesOn ==
  ASSUME IInv, Activate
  PROVE  /\ RecordGoesOn /\ UNCHANGED <<heap, sinceFair, fatal>> /\ fatal = "none"
         /\ \E c \in passive, retired \in SUBSET usable, hint \in {search.probes, FALSE} :
               Activation(c, retired, hint)
<1>1. /\ UNCHANGED <<search, heap, sinceFair, fatal>> /\ fatal = "none"
      /\ \E c \in passive, retired \in SUBSET usable, hint \in {search.probes, FALSE} :
            Activation(c, retired, hint)
  BY DEF Activate, GivenIsNext
<1>2. PICK c \in passive, retired \in SUBSET usable, hint \in {search.probes, FALSE} :
         Activation(c, retired, hint) BY <1>1
<1> DEFINE e == epoch + 1
           entry == Noted(c.id, search.rules \cap Hyper # {} /\ ~Denial(c.id), e)
<1>3. /\ epoch' = e /\ history' = Append(history, entry)
      /\ deactivated' = [i \in Ids |-> IF i \in retired /\ deactivated[i] = 0
                                       THEN e ELSE deactivated[i]]
  BY <1>2 DEF Activation
<1>4. epoch \in Nat /\ c.id \in Ids BY DEF IInv, Typed
<1>5. entry \in Entries /\ entry.epoch > epoch
  <2> DEFINE clashes == search.rules \cap Hyper # {} /\ ~Denial(c.id)
  <2>1. clashes \in BOOLEAN OBVIOUS
  <2> HIDE DEF clashes
  <2>2. [id |-> c.id, clashable |-> clashes, epoch |-> e] \in Entries BY <1>4, <2>1 DEF Entries
  <2> QED BY <1>4, <2>2 DEF Noted, clashes
<1> HIDE DEF entry
<1>6. Longer(history, history', epoch) BY <1>3, <1>5 DEF Longer
<1>7. /\ deactivated' \in [Ids -> Nat]
      /\ \A id \in Ids : \/ deactivated'[id] = deactivated[id]
                         \/ deactivated[id] = 0 /\ deactivated'[id] > epoch
  BY <1>3, Retires
<1> QED BY <1>1, <1>2, <1>3, <1>6, <1>7 DEF RecordGoesOn

LEMMA NotActivatedGoesOn ==
  ASSUME IInv, NotActivated
  PROVE  /\ RecordGoesOn /\ UNCHANGED <<queue, heap, sinceFair, credit, fatal>> /\ fatal = "none"
<1>1. /\ UNCHANGED <<search, history, queue, heap, sinceFair, credit, fatal>> /\ fatal = "none"
      /\ epoch' = epoch + 1
  BY DEF NotActivated, GivenIsNext
<1>2. PICK retired \in SUBSET usable :
         deactivated' = [i \in Ids |-> IF i \in retired /\ deactivated[i] = 0
                                       THEN epoch' ELSE deactivated[i]]
  BY DEF NotActivated
<1>3. /\ deactivated' \in [Ids -> Nat]
      /\ \A id \in Ids : \/ deactivated'[id] = deactivated[id]
                         \/ deactivated[id] = 0 /\ deactivated'[id] > epoch
  BY <1>1, <1>2, Retires
<1> QED BY <1>1, <1>3 DEF RecordGoesOn, Longer

LEMMA GoesOnPlaces ==
  ASSUME IInv, PInv, RecordGoesOn, fatal = "none", UNCHANGED <<sinceFair, fatal>>,
         (queue' = queue /\ credit' = credit)
           \/ \E c \in passive, retired \in SUBSET usable, hint \in {search.probes, FALSE} :
                 Activation(c, retired, hint)
  PROVE  PInv'
<1>1. \A b \in ToSet(queue) : Placed(b)' BY PlacedOn DEF RecordGoesOn, PInv
<1>2. Fair'
  <2>1. Scheduling' = Scheduling BY DEF RecordGoesOn, Scheduling
  <2> QED BY <2>1 DEF RecordGoesOn, PInv, Fair
<1>3. FatalOnlyThen' BY DEF FatalOnlyThen
<1>4. CASE queue' = queue /\ credit' = credit
  BY <1>1, <1>2, <1>3, <1>4 DEF PInv
<1>5. ASSUME NEW c \in passive, NEW retired, NEW hint, Activation(c, retired, hint)
      PROVE  PInv'
  <2>1. Enqueued(queue', c.id, credit') /\ \A b \in ToSet(queue) : b.given # c.id
    BY <1>5, ActivationQueues
  <2>2. ProbeAhead(queue', credit') /\ credit' \in BOOLEAN BY <2>1, EnqueuedPlaces
  <2>3. \A b \in ToSet(queue') : Placed(b)'
    <3> SUFFICES ASSUME NEW b \in ToSet(queue'), b \notin ToSet(queue) PROVE Placed(b)'
      BY <1>1
    <3>1. Placed(b) /\ b.done = 0 BY <2>1, EnqueuedPlaces
    <3>2. b.probe => search'.probes BY <3>1 DEF Placed, RecordGoesOn
    <3> QED BY <3>1, <3>2 DEF Placed, Midway
  <2> QED BY <1>2, <1>3, <2>2, <2>3 DEF PInv
<1> QED BY <1>4, <1>5

\* A checkpoint that the search writes is readable.
LEMMA AlwaysReadable ==
  ASSUME IInv, PInv
  PROVE  /\ sinceFair < search.interval
         /\ Scheduling \/ sinceFair = 0
         /\ \A i \in DOMAIN queue : Readable(i)
<1>1. sinceFair < search.interval /\ (Scheduling \/ sinceFair = 0) BY DEF PInv, Fair
<1>2. ASSUME NEW i \in DOMAIN queue PROVE Readable(i)
  <2> DEFINE b == queue[i]
             c == [ResetConclusions(b) EXCEPT !.probe = b.probe]
  <2>1. b \in Batches /\ b \in ToSet(queue) BY DEF IInv, Typed, ToSet
  <2>2. Ready(b) /\ Placed(b) BY <2>1 DEF IInv, Queued, PInv
  <2>3. b.probe => i = 1 /\ ~credit BY DEF PInv, ProbeAhead
  <2> HIDE DEF b
  <2>4. b.cursor =< b.limit /\ b.limit =< Len(history) /\ Resting(b)
        /\ b.rules # {}
    BY <2>2 DEF Ready, ReadyIn, HyperPending, ParaPending
  <2>5. Keyed(b) BY <2>2 DEF Placed
  <2>6. ~b.promising => b.at = NoKey /\ b.next = NoKey BY <2>5 DEF Keyed
  <2>7. ASSUME b.done = 0 PROVE b = c
    <3>1. b.hash = <<>> /\ ~b.promising BY <2>4, <2>7 DEF Resting
    <3>2. c \in Batches BY <2>1, ResetTyped DEF Batches
    <3>3. /\ c.given = b.given /\ c.cursor = b.cursor /\ c.limit = b.limit
          /\ c.epoch = b.epoch /\ c.rules = b.rules /\ c.probe = b.probe
          /\ c.promising = FALSE /\ c.done = 0 /\ c.hash = <<>> /\ c.at = NoKey /\ c.next = NoKey
      BY <2>1 DEF ResetConclusions, Batches
    <3>4. b.promising = FALSE BY <2>1, <3>1 DEF Batches
    <3> HIDE DEF c
    <3>5. SameUnits(b, c) BY <3>3 DEF SameUnits
    <3>6. SameCursor(b, c) /\ c.next = b.next BY <2>6, <2>7, <3>1, <3>3, <3>4 DEF SameCursor
    <3> QED BY <2>1, <3>2, <3>5, <3>6, SameBatch
  <2>8. b.promising => Less(b.at, b.next) BY <2>5 DEF Keyed, KnowsNext, Above
  <2> HIDE DEF c
  <2> QED BY <2>3, <2>4, <2>6, <2>7, <2>8 DEF Readable, b, c
<1> QED BY <1>1, <1>2

LEMMA ResumePlaces ==
  ASSUME IInv, PInv, Resume
  PROVE  PInv'
<1>1. UNCHANGED <<search, clauses, record, queue, turns>> /\ fatal = "none" BY DEF Resume
<1>2. fatal' = "none" BY AlwaysReadable DEF Resume
<1>3. \A b \in ToSet(queue') : Placed(b)' BY <1>1, PlacedSame DEF PInv
<1>4. Fair'
  <2>1. search' = search /\ sinceFair' = sinceFair BY <1>1 DEF turns
  <2>2. Scheduling' = Scheduling BY <2>1 DEF Scheduling
  <2> QED BY <2>1, <2>2 DEF PInv, Fair
<1>5. credit' = credit BY <1>1 DEF turns
<1> QED BY <1>1, <1>2, <1>3, <1>4, <1>5 DEF PInv, FatalOnlyThen

LEMMA RefreshPlaces ==
  ASSUME IInv, PInv, Refresh
  PROVE  PInv'
<1>1. UNCHANGED <<search, record, queue, turns, fatal>> /\ fatal = "none"
  BY DEF Refresh, GivenIsNext
<1>2. \A b \in ToSet(queue') : Placed(b)' BY <1>1, PlacedSame DEF PInv
<1>3. Fair'
  <2>1. search' = search /\ sinceFair' = sinceFair BY <1>1 DEF turns
  <2>2. Scheduling' = Scheduling BY <2>1 DEF Scheduling
  <2> QED BY <2>1, <2>2 DEF PInv, Fair
<1>4. credit' = credit BY <1>1 DEF turns
<1> QED BY <1>1, <1>2, <1>3, <1>4 DEF PInv, FatalOnlyThen

LEMMA StutterPlaces ==
  ASSUME PInv, UNCHANGED vars
  PROVE  PInv'
<1>1. UNCHANGED <<search, record, queue, turns, fatal, clauses>> BY DEF vars
<1>2. \A b \in ToSet(queue') : Placed(b)' BY <1>1, PlacedSame DEF PInv
<1>3. Fair'
  <2>1. search' = search /\ sinceFair' = sinceFair BY <1>1 DEF turns
  <2>2. Scheduling' = Scheduling BY <2>1 DEF Scheduling
  <2> QED BY <2>1, <2>2 DEF PInv, Fair
<1>4. credit' = credit BY <1>1 DEF turns
<1>5. FatalOnlyThen' BY <1>1 DEF PInv, FatalOnlyThen, clauses, HyperPending
<1> QED BY <1>1, <1>2, <1>3, <1>4, <1>5 DEF PInv

LEMMA InitPlaces ==
  ASSUME Init
  PROVE  PInv
<1>1. search.interval \in Nat \ {0} BY SearchesAssumption DEF Init
<1>2. queue = <<>> /\ sinceFair = 0 /\ credit = TRUE /\ fatal = "none" BY DEF Init
<1>3. DOMAIN queue = {} BY <1>2
<1>4. Fair BY <1>1, <1>2 DEF Fair
<1> QED BY <1>2, <1>3, <1>4 DEF PInv, ToSet, ProbeAhead, FatalOnlyThen

LEMMA NextPlaces ==
  ASSUME IInv, PInv, [Next]_vars
  PROVE  PInv'
<1>1. CASE Turn BY <1>1, TurnPlaces
<1>2. CASE Refresh BY <1>2, RefreshPlaces
<1>3. CASE Activate
  <2>1. /\ RecordGoesOn /\ UNCHANGED <<heap, sinceFair, fatal>> /\ fatal = "none"
        /\ \E c \in passive, retired \in SUBSET usable, hint \in {search.probes, FALSE} :
              Activation(c, retired, hint)
    BY <1>3, ActivateGoesOn
  <2> QED BY <2>1, GoesOnPlaces
<1>4. CASE NotActivated
  <2>1. RecordGoesOn /\ UNCHANGED <<queue, heap, sinceFair, credit, fatal>> /\ fatal = "none"
    BY <1>4, NotActivatedGoesOn
  <2> QED BY <2>1, GoesOnPlaces
<1>5. CASE Resume BY <1>5, ResumePlaces
<1>6. CASE UNCHANGED vars BY <1>6, StutterPlaces
<1> QED BY <1>1, <1>2, <1>3, <1>4, <1>5, <1>6 DEF Next

\* The frontier never loses its place: whatever clauses come and go, and whatever
\* descriptors are chosen, a unit is enumerated as it was when it was left, and the
\* internal checks of a turn and of a resumption fail in two situations only: a probe left
\* a partner of paramodulation half done, or Sos is full of clauses that no selector takes.
THEOREM FailsOnlyThen == Spec => []FatalOnlyThen
<1>1. Init => IInv /\ PInv BY InitInv, InitPlaces
<1>2. IInv /\ PInv /\ [Next]_vars => IInv' /\ PInv' BY NextInv, NextPlaces
<1>3. PInv => FatalOnlyThen BY DEF PInv
<1> QED BY <1>1, <1>2, <1>3, PTL DEF Spec

-----------------------------------------------------------------------------
(* The priority heap is in order.                                          *)

Ordered(batches, h) == \A k \in 2 .. Len(h) : Before(batches, h[k \div 2], h[k])
PartialIn(batches) == {batches[i].given : i \in {i \in DOMAIN batches : batches[i].promising}}

\* The heap is in order except that the element at place i may go before its parent, or
\* after its children.
HoleUp(batches, h, i) ==
  /\ i \in 1 .. Len(h)
  /\ \A k \in 2 .. Len(h) : k # i => Before(batches, h[k \div 2], h[k])
  /\ \A k \in 2 .. Len(h) : k \div 2 = i /\ i > 1 => Before(batches, h[i \div 2], h[k])
HoleDown(batches, h, i) ==
  /\ i \in 1 .. Len(h)
  /\ \A k \in 2 .. Len(h) : k \div 2 # i => Before(batches, h[k \div 2], h[k])
  /\ \A k \in 2 .. Len(h) : k \div 2 = i /\ i > 1 => Before(batches, h[i \div 2], h[k])

LEMMA Half ==
  \A k \in Nat : k >= 2 => /\ k \div 2 \in Nat /\ k \div 2 >= 1 /\ k \div 2 < k
                           /\ (k = 2 * (k \div 2) \/ k = 2 * (k \div 2) + 1)
OBVIOUS

LEMMA KeyTotal ==
  /\ \A x, y, z \in Nat \X Nat \X Nat : Less(x, y) /\ Less(y, z) => Less(x, z)
  /\ \A x \in Nat \X Nat \X Nat : ~Less(x, x)
<1>1. \A x, y \in Nat \X Nat \X Nat :
        Less(x, y) <=> \/ x[1] < y[1]
                       \/ x[1] = y[1] /\ x[2] < y[2]
                       \/ x[1] = y[1] /\ x[2] = y[2] /\ x[3] < y[3]
  <2> SUFFICES ASSUME NEW x \in Nat \X Nat \X Nat, NEW y \in Nat \X Nat \X Nat
               PROVE  Less(x, y) <=> \/ x[1] < y[1]
                                     \/ x[1] = y[1] /\ x[2] < y[2]
                                     \/ x[1] = y[1] /\ x[2] = y[2] /\ x[3] < y[3]
    OBVIOUS
  <2>1. DOMAIN x = {1, 2, 3} /\ 1 .. 1 - 1 = {} /\ 1 .. 2 - 1 = {1} /\ 1 .. 3 - 1 = {1, 2}
    OBVIOUS
  <2> QED BY <2>1 DEF Less
<1>2. \A x \in Nat \X Nat \X Nat : x[1] \in Nat /\ x[2] \in Nat /\ x[3] \in Nat OBVIOUS
<1> QED BY <1>1, <1>2

LEMMA BeforeOrder ==
  ASSUME NEW batches \in Seq(Batches), NEW a \in GivenIn(batches), NEW b \in GivenIn(batches)
  PROVE  /\ ~(Before(batches, a, b) /\ Before(batches, b, a))
         /\ \A c \in GivenIn(batches) :
              Before(batches, a, b) /\ Before(batches, b, c) => Before(batches, a, c)
<1>1. \A g \in GivenIn(batches) : PriorityKey(batches, g) \in Nat \X Nat \X Nat
  <2> SUFFICES ASSUME NEW g \in GivenIn(batches)
               PROVE  PriorityKey(batches, g) \in Nat \X Nat \X Nat
    OBVIOUS
  <2>1. BatchOf(batches, g) \in Batches /\ BatchOf(batches, g).given = g BY BatchFound
  <2>2. g \in Nat BY <2>1 DEF Batches, Ids
  <2> QED BY <2>1, <2>2 DEF PriorityKey, Batches, Keys
<1> QED BY <1>1, KeyTotal DEF Before

\* The elements of a heap are in a total order.
LEMMA Positions ==
  ASSUME NEW batches \in Seq(Batches), NEW h \in HeapOf(batches)
  PROVE  /\ h \in Seq(Ids) /\ Len(h) \in Nat /\ DOMAIN h = 1 .. Len(h)
         /\ \A x, y \in 1 .. Len(h) :
              /\ x # y => Before(batches, h[x], h[y]) \/ Before(batches, h[y], h[x])
              /\ ~(Before(batches, h[x], h[y]) /\ Before(batches, h[y], h[x]))
         /\ \A x, y, z \in 1 .. Len(h) :
              Before(batches, h[x], h[y]) /\ Before(batches, h[y], h[z])
                => Before(batches, h[x], h[z])
<1>1. h \in Seq(Ids) /\ IsInjective(h) /\ ToSet(h) \subseteq GivenIn(batches) BY DEF HeapOf
<1>2. Len(h) \in Nat /\ DOMAIN h = 1 .. Len(h) BY <1>1
<1>3. \A x \in 1 .. Len(h) : h[x] \in GivenIn(batches) BY <1>1, <1>2 DEF ToSet
<1>4. \A x, y \in 1 .. Len(h) : x # y => h[x] # h[y] BY <1>1, <1>2 DEF IsInjective
<1> QED BY <1>1, <1>2, <1>3, <1>4, KeysDiffer, BeforeOrder

LEMMA SwappedIs ==
  ASSUME NEW h \in Seq(Ids), NEW i \in 1 .. Len(h), NEW j \in 1 .. Len(h)
  PROVE  /\ Len(Swapped(h, i, j)) = Len(h)
         /\ \A k \in 1 .. Len(h) :
              Swapped(h, i, j)[k] = IF k = j THEN h[i] ELSE IF k = i THEN h[j] ELSE h[k]
BY DEF Swapped

LEMMA RaisedOrders ==
  ASSUME NEW batches \in Seq(Batches), NEW h \in HeapOf(batches), NEW i \in 1 .. Len(h)
  PROVE  LET at == Raised(batches, <<h, i>>) IN
         /\ Ordered(batches, h) => at = <<h, i>>
         /\ HoleUp(batches, h, i) => \/ at = <<h, i>> /\ Ordered(batches, h)
                                     \/ HoleUp(batches, at[1], at[2]) /\ at[2] < i
<1> DEFINE n == Len(h)  up == i \div 2  B(x, y) == Before(batches, h[x], h[y])
           s == Swapped(h, i, up)
           at == Raised(batches, <<h, i>>)
<1>1. /\ h \in Seq(Ids) /\ n \in Nat
      /\ \A x, y \in 1 .. n : /\ x # y => B(x, y) \/ B(y, x)
                              /\ ~(B(x, y) /\ B(y, x))
      /\ \A x, y, z \in 1 .. n : B(x, y) /\ B(y, z) => B(x, z)
  BY Positions
<1>2. i \in Nat /\ i >= 1 /\ i =< n BY <1>1
<1>3. i > 1 => up \in 1 .. n /\ up < i BY <1>1, <1>2, Half
<1>4. at = IF i > 1 /\ B(i, up) THEN <<s, up>> ELSE <<h, i>> BY DEF Raised
<1> HIDE DEF at, up
<1>5. ASSUME i > 1, B(i, up) PROVE ~Ordered(batches, h)
  <2>1. i \in 2 .. n BY <1>2, <1>5
  <2>2. ~B(up, i) BY <1>1, <1>2, <1>3, <1>5
  <2> QED BY <2>1, <2>2 DEF Ordered, up
<1>6. ASSUME HoleUp(batches, h, i), ~(i > 1 /\ B(i, up)) PROVE Ordered(batches, h)
  <2> SUFFICES ASSUME NEW k \in 2 .. n PROVE Before(batches, h[k \div 2], h[k]) BY DEF Ordered
  <2>1. CASE k # i BY <1>6, <2>1 DEF HoleUp
  <2>2. CASE k = i
    <3>1. i > 1 BY <2>2
    <3>2. B(up, i) BY <1>1, <1>2, <1>3, <1>6, <3>1
    <3> QED BY <2>2, <3>2 DEF up
  <2> QED BY <2>1, <2>2
<1>7. ASSUME HoleUp(batches, h, i), i > 1, B(i, up) PROVE HoleUp(batches, s, up)
  <2> DEFINE C(x, y) == Before(batches, s[x], s[y])
  <2>1. up \in 1 .. n /\ up < i BY <1>3, <1>7
  <2>2. Len(s) = n /\ \A k \in 1 .. n : s[k] = IF k = up THEN h[i] ELSE IF k = i THEN h[up] ELSE h[k]
    BY <1>1, <2>1, SwappedIs
  <2>3. \A k \in 2 .. n : k # i => B(k \div 2, k) BY <1>7 DEF HoleUp
  <2>4. \A k \in 2 .. n : k \div 2 = i => B(up, k) BY <1>7 DEF HoleUp, up
  <2>5. \A k \in 2 .. n : k \in 1 .. n /\ k \div 2 \in 1 .. n /\ k \div 2 < k /\ k \in Nat /\ k > 1
    <3> SUFFICES ASSUME NEW k \in 2 .. n
                 PROVE k \in 1 .. n /\ k \div 2 \in 1 .. n /\ k \div 2 < k /\ k \in Nat /\ k > 1
      OBVIOUS
    <3>1. k \in Nat /\ k >= 2 /\ k =< n BY <1>1
    <3>2. k \div 2 \in Nat /\ k \div 2 >= 1 /\ k \div 2 < k BY <3>1, Half
    <3> QED BY <1>1, <3>1, <3>2
  <2>6. i \in 2 .. n /\ up # i BY <1>2, <1>7, <2>1
  <2> HIDE DEF s, B
  <2>7. ASSUME NEW k \in 2 .. n, k # up PROVE C(k \div 2, k)
    <3> DEFINE p == k \div 2
    <3>1. k \in 1 .. n /\ p \in 1 .. n /\ p # k BY <1>1, <2>5
    <3> HIDE DEF p
    <3>2. CASE k = i
      <4>1. p = up BY <3>2 DEF p, up
      <4>2. s[p] = h[i] /\ s[k] = h[up] BY <1>2, <2>1, <2>2, <3>1, <3>2, <4>1
      <4> QED BY <1>7, <4>2 DEF p, B
    <3>3. CASE k # i /\ p = i
      <4>1. s[p] = h[up] /\ s[k] = h[k] BY <2>2, <2>6, <2>7, <3>1, <3>3
      <4>2. B(up, k) BY <2>4, <3>3 DEF p
      <4> QED BY <4>1, <4>2 DEF p, B
    <3>4. CASE k # i /\ p = up
      <4>1. s[p] = h[i] /\ s[k] = h[k] BY <2>2, <2>7, <3>1, <3>4
      <4>2. B(up, k) BY <2>3, <3>4 DEF p
      <4>3. B(i, k) BY <1>1, <1>7, <2>1, <3>1, <4>2
      <4> QED BY <4>1, <4>3 DEF p, B
    <3>5. CASE k # i /\ p # i /\ p # up
      <4>1. s[p] = h[p] /\ s[k] = h[k] BY <2>2, <2>7, <3>1, <3>5
      <4>2. B(p, k) BY <2>3, <3>5 DEF p
      <4> QED BY <4>1, <4>2 DEF p, B
    <3> QED BY <3>2, <3>3, <3>4, <3>5
  <2>8. ASSUME NEW k \in 2 .. n, k \div 2 = up, up > 1 PROVE C(up \div 2, k)
    <3> DEFINE p == up \div 2
    <3>1. up \in 2 .. n BY <2>1, <2>8
    <3>2. p \in 1 .. n /\ p < up BY <2>5, <3>1
    <3>3. B(p, up) BY <2>3, <2>6, <3>1
    <3> HIDE DEF p
    <3>4. s[p] = h[p] BY <2>1, <2>2, <3>2
    <3>5. CASE k = i
      <4>1. s[k] = h[up] BY <1>2, <2>2, <2>6, <3>5
      <4> QED BY <3>3, <3>4, <4>1 DEF p, B
    <3>6. CASE k # i
      <4>1. k # up /\ k \in 1 .. n BY <2>5, <2>8
      <4>2. s[k] = h[k] BY <2>2, <3>6, <4>1
      <4>3. B(up, k) BY <2>3, <2>8, <3>6
      <4>4. B(p, k) BY <1>1, <2>1, <3>2, <3>3, <4>1, <4>3
      <4> QED BY <3>4, <4>2, <4>4 DEF p, B
    <3> QED BY <3>5, <3>6
  <2> QED BY <2>1, <2>2, <2>7, <2>8 DEF HoleUp
<1> HIDE DEF s
<1>8. <<s, up>>[1] = s /\ <<s, up>>[2] = up OBVIOUS
<1> QED BY <1>3, <1>4, <1>5, <1>6, <1>7, <1>8 DEF at

LEMMA RearrangedFits ==
  ASSUME NEW batches \in Seq(Batches), NEW h \in HeapOf(batches), NEW k \in Rearranged(h)
  PROVE  k \in HeapOf(batches) /\ Len(k) = Len(h)
BY DEF Rearranged, HeapOf

LEMMA SiftUpOrders ==
  ASSUME NEW batches \in Seq(Batches), NEW h \in HeapOf(batches), NEW i,
         HoleUp(batches, h, i)
  PROVE  Ordered(batches, SiftUp(batches, h, i))
<1> DEFINE n == Len(h)
           f == SiftingUp(batches, h, i)
           Good(m) == \/ Ordered(batches, f[m][1])
                      \/ HoleUp(batches, f[m][1], f[m][2]) /\ f[m][2] =< n - m
           T == {m \in Nat : m =< n => Good(m)}
<1>1. h \in Seq(Ids) /\ n \in Nat /\ i \in 1 .. n BY DEF HeapOf, HoleUp
<1>2. /\ f[0] = <<h, i>>
      /\ \A m \in 1 .. n : f[m] = Raised(batches, f[m - 1])
      /\ \A m \in 0 .. n : f[m] \in Rearranged(h) \X (1 .. n)
      /\ SiftUp(batches, h, i) = f[n][1]
  BY <1>1, SiftUpIterates
<1> HIDE DEF f
<1>3. 0 \in T BY <1>1, <1>2
<1>4. ASSUME NEW m \in Nat, m \in T PROVE m + 1 \in T
  <2> SUFFICES ASSUME m + 1 =< n PROVE Good(m + 1) OBVIOUS
  <2>1. m + 1 \in 1 .. n /\ m \in 0 .. n /\ (m + 1) - 1 = m /\ m =< n BY <1>1
  <2> DEFINE k == f[m][1]  j == f[m][2]
  <2>2. f[m] = <<k, j>> /\ k \in Rearranged(h) /\ j \in 1 .. n BY <1>2, <2>1
  <2>3. f[m + 1] = Raised(batches, <<k, j>>) BY <1>2, <2>1, <2>2
  <2>4. k \in HeapOf(batches) /\ Len(k) = n BY <2>2, RearrangedFits
  <2>5. Ordered(batches, k) \/ (HoleUp(batches, k, j) /\ j =< n - m) BY <1>4, <2>1
  <2> DEFINE at == f[m + 1]
  <2> HIDE DEF k, j, n
  <2>6. /\ Ordered(batches, k) => at = <<k, j>>
        /\ HoleUp(batches, k, j) => \/ at = <<k, j>> /\ Ordered(batches, k)
                                    \/ HoleUp(batches, at[1], at[2]) /\ at[2] < j
    BY <2>2, <2>3, <2>4, RaisedOrders
  <2>7. <<k, j>>[1] = k OBVIOUS
  <2>8. at[2] \in 1 .. n BY <1>2, <2>1 DEF n
  <2> HIDE DEF at
  <2>9. Ordered(batches, at[1]) \/ (HoleUp(batches, at[1], at[2]) /\ at[2] =< n - (m + 1))
    <3>1. CASE Ordered(batches, k) BY <2>6, <2>7, <3>1
    <3>2. CASE HoleUp(batches, k, j) /\ j =< n - m
      <4>1. CASE at = <<k, j>> /\ Ordered(batches, k) BY <2>7, <4>1
      <4>2. CASE HoleUp(batches, at[1], at[2]) /\ at[2] < j
        <5>1. at[2] =< n - (m + 1) BY <1>1, <2>2, <2>8, <3>2, <4>2
        <5> QED BY <4>2, <5>1
      <4> QED BY <2>6, <3>2, <4>1, <4>2
    <3> QED BY <2>5, <3>1, <3>2
  <2> QED BY <2>9 DEF at
<1> HIDE DEF T
<1>5. n \in T BY <1>1, <1>3, <1>4, Induction
<1>6. Good(n) BY <1>1, <1>5 DEF T
<1>7. ~(f[n][2] =< n - n)
  <2>1. f[n][2] \in 1 .. n BY <1>1, <1>2
  <2> QED BY <1>1, <2>1
<1> QED BY <1>2, <1>6, <1>7

LEMMA LoweredOrders ==
  ASSUME NEW batches \in Seq(Batches), NEW h \in HeapOf(batches), NEW i \in 1 .. Len(h)
  PROVE  LET at == Lowered(batches, <<h, i>>) IN
         /\ Ordered(batches, h) => at = <<h, i>>
         /\ HoleDown(batches, h, i) => \/ at = <<h, i>> /\ Ordered(batches, h)
                                       \/ HoleDown(batches, at[1], at[2]) /\ at[2] > i
<1> DEFINE n == Len(h)  B(x, y) == Before(batches, h[x], h[y])
           below == {j \in {2 * i, 2 * i + 1} : j =< n /\ B(j, i)}
           c == CHOOSE j \in below : \A k \in below \ {j} : B(j, k)
           s == Swapped(h, i, c)
           at == Lowered(batches, <<h, i>>)
<1>1. /\ h \in Seq(Ids) /\ n \in Nat
      /\ \A x, y \in 1 .. n : /\ x # y => B(x, y) \/ B(y, x)
                              /\ ~(B(x, y) /\ B(y, x))
      /\ \A x, y, z \in 1 .. n : B(x, y) /\ B(y, z) => B(x, z)
  BY Positions
<1>2. i \in Nat /\ i >= 1 /\ i =< n BY <1>1
<1>3. at = IF below = {} THEN <<h, i>> ELSE <<s, c>> BY DEF Lowered
<1>4. \A k \in 2 .. n : k \in 1 .. n /\ k \div 2 \in 1 .. n /\ k \div 2 < k /\ k \in Nat /\ k > 1
  <2> SUFFICES ASSUME NEW k \in 2 .. n
               PROVE k \in 1 .. n /\ k \div 2 \in 1 .. n /\ k \div 2 < k /\ k \in Nat /\ k > 1
    OBVIOUS
  <2>1. k \in Nat /\ k >= 2 /\ k =< n BY <1>1
  <2>2. k \div 2 \in Nat /\ k \div 2 >= 1 /\ k \div 2 < k BY <2>1, Half
  <2> QED BY <1>1, <2>1, <2>2
\* The children of place i.
<1>5. /\ \A k \in below : k \in 2 .. n /\ k \div 2 = i /\ k > i /\ B(k, i)
      /\ \A k \in 2 .. n : k \div 2 = i => k \in below \/ ~B(k, i)
  <2>1. (2 * i) \div 2 = i /\ (2 * i + 1) \div 2 = i BY <1>2
  <2>2. \A k \in below : k \in 2 .. n /\ k \div 2 = i /\ k > i /\ B(k, i)
    <3> HIDE DEF B, n
    <3> QED BY <1>1, <1>2, <2>1
  <2>3. ASSUME NEW k \in 2 .. n, k \div 2 = i PROVE k \in below \/ ~B(k, i)
    <3>1. k \in Nat /\ k >= 2 /\ k =< n BY <1>1
    <3>2. k = 2 * i \/ k = 2 * i + 1 BY <2>3, <3>1, Half
    <3> HIDE DEF B, n
    <3> QED BY <3>1, <3>2
  <2> QED BY <2>2, <2>3
<1>6. ASSUME below # {} PROVE c \in below /\ \A k \in below \ {c} : B(c, k)
  <2> DEFINE IsLeast(j) == \A k \in below \ {j} : B(j, k)
  <2>1. \A j, k \in below : j # k => B(j, k) \/ B(k, j)
    <3> HIDE DEF below, B, n
    <3>1. \A k \in below : k \in 1 .. n BY <1>4, <1>5
    <3> QED BY <1>1, <3>1
  <2>2. \E j \in below : IsLeast(j)
    <3>1. below \subseteq {2 * i, 2 * i + 1} OBVIOUS
    <3> HIDE DEF below, B
    <3>2. CASE 2 * i \in below /\ 2 * i + 1 \in below
      <4> DEFINE j == 2 * i  l == 2 * i + 1
      <4>1. j # l BY <1>2
      <4>2. below = {j, l} BY <3>1, <3>2
      <4> HIDE DEF j, l
      <4>3. B(j, l) \/ B(l, j) BY <2>1, <4>1, <4>2
      <4>4. below \ {j} = {l} /\ below \ {l} = {j} BY <4>1, <4>2
      <4> QED BY <4>2, <4>3, <4>4
    <3>3. CASE 2 * i \notin below \/ 2 * i + 1 \notin below
      <4>1. PICK j \in below : TRUE BY <1>6
      <4>2. below \ {j} = {} BY <3>1, <3>3
      <4> QED BY <4>2
    <3> QED BY <3>2, <3>3
  <2> HIDE DEF below
  <2> QED BY <2>2
<1> HIDE DEF below, c, at
<1>7. ASSUME below # {} PROVE ~Ordered(batches, h)
  <2>1. PICK k \in below : TRUE BY <1>7
  <2>2. k \in 2 .. n /\ k \div 2 = i /\ B(k, i) BY <1>5, <2>1
  <2>3. k \in 1 .. n BY <1>4, <2>2
  <2>4. ~B(i, k)
    <3> HIDE DEF B, n
    <3> QED BY <1>1, <1>2, <2>2, <2>3
  <2> QED BY <2>2, <2>4 DEF Ordered
<1>8. ASSUME HoleDown(batches, h, i), below = {} PROVE Ordered(batches, h)
  <2> SUFFICES ASSUME NEW k \in 2 .. n PROVE Before(batches, h[k \div 2], h[k]) BY DEF Ordered
  <2>1. CASE k \div 2 # i BY <1>8, <2>1 DEF HoleDown
  <2>2. CASE k \div 2 = i
    <3>1. ~B(k, i) BY <1>5, <1>8, <2>2
    <3>2. k \in 1 .. n /\ k # i BY <1>4, <2>2
    <3>3. B(i, k)
      <4> HIDE DEF B, n
      <4> QED BY <1>1, <1>2, <3>1, <3>2
    <3> QED BY <2>2, <3>3
  <2> QED BY <2>1, <2>2
<1>9. ASSUME HoleDown(batches, h, i), below # {} PROVE HoleDown(batches, s, c) /\ c > i
  <2> DEFINE C(x, y) == Before(batches, s[x], s[y])
  <2>1. /\ c \in below /\ c \in 2 .. n /\ c \div 2 = i /\ c > i /\ B(c, i) /\ c \in 1 .. n
        /\ \A k \in below \ {c} : B(c, k)
    BY <1>4, <1>5, <1>6, <1>9
  <2>2. Len(s) = n /\ \A k \in 1 .. n : s[k] = IF k = c THEN h[i] ELSE IF k = i THEN h[c] ELSE h[k]
    BY <1>1, <2>1, SwappedIs
  <2>3. \A k \in 2 .. n : k \div 2 # i => B(k \div 2, k) BY <1>9 DEF HoleDown
  <2>4. \A k \in 2 .. n : k \div 2 = i /\ i > 1 => B(i \div 2, k) BY <1>9 DEF HoleDown
  <2>5. c # i BY <2>1
  <2> HIDE DEF s, B, n
  <2>6. ASSUME NEW k \in 2 .. n, k \div 2 # c PROVE C(k \div 2, k)
    <3> DEFINE p == k \div 2
    <3>1. k \in 1 .. n /\ p \in 1 .. n /\ p # k /\ k > 1 BY <1>4
    <3>2. p # c BY <2>6
    <3> HIDE DEF p
    <3>3. CASE k = c
      <4>1. p = i BY <2>1, <3>3 DEF p
      <4>2. s[p] = h[c] /\ s[k] = h[i] BY <1>2, <2>2, <2>5, <3>1, <3>3, <4>1
      <4> QED BY <2>1, <4>2 DEF p, B
    <3>4. CASE k # c /\ p = i
      <4>1. s[p] = h[c] /\ s[k] = h[k] BY <2>2, <2>5, <3>1, <3>4
      <4>2. B(c, k)
        <5>1. CASE k \in below BY <2>1, <3>4, <5>1
        <5>2. CASE k \notin below
          <6>1. ~B(k, i) BY <1>5, <3>4, <5>2 DEF p
          <6>2. B(i, k) BY <1>1, <1>2, <3>1, <3>4, <6>1
          <6> QED BY <1>1, <1>2, <2>1, <3>1, <6>2
        <5> QED BY <5>1, <5>2
      <4> QED BY <4>1, <4>2 DEF p, B
    <3>5. CASE k = i
      <4>1. s[p] = h[p] /\ s[k] = h[c] BY <2>2, <2>5, <3>1, <3>2, <3>5
      <4>2. B(p, c) BY <2>1, <2>4, <3>1, <3>5 DEF p
      <4> QED BY <4>1, <4>2 DEF p, B
    <3>6. CASE k # c /\ k # i /\ p # i
      <4>1. s[p] = h[p] /\ s[k] = h[k] BY <2>2, <3>1, <3>2, <3>6
      <4>2. B(p, k) BY <2>3, <3>6 DEF p
      <4> QED BY <4>1, <4>2 DEF p, B
    <3> QED BY <3>3, <3>4, <3>5, <3>6
  <2>7. ASSUME NEW k \in 2 .. n, k \div 2 = c PROVE C(c \div 2, k)
    <3>1. k \in 1 .. n /\ k # c /\ k # i BY <1>4, <2>1, <2>7
    <3>2. s[i] = h[c] /\ s[k] = h[k] BY <1>2, <2>2, <2>5, <3>1
    <3>3. B(c, k) BY <2>3, <2>5, <2>7
    <3> QED BY <2>1, <3>2, <3>3 DEF B
  <2> QED BY <2>1, <2>2, <2>6, <2>7 DEF HoleDown
<1> HIDE DEF s
<1>10. <<s, c>>[1] = s /\ <<s, c>>[2] = c OBVIOUS
<1> QED BY <1>3, <1>7, <1>8, <1>9, <1>10 DEF at

LEMMA SiftDownOrders ==
  ASSUME NEW batches \in Seq(Batches), NEW h \in HeapOf(batches), NEW i,
         HoleDown(batches, h, i)
  PROVE  Ordered(batches, SiftDown(batches, h, i))
<1> DEFINE n == Len(h)
           f == SiftingDown(batches, h, i)
           Good(m) == \/ Ordered(batches, f[m][1])
                      \/ HoleDown(batches, f[m][1], f[m][2]) /\ f[m][2] > m
           T == {m \in Nat : m =< n => Good(m)}
<1>1. /\ h \in Seq(Ids) /\ n \in Nat /\ i \in 1 .. n
      /\ IsInjective(h) /\ ToSet(h) \subseteq GivenIn(batches)
  BY DEF HeapOf, HoleDown
<1>2. /\ f[0] = <<h, i>>
      /\ \A m \in 1 .. n : f[m] = Lowered(batches, f[m - 1])
      /\ \A m \in 0 .. n : f[m] \in Rearranged(h) \X (1 .. n)
      /\ SiftDown(batches, h, i) = f[n][1]
  BY <1>1, SiftDownIterates
<1> HIDE DEF f
<1>3. 0 \in T BY <1>1, <1>2
<1>4. ASSUME NEW m \in Nat, m \in T PROVE m + 1 \in T
  <2> SUFFICES ASSUME m + 1 =< n PROVE Good(m + 1) OBVIOUS
  <2>1. m + 1 \in 1 .. n /\ m \in 0 .. n /\ (m + 1) - 1 = m /\ m =< n BY <1>1
  <2> DEFINE k == f[m][1]  j == f[m][2]
  <2>2. f[m] = <<k, j>> /\ k \in Rearranged(h) /\ j \in 1 .. n BY <1>2, <2>1
  <2>3. f[m + 1] = Lowered(batches, <<k, j>>) BY <1>2, <2>1, <2>2
  <2>4. k \in HeapOf(batches) /\ Len(k) = n BY <2>2, RearrangedFits
  <2>5. Ordered(batches, k) \/ (HoleDown(batches, k, j) /\ j > m) BY <1>4, <2>1
  <2> DEFINE at == f[m + 1]
  <2> HIDE DEF k, j, n
  <2>6. /\ Ordered(batches, k) => at = <<k, j>>
        /\ HoleDown(batches, k, j) => \/ at = <<k, j>> /\ Ordered(batches, k)
                                      \/ HoleDown(batches, at[1], at[2]) /\ at[2] > j
    BY <2>2, <2>3, <2>4, LoweredOrders
  <2>7. <<k, j>>[1] = k OBVIOUS
  <2>8. at[2] \in 1 .. n BY <1>2, <2>1 DEF n
  <2> HIDE DEF at
  <2>9. Ordered(batches, at[1]) \/ (HoleDown(batches, at[1], at[2]) /\ at[2] > m + 1)
    <3>1. CASE Ordered(batches, k) BY <2>6, <2>7, <3>1
    <3>2. CASE HoleDown(batches, k, j) /\ j > m
      <4>1. CASE at = <<k, j>> /\ Ordered(batches, k) BY <2>7, <4>1
      <4>2. CASE HoleDown(batches, at[1], at[2]) /\ at[2] > j
        <5>1. at[2] > m + 1 BY <1>1, <2>2, <2>8, <3>2, <4>2
        <5> QED BY <4>2, <5>1
      <4> QED BY <2>6, <3>2, <4>1, <4>2
    <3> QED BY <2>5, <3>1, <3>2
  <2> QED BY <2>9 DEF at
<1> HIDE DEF T
<1>5. n \in T BY <1>1, <1>3, <1>4, Induction
<1>6. Good(n) BY <1>1, <1>5 DEF T
<1>7. ~(f[n][2] > n)
  <2>1. f[n][2] \in 1 .. n BY <1>1, <1>2
  <2> QED BY <1>1, <2>1
<1> QED BY <1>2, <1>6, <1>7

LEMMA InsertOrders ==
  ASSUME NEW batches \in Seq(Batches), NEW h \in HeapOf(batches), Ordered(batches, h),
         NEW g \in GivenIn(batches), g \notin ToSet(h)
  PROVE  /\ Ordered(batches, HeapInsert(batches, h, g))
         /\ ToSet(HeapInsert(batches, h, g))
            = IF BatchOf(batches, g).promising THEN ToSet(h) \cup {g} ELSE ToSet(h)
<1> DEFINE longer == Append(h, g)  n == Len(h)
<1>1. h \in Seq(Ids) /\ IsInjective(h) /\ ToSet(h) \subseteq GivenIn(batches) /\ g \in Ids
  BY GivenTyped DEF HeapOf
<1>2. longer \in Seq(Ids) /\ Len(longer) = n + 1 /\ n \in Nat BY <1>1
<1>3. \A i \in 1 .. n + 1 : longer[i] = IF i = n + 1 THEN g ELSE h[i]
  BY <1>1, <1>2
<1>4. DOMAIN longer = 1 .. n + 1 /\ DOMAIN h = 1 .. n BY <1>1, <1>2
<1> HIDE DEF longer, n
<1>5. ToSet(longer) = ToSet(h) \cup {g}
  BY <1>2, <1>3, <1>4 DEF ToSet
<1>6. IsInjective(longer)
  <2>1. \A i \in DOMAIN h : h[i] # g BY DEF ToSet
  <2> QED BY <1>1, <1>2, <1>3, <1>4, <2>1 DEF IsInjective
<1>7. longer \in HeapOf(batches) BY <1>1, <1>2, <1>5, <1>6 DEF HeapOf
<1>8. HoleUp(batches, longer, n + 1)
  <2>1. n + 1 \in 1 .. Len(longer) BY <1>2
  <2>2. ASSUME NEW k \in 2 .. n + 1, k # n + 1 PROVE Before(batches, longer[k \div 2], longer[k])
    <3>1. k \in 2 .. n /\ k \in Nat /\ k >= 2 BY <1>2, <2>2
    <3>2. k \div 2 \in 1 .. n /\ k \div 2 # n + 1 /\ k \div 2 \in 1 .. n + 1 BY <1>2, <3>1, Half
    <3>3. longer[k \div 2] = h[k \div 2] /\ longer[k] = h[k] BY <1>2, <1>3, <2>2, <3>1, <3>2
    <3> QED BY <3>1, <3>3 DEF Ordered, n
  <2>3. \A k \in 2 .. n + 1 : k \div 2 # n + 1
    <3>1. \A k \in 2 .. n + 1 : k \in Nat /\ k >= 2 BY <1>2
    <3>2. \A k \in 2 .. n + 1 : k \div 2 < k /\ k \div 2 \in Nat BY <3>1, Half
    <3> QED BY <1>2, <3>2
  <2> QED BY <1>2, <2>1, <2>2, <2>3 DEF HoleUp
<1>9. Ordered(batches, SiftUp(batches, longer, n + 1)) BY <1>7, <1>8, SiftUpOrders
<1>10. ToSet(SiftUp(batches, longer, n + 1)) = ToSet(longer)
  <2>1. n + 1 \in 1 .. Len(longer) BY <1>2
  <2>2. SiftUp(batches, longer, n + 1) \in Rearranged(longer) BY <1>2, <2>1, SiftUpRearranges
  <2> QED BY <2>2 DEF Rearranged
<1>11. HeapInsert(batches, h, g) = IF BatchOf(batches, g).promising
                                   THEN SiftUp(batches, longer, n + 1) ELSE h
  BY DEF HeapInsert, longer, n
<1> QED BY <1>5, <1>9, <1>10, <1>11

LEMMA RemoveOrders ==
  ASSUME NEW batches \in Seq(Batches), NEW h \in HeapOf(batches), Ordered(batches, h), NEW g
  PROVE  Ordered(batches, HeapRemove(batches, h, g))
<1> DEFINE n == Len(h)  B(x, y) == Before(batches, h[x], h[y])
<1>1. /\ h \in Seq(Ids) /\ n \in Nat /\ DOMAIN h = 1 .. n
      /\ \A x, y \in 1 .. n : /\ x # y => B(x, y) \/ B(y, x)
                              /\ ~(B(x, y) /\ B(y, x))
      /\ \A x, y, z \in 1 .. n : B(x, y) /\ B(y, z) => B(x, z)
  BY Positions
<1>2. IsInjective(h) /\ ToSet(h) \subseteq GivenIn(batches) BY DEF HeapOf
<1>3. CASE g \notin ToSet(h) BY <1>3 DEF HeapRemove
<1>4. CASE g \in ToSet(h)
  <2> DEFINE at == CHOOSE i \in DOMAIN h : h[i] = g
             moved == [h EXCEPT ![at] = Last(h)]
             s == Front(moved)
             m == n - 1
             C(x, y) == Before(batches, s[x], s[y])
  <2>1. at \in DOMAIN h /\ h[at] = g BY <1>4 DEF ToSet
  <2>2. HeapRemove(batches, h, g) =
          IF at = n THEN s
          ELSE IF at > 1 /\ C(at, at \div 2) THEN SiftUp(batches, s, at) ELSE SiftDown(batches, s, at)
    BY <1>4 DEF HeapRemove
  <2> HIDE DEF at
  <2>3. n \in Nat \ {0} /\ at \in 1 .. n /\ at \in Nat BY <1>1, <2>1
  <2>4. Last(h) = h[n] /\ n \in DOMAIN h /\ h[n] \in Ids BY <1>1, <2>3 DEF Last
  <2>5. moved \in Seq(Ids) /\ Len(moved) = n
    <3>1. moved = [h EXCEPT ![at] = h[n]] BY <2>4
    <3> QED BY <1>1, <2>3, <2>4, <3>1
  <2>6. \A i \in 1 .. n : moved[i] = IF i = at THEN h[n] ELSE h[i] BY <1>1, <2>3, <2>4
  <2>7. moved # <<>> BY <2>3, <2>5
  <2> HIDE DEF moved
  <2>8. s \in Seq(Ids) /\ Len(s) = m /\ m \in Nat
        /\ \A i \in 1 .. m : s[i] = IF i = at THEN h[n] ELSE h[i]
    <3>1. s \in Seq(Ids) /\ Len(s) = Len(moved) - 1
          /\ \A i \in 1 .. Len(moved) - 1 : s[i] = moved[i]
      BY <2>5, <2>7, FrontAndLast
    <3>2. 1 .. n - 1 \subseteq 1 .. n /\ n - 1 \in Nat BY <2>3
    <3> HIDE DEF s
    <3>3. s \in Seq(Ids) /\ Len(s) = n - 1 /\ \A i \in 1 .. n - 1 : s[i] = moved[i]
      BY <2>5, <3>1
    <3>4. \A i \in 1 .. n - 1 : s[i] = IF i = at THEN h[n] ELSE h[i] BY <2>6, <3>2, <3>3
    <3> QED BY <3>2, <3>3, <3>4
  <2> HIDE DEF s
  <2>9. DOMAIN s = 1 .. m /\ \A i \in 1 .. m : i \in 1 .. n /\ i # n BY <2>3, <2>8
  <2>10. IsInjective(s)
    <3>1. \A x, y \in 1 .. n : h[x] = h[y] => x = y BY <1>1, <1>2 DEF IsInjective
    <3>2. n \in 1 .. n BY <2>3
    <3>3. \A x, y \in 1 .. m : s[x] = s[y] => x = y BY <2>8, <2>9, <3>1, <3>2
    <3> QED BY <2>9, <3>3 DEF IsInjective
  <2>11. s \in HeapOf(batches)
    <3>1. ToSet(s) \subseteq ToSet(h)
      <4>1. \A i \in 1 .. m : s[i] \in ToSet(h) BY <1>1, <2>4, <2>8, <2>9 DEF ToSet
      <4> QED BY <2>9, <4>1 DEF ToSet
    <3> QED BY <1>2, <2>8, <2>10, <3>1 DEF HeapOf
  <2>12. \A k \in 2 .. n : B(k \div 2, k) BY DEF Ordered
  <2>13. \A k \in 2 .. m : /\ k \in 2 .. n /\ k \in 1 .. m /\ k \div 2 \in 1 .. m
                           /\ k \div 2 < k /\ k \in Nat /\ k > 1
    <3> SUFFICES ASSUME NEW k \in 2 .. m
                 PROVE  /\ k \in 2 .. n /\ k \in 1 .. m /\ k \div 2 \in 1 .. m
                        /\ k \div 2 < k /\ k \in Nat /\ k > 1
      OBVIOUS
    <3>1. k \in Nat /\ k >= 2 /\ k =< m BY <2>8
    <3>2. k \div 2 \in Nat /\ k \div 2 >= 1 /\ k \div 2 < k BY <3>1, Half
    <3> HIDE DEF B
    <3> QED BY <1>1, <2>8, <3>1, <3>2
  <2> HIDE DEF B
  \* Away from the element that moved, nothing changed.
  <2>14. \A k \in 2 .. m : k # at /\ k \div 2 # at => C(k \div 2, k)
    <3> SUFFICES ASSUME NEW k \in 2 .. m, k # at, k \div 2 # at PROVE C(k \div 2, k) OBVIOUS
    <3>1. s[k] = h[k] /\ s[k \div 2] = h[k \div 2] BY <2>8, <2>13
    <3> QED BY <2>12, <2>13, <3>1 DEF B
  <2>15. CASE at = n
    <3>1. \A k \in 2 .. m : k # at /\ k \div 2 # at BY <2>9, <2>13, <2>15
    <3>2. Ordered(batches, s) BY <2>8, <2>14, <3>1 DEF Ordered
    <3> QED BY <2>2, <2>15, <3>2
  <2>16. CASE at # n
    <3> DEFINE p == at \div 2
    <3>1. at \in 1 .. m BY <2>3, <2>8, <2>16
    <3>2. at > 1 => at \in 2 .. m BY <2>3, <3>1
    <3>3. at > 1 => p \in 1 .. m /\ p # at /\ p \in 1 .. n BY <2>3, <2>9, <2>13, <3>2
    <3>4. ASSUME NEW k \in 2 .. m, k \div 2 = at, at > 1 PROVE C(p, k) /\ B(p, k)
      <4>1. B(p, at) BY <2>12, <2>13, <3>2, <3>4
      <4>2. B(at, k) BY <2>12, <2>13, <3>4
      <4>3. k \in 1 .. n /\ k # at BY <2>9, <2>13, <3>4
      <4>4. B(p, k) BY <1>1, <2>3, <3>3, <3>4, <4>1, <4>2, <4>3
      <4>5. s[k] = h[k] /\ s[p] = h[p] BY <2>8, <2>13, <3>3, <3>4, <4>3
      <4> QED BY <4>4, <4>5 DEF B
    <3> HIDE DEF p
    <3>5. s[at] = h[n] BY <2>8, <3>1
    <3>6. CASE at > 1 /\ C(at, p)
      <4>1. ASSUME NEW k \in 2 .. m, k \div 2 = at PROVE C(at, k)
        <5>1. C(p, k) BY <3>4, <3>6, <4>1
        <5>2. \A x, y, z \in 1 .. m : C(x, y) /\ C(y, z) => C(x, z)
          <6>1. \A x, y, z \in 1 .. Len(s) : C(x, y) /\ C(y, z) => C(x, z) BY <2>11, Positions
          <6> QED BY <2>8, <6>1
        <5> QED BY <2>13, <3>1, <3>3, <3>6, <4>1, <5>1, <5>2
      <4>2. \A k \in 2 .. m : k # at => C(k \div 2, k) BY <2>14, <4>1
      <4>3. HoleUp(batches, s, at) BY <2>8, <3>1, <3>4, <4>2 DEF HoleUp, p
      <4>4. Ordered(batches, SiftUp(batches, s, at)) BY <2>11, <4>3, SiftUpOrders
      <4> QED BY <2>2, <2>16, <3>6, <4>4 DEF p
    <3>7. CASE ~(at > 1 /\ C(at, p))
      <4>1. ASSUME at \in 2 .. m PROVE C(p, at)
        <5>1. at > 1 BY <2>3, <4>1
        <5>2. \A x, y \in 1 .. m : x # y => C(x, y) \/ C(y, x)
          <6>1. \A x, y \in 1 .. Len(s) : x # y => C(x, y) \/ C(y, x) BY <2>11, Positions
          <6> QED BY <2>8, <6>1
        <5> QED BY <3>1, <3>3, <3>7, <5>1, <5>2
      <4>2. \A k \in 2 .. m : k \div 2 # at => C(k \div 2, k) BY <2>14, <4>1 DEF p
      <4>3. HoleDown(batches, s, at) BY <2>8, <3>1, <3>4, <4>2 DEF HoleDown, p
      <4>4. Ordered(batches, SiftDown(batches, s, at)) BY <2>11, <4>3, SiftDownOrders
      <4> QED BY <2>2, <2>16, <3>7, <4>4 DEF p
    <3> QED BY <3>6, <3>7
  <2> QED BY <2>15, <2>16
<1> QED BY <1>3, <1>4

LEMMA BatchOfIt ==
  ASSUME NEW q \in Seq(Batches), Distinct(q), NEW b \in ToSet(q)
  PROVE  b.given \in GivenIn(q) /\ BatchOf(q, b.given) = b
<1>1. PICK i \in DOMAIN q : q[i] = b BY DEF ToSet
<1> DEFINE j == CHOOSE j \in DOMAIN q : q[j].given = b.given
<1>2. j \in DOMAIN q /\ q[j].given = b.given BY <1>1
<1> HIDE DEF j
<1>3. j = i BY <1>1, <1>2 DEF Distinct
<1> QED BY <1>1, <1>2, <1>3 DEF BatchOf, GivenIn, j

LEMMA PartialOf ==
  ASSUME NEW q
  PROVE  \A g : g \in PartialIn(q) <=> \E b \in ToSet(q) : b.promising /\ b.given = g
BY DEF PartialIn, ToSet

\* The order of the heap depends on the descriptors of its elements.
LEMMA SameOrder ==
  ASSUME NEW q \in Seq(Batches), NEW r \in Seq(Batches), Distinct(q), Distinct(r),
         NEW h \in Seq(Ids), Ordered(q, h),
         \A g \in ToSet(h) : \E b \in ToSet(q) : b.given = g /\ b \in ToSet(r)
  PROVE  Ordered(r, h)
<1>1. \A g \in ToSet(h) : BatchOf(q, g) = BatchOf(r, g)
  <2> SUFFICES ASSUME NEW g \in ToSet(h) PROVE BatchOf(q, g) = BatchOf(r, g) OBVIOUS
  <2>1. PICK b \in ToSet(q) : b.given = g /\ b \in ToSet(r) OBVIOUS
  <2> QED BY <2>1, BatchOfIt
<1>2. \A g \in ToSet(h) : PriorityKey(q, g) = PriorityKey(r, g) BY <1>1 DEF PriorityKey
<1>3. Len(h) \in Nat /\ DOMAIN h = 1 .. Len(h) OBVIOUS
<1> SUFFICES ASSUME NEW k \in 2 .. Len(h) PROVE Before(r, h[k \div 2], h[k]) BY DEF Ordered
<1>4. Before(q, h[k \div 2], h[k]) BY DEF Ordered
<1>5. h[k] \in ToSet(h) /\ h[k \div 2] \in ToSet(h)
  <2>1. k \in Nat /\ k >= 2 /\ k =< Len(h) BY <1>3
  <2>2. k \div 2 \in Nat /\ k \div 2 >= 1 /\ k \div 2 < k BY <2>1, Half
  <2>3. k \in DOMAIN h /\ k \div 2 \in DOMAIN h BY <1>3, <2>1, <2>2
  <2> QED BY <2>3 DEF ToSet
<1> QED BY <1>2, <1>4, <1>5 DEF Before

QInv == ToSet(heap) = PartialIn(queue) /\ Ordered(queue, heap)

\* A heap that is built anew is the heap.
LEMMA RebuiltOrders ==
  ASSUME queue \in Seq(Batches), Distinct(queue)
  PROVE  Ordered(queue, Rebuilt) /\ ToSet(Rebuilt) = PartialIn(queue)
<1> DEFINE n == Len(queue)  built == Building
           PartialTo(i) == {g \in Ids : \E j \in 1 .. i : queue[j].promising /\ queue[j].given = g}
<1>1. n \in Nat /\ DOMAIN queue = 1 .. n OBVIOUS
<1>2. <<>> \in Seq(Ids) OBVIOUS
<1>3. /\ built[0] = <<>>
      /\ \A i \in 1 .. n : built[i] = HeapInsert(queue, built[i - 1], queue[i].given)
      /\ Rebuilt = built[n]
  BY RebuiltIterates
<1>4. \A i \in 1 .. n : queue[i] \in ToSet(queue) /\ queue[i].given \in Ids
  <2>1. \A i \in 1 .. n : queue[i] \in Batches BY <1>1
  <2> QED BY <1>1, <2>1 DEF ToSet, Batches
<1> DEFINE Good(i) == /\ built[i] \in HeapOf(queue) /\ Ordered(queue, built[i])
                      /\ ToSet(built[i]) = PartialTo(i)
           T == {i \in Nat : i =< n => Good(i)}
<1> HIDE DEF n, built
<1>5. 0 \in T
  <2>1. built[0] = <<>> BY <1>3
  <2>2. ToSet(<<>>) = {} /\ IsInjective(<<>>) BY DEF ToSet, IsInjective
  <2>3. <<>> \in HeapOf(queue) BY <1>2, <2>2 DEF HeapOf
  <2>4. Len(<<>>) = 0 /\ 2 .. 0 = {} OBVIOUS
  <2>5. Ordered(queue, <<>>) BY <2>4 DEF Ordered
  <2>6. PartialTo(0) = {} OBVIOUS
  <2> QED BY <2>1, <2>2, <2>3, <2>5, <2>6
<1>6. ASSUME NEW i \in Nat, i \in T PROVE i + 1 \in T
  <2> SUFFICES ASSUME i + 1 =< n PROVE Good(i + 1) OBVIOUS
  <2> DEFINE b == queue[i + 1]  g == b.given
  <2>1. i + 1 \in 1 .. n /\ i =< n /\ (i + 1) - 1 = i BY <1>1
  <2>2. built[i + 1] = HeapInsert(queue, built[i], g) BY <1>3, <2>1
  <2>3. Good(i) BY <1>6, <2>1
  <2>4. g \in GivenIn(queue) /\ BatchOf(queue, g) = b /\ g \in Ids
    <3>1. b \in ToSet(queue) BY <1>4, <2>1
    <3> HIDE DEF b
    <3>2. b.given \in GivenIn(queue) /\ BatchOf(queue, b.given) = b BY <3>1, BatchOfIt
    <3> QED BY <1>4, <2>1, <3>2 DEF b
  <2>5. g \notin ToSet(built[i])
    <3>1. \A j \in 1 .. i : j \in 1 .. n /\ j # i + 1 BY <1>1, <2>1
    <3>2. \A j \in 1 .. i : queue[j].given # g BY <1>1, <2>1, <3>1 DEF Distinct
    <3> QED BY <2>3, <3>2
  <2>6. PartialTo(i + 1) = IF b.promising THEN PartialTo(i) \cup {g} ELSE PartialTo(i)
    <3>1. \A j \in 1 .. i + 1 : j = i + 1 \/ j \in 1 .. i OBVIOUS
    <3>2. i + 1 \in 1 .. i + 1 /\ \A j \in 1 .. i : j \in 1 .. i + 1 OBVIOUS
    <3> QED BY <2>4, <3>1, <3>2
  <2> HIDE DEF g, b, PartialTo
  <2>7. built[i] \in HeapOf(queue) /\ Ordered(queue, built[i]) /\ ToSet(built[i]) = PartialTo(i)
    BY <2>3
  <2>8. Ordered(queue, built[i + 1])
        /\ ToSet(built[i + 1]) = IF b.promising THEN PartialTo(i) \cup {g} ELSE PartialTo(i)
    <3> DEFINE h == built[i]
    <3>1. h \in HeapOf(queue) /\ Ordered(queue, h) /\ g \notin ToSet(h) /\ ToSet(h) = PartialTo(i)
      BY <2>5, <2>7
    <3> HIDE DEF h
    <3>2. /\ Ordered(queue, HeapInsert(queue, h, g))
          /\ ToSet(HeapInsert(queue, h, g))
             = IF BatchOf(queue, g).promising THEN ToSet(h) \cup {g} ELSE ToSet(h)
      BY <2>4, <3>1, InsertOrders
    <3> QED BY <2>2, <2>4, <3>1, <3>2 DEF h
  <2>9. built[i + 1] \in HeapOf(queue) BY <2>2, <2>4, <2>5, <2>7, InsertFits
  <2> QED BY <2>6, <2>8, <2>9
<1>7. PartialTo(n) = PartialIn(queue)
  <2>1. \A g \in PartialIn(queue) : g \in PartialTo(n)
    <3> SUFFICES ASSUME NEW g \in PartialIn(queue) PROVE g \in PartialTo(n) OBVIOUS
    <3>1. PICK i \in DOMAIN queue : queue[i].promising /\ queue[i].given = g BY DEF PartialIn
    <3> QED BY <1>1, <1>4, <3>1
  <2>2. \A g \in PartialTo(n) : g \in PartialIn(queue) BY <1>1 DEF PartialIn
  <2> QED BY <2>1, <2>2
<1> HIDE DEF T
<1>8. n \in T BY <1>1, <1>5, <1>6, Induction
<1> QED BY <1>1, <1>3, <1>7, <1>8 DEF T

LEMMA HeapFits == ASSUME IInv PROVE heap \in HeapOf(queue) /\ heap \in Seq(Ids)
BY DEF IInv, HeapOf

\* The queue keeps the descriptors that it has, and gets no partial one.
LEMMA GrownOrders ==
  ASSUME IInv, QInv, heap' = heap, queue' \in Seq(Batches), Distinct(queue'),
         ToSet(queue) \subseteq ToSet(queue'),
         \A b \in ToSet(queue') : b \in ToSet(queue) \/ ~b.promising
  PROVE  QInv'
<1>1. ToSet(heap) = PartialIn(queue) /\ Ordered(queue, heap) BY DEF QInv
<1>2. queue \in Seq(Batches) /\ Distinct(queue) /\ heap \in Seq(Ids)
  BY HeapFits DEF IInv, Typed, Queued
<1>3. PartialIn(queue') = PartialIn(queue)
  <2>1. \A g : g \in PartialIn(queue') <=> \E b \in ToSet(queue') : b.promising /\ b.given = g
    BY PartialOf
  <2>2. \A g : g \in PartialIn(queue) <=> \E b \in ToSet(queue) : b.promising /\ b.given = g
    BY PartialOf
  <2>3. \A g : g \in PartialIn(queue') <=> g \in PartialIn(queue) BY <2>1, <2>2
  <2> QED BY <2>3
<1>4. \A g \in ToSet(heap) : \E b \in ToSet(queue) : b.given = g /\ b \in ToSet(queue')
  BY <1>1, PartialOf
<1>5. Ordered(queue', heap) BY <1>1, <1>2, <1>4, SameOrder
<1> QED BY <1>1, <1>3, <1>5 DEF QInv

LEMMA TurnOrders ==
  ASSUME IInv, PInv, QInv, Turn
  PROVE  QInv'
<1> DEFINE chosen == Chosen
           q == chosen.queue
           b == Head(q)
           did == Work(b)
           c == did.batch
           d == [c EXCEPT !.probe = FALSE]
           t == Tail(q)
<1>1. /\ queue # <<>>
      /\ UNCHANGED <<search, record>>
      /\ did.fatal = "none" => FinishTurn(chosen, c)
      /\ fatal' = did.fatal
      /\ did.fatal # "none" => queue' = q /\ heap' = heap
  BY DEF Turn, TurnIsNext, Due
<1> HIDE DEF chosen
<1>2. /\ Typed /\ Recorded /\ queue \in Seq(Batches)
      /\ Distinct(queue) /\ heap \in HeapOf(queue)
      /\ ToSet(heap) = PartialIn(queue) /\ Ordered(queue, heap) /\ heap \in Seq(Ids)
  BY HeapFits DEF IInv, Typed, Queued, QInv
<1>3. q \in Seq(Batches) /\ Distinct(q) /\ q # <<>> /\ ToSet(q) = ToSet(queue)
  BY <1>1, <1>2, ChosenFits DEF chosen
<1> HIDE DEF q
<1>4. /\ b \in Batches /\ t \in Seq(Batches) /\ Distinct(t) /\ ToSet(q) = {b} \cup ToSet(t)
      /\ \A x \in ToSet(t) : x.given # b.given
  BY <1>3, HeadSplits
<1>5. Ready(b) BY <1>3, <1>4 DEF IInv, Queued
<1>6. CASE did.fatal # "none"
  <2>1. queue' = q /\ heap' = heap BY <1>1, <1>6
  <2> QED BY <1>3, <2>1, GrownOrders
<1>7. CASE did.fatal = "none"
  <2> DEFINE rest == HeapRemove(q, heap, c.given)
             rotated == Append(t, d)
             pending == HyperPending(c) \/ ParaPending(c)
  <2>1. /\ queue' = IF pending THEN rotated ELSE t
        /\ heap' = IF pending THEN HeapInsert(rotated, rest, c.given) ELSE rest
    BY <1>1, <1>7 DEF FinishTurn, q
  <2>2. WorkedOn(b, did) BY <1>2, <1>4, <1>5, <1>7, WorkExact
  <2> HIDE DEF b, did, t
  <2>3. c \in Batches /\ c.given = b.given /\ Resting(c) BY <2>2 DEF WorkedOn
  <2> HIDE DEF c
  <2>4. d \in Batches /\ d.given = b.given /\ d.promising = c.promising
    BY <2>3 DEF Batches
  <2> HIDE DEF d, pending
  <2>5. rotated \in Seq(Batches) /\ Distinct(rotated) /\ ToSet(rotated) = ToSet(t) \cup {d}
    BY <1>4, <2>4, AppendJoins
  <2> HIDE DEF rotated
  <2>6. heap \in HeapOf(q) /\ Ordered(q, heap)
    <3>1. \A g \in ToSet(heap) : \E x \in ToSet(queue) : x.given = g /\ x \in ToSet(q)
      BY <1>2, <1>3, PartialOf
    <3>2. Ordered(q, heap) BY <1>2, <1>3, <3>1, SameOrder
    <3>3. GivenIn(q) = GivenIn(queue) BY <1>3, GivenOf
    <3>4. heap \in HeapOf(q) BY <1>2, <3>3, HeapOfMore DEF HeapOf
    <3> QED BY <3>2, <3>4
  <2>7. /\ rest \in HeapOf(q) /\ Ordered(q, rest) /\ ToSet(rest) = ToSet(heap) \ {b.given}
        /\ rest \in Seq(Ids)
    <3>1. rest \in HeapOf(q) /\ Ordered(q, rest) /\ ToSet(rest) = ToSet(heap) \ {c.given}
      BY <1>3, <2>6, RemoveFits, RemoveOrders
    <3> QED BY <2>3, <3>1 DEF HeapOf
  <2> HIDE DEF rest
  <2>8. PartialIn(q) = PartialIn(queue)
    <3>1. \A g : g \in PartialIn(q) <=> g \in PartialIn(queue) BY <1>3, PartialOf
    <3> QED BY <3>1
  <2>9. ToSet(rest) = PartialIn(t)
    <3>1. \A g \in ToSet(rest) : g \in PartialIn(t)
      <4> SUFFICES ASSUME NEW g \in ToSet(rest) PROVE g \in PartialIn(t) OBVIOUS
      <4>1. g \in PartialIn(q) /\ g # b.given BY <1>2, <2>7, <2>8
      <4>2. PICK x \in ToSet(q) : x.promising /\ x.given = g BY <4>1, PartialOf
      <4>3. x \in ToSet(t) BY <1>4, <4>1, <4>2
      <4> QED BY <4>2, <4>3, PartialOf
    <3>2. \A g \in PartialIn(t) : g \in ToSet(rest)
      <4> SUFFICES ASSUME NEW g \in PartialIn(t) PROVE g \in ToSet(rest) OBVIOUS
      <4>1. PICK x \in ToSet(t) : x.promising /\ x.given = g BY PartialOf
      <4>2. g \in PartialIn(q) /\ g # b.given BY <1>4, <4>1, PartialOf
      <4> QED BY <1>2, <2>7, <2>8, <4>2
    <3> QED BY <3>1, <3>2
  <2>10. \A g \in ToSet(rest) : \E x \in ToSet(q) : x.given = g /\ x \in ToSet(t) /\ x \in ToSet(rotated)
    BY <1>4, <2>5, <2>9, PartialOf
  <2>11. Ordered(t, rest) /\ Ordered(rotated, rest)
    <3>1. \A g \in ToSet(rest) : \E x \in ToSet(q) : x.given = g /\ x \in ToSet(t) BY <2>10
    <3>2. \A g \in ToSet(rest) : \E x \in ToSet(q) : x.given = g /\ x \in ToSet(rotated) BY <2>10
    <3>3. Ordered(t, rest) BY <1>3, <1>4, <2>7, <3>1, SameOrder
    <3>4. Ordered(rotated, rest) BY <1>3, <2>5, <2>7, <3>2, SameOrder
    <3> QED BY <3>3, <3>4
  <2>12. CASE ~pending
    <3>1. queue' = t /\ heap' = rest BY <2>1, <2>12
    <3> QED BY <2>9, <2>11, <3>1 DEF QInv
  <2>13. CASE pending
    <3>1. queue' = rotated /\ heap' = HeapInsert(rotated, rest, b.given) BY <2>1, <2>3, <2>13
    <3>2. rest \in HeapOf(rotated)
      <4>1. \A g \in ToSet(rest) : g \in GivenIn(rotated) BY <2>10, GivenOf
      <4>2. ToSet(rest) \subseteq GivenIn(rotated) BY <4>1
      <4> QED BY <2>7, <4>2, HeapOfMore
    <3>3. d \in ToSet(rotated) BY <2>5
    <3>4. b.given \in GivenIn(rotated) /\ BatchOf(rotated, b.given) = d
      BY <2>4, <2>5, <3>3, BatchOfIt
    <3>5. b.given \notin ToSet(rest) BY <2>7
    <3> DEFINE g == b.given
    <3> HIDE DEF g
    <3>6. Ordered(rotated, HeapInsert(rotated, rest, g))
          /\ ToSet(HeapInsert(rotated, rest, g))
             = IF BatchOf(rotated, g).promising THEN ToSet(rest) \cup {g} ELSE ToSet(rest)
      BY <2>5, <2>11, <3>2, <3>4, <3>5, InsertOrders DEF g
    <3>7. PartialIn(rotated) = IF d.promising THEN PartialIn(t) \cup {g} ELSE PartialIn(t)
      <4>1. \A x : x \in PartialIn(rotated) <=> \E y \in ToSet(rotated) : y.promising /\ y.given = x
        BY PartialOf
      <4>2. \A x : x \in PartialIn(t) <=> \E y \in ToSet(t) : y.promising /\ y.given = x
        BY PartialOf
      <4>3. d.given = g BY <2>4 DEF g
      <4>4. \A x : x \in PartialIn(rotated) <=> x \in PartialIn(t) \/ (d.promising /\ x = g)
        BY <2>5, <4>1, <4>2, <4>3
      <4>5. CASE d.promising
        <5>1. \A x : x \in PartialIn(rotated) <=> x \in PartialIn(t) \/ x = g BY <4>4, <4>5
        <5> QED BY <4>5, <5>1
      <4>6. CASE ~d.promising
        <5>1. \A x : x \in PartialIn(rotated) <=> x \in PartialIn(t) BY <4>4, <4>6
        <5> QED BY <4>6, <5>1
      <4> QED BY <4>5, <4>6
    <3> QED BY <2>9, <3>1, <3>4, <3>6, <3>7 DEF QInv, g
  <2> QED BY <2>12, <2>13
<1> QED BY <1>6, <1>7

LEMMA EnqueuedKeeps ==
  ASSUME queue \in Seq(Batches), NEW q, NEW g, NEW c, Enqueued(q, g, c)
  PROVE  /\ ToSet(queue) \subseteq ToSet(q)
         /\ \A b \in ToSet(q) : b \in ToSet(queue) \/ ~b.promising
<1>1. CASE q = queue BY <1>1
<1>2. ASSUME NEW b \in Batches, ~b.promising, q = Append(queue, b) \/ q = <<b>> \o queue
      PROVE  /\ ToSet(queue) \subseteq ToSet(q)
             /\ \A d \in ToSet(q) : d \in ToSet(queue) \/ ~d.promising
  <2>1. CASE q = Append(queue, b)
    <3>1. \A i \in DOMAIN q : q[i] = b \/ (i \in DOMAIN queue /\ q[i] = queue[i]) BY <2>1
    <3>2. \A i \in DOMAIN queue : i \in DOMAIN q /\ q[i] = queue[i] BY <2>1
    <3> QED BY <1>2, <3>1, <3>2 DEF ToSet
  <2>2. CASE q = <<b>> \o queue
    <3>1. \A i \in DOMAIN q : q[i] = b \/ (i - 1 \in DOMAIN queue /\ q[i] = queue[i - 1])
      BY <2>2
    <3>2. \A i \in DOMAIN queue : i + 1 \in DOMAIN q /\ q[i + 1] = queue[i] BY <2>2
    <3> QED BY <1>2, <3>1, <3>2 DEF ToSet
  <2> QED BY <1>2, <2>1, <2>2
<1> QED BY <1>1, <1>2 DEF Enqueued

LEMMA NextOrders ==
  ASSUME IInv, IInv', PInv, QInv, [Next]_vars
  PROVE  QInv'
<1>1. queue' \in Seq(Batches) /\ Distinct(queue') /\ queue \in Seq(Batches) /\ Distinct(queue)
  BY DEF IInv, Typed, Queued
<1>2. CASE Turn BY <1>2, TurnOrders
<1>3. CASE Activate
  <2>1. heap' = heap /\ \E c \in passive, retired \in SUBSET usable, hint \in {search.probes, FALSE} :
                           Activation(c, retired, hint)
    BY <1>3, ActivateGoesOn
  <2>2. PICK c \in passive, retired \in SUBSET usable, hint \in {search.probes, FALSE} :
           Activation(c, retired, hint) BY <2>1
  <2>3. Enqueued(queue', c.id, credit') BY <2>2, ActivationQueues
  <2>4. /\ ToSet(queue) \subseteq ToSet(queue')
        /\ \A b \in ToSet(queue') : b \in ToSet(queue) \/ ~b.promising
    BY <1>1, <2>3, EnqueuedKeeps
  <2> QED BY <1>1, <2>1, <2>4, GrownOrders
<1>4. CASE Refresh \/ NotActivated \/ UNCHANGED vars
  <2>1. queue' = queue /\ heap' = heap BY <1>4 DEF Refresh, NotActivated, vars
  <2> QED BY <2>1 DEF QInv
<1>5. CASE Resume
  <2>1. queue' = queue /\ heap' = Rebuilt BY <1>5 DEF Resume
  <2>2. Ordered(queue, Rebuilt) /\ ToSet(Rebuilt) = PartialIn(queue) BY <1>1, RebuiltOrders
  <2> QED BY <2>1, <2>2 DEF QInv
<1> QED BY <1>2, <1>3, <1>4, <1>5 DEF Next

LEMMA InitOrders ==
  ASSUME Init
  PROVE  QInv
<1>1. queue = <<>> /\ heap = <<>> BY DEF Init
<1>2. Len(heap) = 0 /\ 2 .. 0 = {} /\ DOMAIN queue = {} /\ DOMAIN heap = {} BY <1>1
<1>3. Ordered(queue, heap) BY <1>2 DEF Ordered
<1>4. ToSet(heap) = {} /\ PartialIn(queue) = {} BY <1>2 DEF ToSet, PartialIn
<1> QED BY <1>3, <1>4 DEF QInv

LEMMA ExactByInvariants ==
  ASSUME IInv, PInv, QInv
  PROVE  PriorityExact
<1>1. IsInjective(heap) BY DEF IInv, HeapOf
<1>2. ToSet(heap) = {queue[i].given : i \in {i \in DOMAIN queue : queue[i].promising}}
  BY DEF QInv, PartialIn
<1>3. \A k \in 2 .. Len(heap) : Before(queue, heap[k \div 2], heap[k]) BY DEF QInv, Ordered
<1>4. \A i \in DOMAIN queue : queue[i].promising => KnowsNext(queue[i])
  <2>1. \A i \in DOMAIN queue : queue[i] \in ToSet(queue) BY DEF ToSet
  <2> QED BY <2>1 DEF PInv, Placed, Keyed
<1> QED BY <1>1, <1>2, <1>3, <1>4 DEF PriorityExact, KnowsNext, Above

\* The priority heap holds exactly the partial descriptors, in heap order, and each of them
\* has as its key the least candidate that was not drawn, whatever turns, rotations and
\* resumptions come: removal and insertion restore the order when the key of a descriptor
\* changes, and the bounded scan of a unit finds the key.
THEOREM PriorityIsExact == Spec => []PriorityExact
<1>1. Init => IInv /\ PInv /\ QInv BY InitInv, InitPlaces, InitOrders
<1>2. IInv /\ PInv /\ QInv /\ [Next]_vars => IInv' /\ PInv' /\ QInv'
  BY NextInv, NextPlaces, NextOrders
<1>3. IInv /\ PInv /\ QInv => PriorityExact BY ExactByInvariants
<1> QED BY <1>1, <1>2, <1>3, PTL DEF Spec

-----------------------------------------------------------------------------
(* No descriptor starves.                                                  *)

\* A record that has the fields of another and its mark of a probe.
KeepsMark(b, c) == DOMAIN c = DOMAIN b /\ c.probe = b.probe

LEMMA ChunkKeepsMark ==
  ASSUME NEW c \in Batches, NEW raw
  PROVE  KeepsMark(c, Chunk(c, raw).batch)
<1>1. /\ KeepsMark(c, c) /\ KeepsMark(c, ResetConclusions(c))
  BY DEF ResetConclusions, Batches, KeepsMark
<1>2. \A x, y : KeepsMark(c, [ResetConclusions(c) EXCEPT !.done = x, !.hash = y])
  BY DEF ResetConclusions, Batches, KeepsMark
<1>3. \A v, w, x, y : KeepsMark(c, [c EXCEPT !.promising = TRUE, !.done = v, !.hash = w, !.at = x, !.next = y])
  BY DEF Batches, KeepsMark
<1>4. \A l : KeepsMark(c, PrefixChunk(c, raw, l).batch)
  <2> SUFFICES ASSUME NEW l PROVE KeepsMark(c, PrefixChunk(c, raw, l).batch) OBVIOUS
  <2> DEFINE upto == Min({c.done + l, Len(raw)})
             longer == [ResetConclusions(c) EXCEPT !.done = upto, !.hash = SubSeq(raw, 1, upto)]
  <2>1. PrefixChunk(c, raw, l).batch \in {c, ResetConclusions(c), longer}
    BY DEF PrefixChunk, Failed, Did
  <2>2. KeepsMark(c, longer) BY <1>2
  <2> HIDE DEF longer
  <2> QED BY <1>1, <2>1, <2>2
<1>5. \A l : KeepsMark(c, PromisingChunk(c, raw, l).batch)
  <2> SUFFICES ASSUME NEW l PROVE KeepsMark(c, PromisingChunk(c, raw, l).batch) OBVIOUS
  <2> DEFINE scan == Scan(c, raw, l)
             drawn == [i \in DOMAIN scan.buffer |-> raw[scan.buffer[i][2]]]
             longer == [c EXCEPT !.promising = TRUE, !.done = @ + Len(drawn), !.hash = raw,
                                 !.at = Last(scan.buffer), !.next = scan.least]
  <2>1. PromisingChunk(c, raw, l) =
          IF (c.done # 0 /\ raw # c.hash) \/ scan.replayed # c.done THEN Failed("replay", c)
          ELSE IF scan.eligible = Len(drawn) THEN Did(drawn, TRUE, ResetConclusions(c))
          ELSE Did(drawn, FALSE, longer)
    BY DEF PromisingChunk
  <2>2. KeepsMark(c, longer)
    <3> HIDE DEF drawn, scan
    <3> QED BY DEF Batches, KeepsMark
  <2> HIDE DEF longer, drawn, scan
  <2>3. \A w, x, y : Failed(w, c).batch = c /\ Did(x, y, longer).batch = longer
                     /\ Did(x, y, ResetConclusions(c)).batch = ResetConclusions(c)
    BY DEF Failed, Did
  <2> QED BY <1>1, <2>1, <2>2, <2>3
<1>6. Failed("space", c).batch = c BY DEF Failed
<1> QED BY <1>1, <1>4, <1>5, <1>6 DEF Chunk

\* A turn does not take the mark of a probe from its descriptor.
LEMMA KeepsProbe ==
  ASSUME Typed, NEW b \in Batches, Ready(b)
  PROVE  Work(b).batch.probe = b.probe
<1>1. "probe" \in DOMAIN b /\ "rules" \in DOMAIN b BY DEF Batches
<1>2. CASE history[b.limit].id # b.given
  <2>1. Work(b) = Failed("internal", b) BY <1>2 DEF Work
  <2> QED BY <2>1 DEF Failed
<1>3. CASE history[b.limit].id = b.given /\ HyperTurn(b)
  <2> DEFINE rule == IF "posHyper" \in b.rules THEN "posHyper" ELSE "negHyper"
             did == Chunk(b, HyperUnit(b, rule))
             new == HyperWork(b)
  <2>1. new = IF did.complete THEN [did EXCEPT !.batch.rules = @ \ {rule}] ELSE did
    BY DEF HyperWork
  <2>2. Work(b) = new BY <1>3 DEF Work
  <2>3. Shaped(did) BY ChunkShaped
  <2>4. KeepsMark(b, did.batch) BY ChunkKeepsMark
  <2> HIDE DEF did, new, rule
  <2>5. new.batch \in {did.batch, [did.batch EXCEPT !.rules = @ \ {rule}]}
    BY <2>1, <2>3 DEF Shaped
  <2> QED BY <1>1, <2>2, <2>4, <2>5 DEF KeepsMark
<1>4. CASE history[b.limit].id = b.given /\ ~HyperTurn(b)
  <2> DEFINE c == SkipInactive(b)
             partner == history[c.cursor + 1].id
             did == Chunk(c, RawOf("para", c.given, partner))
             next1 == [c EXCEPT !.cursor = @ + 1]
             new == ParaWork(b)
  <2>1. Work(b) = new BY <1>4 DEF Work
  <2>2. c \in Batches BY Skips DEF Ready, ReadyIn
  <2>3. c.probe = b.probe BY DEF SkipInactive, Batches
  <2>4. \/ new \in {Failed("internal", b), Failed("internal", c), Did(<<>>, TRUE, c),
                    Did(<<>>, TRUE, next1)}
        \/ new = IF did.complete THEN [did EXCEPT !.batch.cursor = @ + 1] ELSE did
    BY DEF ParaWork
  <2>5. Shaped(did) BY ChunkShaped
  <2> HIDE DEF c
  <2>6. KeepsMark(c, did.batch) BY <2>2, ChunkKeepsMark
  <2>7. next1.probe = c.probe BY <2>2 DEF Batches
  <2> HIDE DEF did, new, next1
  <2>8. "probe" \in DOMAIN c BY <2>2 DEF Batches
  <2>9. new.batch \in {b, c, next1, did.batch, [did.batch EXCEPT !.cursor = @ + 1]}
    BY <2>4, <2>5 DEF Shaped, Failed, Did
  <2> QED BY <2>1, <2>3, <2>6, <2>7, <2>8, <2>9 DEF KeepsMark
<1> QED BY <1>2, <1>3, <1>4

\* How long the descriptor at a place of a queue waits, for a state of the scheduler.
Interval == IF Scheduling THEN search.interval ELSE 1
NonProbes(q, i) == {j \in 1 .. i - 1 : ~q[j].probe}
Wait(ahead, interval, since, extra) ==
  2 * (ahead * interval + interval - since) + (IF extra THEN 1 ELSE 0)

LEMMA PatienceIs ==
  ASSUME NEW g
  PROVE  PatienceOf(g) = Wait(Cardinality(NonProbes(queue, PlaceOf(queue, g))), Interval,
                              sinceFair, credit \/ Head(queue).probe)
BY DEF PatienceOf, Patience, PlaceOf, NonProbes, Interval, Wait

LEMMA PatienceNext ==
  ASSUME NEW g
  PROVE  PatienceOf(g)' = Wait(Cardinality(NonProbes(queue', PlaceOf(queue', g))), Interval',
                               sinceFair', credit' \/ Head(queue').probe)
BY DEF PatienceOf, Patience, PlaceOf, NonProbes, Interval, Wait

LEMMA PlaceIs ==
  ASSUME NEW q, Distinct(q), NEW i \in DOMAIN q
  PROVE  PlaceOf(q, q[i].given) = i
BY DEF PlaceOf, Distinct

\* The number of descriptors ahead of a place that are not probes.
LEMMA AheadIs ==
  ASSUME NEW q, NEW i \in Nat \ {0}, \A j \in 1 .. i - 1 : q[j].probe => j = 1
  PROVE  Cardinality(NonProbes(q, i)) = IF i > 1 /\ q[1].probe THEN i - 2 ELSE i - 1
<1>1. CASE i > 1 /\ q[1].probe
  <2>1. NonProbes(q, i) = 2 .. i - 1 BY <1>1 DEF NonProbes
  <2>2. Cardinality(2 .. i - 1) = IF 2 > i - 1 THEN 0 ELSE i - 1 - 2 + 1 BY FS_Interval
  <2> QED BY <1>1, <2>1, <2>2
<1>2. CASE ~(i > 1 /\ q[1].probe)
  <2>1. NonProbes(q, i) = 1 .. i - 1 BY <1>2 DEF NonProbes
  <2>2. Cardinality(1 .. i - 1) = IF 1 > i - 1 THEN 0 ELSE i - 1 - 1 + 1 BY FS_Interval
  <2> QED BY <1>2, <2>1, <2>2
<1> QED BY <1>1, <1>2

LEMMA OneMore == ASSUME NEW n \in Int, NEW k \in Int PROVE (n + 1) * k = n * k + k /\ n * k \in Int
OBVIOUS

\* One descriptor fewer ahead, or one more priority turn, shortens the wait by more than
\* the mark of a probe adds to it.
LEMMA WaitsLess ==
  ASSUME NEW interval \in Nat, NEW n \in Nat, NEW m \in Nat, NEW since \in Nat, since < interval,
         NEW later \in Nat, NEW x \in BOOLEAN, NEW y \in BOOLEAN,
         \/ m = n /\ later = since /\ x /\ ~y
         \/ n = m + 1 /\ later = 0
         \/ (m = n \/ n = m + 1) /\ later = since + 1
  PROVE  Wait(m, interval, later, y) < Wait(n, interval, since, x)
<1> DEFINE p == m * interval
           e == IF x THEN 1 ELSE 0
           f == IF y THEN 1 ELSE 0
<1>1. p \in Int /\ (n = m => n * interval = p) /\ (n = m + 1 => n * interval = p + interval)
  BY OneMore
<1>2. e \in {0, 1} /\ f \in {0, 1} /\ (x => e = 1) /\ (~y => f = 0) OBVIOUS
<1>3. Wait(m, interval, later, y) = 2 * (p + interval - later) + f BY DEF Wait
<1>4. Wait(n, interval, since, x) = 2 * (n * interval + interval - since) + e BY DEF Wait
<1> HIDE DEF p, e, f
<1>5. CASE n = m
  <2>1. n * interval = p BY <1>1, <1>5
  <2>2. 2 * (p + interval - later) + f < 2 * (p + interval - since) + e
    BY <1>1, <1>2, <1>5
  <2> QED BY <1>3, <1>4, <2>1, <2>2
<1>6. CASE n = m + 1
  <2>1. n * interval = p + interval BY <1>1, <1>6
  <2>2. 2 * (p + interval - later) + f < 2 * (p + interval + interval - since) + e
    BY <1>1, <1>2, <1>6
  <2> QED BY <1>3, <1>4, <2>1, <2>2
<1> QED BY <1>5, <1>6

\* What a turn leaves of the queue: nobody ahead, and no probe.
LEMMA TurnQueues ==
  ASSUME IInv, PInv, Turn, fatal' = "none"
  PROVE  LET q == Chosen.queue
             b == Head(q)
         IN  /\ b \in Batches /\ credit' = (b.probe => credit)
             /\ sinceFair' = Chosen.sinceFair /\ Interval' = Interval
             /\ \A i \in DOMAIN queue' : ~queue'[i].probe
             /\ \A i \in 1 .. Len(q) - 1 : i \in DOMAIN queue' /\ queue'[i] = q[i + 1]
<1> DEFINE q == Chosen.queue
           b == Head(q)
           did == Work(b)
           d == [did.batch EXCEPT !.probe = FALSE]
           t == Tail(q)
<1>1. /\ queue # <<>> /\ search' = search /\ sinceFair' = Chosen.sinceFair
      /\ did.fatal = "none" /\ FinishTurn(Chosen, did.batch)
  BY DEF Turn, TurnIsNext, Due
<1>2. Typed /\ Recorded /\ queue \in Seq(Batches) /\ Distinct(queue) /\ heap \in HeapOf(queue)
  BY DEF IInv, Typed, Queued
<1>3. /\ q \in Seq(Batches) /\ Distinct(q) /\ q # <<>> /\ ToSet(q) = ToSet(queue)
  BY <1>1, <1>2, ChosenFits
<1>4. ProbeAhead(q, credit) BY <1>1, ChosenFair
<1>5. credit' = (did.batch.probe => credit) /\ queue' \in {t, Append(t, d)}
  BY <1>1 DEF FinishTurn
<1> HIDE DEF q, did
<1>6. b \in Batches /\ b \in ToSet(queue) BY <1>3, HeadSplits
<1>7. Ready(b) BY <1>6 DEF IInv, Queued
<1> HIDE DEF b
<1>8. did.batch.probe = b.probe BY <1>2, <1>6, <1>7, KeepsProbe DEF did
<1>9. did.batch \in Batches
  <2>1. WorkedOn(b, did) BY <1>1, <1>2, <1>6, <1>7, WorkExact DEF did
  <2> QED BY <2>1 DEF WorkedOn
<1>10. d \in Batches /\ d.probe = FALSE BY <1>9 DEF Batches
<1>11. /\ t \in Seq(Batches) /\ Len(t) = Len(q) - 1 /\ Len(q) \in Nat
       /\ \A i \in 1 .. Len(q) - 1 : t[i] = q[i + 1] /\ i + 1 \in DOMAIN q
  BY <1>3
<1>12. \A i \in 1 .. Len(q) - 1 : ~t[i].probe BY <1>4, <1>11 DEF ProbeAhead
<1> HIDE DEF d, t
<1>13. \A i \in DOMAIN t : i \in 1 .. Len(q) - 1 BY <1>11
<1>14. /\ \A i \in DOMAIN queue' : queue'[i] = d \/ (i \in 1 .. Len(q) - 1 /\ queue'[i] = t[i])
       /\ \A i \in 1 .. Len(q) - 1 : i \in DOMAIN queue' /\ queue'[i] = t[i]
  <2>1. CASE queue' = t BY <1>11, <2>1
  <2>2. CASE queue' = Append(t, d) BY <1>10, <1>11, <2>2
  <2> QED BY <1>5, <2>1, <2>2
<1>15. \A i \in DOMAIN queue' : ~queue'[i].probe BY <1>10, <1>12, <1>14
<1>16. Interval' = Interval BY <1>1 DEF Interval, Scheduling
<1>17. credit' = (b.probe => credit) BY <1>5, <1>8
<1>18. \A i \in 1 .. Len(q) - 1 : i \in DOMAIN queue' /\ queue'[i] = q[i + 1] BY <1>11, <1>14
<1> QED BY <1>1, <1>6, <1>15, <1>16, <1>17, <1>18 DEF b, q

\* Where the turn of another descriptor finds the one at place i: the queue is rotated
\* as it is, or the descriptor with the least key is put before the others.
LEMMA ChosenPlaces ==
  ASSUME IInv, PInv, queue # <<>>, NEW i \in DOMAIN queue,
         queue[i].given # Head(Chosen.queue).given
  PROVE  /\ Len(Chosen.queue) = Len(queue)
         /\ \E k \in 2 .. Len(queue) :
              /\ Chosen.queue[k] = queue[i]
              /\ \/ k = i /\ Chosen.queue = queue
                    /\ Chosen.sinceFair = (IF queue[1].probe THEN sinceFair ELSE 0)
                 \/ k \in {i, i + 1} /\ Chosen.sinceFair = sinceFair + 1 /\ ~queue[1].probe
<1>1. queue \in Seq(Batches) /\ Distinct(queue) /\ heap \in HeapOf(queue)
  BY DEF IInv, Typed, Queued
<1>2. sinceFair = 0 \/ Scheduling BY DEF PInv, Fair
<1>3. Head(queue) = queue[1] /\ Len(queue) \in Nat /\ i \in 1 .. Len(queue) BY <1>1
<1> DEFINE first == heap # <<>> /\ sinceFair < search.interval - 1
           q == ToHead(queue, heap[1])
           turned == [queue |-> q, sinceFair |-> sinceFair + 1]
<1>4. Chosen = IF ~Scheduling THEN [queue |-> queue, sinceFair |-> 0]
               ELSE IF Head(queue).probe THEN [queue |-> queue, sinceFair |-> sinceFair]
               ELSE IF first THEN turned ELSE [queue |-> queue, sinceFair |-> 0]
  BY DEF Chosen
<1>5. CASE Scheduling /\ ~Head(queue).probe /\ first
  <2> DEFINE at == PlaceOf(queue, heap[1])
  <2>1. Chosen.queue = q /\ Chosen.sinceFair = sinceFair + 1 BY <1>4, <1>5
  <2>2. heap[1] \in GivenIn(queue)
    <3>1. heap \in Seq(Ids) /\ ToSet(heap) \subseteq GivenIn(queue) BY <1>1 DEF HeapOf
    <3>2. 1 \in DOMAIN heap BY <1>5, <3>1
    <3> QED BY <3>1, <3>2 DEF ToSet
  <2>3. /\ at \in DOMAIN queue /\ q \in Seq(Batches) /\ Len(q) = Len(queue)
        /\ \A k \in 1 .. Len(queue) :
             q[k] = queue[IF k = 1 THEN at ELSE IF k - 1 < at THEN k - 1 ELSE k]
    BY <1>1, <2>2, ToHeadPlaces
  <2> HIDE DEF at, q, turned, first
  <2>4. Head(q) = q[1] /\ q[1] = queue[at] BY <1>3, <2>3
  <2>5. i # at BY <2>1, <2>4
  <2> DEFINE k == IF i < at THEN i + 1 ELSE i
  <2>6. at \in 1 .. Len(queue) BY <1>1, <2>3
  <2>7. k \in 2 .. Len(queue) /\ k \in {i, i + 1} /\ q[k] = queue[i]
    <3>1. k \in 2 .. Len(queue) BY <1>3, <2>5, <2>6
    <3>2. k \in {i, i + 1} OBVIOUS
    <3>3. (IF k = 1 THEN at ELSE IF k - 1 < at THEN k - 1 ELSE k) = i BY <1>3, <2>5, <2>6, <3>1
    <3> HIDE DEF k
    <3>4. k \in 1 .. Len(queue) BY <1>3, <3>1
    <3>5. q[k] = queue[i] BY <2>3, <3>3, <3>4
    <3> QED BY <3>1, <3>2, <3>5
  <2> HIDE DEF k
  <2> QED BY <1>3, <1>5, <2>1, <2>3, <2>7
<1>6. CASE ~(Scheduling /\ ~Head(queue).probe /\ first)
  <2> HIDE DEF first, turned, q
  <2>1. /\ Chosen.queue = queue
        /\ Chosen.sinceFair = (IF queue[1].probe THEN sinceFair ELSE 0)
    BY <1>2, <1>3, <1>4, <1>6
  <2>2. i # 1 BY <1>3, <2>1
  <2>3. i \in 2 .. Len(queue) BY <1>3, <2>2
  <2> QED BY <2>1, <2>3
<1> QED BY <1>5, <1>6

LEMMA TurnShortens ==
  ASSUME IInv, PInv, IInv', Turn, fatal' = "none", NEW g \in Waiting, g # Head(Chosen.queue).given
  PROVE  PatienceOf(g)' < PatienceOf(g)
<1> DEFINE q == Chosen.queue
           interval == Interval
           n == Len(queue)
<1>1. PICK i \in DOMAIN queue : queue[i].given = g BY DEF Waiting
<1>2. queue \in Seq(Batches) /\ Distinct(queue) /\ Distinct(queue') /\ queue' \in Seq(Batches)
      /\ credit \in BOOLEAN /\ ProbeAhead(queue, credit) /\ queue # <<>> /\ search \in Searches
  BY <1>1 DEF IInv, Typed, Queued, PInv
<1>3. /\ Len(q) = n
      /\ \E k \in 2 .. n :
           /\ q[k] = queue[i]
           /\ \/ k = i /\ q = queue
                 /\ Chosen.sinceFair = (IF queue[1].probe THEN sinceFair ELSE 0)
              \/ k \in {i, i + 1} /\ Chosen.sinceFair = sinceFair + 1 /\ ~queue[1].probe
  BY <1>1, <1>2, ChosenPlaces
<1>4. PICK k \in 2 .. n :
           /\ q[k] = queue[i]
           /\ \/ k = i /\ q = queue
                 /\ Chosen.sinceFair = (IF queue[1].probe THEN sinceFair ELSE 0)
              \/ k \in {i, i + 1} /\ Chosen.sinceFair = sinceFair + 1 /\ ~queue[1].probe
  BY <1>3
<1>5. n \in Nat /\ i \in 1 .. n /\ Head(queue) = queue[1] BY <1>2
<1> DEFINE b == Head(q)
<1>6. /\ b \in Batches /\ credit' = (b.probe => credit)
      /\ sinceFair' = Chosen.sinceFair /\ Interval' = interval
      /\ \A j \in DOMAIN queue' : ~queue'[j].probe
      /\ \A j \in 1 .. Len(q) - 1 : j \in DOMAIN queue' /\ queue'[j] = q[j + 1]
  BY TurnQueues
<1> HIDE DEF q, b, n, interval
<1>7. k - 1 \in DOMAIN queue' /\ queue'[k - 1] = queue[i]
  <2>1. k - 1 \in 1 .. Len(q) - 1 /\ (k - 1) + 1 = k BY <1>3, <1>5
  <2> QED BY <1>4, <1>6, <2>1
<1>8. Cardinality(NonProbes(queue, i)) = IF i > 1 /\ queue[1].probe THEN i - 2 ELSE i - 1
  <2>1. \A j \in 1 .. i - 1 : j \in DOMAIN queue /\ (queue[j].probe => j = 1)
    BY <1>2, <1>5 DEF ProbeAhead
  <2> QED BY <1>5, <2>1, AheadIs
<1>9. Cardinality(NonProbes(queue', k - 1)) = k - 2
  <2> DEFINE h == k - 1
             r == queue'
  <2>1. h \in Nat \ {0} /\ h - 1 = k - 2 BY <1>5
  <2>2. \A j \in 1 .. h - 1 : j \in DOMAIN r
    <3>1. DOMAIN r = 1 .. Len(r) /\ Len(r) \in Nat BY <1>2
    <3>2. h \in DOMAIN r BY <1>7
    <3> QED BY <2>1, <3>1, <3>2
  <2>3. \A j \in 1 .. h - 1 : ~r[j].probe BY <1>6, <2>2
  <2>4. 1 \in 1 .. h - 1 \/ ~(h > 1) BY <2>1
  <2> HIDE DEF h, r
  <2>5. Cardinality(NonProbes(r, h)) = h - 1
    <3>1. Cardinality(NonProbes(r, h)) = IF h > 1 /\ r[1].probe THEN h - 2 ELSE h - 1
      BY <2>1, <2>3, AheadIs
    <3> QED BY <2>3, <2>4, <3>1
  <2> QED BY <2>1, <2>5 DEF h, r
<1>10. PlaceOf(queue, g) = i /\ PlaceOf(queue', g) = k - 1 BY <1>1, <1>2, <1>7, PlaceIs
<1> DEFINE ahead == Cardinality(NonProbes(queue, i))
           after == Cardinality(NonProbes(queue', k - 1))
           x == credit \/ Head(queue).probe
           y == credit' \/ Head(queue').probe
<1>11. PatienceOf(g) = Wait(ahead, interval, sinceFair, x) BY <1>10, PatienceIs DEF interval
<1>12. PatienceOf(g)' = Wait(after, interval, sinceFair', y) BY <1>6, <1>10, PatienceNext
<1>13. interval \in Nat /\ sinceFair \in Nat /\ sinceFair < interval
  <2>1. search.interval \in Nat BY <1>2, SearchesAssumption
  <2> QED BY <2>1 DEF PInv, Fair, Interval, interval
<1>14. Head(queue') = queue'[1] /\ ~queue'[1].probe
  <2>1. queue' # <<>> BY <1>2, <1>7
  <2>2. 1 \in DOMAIN queue' BY <1>2, <2>1
  <2> QED BY <1>2, <1>6, <2>1, <2>2
<1>15. /\ \/ after = ahead /\ sinceFair' = sinceFair /\ x /\ ~y
          \/ ahead = after + 1 /\ sinceFair' = 0
          \/ (after = ahead \/ ahead = after + 1) /\ sinceFair' = sinceFair + 1
       /\ ahead \in Nat /\ after \in Nat /\ sinceFair' \in Nat
  <2>1. CASE k = i /\ q = queue /\ queue[1].probe /\ Chosen.sinceFair = sinceFair
    <3>1. b = queue[1] BY <1>5, <2>1 DEF b
    <3>2. ~credit
      <4>1. 1 \in DOMAIN queue BY <1>2
      <4> QED BY <1>2, <2>1, <4>1 DEF ProbeAhead
    <3>3. ~credit' BY <1>6, <2>1, <3>1, <3>2
    <3>4. x /\ ~y BY <1>5, <1>14, <2>1, <3>3
    <3>5. ahead = i - 2 /\ after = i - 2 /\ i >= 2 BY <1>5, <1>8, <1>9, <2>1
    <3> HIDE DEF ahead, after, x, y
    <3> QED BY <1>5, <1>6, <1>13, <2>1, <3>4, <3>5
  <2>2. CASE k = i /\ ~queue[1].probe /\ Chosen.sinceFair = 0
    <3>1. ahead = i - 1 /\ after = i - 2 /\ i >= 2 BY <1>5, <1>8, <1>9, <2>2
    <3> HIDE DEF ahead, after, x, y
    <3> QED BY <1>5, <1>6, <2>2, <3>1
  <2>3. CASE k \in {i, i + 1} /\ Chosen.sinceFair = sinceFair + 1 /\ ~queue[1].probe
    <3>1. ahead = i - 1 /\ after = k - 2 /\ k >= 2 BY <1>5, <1>8, <1>9, <2>3
    <3> HIDE DEF ahead, after, x, y
    <3> QED BY <1>5, <1>6, <1>13, <2>3, <3>1
  <2> HIDE DEF ahead, after, x, y
  <2> QED BY <1>4, <2>1, <2>2, <2>3
<1>16. x \in BOOLEAN /\ y \in BOOLEAN OBVIOUS
<1> HIDE DEF ahead, after, x, y
<1>17. Wait(after, interval, sinceFair', y) < Wait(ahead, interval, sinceFair, x)
  BY <1>13, <1>15, <1>16, WaitsLess
<1> QED BY <1>11, <1>12, <1>17

\* An activation leaves every descriptor its place, or puts a probe before all of them and
\* spends the credit that is counted for it.
LEMMA EnqueuedWaits ==
  ASSUME IInv, PInv, NEW g \in Waiting, NEW h, Enqueued(queue', h, credit'), Distinct(queue'),
         search' = search, sinceFair' = sinceFair
  PROVE  PatienceOf(g)' =< PatienceOf(g)
<1>1. PICK i \in DOMAIN queue : queue[i].given = g BY DEF Waiting
<1>2. queue \in Seq(Batches) /\ Distinct(queue) /\ credit \in BOOLEAN
      /\ ProbeAhead(queue, credit) /\ queue # <<>> /\ search \in Searches
  BY <1>1 DEF IInv, Typed, Queued, PInv
<1>3. Interval' = Interval BY DEF Interval, Scheduling
<1>4. Interval \in Nat /\ sinceFair \in Nat
  <2>1. search.interval \in Nat BY <1>2, SearchesAssumption
  <2> QED BY <2>1 DEF PInv, Fair, Interval
<1>5. Head(queue) = queue[1] /\ Len(queue) \in Nat /\ i \in 1 .. Len(queue) BY <1>2
<1> DEFINE ahead == Cardinality(NonProbes(queue, i))
           x == credit \/ Head(queue).probe
<1>6. ahead = IF i > 1 /\ queue[1].probe THEN i - 2 ELSE i - 1
  <2>1. \A j \in 1 .. i - 1 : j \in DOMAIN queue /\ (queue[j].probe => j = 1)
    BY <1>2, <1>5 DEF ProbeAhead
  <2> QED BY <1>5, <2>1, AheadIs
<1>7. PatienceOf(g) = Wait(ahead, Interval, sinceFair, x)
  <2>1. PlaceOf(queue, g) = i BY <1>1, <1>2, PlaceIs
  <2> QED BY <2>1, PatienceIs
<1>8. \A y \in BOOLEAN : (y => x) => Wait(ahead, Interval, sinceFair, y) =< Wait(ahead, Interval, sinceFair, x)
  <2> SUFFICES ASSUME NEW y \in BOOLEAN, y => x
               PROVE  Wait(ahead, Interval, sinceFair, y) =< Wait(ahead, Interval, sinceFair, x)
    OBVIOUS
  <2> DEFINE p == ahead * Interval
  <2>1. p \in Int BY <1>4, <1>5, <1>6, OneMore
  <2>2. Wait(ahead, Interval, sinceFair, x) = 2 * (p + Interval - sinceFair) + (IF x THEN 1 ELSE 0)
        /\ Wait(ahead, Interval, sinceFair, y) = 2 * (p + Interval - sinceFair) + (IF y THEN 1 ELSE 0)
    BY DEF Wait
  <2> HIDE DEF p, x
  <2> QED BY <1>4, <2>1, <2>2
<1> HIDE DEF ahead
<1>9. ASSUME NEW k \in DOMAIN queue', queue'[k].given = g,
             Cardinality(NonProbes(queue', k)) = ahead,
             credit' \/ Head(queue').probe => x
      PROVE  PatienceOf(g)' =< PatienceOf(g)
  <2> DEFINE y == credit' \/ Head(queue').probe
  <2>1. PlaceOf(queue', g) = k BY <1>9, PlaceIs
  <2>2. PatienceOf(g)' = Wait(ahead, Interval, sinceFair, y)
    BY <1>3, <1>9, <2>1, PatienceNext
  <2>3. y \in BOOLEAN OBVIOUS
  <2> HIDE DEF y, x
  <2> QED BY <1>7, <1>8, <1>9, <2>2, <2>3 DEF y
<1>10. CASE queue' = queue /\ credit' = credit BY <1>1, <1>9, <1>10 DEF ahead
<1>11. ASSUME NEW b \in Batches, queue' = Append(queue, b), credit' = credit
       PROVE  PatienceOf(g)' =< PatienceOf(g)
  <2>1. i \in DOMAIN queue' /\ \A j \in 1 .. i : queue'[j] = queue[j] BY <1>2, <1>5, <1>11
  <2>2. Head(queue') = Head(queue) BY <1>2, <1>5, <1>11
  <2>3. NonProbes(queue', i) = NonProbes(queue, i) BY <1>5, <2>1 DEF NonProbes
  <2>4. queue'[i].given = g BY <1>1, <1>5, <2>1
  <2> HIDE DEF x
  <2>5. credit' \/ Head(queue').probe => x BY <1>11, <2>2 DEF x
  <2> QED BY <1>9, <2>1, <2>3, <2>4, <2>5 DEF ahead
<1>12. ASSUME NEW b \in Batches, queue' = <<b>> \o queue, b.probe, credit
       PROVE  PatienceOf(g)' =< PatienceOf(g)
  <2> DEFINE k == i + 1
             q == queue'
  <2>1. k \in DOMAIN q /\ q[k] = queue[i] /\ q[1] = b
        /\ \A j \in 2 .. k - 1 : j - 1 \in DOMAIN queue /\ q[j] = queue[j - 1]
    BY <1>2, <1>5, <1>12
  <2>2. \A j \in DOMAIN queue : ~queue[j].probe BY <1>2, <1>12 DEF ProbeAhead
  <2>3. \A j \in 1 .. k - 1 : q[j].probe => j = 1
    <3>1. \A j \in 1 .. k - 1 : j = 1 \/ j \in 2 .. k - 1 BY <1>5
    <3>2. \A j \in 2 .. k - 1 : ~q[j].probe BY <2>1, <2>2
    <3> QED BY <3>1, <3>2
  <2>4. k \in Nat \ {0} /\ k > 1 /\ k - 2 = i - 1 BY <1>5
  <2>5. ahead = i - 1
    <3>1. 1 \in DOMAIN queue BY <1>2
    <3>2. ~queue[1].probe BY <2>2, <3>1
    <3> QED BY <1>6, <3>2
  <2> HIDE DEF k, q
  <2>6. Cardinality(NonProbes(q, k)) = k - 2
    <3>1. Cardinality(NonProbes(q, k)) = IF k > 1 /\ q[1].probe THEN k - 2 ELSE k - 1
      BY <2>3, <2>4, AheadIs
    <3> QED BY <1>12, <2>1, <2>4, <3>1
  <2>7. Cardinality(NonProbes(q, k)) = ahead BY <2>4, <2>5, <2>6
  <2>8. q[k].given = g BY <1>1, <2>1
  <2>9. x BY <1>12
  <2> HIDE DEF x
  <2> QED BY <1>9, <2>1, <2>7, <2>8, <2>9 DEF q
<1> QED BY <1>10, <1>11, <1>12 DEF Enqueued

LEMMA SameWaits ==
  ASSUME UNCHANGED <<search, queue, sinceFair, credit>>, NEW g
  PROVE  PatienceOf(g)' = PatienceOf(g)
<1>1. Interval' = Interval BY DEF Interval, Scheduling
<1> QED BY <1>1, PatienceIs, PatienceNext

LEMMA OtherStepsWait ==
  ASSUME IInv, PInv, IInv', [Next]_vars, ~Turn, NEW g \in Waiting
  PROVE  PatienceOf(g)' =< PatienceOf(g)
<1>1. PatienceOf(g) \in Int
  <2>1. PICK i \in DOMAIN queue : queue[i].given = g BY DEF Waiting
  <2>2. queue \in Seq(Batches) /\ Distinct(queue) /\ search \in Searches /\ ProbeAhead(queue, credit)
    BY DEF IInv, Typed, Queued, PInv
  <2>3. Interval \in Int /\ sinceFair \in Int
    <3>1. search.interval \in Nat BY <2>2, SearchesAssumption
    <3> QED BY <3>1 DEF PInv, Fair, Interval
  <2>4. i \in Nat \ {0} BY <2>2
  <2> DEFINE ahead == Cardinality(NonProbes(queue, i))
             p == ahead * Interval
             x == credit \/ Head(queue).probe
  <2>5. ahead \in Int
    <3>1. \A j \in 1 .. i - 1 : j \in DOMAIN queue /\ (queue[j].probe => j = 1)
      BY <2>2 DEF ProbeAhead
    <3>2. ahead = IF i > 1 /\ queue[1].probe THEN i - 2 ELSE i - 1 BY <2>4, <3>1, AheadIs
    <3> HIDE DEF ahead
    <3> QED BY <2>4, <3>2
  <2> HIDE DEF ahead
  <2>6. p \in Int BY <2>3, <2>5, OneMore
  <2>7. PatienceOf(g) = 2 * (p + Interval - sinceFair) + (IF x THEN 1 ELSE 0)
    <3>1. PlaceOf(queue, g) = i BY <2>1, <2>2, PlaceIs
    <3> QED BY <3>1, PatienceIs DEF Wait, ahead
  <2> HIDE DEF p, x
  <2> QED BY <2>3, <2>6, <2>7
<1>2. ASSUME UNCHANGED <<search, queue, sinceFair, credit>> PROVE PatienceOf(g)' =< PatienceOf(g)
  <2>1. PatienceOf(g)' = PatienceOf(g) BY <1>2, SameWaits
  <2> HIDE DEF PatienceOf
  <2> QED BY <1>1, <2>1
<1>3. CASE Refresh
  <2>1. UNCHANGED <<search, queue, sinceFair, credit>> BY <1>3 DEF Refresh, turns
  <2> QED BY <1>2, <2>1
<1>4. CASE Activate
  <2>1. /\ RecordGoesOn /\ UNCHANGED <<heap, sinceFair, fatal>>
        /\ \E c \in passive, retired \in SUBSET usable, hint \in {search.probes, FALSE} :
              Activation(c, retired, hint)
    BY <1>4, ActivateGoesOn
  <2>2. PICK c \in passive, retired \in SUBSET usable, hint \in {search.probes, FALSE} :
           Activation(c, retired, hint) BY <2>1
  <2>3. Enqueued(queue', c.id, credit') BY <2>2, ActivationQueues
  <2>4. search' = search /\ sinceFair' = sinceFair BY <2>1 DEF RecordGoesOn
  <2>5. Distinct(queue') BY DEF IInv, Queued
  <2> QED BY <2>3, <2>4, <2>5, EnqueuedWaits
<1>5. CASE NotActivated
  <2>1. UNCHANGED <<search, queue, sinceFair, credit>>
    BY <1>5, NotActivatedGoesOn DEF RecordGoesOn
  <2> QED BY <1>2, <2>1
<1>6. CASE Resume
  <2>1. UNCHANGED <<search, queue, sinceFair, credit>> BY <1>6 DEF Resume, turns
  <2> QED BY <1>2, <2>1
<1>7. CASE UNCHANGED vars
  <2>1. UNCHANGED <<search, queue, sinceFair, credit>> BY <1>7 DEF vars, turns
  <2> QED BY <1>2, <2>1
<1> QED BY <1>3, <1>4, <1>5, <1>6, <1>7 DEF Next

\* No descriptor starves, whatever weights and hints come: each turn that is not its own
\* brings a descriptor nearer to its turn, and no given clause, probe or resumption takes
\* it away from it, for any interval of fair turns and any number of descriptors.
THEOREM NobodyStarves == Spec => NoStarvation
<1>1. Init => IInv /\ PInv BY InitInv, InitPlaces
<1>2. IInv /\ PInv /\ [Next]_vars => IInv' /\ PInv' BY NextInv, NextPlaces
<1> DEFINE Step == fatal' = "none" =>
                     IF Turn
                     THEN \A g \in Waiting \ {Head(Chosen.queue).given} :
                            PatienceOf(g)' < PatienceOf(g)
                     ELSE \A g \in Waiting : PatienceOf(g)' =< PatienceOf(g)
<1>3. IInv /\ PInv /\ IInv' /\ [Next]_vars => [Step]_vars
  <2> SUFFICES ASSUME IInv, PInv, IInv', [Next]_vars, fatal' = "none"
               PROVE  IF Turn
                      THEN \A g \in Waiting \ {Head(Chosen.queue).given} :
                             PatienceOf(g)' < PatienceOf(g)
                      ELSE \A g \in Waiting : PatienceOf(g)' =< PatienceOf(g)
    OBVIOUS
  <2>1. CASE Turn
    <3>1. \A g \in Waiting \ {Head(Chosen.queue).given} : PatienceOf(g)' < PatienceOf(g)
      BY <2>1, TurnShortens
    <3> QED BY <2>1, <3>1
  <2>2. CASE ~Turn
    <3>1. \A g \in Waiting : PatienceOf(g)' =< PatienceOf(g) BY <2>2, OtherStepsWait
    <3> QED BY <2>2, <3>1
  <2> QED BY <2>1, <2>2
<1> QED BY <1>1, <1>2, <1>3, PTL DEF Spec, NoStarvation
=============================================================================
