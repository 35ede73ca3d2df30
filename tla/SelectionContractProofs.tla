----------------------- MODULE SelectionContractProofs -----------------------
(***************************************************************************)
(* That no selection rule is starved, for any lists of rules, parts,       *)
(* classes and orders, and any clauses that come, go and are selected.     *)
(***************************************************************************)
EXTENDS SelectionContract, TLAPS

Numbers ==
  /\ turn \in [Groups -> [cur : Nat, count : Nat]]
  /\ \A g \in Groups : \A i \in Places(g) : i \in Nat /\ rules[g][i].part \in Nat \ {0}
  /\ \A g \in Groups : \A r, q \in Places(g) : since[g][r][q] \in Nat

\* Only a rule with a clause to give is kept waiting.
OnlyWaiting == \A g \in Groups : \A r, q \in Places(g) :
                 r \notin Waiting(g, passive) => since[g][r][q] = 0

\* The rules that had a turn since r had one lie between r and the current one.
InBetween == \A g \in Groups : \A r, q \in Places(g) :
               since[g][r][q] > 0 /\ q # turn[g].cur => Passes(r, q, turn[g].cur)

\* The current rule waits for nobody.
CurrentServed == \A g \in Groups : \A r, q \in Places(g) :
                   r = turn[g].cur => since[g][r][q] = 0

\* The turns of the current rule are counted.
TurnsCounted == \A g \in Groups : \A r, q \in Places(g) :
                  q = turn[g].cur => since[g][r][q] =< turn[g].count

IInv == Numbers /\ OnlyWaiting /\ InBetween /\ CurrentServed /\ TurnsCounted /\ FairShare

-----------------------------------------------------------------------------

LEMMA InitInv == Init => IInv
<1> SUFFICES ASSUME Init PROVE IInv
  OBVIOUS
<1>1. \A g \in Groups : \A i \in Places(g) : i \in Nat /\ rules[g][i].part \in Nat \ {0}
  BY DEF Init
<1>2. \A g \in Groups : \A r, q \in Places(g) : since[g][r][q] = 0
  BY DEF Init
<1>3. turn \in [Groups -> [cur : Nat, count : Nat]]
  BY DEF Init
<1>4. Numbers
  BY <1>1, <1>2, <1>3 DEF Numbers
<1>5. OnlyWaiting /\ InBetween /\ CurrentServed
  BY <1>2 DEF OnlyWaiting, InBetween, CurrentServed
<1>6. TurnsCounted
  BY <1>2, <1>3 DEF TurnsCounted
<1>7. FairShare
  BY <1>1, <1>2 DEF FairShare
<1> QED BY <1>4, <1>5, <1>6, <1>7 DEF IInv

\* Which rules have a clause depends on the rules and the clauses only.
LEMMA WaitingNext ==
  ASSUME UNCHANGED rules, NEW g \in Groups
  PROVE  Waiting(g, passive)' = Waiting(g, passive')
  BY DEF Waiting, Class, Places

\* Selecting and losing clauses makes no rule wait.
LEMMA FewerWait ==
  ASSUME NEW S, NEW T, T \subseteq S, NEW g \in Groups
  PROVE  Waiting(g, T) \subseteq Waiting(g, S)
  BY DEF Waiting, Class

LEMMA ChangeInv == IInv /\ Change => IInv'
<1> SUFFICES ASSUME IInv, Change PROVE IInv'
  OBVIOUS
<1> USE DEF Groups
<1>1. UNCHANGED <<rules, turn>>
  BY DEF Change
<1>2. \A g \in Groups : Places(g)' = Places(g)
  BY <1>1 DEF Places
<1>3. \A g \in Groups : \A r, q \in Places(g) :
        since'[g][r][q] = IF r \in Waiting(g, passive)' THEN since[g][r][q] ELSE 0
  <2> SUFFICES ASSUME NEW g \in Groups, NEW r \in Places(g), NEW q \in Places(g)
               PROVE  since'[g][r][q] = IF r \in Waiting(g, passive)' THEN since[g][r][q] ELSE 0
    OBVIOUS
  <2>1. Waiting(g, passive)' = Waiting(g, passive')
    BY <1>1, WaitingNext
  <2> QED BY <2>1 DEF Change
<1>4. Numbers'
  BY <1>1, <1>2, <1>3 DEF IInv, Numbers
<1>5. OnlyWaiting'
  BY <1>2, <1>3 DEF OnlyWaiting
<1>6. InBetween'
  BY <1>1, <1>2, <1>3 DEF IInv, InBetween, Passes
<1>7. CurrentServed'
  BY <1>1, <1>2, <1>3 DEF IInv, CurrentServed
<1>8. TurnsCounted'
  BY <1>1, <1>2, <1>3, <1>4 DEF IInv, TurnsCounted, Numbers
<1>9. FairShare'
  BY <1>1, <1>2, <1>3, <1>4 DEF IInv, FairShare, Numbers
<1> QED BY <1>4, <1>5, <1>6, <1>7, <1>8, <1>9 DEF IInv

-----------------------------------------------------------------------------

\* A rule that is not current and has had a turn since some r had one is never due.
LEMMA FreshTurn ==
  ASSUME IInv, NEW g \in Groups, NEW i \in Places(g), Due(g, i), ~Goes(g),
         NEW r \in Places(g), r # i, r \in Waiting(g, passive)
  PROVE  /\ since[g][r][i] = 0
         /\ i # turn[g].cur
         /\ r # turn[g].cur => ~Passes(turn[g].cur, r, i)
<1>1. ~Passes(turn[g].cur, r, i)
  BY DEF Due
<1>2. /\ i \in Nat /\ r \in Nat /\ turn[g].cur \in Nat
      /\ since[g][r][i] \in Nat
  BY DEF IInv, Numbers, Groups
<1>3. i # turn[g].cur
  BY <1>1, <1>2 DEF Passes
<1>4. since[g][r][i] = 0
  <2> SUFFICES ASSUME since[g][r][i] > 0 PROVE FALSE
    BY <1>2
  <2>1. Passes(r, i, turn[g].cur)
    BY <1>3 DEF IInv, InBetween
  <2>2. r # turn[g].cur
    BY <1>2 DEF IInv, CurrentServed
  <2> QED BY <1>1, <1>2, <1>3, <2>1, <2>2 DEF Passes
<1> QED BY <1>1, <1>3, <1>4

LEMMA TakeInv ==
  ASSUME IInv, NEW g \in Groups, NEW i \in Places(g), NEW c \in passive, Take(g, i, c)
  PROVE  IInv'
<1>1. UNCHANGED rules /\ Due(g, i) /\ i \in Waiting(g, passive)
  BY DEF Take, Due
<1>2. \A h \in Groups : Places(h)' = Places(h)
  BY <1>1 DEF Places
<1>3. \A h \in Groups : Waiting(h, passive)' = Waiting(h, passive')
                        /\ Waiting(h, passive') \subseteq Waiting(h, passive)
  <2> SUFFICES ASSUME NEW h \in Groups
               PROVE  Waiting(h, passive)' = Waiting(h, passive')
                      /\ Waiting(h, passive') \subseteq Waiting(h, passive)
    OBVIOUS
  <2>1. passive' \subseteq passive
    BY DEF Take
  <2> QED BY <1>1, <2>1, WaitingNext, FewerWait
\* The counters of a rule that still waits and did not have this turn.
<1>4. \A h \in Groups : \A r, q \in Places(h) :
        since'[h][r][q] = IF r \notin Waiting(h, passive)' \/ (h = g /\ r = i) THEN 0
                          ELSE IF h = g /\ q = i THEN since[h][r][q] + 1 ELSE since[h][r][q]
  <2> SUFFICES ASSUME NEW h \in Groups, NEW r \in Places(h), NEW q \in Places(h)
               PROVE  since'[h][r][q] =
                        IF r \notin Waiting(h, passive)' \/ (h = g /\ r = i) THEN 0
                        ELSE IF h = g /\ q = i THEN since[h][r][q] + 1 ELSE since[h][r][q]
    OBVIOUS
  <2>1. Waiting(h, passive)' = Waiting(h, passive')
    BY <1>3
  <2> QED BY <2>1 DEF Take
<1>5. turn' = TurnAfter(g, i)
  BY DEF Take
<1>6. /\ turn'[g].cur = i
      /\ turn'[g].count = IF Goes(g) THEN turn[g].count + 1 ELSE 1
  BY <1>5 DEF TurnAfter
<1>7. \A h \in Groups \ {g} :
        /\ turn'[h].cur = turn[h].cur
        /\ turn'[h].count = turn[h].count \/ (Waiting(h, passive) = {} /\ turn'[h].count = 0)
  <2> SUFFICES ASSUME NEW h \in Groups \ {g}
               PROVE  /\ turn'[h].cur = turn[h].cur
                      /\ turn'[h].count = turn[h].count
                         \/ (Waiting(h, passive) = {} /\ turn'[h].count = 0)
    OBVIOUS
  <2>1. turn[h] \in [cur : Nat, count : Nat]
    BY DEF IInv, Numbers
  <2>2. h = "high" => Waiting(h, passive) = {}
    BY DEF Take, Groups
  <2>3. turn'[h] = IF h = "high" THEN [cur |-> turn[h].cur, count |-> 0] ELSE turn[h]
    BY <1>5 DEF TurnAfter
  <2>4. CASE h = "high"
    <3>1. turn'[h] = [cur |-> turn[h].cur, count |-> 0]
      BY <2>3, <2>4
    <3> QED BY <2>2, <2>4, <3>1
  <2>5. CASE h # "high"
    BY <2>3, <2>5
  <2> QED BY <2>4, <2>5
<1>8. Goes(g) => i = turn[g].cur /\ turn[g].count < rules[g][i].part
  BY <1>1 DEF Due, Goes
<1>9. Numbers'
  <2>1. turn' \in [Groups -> [cur : Nat, count : Nat]]
    <3>1. turn \in [Groups -> [cur : Nat, count : Nat]] /\ i \in Nat
      BY DEF IInv, Numbers
    <3>2. \A h \in Groups : TurnAfter(g, i)[h] \in [cur : Nat, count : Nat]
      BY <3>1 DEF TurnAfter
    <3>3. TurnAfter(g, i) = [h \in Groups |-> TurnAfter(g, i)[h]]
      BY DEF TurnAfter
    <3> QED BY <1>5, <3>2, <3>3
  <2>2. \A h \in Groups : \A r, q \in Places(h) : since'[h][r][q] \in Nat
    BY <1>4 DEF IInv, Numbers
  <2> QED BY <1>1, <1>2, <2>1, <2>2 DEF IInv, Numbers
<1>10. OnlyWaiting'
  BY <1>2, <1>4 DEF OnlyWaiting
\* In a group whose turn it is not, the counters only fall.
<1>11. \A h \in Groups \ {g} : \A r, q \in Places(h) :
         /\ since'[h][r][q] \in {0, since[h][r][q]}
         /\ Waiting(h, passive) = {} => since'[h][r][q] = 0
  BY <1>3, <1>4
<1>12. \A r, q \in Places(g) : since'[g][r][q] > 0 =>
         /\ r # i /\ r \in Waiting(g, passive)
         /\ since'[g][r][q] = IF q = i THEN since[g][r][q] + 1 ELSE since[g][r][q]
  BY <1>3, <1>4
<1>13. InBetween'
  <2> SUFFICES ASSUME NEW h \in Groups, NEW r \in Places(h), NEW q \in Places(h),
                      since'[h][r][q] > 0, q # turn'[h].cur
               PROVE  Passes(r, q, turn'[h].cur)
    BY <1>2 DEF InBetween, Passes
  <2>1. CASE h # g
    BY <2>1, <1>7, <1>11 DEF IInv, InBetween
  <2>2. CASE h = g
    <3>1. r # i /\ q # i /\ r \in Waiting(g, passive) /\ since[g][r][q] > 0
      BY <2>2, <1>6, <1>12
    <3>2. r \in Nat /\ q \in Nat /\ i \in Nat /\ turn[g].cur \in Nat
      BY <2>2 DEF IInv, Numbers
    <3>3. r # turn[g].cur
      BY <2>2, <3>1 DEF IInv, CurrentServed
    <3>4. q # turn[g].cur => Passes(r, q, turn[g].cur)
      BY <2>2, <3>1 DEF IInv, InBetween
    <3>5. CASE Goes(g)
      BY <1>6, <1>8, <2>2, <3>1, <3>4, <3>5
    <3>6. CASE ~Goes(g)
      <4>1. i # turn[g].cur /\ ~Passes(turn[g].cur, r, i)
        BY <1>1, <2>2, <3>1, <3>3, <3>6, FreshTurn
      <4>2. Passes(r, q, i)
        BY <3>1, <3>2, <3>3, <3>4, <4>1 DEF Passes
      <4> QED BY <1>6, <2>2, <4>2
    <3> QED BY <3>5, <3>6
  <2> QED BY <2>1, <2>2
<1>14. CurrentServed'
  <2> SUFFICES ASSUME NEW h \in Groups, NEW r \in Places(h), NEW q \in Places(h),
                      r = turn'[h].cur
               PROVE  since'[h][r][q] = 0
    BY <1>2 DEF CurrentServed
  <2>1. CASE h # g
    BY <2>1, <1>7, <1>11 DEF IInv, CurrentServed
  <2>2. CASE h = g
    BY <2>2, <1>4, <1>6
  <2> QED BY <2>1, <2>2
\* Either a turn of the same rule, or the first one of another.
<1>15. \A r \in Places(g) : since'[g][r][i] =< turn'[g].count
  <2> SUFFICES ASSUME NEW r \in Places(g) PROVE since'[g][r][i] =< turn'[g].count
    OBVIOUS
  <2>1. since[g][r][i] \in Nat /\ since'[g][r][i] \in Nat /\ turn[g].count \in Nat
        /\ turn'[g].count \in Nat
    BY <1>2, <1>9 DEF IInv, Numbers
  <2>2. CASE since'[g][r][i] = 0
    BY <2>1, <2>2
  <2>3. CASE since'[g][r][i] > 0
    <3>1. r # i /\ r \in Waiting(g, passive) /\ since'[g][r][i] = since[g][r][i] + 1
      BY <2>3, <1>12
    <3>2. CASE Goes(g)
      <4>1. since[g][r][i] =< turn[g].count
        BY <1>8, <3>2 DEF IInv, TurnsCounted
      <4> QED BY <1>6, <2>1, <3>1, <3>2, <4>1
    <3>3. CASE ~Goes(g)
      <4>1. since[g][r][i] = 0
        BY <1>1, <3>1, <3>3, FreshTurn
      <4> QED BY <1>6, <3>1, <3>3, <4>1
    <3> QED BY <3>2, <3>3
  <2> QED BY <2>1, <2>2, <2>3
<1>16. turn'[g].count =< rules[g][i].part
  BY <1>6, <1>8 DEF IInv, Numbers
<1>17. TurnsCounted'
  <2> SUFFICES ASSUME NEW h \in Groups, NEW r \in Places(h), NEW q \in Places(h),
                      q = turn'[h].cur
               PROVE  since'[h][r][q] =< turn'[h].count
    BY <1>2 DEF TurnsCounted
  <2>1. CASE h = g
    BY <2>1, <1>6, <1>15
  <2>2. CASE h # g
    <3>1. turn[h].count \in Nat /\ since[h][r][q] \in Nat
      BY DEF IInv, Numbers
    <3>2. since[h][r][q] =< turn[h].count
      BY <1>7, <2>2 DEF IInv, TurnsCounted
    <3> QED BY <1>7, <1>11, <2>2, <3>1, <3>2
  <2> QED BY <2>1, <2>2
<1>18. FairShare'
  <2> SUFFICES ASSUME NEW h \in Groups, NEW r \in Places(h), NEW q \in Places(h)
               PROVE  since'[h][r][q] =< rules[h][q].part
    BY <1>1, <1>2 DEF FairShare
  <2>1. /\ rules[h][q].part \in Nat \ {0} /\ since[h][r][q] \in Nat
        /\ since[h][r][q] =< rules[h][q].part
    BY DEF IInv, Numbers, FairShare
  <2>2. CASE h = g /\ q = i
    <3>1. since'[g][r][i] \in Nat /\ turn'[g].count \in Nat
      BY <1>2, <1>9, <2>2 DEF Numbers
    <3> QED BY <1>15, <1>16, <2>1, <2>2, <3>1
  <2>3. CASE h # g
    BY <1>11, <2>1, <2>3
  <2>4. CASE h = g /\ q # i
    <3>1. since'[g][r][q] \in {0, since[g][r][q]}
      BY <1>4, <2>4
    <3> QED BY <2>1, <2>4, <3>1
  <2> QED BY <2>2, <2>3, <2>4
<1> QED BY <1>9, <1>10, <1>13, <1>14, <1>17, <1>18 DEF IInv

-----------------------------------------------------------------------------

LEMMA Invariant == Spec => []IInv
<1>1. Init => IInv
  BY InitInv
<1>2. IInv /\ [Next]_vars => IInv'
  <2> SUFFICES ASSUME IInv, [Next]_vars PROVE IInv'
    OBVIOUS
  <2>1. CASE Change
    BY <2>1, ChangeInv
  <2>2. CASE \E g \in Groups : \E i \in Places(g) : \E c \in passive : Take(g, i, c)
    BY <2>2, TakeInv
  <2>3. CASE UNCHANGED vars
    BY <2>3 DEF vars, IInv, Numbers, OnlyWaiting, InBetween, CurrentServed, TurnsCounted,
                FairShare, Places, Waiting, Class
  <2> QED BY <2>1, <2>2, <2>3 DEF Next
<1> QED BY <1>1, <1>2, PTL DEF Spec

\* No selection rule is starved: while rule r has a clause to give, no other rule of
\* its list has more turns than its part before r has one, for any lists of rules with
\* positive parts, any classes and orders, and whatever clauses come, are lost and are
\* selected in between (next_selector of giv_select.c).
THEOREM FairTurns == Spec => []FairShare
<1>1. IInv => FairShare
  BY DEF IInv
<1> QED BY <1>1, Invariant, PTL

=============================================================================
