-------------------------- MODULE SelectionContract --------------------------
(***************************************************************************)
(* What the selection of given clauses promises: the passive clauses are   *)
(* in classes, one for each selection rule; rules take turns, each for its *)
(* part of a cycle; the rule whose turn it is gives the first clause of    *)
(* its class.  There are no trees, heaps, masks or counters here, and a    *)
(* restart or a compaction is not visible.                                 *)
(***************************************************************************)
EXTENDS Integers

CONSTANTS
  Meets(_, _),      \* Meets(rule, c): clause c has the property of the rule
  Before(_, _, _)   \* Before(rule, c, d): the rule gives c before d

VARIABLES
  rules,    \* rules["high"] and rules["low"]: the rules, with the part of each
  passive,  \* the passive clauses
  turn,     \* for high and low: the rule that had the last turn, and its count
  since     \* since[g][r][q]: turns of q since r had one, while r had a clause

vars == <<rules, passive, turn, since>>

Groups == {"high", "low"}
Places(g) == DOMAIN rules[g]

\* A clause that some high rule wants is in no low class.
Class(g, i, S) ==
  {c \in S : /\ Meets(rules[g][i], c)
             /\ g = "low" => \A h \in Places("high") : ~Meets(rules["high"][h], c)}
Waiting(g, S) == {i \in Places(g) : Class(g, i, S) # {}}

\* Going round from place i, one comes to k before j.
Passes(i, k, j) == IF i < j THEN i < k /\ k < j ELSE i < k \/ k < j

Goes(g) == turn[g].cur \in Waiting(g, passive) /\ turn[g].count < rules[g][turn[g].cur].part
Due(g, i) ==
  /\ i \in Waiting(g, passive)
  /\ IF Goes(g) THEN i = turn[g].cur
     ELSE \A k \in Waiting(g, passive) : ~Passes(turn[g].cur, k, i)

Init ==
  /\ \A g \in Groups : \A i \in Places(g) : i \in Nat /\ rules[g][i].part \in Nat \ {0}
  /\ passive = {}
  /\ turn = [g \in Groups |-> [cur |-> 1, count |-> 0]]
  /\ since = [g \in Groups |-> [r \in Places(g) |-> [q \in Places(g) |-> 0]]]

\* At most one clause comes and at most one is lost.
Change ==
  /\ \A c, d \in passive' \ passive : c = d
  /\ \A c, d \in passive \ passive' : c = d
  /\ since' = [g \in Groups |-> [r \in Places(g) |-> [q \in Places(g) |->
                 IF r \in Waiting(g, passive') THEN since[g][r][q] ELSE 0]]]
  /\ UNCHANGED <<rules, turn>>

TurnAfter(g, i) ==
  [h \in Groups |->
     IF h = g THEN [cur |-> i, count |-> IF Goes(g) THEN turn[g].count + 1 ELSE 1]
     ELSE IF h = "high" THEN [cur |-> turn[h].cur, count |-> 0] ELSE turn[h]]

Take(g, i, c) ==
  /\ g = "low" => Waiting("high", passive) = {}
  /\ Due(g, i)
  /\ c \in Class(g, i, passive)
  /\ \A d \in Class(g, i, passive) : ~Before(rules[g][i], d, c)
  /\ passive' = passive \ {c}
  /\ turn' = TurnAfter(g, i)
  /\ since' = [h \in Groups |-> [r \in Places(h) |-> [q \in Places(h) |->
                 IF r \notin Waiting(h, passive') \/ (h = g /\ r = i) THEN 0
                 ELSE IF h = g /\ q = i THEN since[h][r][q] + 1 ELSE since[h][r][q]]]]
  /\ UNCHANGED rules

Next == Change \/ \E g \in Groups : \E i \in Places(g) : \E c \in passive : Take(g, i, c)

Spec == Init /\ [][Next]_vars

\* No rule is starved: while a rule has a clause to give, each other rule of its list
\* has at most its part of turns before that rule has one (giv_select.c, next_selector).
FairShare == \A g \in Groups : \A r, q \in Places(g) : since[g][r][q] =< rules[g][q].part

=============================================================================
