--------------------------- MODULE GivenSelection ---------------------------
(***************************************************************************)
(* Which given clause comes next: the selectors of provers.src/            *)
(* giv_select.c with their trees (ladr/avltree.c) or heaps, the cycle they *)
(* take turns in, the tests of sos_limit, and their rebuilding after a     *)
(* restart, as the search (search.c) calls them.                           *)
(*                                                                         *)
(* A clause is its id; clause[id] is its Topform.  The state of            *)
(* giv_select.c is a record q:                                             *)
(*   sel      sel[g][i]: tree, heap and live count of rule i of group g    *)
(*   turn     High and Low: current and count                              *)
(*   occ      occurrences, size  Sos_size, sos  the list Glob.sos          *)
(*   records  Dense_records, in use when the store is dense                *)
(*   clause   the Topforms, whose fields the selectors read and set        *)
(*   fatal    a fatal_error was reached                                    *)
(***************************************************************************)
EXTENDS AvlTree, FiniteSetsExt, TLC

CONSTANTS
  Settings,     \* the option settings and inputs to run
  MaxInt,       \* INT_MAX: weights, parts and sums of them are below or wrap around
  MinRecords,   \* dense_passive_compaction_needed: records before there is a compaction
  MinInactive   \* and how many of them are inactive

VARIABLES
  conf,      \* the setting
  rules,     \* the rules of the groups "high" and "low"
  q,         \* the selectors
  limbo,     \* clauses kept and not yet in Sos
  restarts,  \* resumptions left (bound)
  since      \* see SelectionContract

vars == <<conf, rules, q, limbo, restarts, since>>

Groups == {"high", "low"}
Places(g) == DOMAIN rules[g]
Slots == UNION {{<<g, i>> : i \in Places(g)} : g \in Groups}
Dense == conf.store = "dense"
Cold  == conf.store \in {"compressed", "dense"}

\* The live clauses: those in Sos, or those with an active record.
ActiveIds(s) == {s.records[r].id : r \in {r \in DOMAIN s.records : s.records[r].active}}
Held(s) == IF Dense THEN ActiveIds(s) ELSE s.sos

(***************************************************************************)
(* Properties of clauses (ladr/clause_eval.c).  A cold clause has no       *)
(* literals, so no positive and no negative ones.                          *)
(***************************************************************************)
Atom(c, atom) ==
  \/ atom = "all"
  \/ atom = "initial" /\ c.initial
  \/ atom = "hint" /\ c.hint # 0
  \/ atom = "negative" /\ (c.cold \/ c.neg)
  \/ atom \in {"true", "false"} /\ c.sem = atom
Eval(rule, c) == rule.not # Atom(c, rule.prop)

\* rule_contains_semantics does not look under a negation.
NeedsSemantics ==
  \E s \in Slots : LET rule == rules[s[1]][s[2]] IN ~rule.not /\ rule.prop \in {"true", "false"}
\* set_semantics, with the default interpretation.
WithSemantics(c) ==
  IF NeedsSemantics /\ c.sem = "none"
  THEN [c EXCEPT !.sem = IF c.cold \/ c.neg THEN "false" ELSE "true"] ELSE c

\* The slots a clause goes to: its high rules, or else its low rules.
HighSlots(c) == {s \in Slots : s[1] = "high" /\ Eval(rules[s[1]][s[2]], c)}
SlotsOf(c) ==
  IF HighSlots(c) # {} THEN HighSlots(c)
  ELSE {s \in Slots : s[1] = "low" /\ Eval(rules[s[1]][s[2]], c)}

KeyOf(rule, c, x) ==
  CASE rule.order = "weight"   -> <<c.wt, x>>
    [] rule.order = "hint_age" -> <<IF c.hint # 0 THEN 0 ELSE 1, c.hint, x>>
    [] OTHER                   -> <<x>>
Keys(clauses, g, i) == [x \in DOMAIN clauses |-> KeyOf(rules[g][i], clauses[x], x)]

Add(occ, slots, n) == [g \in Groups |-> occ[g] + n * Cardinality({s \in slots : s[1] = g})]
OnSlots(sel, slots, Op(_, _, _)) ==
  [g \in Groups |-> [i \in Places(g) |->
     IF <<g, i>> \in slots THEN Op(sel[g][i], g, i) ELSE sel[g][i]]]

(***************************************************************************)
(* Trees: update_selectors, insert_into_sos2, remove_from_sos2.            *)
(***************************************************************************)
EmptySlot == [tree |-> Nil, heap |-> <<>>, live |-> 0]

InTree(s, x, g, i) == Found(s.sel[g][i].tree, x, Keys(s.clause, g, i))
InsertSelectors(s, x) ==
  LET slots == SlotsOf(s.clause[x])
      put(slot, g, i) == [slot EXCEPT !.tree = Insert(@, x, Keys(s.clause, g, i))]
  IN  IF \E t \in slots : InTree(s, x, t[1], t[2]) THEN [s EXCEPT !.fatal = "insert"]
      ELSE [s EXCEPT !.sel = OnSlots(@, slots, put), !.occ = Add(@, slots, 1)]
DeleteSelectors(s, x) ==
  LET slots == SlotsOf(s.clause[x])
      cut(slot, g, i) == [slot EXCEPT !.tree = Delete(@, x, Keys(s.clause, g, i))]
  IN  IF \E t \in slots : ~InTree(s, x, t[1], t[2]) THEN [s EXCEPT !.fatal = "delete"]
      ELSE [s EXCEPT !.sel = OnSlots(@, slots, cut), !.occ = Add(@, slots, -1)]

RemoveFromSos(s, x) ==
  LET s1 == DeleteSelectors([s EXCEPT !.clause[x].cold = FALSE], x)   \* materialize_clause
  IN  [s1 EXCEPT !.sos = @ \ {x}, !.size = @ - 1]

InsertIntoSos(s, x) ==
  LET s1 == InsertSelectors([s EXCEPT !.clause[x] = WithSemantics(@)], x)
  IN  [s1 EXCEPT !.sos = @ \cup {x}, !.size = @ + 1]

(***************************************************************************)
(* Heaps of record numbers, root first.  A record that is not active stays *)
(* in a heap until it is the root.                                         *)
(***************************************************************************)
RecordKeys(s, g, i) ==
  [r \in DOMAIN s.records |-> KeyOf(rules[g][i], s.records[r], s.records[r].id)]

RECURSIVE SiftUp(_, _, _, _)
SiftUp(heap, n, r, key) ==
  LET parent == n \div 2 IN
  IF n = 1 \/ ~Less(key[r], key[heap[parent]]) THEN [heap EXCEPT ![n] = r]
  ELSE SiftUp([heap EXCEPT ![n] = heap[parent]], parent, r, key)

RECURSIVE SiftDown(_, _, _, _)
SiftDown(heap, n, last, key) ==
  LET left  == 2 * n
      right == left + 1
      child == IF right =< Len(heap) /\ Less(key[heap[right]], key[heap[left]])
               THEN right ELSE left
  IN  IF heap = <<>> THEN heap
      ELSE IF left > Len(heap) \/ ~Less(key[heap[child]], key[last])
      THEN [heap EXCEPT ![n] = last]
      ELSE SiftDown([heap EXCEPT ![n] = heap[child]], child, last, key)

HeapPush(heap, r, key) == SiftUp(Append(heap, r), Len(heap) + 1, r, key)
RemoveRoot(heap, key) == SiftDown(Front(heap), 1, Last(heap), key)

RECURSIVE Pruned(_, _, _)
Pruned(s, g, i) ==
  LET heap == s.sel[g][i].heap IN
  IF heap = <<>> \/ s.records[heap[1]].active THEN s
  ELSE Pruned([s EXCEPT !.sel[g][i].heap = RemoveRoot(heap, RecordKeys(s, g, i))], g, i)

\* Record r into its heaps.
EnterHeaps(s, r) ==
  LET slots == s.records[r].slots
      put(slot, g, i) == [slot EXCEPT !.heap = HeapPush(@, r, RecordKeys(s, g, i)),
                                      !.live = @ + 1]
  IN  [s EXCEPT !.sel = OnSlots(@, slots, put), !.occ = Add(@, slots, 1)]

NoSelectors == [g \in Groups |-> [i \in Places(g) |-> EmptySlot]]
NoOccurrences == [g \in Groups |-> 0]

\* dense_passive_compaction_needed and dense_passive_compact.
CompactionNeeded(s) ==
  LET active   == Cardinality(ActiveIds(s))
      inactive == Len(s.records) - active
  IN  /\ Len(s.records) >= MinRecords
      /\ inactive >= MinInactive
      /\ inactive >= (active + 1) \div 2
Compacted(s) ==
  LET records == SelectSeq(s.records, LAMBDA r : r.active)
  IN  FoldLeft(EnterHeaps,
               [s EXCEPT !.records = records, !.sel = NoSelectors, !.occ = NoOccurrences],
               [r \in 1 .. Len(records) |-> r])

DenseInsert(s, x) ==
  LET c  == WithSemantics(s.clause[x])
      s1 == IF CompactionNeeded(s) THEN Compacted(s) ELSE s
      record == [id |-> x, wt |-> c.wt, hint |-> c.hint, slots |-> SlotsOf(c), active |-> TRUE]
  IN  IF s.records # <<>> /\ Last(s.records).id >= x THEN [s EXCEPT !.fatal = "ids"]
      ELSE EnterHeaps([s1 EXCEPT !.clause[x] = c, !.records = Append(@, record),
                                 !.size = @ + 1],
                      Len(s1.records) + 1)

Deactivated(s, r) ==
  LET slots == s.records[r].slots
      less(slot, g, i) == [slot EXCEPT !.live = @ - 1]
  IN  [s EXCEPT !.records[r].active = FALSE, !.sel = OnSlots(@, slots, less),
                !.occ = Add(@, slots, -1), !.size = @ - 1]

(***************************************************************************)
(* bulk_insert_into_sos2, when a search is resumed.                        *)
(***************************************************************************)
\* A mutant first: high clauses also go to their low rules.
BulkSlotsBoth(c) == HighSlots(c) \cup {s \in Slots : s[1] = "low" /\ Eval(rules[s[1]][s[2]], c)}
BulkSlots(c) == SlotsOf(c)

BulkInsert(s) ==
  LET clause  == [x \in DOMAIN s.clause |-> WithSemantics(s.clause[x])]
      slots   == [x \in s.sos |-> BulkSlots(clause[x])]
      wanted(g, i) == {x \in s.sos : <<g, i>> \in slots[x]}
      sorted(g, i) == LET key == Keys(clause, g, i) IN
                      SetToSortSeq(wanted(g, i), LAMBDA x, y : Less(key[x], key[y]))
  IN  IF Dense THEN FoldLeft(DenseInsert, [s EXCEPT !.sos = {}], SetToSortSeq(s.sos, <))
      ELSE [s EXCEPT
             !.clause = clause, !.size = Cardinality(s.sos),
             !.sel = [g \in Groups |-> [i \in Places(g) |->
                        [EmptySlot EXCEPT !.tree = Build(sorted(g, i))]]],
             !.occ = [g \in Groups |-> MapThenSumSet(LAMBDA i : Cardinality(wanted(g, i)), Places(g))]]

(***************************************************************************)
(* How long until a clause is selected.  A number of iterations is a       *)
(* fraction, exact where the code has doubles; a denominator of 0 stands   *)
(* for the NaN that 0/0 gives, which no comparison holds of.               *)
(***************************************************************************)
SelectorSize(s, g, i) == IF Dense THEN s.sel[g][i].live ELSE s.sel[g][i].tree.size

\* A sum of ints.
Wrapped(n) == ((n + MaxInt + 1) % (2 * (MaxInt + 1))) - (MaxInt + 1)
CurrentCycleSize(s, g) ==
  Wrapped(MapThenSumSet(LAMBDA i : rules[g][i].part,
                         {i \in Places(g) : SelectorSize(s, g, i) > 0}))

Iterations(s, g, i, n) ==
  [num |-> n * CurrentCycleSize(s, g) * s.size, den |-> rules[g][i].part * s.occ[g]]
Smaller(x, y) == x.den # 0 /\ x.num * y.den < y.num * x.den
LeastOf(x, y) == IF Smaller(y, x) THEN y ELSE x
Most == [num |-> MaxInt, den |-> 1]

\* least_iters_to_selection of clause c with id x, without rule ignore.
LeastIters(s, c, x, g, ignore) ==
  LET clause == (x :> c) @@ s.clause
      step(least, i) ==
        IF i = ignore \/ ~Eval(rules[g][i], c) THEN least
        ELSE LeastOf(least, Iterations(s, g, i, Place(s.sel[g][i].tree, x, Keys(clause, g, i))))
  IN  FoldLeft(step, Most, [i \in 1 .. Len(rules[g]) |-> i])

SosLimit == IF conf.limit = -1 THEN MaxInt ELSE conf.limit

\* sos_keep2, with id INT_MAX for the new clause.
SosKeep(s, c) ==
  LET least == LeastIters(s, WithSemantics(c), MaxInt, "low", 0)
  IN  \/ Cardinality(s.sos) < SosLimit \div conf.factor
      \/ least.num \div least.den < SosLimit \div conf.factor

\* worst_clause_of_priority_group: 0 if there is none.
WorstOf(s, g) ==
  LET score(i) ==
        LET x == Largest(s.sel[g][i].tree)
        IN  LeastOf(Iterations(s, g, i, s.sel[g][i].tree.size),
                    LeastIters(s, s.clause[x], x, g, i))
      step(best, i) ==
        IF IsNil(s.sel[g][i].tree) \/ ~Smaller(best.max, score(i)) THEN best
        ELSE [max |-> score(i), worst |-> Largest(s.sel[g][i].tree)]
  IN  FoldLeft(step, [max |-> [num |-> 0, den |-> 1], worst |-> 0],
               [i \in 1 .. Len(rules[g]) |-> i]).worst

\* A mutant first: the high clauses are displaced first.
WorstClauseHighFirst(s) == IF WorstOf(s, "high") # 0 THEN WorstOf(s, "high") ELSE WorstOf(s, "low")
WorstClause(s) == IF WorstOf(s, "low") # 0 THEN WorstOf(s, "low") ELSE WorstOf(s, "high")

\* A clause that no selector has is of no further interest here.
Forget(s, x) ==
  IF \E t \in Slots : x \in ToSet(InOrder(s.sel[t[1]][t[2]].tree)) THEN s
  ELSE [s EXCEPT !.clause = [y \in DOMAIN @ \ {x} |-> @[y]]]

\* sos_displace2, with disable_clause.
Displaced(s) ==
  IF WorstClause(s) = 0 THEN [s EXCEPT !.fatal = "displace"]
  ELSE Forget(RemoveFromSos(s, WorstClause(s)), WorstClause(s))

(***************************************************************************)
(* next_selector: the rule whose turn it is becomes the current one; its   *)
(* count is 0 if no rule of the group has a clause.                        *)
(***************************************************************************)
\* A mutant first: one turn too many.
TurnOverLate(s, g) ==
  LET t == s.turn[g] IN SelectorSize(s, g, t.cur) = 0 \/ t.count > rules[g][t.cur].part
TurnOver(s, g) ==
  LET t == s.turn[g] IN SelectorSize(s, g, t.cur) = 0 \/ t.count >= rules[g][t.cur].part

Visit(s, g) == IF Dense THEN Pruned(s, g, s.turn[g].cur) ELSE s
RECURSIVE GoRound(_, _, _)
GoRound(s, g, start) ==
  LET next == (s.turn[g].cur % Len(rules[g])) + 1
      s1   == Visit([s EXCEPT !.turn[g] = [cur |-> next, count |-> 0]], g)
  IN  IF ~TurnOver(s, g) THEN s
      ELSE IF next = start THEN s1 ELSE GoRound(s1, g, start)

NextSelector(s, g) ==
  IF rules[g] = <<>> THEN s ELSE GoRound(Visit(s, g), g, s.turn[g].cur)
HasClause(s, g) == rules[g] # <<>> /\ SelectorSize(s, g, s.turn[g].cur) > 0

(***************************************************************************)
(* What the contract sees.                                                 *)
(***************************************************************************)
Passive(s) ==
  {[id |-> x, wt |-> s.clause[x].wt, hint |-> s.clause[x].hint,
    initial |-> s.clause[x].initial, neg |-> s.clause[x].neg] : x \in Held(s)}

Promised(rule, c) ==
  rule.not # CASE rule.prop = "all"      -> TRUE
               [] rule.prop = "initial"  -> c.initial
               [] rule.prop = "hint"     -> c.hint # 0
               [] rule.prop \in {"negative", "false"} -> c.neg
               [] rule.prop = "true"     -> ~c.neg
Earlier(rule, c, d) ==
  /\ rule.order # "random"
  /\ \/ rule.order = "weight" /\ c.wt < d.wt
     \/ /\ rule.order = "hint_age"
        /\ \/ c.hint # 0 /\ (d.hint = 0 \/ c.hint < d.hint)
           \/ c.hint = d.hint /\ c.id < d.id
     \/ rule.order = "age" /\ c.id < d.id
     \/ rule.order = "weight" /\ c.wt = d.wt /\ c.id < d.id

Contract == INSTANCE SelectionContract
            WITH passive <- Passive(q), turn <- q.turn, Meets <- Promised, Before <- Earlier

Since(s, g, i) ==
  [h \in Groups |-> [r \in Places(h) |-> [k \in Places(h) |->
     IF r \notin Contract!Waiting(h, Passive(s)) \/ (h = g /\ r = i) THEN 0
     ELSE IF h = g /\ k = i THEN since[h][r][k] + 1 ELSE since[h][r][k]]]]

(***************************************************************************)
(* The search (search.c).                                                  *)
(***************************************************************************)
Topform(kind) == [wt |-> kind.wt, hint |-> kind.hint, neg |-> kind.neg,
                  initial |-> FALSE, cold |-> FALSE, sem |-> "none"]

Init ==
  /\ conf \in Settings
  /\ rules = conf.rules
  /\ limbo = [n \in 1 .. Len(conf.inputs) |-> n]
  /\ q = [sel |-> NoSelectors, turn |-> [g \in Groups |-> [cur |-> 1, count |-> 0]],
          occ |-> NoOccurrences, size |-> 0, sos |-> {}, records |-> <<>>,
          clause |-> [n \in 1 .. Len(conf.inputs) |-> Topform(conf.inputs[n])],
          last |-> Len(conf.inputs), fatal |-> "none"]
  /\ restarts = conf.restarts
  /\ since = [g \in Groups |-> [r \in Places(g) |-> [k \in Places(g) |-> 0]]]

Runs == q.fatal = "none"
Fixed == UNCHANGED <<conf, rules>>
InputsWait == \E n \in DOMAIN limbo : limbo[n] \in DOMAIN conf.inputs

\* cl_process: a new clause; sos_limit is not applied to one that matches a hint.
Arrive(kind) ==
  /\ Runs /\ ~InputsWait
  /\ q.last < conf.maxIds                               \* bound
  /\ kind.hint # 0 \/ SosKeep(q, Topform(kind))
  /\ q' = [q EXCEPT !.last = @ + 1, !.clause = (q.last + 1 :> Topform(kind)) @@ @]
  /\ limbo' = Append(limbo, q.last + 1)
  /\ Fixed /\ UNCHANGED <<restarts, since>>

\* limbo_process: the first clause of limbo goes to Sos; with a discount loop its body
\* may be compressed before it is inserted.
FromLimbo ==
  /\ Runs /\ limbo # <<>>
  /\ LET x  == Head(limbo)
         s1 == IF conf.limit # -1 /\ Cardinality(q.sos) >= conf.limit THEN Displaced(q) ELSE q
         s2 == [s1 EXCEPT !.clause[x].initial = x \in DOMAIN conf.inputs,
                          !.clause[x].cold = Cold]
     IN  /\ q' = IF s1.fatal # "none" THEN s1
                 ELSE IF Dense THEN DenseInsert(s2, x) ELSE InsertIntoSos(s2, x)
         /\ since' = IF q'.fatal # "none" THEN since ELSE Since(q', "none", 0)
  /\ limbo' = Tail(limbo)
  /\ Fixed /\ UNCHANGED restarts

\* disable_clause, when a clause of Sos is back subsumed or back demodulated.
Disable(x) ==
  /\ Runs /\ conf.store = "full"
  /\ LET s1 == RemoveFromSos(q, x) IN
     IF s1.fatal # "none" THEN q' = s1 /\ UNCHANGED since
     ELSE q' = Forget(s1, x) /\ since' = Since(q', "none", 0)
  /\ Fixed /\ UNCHANGED <<limbo, restarts>>

\* get_given_clause2, with the rule found by next_selector.
Given(s, g) ==
  LET i    == s.turn[g].cur
      slot == s.sel[g][i]
      s1   == [s EXCEPT !.turn[g].count = @ + 1]
      give(x, s2) ==
        IF s2.fatal # "none" THEN q' = s2 /\ UNCHANGED since
        ELSE q' = Forget(s2, x) /\ since' = Since(q', g, i)
  IN  IF Dense THEN give(s.records[slot.heap[1]].id, Deactivated(s1, slot.heap[1]))
      ELSE \E n \in IF rules[g][i].order = "random" THEN 1 .. slot.tree.size ELSE {1} :
             give(Nth(slot.tree, n), RemoveFromSos(s1, Nth(slot.tree, n)))

Select ==
  /\ Runs /\ limbo = <<>>
  /\ LET high == NextSelector(q, "high")
         low  == NextSelector(high, "low")
     IN  IF HasClause(high, "high") THEN Given(high, "high")
         ELSE HasClause(low, "low") /\ Given(low, "low")
  /\ Fixed /\ UNCHANGED <<limbo, restarts>>

\* A search resumed from its checkpoint: the clauses are read with their bodies and
\* without semantics, the selectors are built anew, and the turns are restored by name.
SavedPlace(g) ==
  CHOOSE i \in Places(g) :
    /\ rules[g][i].name = rules[g][q.turn[g].cur].name
    /\ \A j \in Places(g) : rules[g][j].name = rules[g][i].name => i =< j
Restart ==
  /\ Runs /\ limbo = <<>> /\ restarts > 0 /\ Held(q) # {}
  /\ LET read(cold) == [x \in DOMAIN q.clause |->
                          [q.clause[x] EXCEPT !.sem = "none", !.cold = cold]]
         s1 == BulkInsert([q EXCEPT !.clause = read(Dense), !.sel = NoSelectors,
                             !.occ = NoOccurrences, !.size = 0, !.sos = Held(q),
                             !.records = <<>>])
         s2 == [s1 EXCEPT !.clause = [x \in DOMAIN @ |-> [@[x] EXCEPT !.cold = Cold]],
                          !.turn = [g \in Groups |->
                             IF rules[g] = <<>> THEN [cur |-> 1, count |-> 0]
                             ELSE [cur |-> SavedPlace(g), count |-> q.turn[g].count]]]
     IN  q' = s2
  /\ restarts' = restarts - 1
  /\ Fixed /\ UNCHANGED <<limbo, since>>

Next ==
  \/ \E kind \in conf.kinds : Arrive(kind)
  \/ FromLimbo
  \/ \E x \in q.sos : Disable(x)
  \/ Select
  \/ Restart

Spec == Init /\ [][Next]_vars

(***************************************************************************)
(* Properties.                                                             *)
(***************************************************************************)
\* Trees, heaps, masks, turns that survive a restart, displacement and compaction: what
\* comes out is what the rules promise (get_given_clause2, next_selector).
SelectsAsPromised == Contract!Spec

\* No rule waits while another has more than its part of turns (next_selector).
FairShare == Contract!FairShare

\* Every clause is in exactly the selectors that its rules ask for, once, with the
\* counts that the tests of sos_limit and the cycle rely on; trees are ordered and
\* balanced, a live record is in its heaps and records ascend (update_selectors,
\* dense_insert_passive, dense_passive_compact, bulk_insert_into_sos2).
Ids(g, i) == {c.id : c \in Contract!Class(g, i, Passive(q))}
TreeAgrees(g, i) ==
  LET tree == q.sel[g][i].tree IN
  /\ ToSet(InOrder(tree)) = Ids(g, i)
  /\ Ascending(InOrder(tree), Keys(q.clause, g, i))
  /\ Balanced(tree)
HeapAgrees(g, i) ==
  LET heap == q.sel[g][i].heap  key == RecordKeys(q, g, i) IN
  /\ \A n \in 2 .. Len(heap) : Less(key[heap[n \div 2]], key[heap[n]])
  /\ {q.records[r].id : r \in {r \in ToSet(heap) : q.records[r].active}} = Ids(g, i)
  /\ q.sel[g][i].live = Cardinality(Ids(g, i))
IndexesAgree ==
  Runs =>
  /\ \A slot \in Slots :
       IF Dense THEN HeapAgrees(slot[1], slot[2]) ELSE TreeAgrees(slot[1], slot[2])
  /\ \A g \in Groups :
       q.occ[g] = MapThenSumSet(LAMBDA i : Cardinality(Ids(g, i)), Places(g))
  /\ q.size = Cardinality(Held(q))
  /\ \A r \in 2 .. Len(q.records) : q.records[r - 1].id < q.records[r].id

\* sos_displace2 spares the clauses that some high rule wants while there are others in a
\* low class, and what it takes is last in some class: no clause comes after it in all
\* the classes it is in (worst_clause).
Lost == {c \in Passive(q) : c.id \notin {d.id : d \in Passive(q')}}
ClassesOf(g, c) == {i \in Places(g) : c \in Contract!Class(g, i, Passive(q))}
DisplacesTheWorst ==
  [][limbo' # limbo /\ Lost # {} =>
       \A c \in Lost :
         LET g == IF ClassesOf("low", c) # {} THEN "low" ELSE "high" IN
         /\ g = "high" => \A i \in Places("low") : Ids("low", i) = {}
         /\ \A d \in Passive(q) : \E i \in ClassesOf(g, c) :
              ~(d \in Contract!Class(g, i, Passive(q)) /\ Earlier(rules[g][i], c, d))]_vars

=============================================================================
