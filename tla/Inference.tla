------------------------------ MODULE Inference ------------------------------
(***************************************************************************)
(* The inference rules of the given-clause search: given_infer (search.c)  *)
(* and the rules it calls, hyperresolution, unit-resulting resolution,     *)
(* binary resolution and resolution with x=x (resolve.c, clash.c),         *)
(* paramodulation (paramod.c), and the factoring of new clauses, on the    *)
(* contexts of unify.c and the retrieval of mindex.c.                      *)
(*                                                                         *)
(* A problem is a sequence of clauses, given one after the other.  When    *)
(* clause g is given, the clauses 1 .. g are in Usable and in the literal  *)
(* index.  A step is one retrieval of a mate, one turn of the loop of      *)
(* clash_recurse, or one inference of the other rules.                     *)
(***************************************************************************)
EXTENDS Unification

CONSTANTS
  Problems   \* the problems to run

VARIABLES
  prob,      \* the problem
  given,     \* the given clause; 0 while the clauses are kept and factored
  agenda,    \* the searches left for the given clause; the first is under way
  pc,        \* "choose", "search", "mates", "targets", "clash" or "done"
  ctx,       \* the contexts of the search under way
  outer,     \* its retrieval position
  hit,       \* the literal it found
  targets,   \* the targets left for the nucleus found
  nodes,     \* the clash list
  stack,     \* the frames of clash_recurse, the top last
  mem,       \* the memory of the unification package
  made,      \* the conclusions of the given clause, with their rules
  expired    \* Clash_expired

vars == <<prob, given, agenda, pc, ctx, outer, hit, targets, nodes, stack, mem, made,
          expired>>

(***************************************************************************)
(* Clauses.  A literal has its atom and the marks the rules read: whether  *)
(* it is maximal, maximal among those of its sign, selected, and, of an    *)
(* equality, oriented or renamable by a flip.                              *)
(***************************************************************************)
Ref(c, l)  == [c |-> c, l |-> l]
NoRef      == Ref(0, 0)
LitsOf(c)  == prob.clauses[c].lits
LitAt(r)   == LitsOf(r.c)[r.l]
Unit(c)    == Len(LitsOf(c)) = 1
AllSigned(c, neg) == \A l \in DOMAIN LitsOf(c) : LitsOf(c)[l].neg = neg
Selective(c) == \E l \in DOMAIN LitsOf(c) : LitsOf(c)[l].sel
Negated(rule) == rule \in {"negHyper", "negBinary", "negUr"}

\* lindex_update: the literals of one sign of the usable clauses, in the order of the
\* clauses' activation.
Indexed(neg) ==
  LET ofClause(c) ==
        SelectSeq([l \in DOMAIN LitsOf(c) |-> Ref(c, l)], LAMBDA r : LitAt(r).neg = neg)
  IN  FlattenSeq([c \in 1 .. given |-> ofClause(c)])

\* pos_hyper_sat_test, neg_hyper_sat_test, unit_check
SatTest(rule, r) ==
  CASE rule \in {"posHyper", "negHyper"} ->
         AllSigned(r.c, Negated(rule)) /\ (prob.ordered => LitAt(r).max)
    [] rule \in {"posUr", "negUr"} -> Unit(r.c)

\* binary_parent_test
BinaryTest(rule, r) ==
  LET lit == LitAt(r)
      maximal == prob.ordered => lit.max
      maximalSigned == prob.ordered => lit.maxs
  IN  IF rule = "binary"
      THEN IF Selective(r.c) THEN lit.neg /\ lit.sel ELSE maximal
      ELSE \/ AllSigned(r.c, TRUE) /\ maximal
           \/ ~AllSigned(r.c, TRUE) /\ ~lit.neg /\ maximalSigned

\* target_check
TargetTest(rule, lit) == lit.neg = Negated(rule)

NucleusAllowed(c) ==
  Len(LitsOf(c)) =< prob.urNucleusLimit /\ (prob.initialNuclei => prob.clauses[c].initial)

\* A found nucleus is clashed once for each of these: ur_sat_atom leaves one target
\* unresolved, hyper_sat_atom has no target.
TargetsIn(rule, found) ==
  IF rule \in {"posHyper", "negHyper"} THEN <<NoRef>>
  ELSE IF Unit(found.c) \/ ~NucleusAllowed(found.c) THEN <<>>
  ELSE SelectSeq([l \in DOMAIN LitsOf(found.c) |-> Ref(found.c, l)],
                 LAMBDA r : r # found /\ TargetTest(rule, LitAt(r)))

(***************************************************************************)
(* The searches of a given clause, in the order of given_infer.            *)
(***************************************************************************)
Task(kind, rule, r, flip) == [kind |-> kind, rule |-> rule, at |-> r, flip |-> flip]
ForEachLit(c, tasks(_)) == FlattenSeq([l \in DOMAIN LitsOf(c) |-> tasks(Ref(c, l))])
When(condition, seq) == IF condition THEN seq ELSE <<>>

BothWays(kind, rule, r, flips) ==
  <<Task(kind, rule, r, FALSE)>> \o When(flips, <<Task(kind, rule, r, TRUE)>>)

\* hyper_resolution: a satellite, or a nucleus.  Only a positive equality is flipped.
HyperTasks(rule, g) ==
  LET satellite(r) ==
        When(prob.ordered => LitAt(r).max,
             BothWays("satellite", rule, r, IsEq(LitAt(r).atom) /\ ~LitAt(r).neg))
  IN  IF AllSigned(g, Negated(rule)) THEN ForEachLit(g, satellite)
      ELSE <<Task("nucleus", rule, Ref(g, 0), FALSE)>>

\* ur_resolution: a unit is a satellite; of another clause each literal is a target.
UrTasks(rule, g) ==
  LET target(r) ==
        When(TargetTest(rule, LitAt(r)), <<Task("nucleus", rule, r, FALSE)>>)
  IN  IF Unit(g)
      THEN BothWays("satellite", rule, Ref(g, 1), IsEq(LitsOf(g)[1].atom))
      ELSE When(NucleusAllowed(g), ForEachLit(g, target))

\* binary_resolution
BinaryTasks(rule, g) ==
  LET resolve(r) ==
        When(BinaryTest(rule, r),
             BothWays("binary", rule, r, IsEq(LitAt(r).atom))
             \o When(LitAt(r).neg /\ IsEq(LitAt(r).atom), <<Task("xx", rule, r, FALSE)>>))
  IN  ForEachLit(g, resolve)

\* The loop of given_infer over Usable: from the given clause and into it.
ParaTasks(g) ==
  LET pair(from, into, checkTop) ==
        [kind |-> "para", rule |-> "para", at |-> Ref(from, 0), into |-> into,
         checkTop |-> checkTop, flip |-> FALSE]
      pairs == FlattenSeq([p \in 1 .. g |-> <<pair(g, p, FALSE), pair(p, g, TRUE)>>])
  IN  <<Task("open", "para", NoRef, FALSE)>> \o pairs \o <<Task("close", "para", NoRef, FALSE)>>

\* given_infer
GivenTasks(g) ==
  LET of(rule) ==
        CASE rule \in {"binary", "negBinary"}  -> BinaryTasks(rule, g)
          [] rule \in {"posHyper", "negHyper"} -> HyperTasks(rule, g)
          [] rule \in {"posUr", "negUr"}       -> UrTasks(rule, g)
          [] rule = "para"                     -> ParaTasks(g)
      order == <<"binary", "negBinary", "posHyper", "negHyper", "posUr", "negUr", "para">>
  IN  FlattenSeq([i \in DOMAIN order |-> When(order[i] \in prob.rules, of(order[i]))])

\* limbo_process: the clauses kept are factored.
LimboTasks ==
  When("factor" \in prob.rules,
       [c \in DOMAIN prob.clauses |-> Task("factor", "factor", Ref(c, 0), FALSE)])

(***************************************************************************)
(* Conclusions.                                                            *)
(***************************************************************************)
\* apply_lit
ApplyLit(m, lit, c) == [neg |-> lit.neg, atom |-> Apply(m, In(lit.atom, c))]
ApplyLits(m, c, context, kept(_)) ==
  FlattenSeq([l \in DOMAIN LitsOf(c) |->
                When(kept(l), <<ApplyLit(m, LitsOf(c)[l], context)>>)])
\* inheritable_att_instances
Answers(m, c, context) ==
  LET ans == prob.clauses[c].ans
  IN  Tup([i \in DOMAIN ans |-> Apply(m, In(ans[i], context))])
Conclusion(rule, lits, ans) == [rule |-> rule, lits |-> lits, ans |-> ans]

\* binary_resolvent
BinaryResolvent(m, rule, r1, c1, r2, c2) ==
  Conclusion(rule,
             ApplyLits(m, r1.c, c1, LAMBDA l : l # r1.l)
               \o ApplyLits(m, r2.c, c2, LAMBDA l : l # r2.l),
             Answers(m, r1.c, c1) \o Answers(m, r2.c, c2))

\* resolve: the literals of the nucleus that are left, then those of the satellites.
NucLit(n) == LitAt(n.lit)
Satellites(ns) == SelectSeq(ns, LAMBDA n : n.clashed /\ n.sat # NoRef)
Resolvent(m, rule, ns) ==
  LET open == SelectSeq(ns, LAMBDA n : ~n.clashed)
      sats == Satellites(ns)
  IN  Conclusion(rule,
        [k \in DOMAIN open |-> ApplyLit(m, NucLit(open[k]), open[k].nucCtx)]
          \o FlattenSeq([k \in DOMAIN sats |->
               ApplyLits(m, sats[k].sat.c, sats[k].satCtx, LAMBDA l : l # sats[k].sat.l)]),
        Answers(m, ns[1].lit.c, ns[1].nucCtx)
          \o FlattenSeq([k \in DOMAIN sats |-> Answers(m, sats[k].sat.c, sats[k].satCtx)]))

(***************************************************************************)
(* Retrieval (mindex.c) of the indexed atoms that unify with a query.  A   *)
(* position keeps the candidates not tried yet and the trail of the last   *)
(* answer, undone when the next one is asked for.                          *)
(***************************************************************************)
Position(query, context, found, neg) ==
  [query |-> In(query, context), found |-> found, left |-> Indexed(neg), tr |-> <<>>]
NoPosition == [query |-> <<>>, found |-> 0, left |-> <<>>, tr |-> <<>>]

\* The candidates in turn, until one unifies.
RECURSIVE FirstAnswer(_, _)
FirstAnswer(m, pos) ==
  IF pos.left = <<>> THEN [ref |-> NoRef, m |-> m, pos |-> [pos EXCEPT !.tr = <<>>]]
  ELSE LET r == Unify(m, pos.query, In(LitAt(Head(pos.left)).atom, pos.found))
           rest == [pos EXCEPT !.left = Tail(@), !.tr = r.trail]
       IN  IF r.ok THEN [ref |-> Head(pos.left), m |-> r.m, pos |-> rest]
           ELSE FirstAnswer(r.m, rest)

\* mindex_retrieve_next
RetrieveNext(m, pos) == FirstAnswer(Undo(m, pos.tr), pos)

(***************************************************************************)
(* Clash lists.  A node is a literal of the nucleus: whether a mate is to  *)
(* be found, whether one is, and which (none is a resolution with x=x).    *)
(***************************************************************************)
Node(r, clashable, context) ==
  [lit |-> r, clashable |-> clashable, clashed |-> FALSE, flipped |-> FALSE, sat |-> NoRef,
   nucCtx |-> context, satCtx |-> 0, pos |-> NoPosition]

\* Which literals of a nucleus are clashed: hyper_nucleus, hyper_sat_atom, ur_nucleus,
\* ur_sat_atom.
Clashable(rule, r, target) ==
  IF rule \in {"posHyper", "negHyper"} THEN LitAt(r).neg = ~Negated(rule) ELSE r # target

\* A context for every literal to be mated.
WithContexts(m, ns) ==
  LET add(acc, k) ==
        IF ns[k].clashable /\ ~ns[k].clashed
        THEN [m |-> GetContext(acc.m),
              ns |-> [acc.ns EXCEPT ![k].satCtx = NewContext(acc.m)]]
        ELSE acc
  IN  Along(add, [m |-> m, ns |-> ns], [k \in DOMAIN ns |-> k])

\* The clash list of clause c; the literal seed.lit, if there is one, has its mate.
ClashList(m, rule, c, nucCtx, target, seed) ==
  LET node(l) ==
        IF Ref(c, l) = seed.lit
        THEN [Node(Ref(c, l), TRUE, nucCtx) EXCEPT
                !.clashed = TRUE, !.flipped = seed.flip, !.sat = seed.sat, !.satCtx = seed.ctx]
        ELSE Node(Ref(c, l), Clashable(rule, Ref(c, l), target), nucCtx)
  IN  WithContexts(m, Tup([l \in DOMAIN LitsOf(c) |-> node(l)]))
NoSeed == [lit |-> NoRef, sat |-> NoRef, ctx |-> 0, flip |-> FALSE]

\* Mutant: also the context of the given satellite, which its caller frees.
ZapClashAll(m, ns) ==
  LET clashable == SelectSeq(ns, LAMBDA n : n.clashable)
  IN  Along(FreeContext, m, [k \in DOMAIN clashable |-> clashable[k].satCtx])

\* zap_clash: the contexts of the nodes to be mated that are not.
ZapClash(m, ns) ==
  LET waiting == SelectSeq(ns, LAMBDA n : n.clashable /\ ~n.clashed)
  IN  Along(FreeContext, m, [k \in DOMAIN waiting |-> waiting[k].satCtx])

ToMate(ns, k) == {j \in k + 1 .. Len(ns) : ns[j].clashable /\ ~ns[j].clashed}
Frame(k) == [node |-> k, phase |-> 0, tr |-> <<>>]
Least(S) == CHOOSE i \in S : \A j \in S : i =< j

(***************************************************************************)
(* Starting and ending the searches of a given clause.                     *)
(***************************************************************************)
Current == Head(agenda)
Rule == Current.rule

ASSUME ProblemsAssumption ==
  \A p \in Problems : p.rules \subseteq {"binary", "negBinary", "posHyper", "negHyper",
                                         "posUr", "negUr", "para", "factor"}

Init ==
  /\ prob \in Problems
  /\ given = 0 /\ pc = "search"
  /\ agenda = LimboTasks
  /\ ctx = <<>> /\ outer = NoPosition /\ hit = NoRef /\ targets = <<>> /\ nodes = <<>> /\ stack = <<>>
  /\ mem = NoContexts
  /\ made = {} /\ expired = FALSE

\* given_infer: the next clause of the problem is given.
Give ==
  /\ pc = "choose"
  /\ given < Len(prob.clauses)
  /\ given' = given + 1
  /\ agenda' = GivenTasks(given + 1)
  /\ pc' = "search" /\ made' = {}
  /\ UNCHANGED <<prob, ctx, outer, hit, targets, nodes, stack, mem, expired>>

EndGiven ==
  /\ pc = "search" /\ agenda = <<>>
  /\ pc' = "choose"
  /\ UNCHANGED <<prob, given, agenda, ctx, outer, hit, targets, nodes, stack, mem, made,
                 expired>>

\* The call of clash_recurse: with nothing to mate the resolvent is made at once.
StartClash(list) ==
  /\ nodes' = list.ns
  /\ mem' = list.m
  /\ pc' = "clash"
  /\ IF ToMate(list.ns, 0) = {}
     THEN made' = made \cup {Resolvent(list.m, Rule, list.ns)} /\ stack' = <<>>
     ELSE stack' = <<Frame(Least(ToMate(list.ns, 0)))>> /\ UNCHANGED made

\* hyper_nucleus, ur_nucleus
StartNucleus ==
  /\ pc = "search" /\ agenda # <<>> /\ Current.kind = "nucleus"
  /\ ctx' = <<NewContext(mem)>>
  /\ StartClash(ClashList(GetContext(mem), Rule, Current.at.c, NewContext(mem),
                          Current.at, NoSeed))
  /\ UNCHANGED <<prob, given, agenda, outer, hit, targets, expired>>

\* hyper_sat_atom, ur_sat_atom and bin_res_lit: two contexts, the first for the given
\* clause, and the first retrieval.
QueryAtom(task) == LET atom == LitAt(task.at).atom IN IF task.flip THEN Flip(atom) ELSE atom
StartRetrieval ==
  /\ pc = "search" /\ agenda # <<>> /\ Current.kind \in {"satellite", "binary"}
  /\ LET c1 == NewContext(mem)
         m1 == GetContext(mem)
         c2 == NewContext(m1)
     IN  /\ ctx' = <<c1, c2>>
         /\ mem' = GetContext(m1)
         /\ outer' = Position(QueryAtom(Current), c1, c2, ~LitAt(Current.at).neg)
  /\ pc' = "mates"
  /\ UNCHANGED <<prob, given, agenda, hit, targets, nodes, stack, made, expired>>

FreeAll(m, contexts) == Along(FreeContext, m, contexts)

\* The clash list of the nucleus found: its literal hit has the given one as its mate.
Seed == [lit |-> hit, sat |-> Current.at, ctx |-> ctx[1], flip |-> Current.flip]

\* The next atom found for the given literal: a binary resolvent, or a nucleus.
NextMate ==
  /\ pc = "mates"
  /\ LET found == RetrieveNext(mem, outer)
     IN  /\ outer' = found.pos /\ hit' = found.ref
         /\ \/ /\ found.ref = NoRef
               /\ mem' = FreeAll(found.m, ctx)
               /\ ctx' = <<>> /\ agenda' = Tail(agenda) /\ pc' = "search"
               /\ UNCHANGED <<targets, made>>
            \/ /\ found.ref # NoRef /\ Current.kind = "binary"
               /\ mem' = found.m
               /\ made' = IF BinaryTest(Rule, found.ref)
                          THEN made \cup {BinaryResolvent(found.m, Rule, Current.at, ctx[1],
                                                          found.ref, ctx[2])}
                          ELSE made
               /\ UNCHANGED <<pc, ctx, agenda, targets>>
            \/ /\ found.ref # NoRef /\ Current.kind = "satellite"
               /\ mem' = found.m
               /\ targets' = TargetsIn(Rule, found.ref)
               /\ pc' = "targets"
               /\ UNCHANGED <<ctx, agenda, made>>
  /\ UNCHANGED <<prob, given, nodes, stack, expired>>

\* hyper_sat_atom clashes the nucleus found once, ur_sat_atom for every target.
NextTarget ==
  /\ pc = "targets"
  /\ IF targets = <<>>
     THEN pc' = "mates" /\ UNCHANGED <<targets, nodes, stack, mem, made>>
     ELSE /\ StartClash(ClashList(mem, Rule, hit.c, ctx[2], Head(targets), Seed))
          /\ targets' = Tail(targets)
  /\ UNCHANGED <<prob, given, agenda, ctx, outer, hit, expired>>

(***************************************************************************)
(* clash_recurse: one turn of its loop for the frame on top.               *)
(***************************************************************************)
Top == Last(stack)
TopNode == nodes[Top.node]
InPhase(i) == pc = "clash" /\ stack # <<>> /\ Top.phase = i
WithTop(frame) == Front(stack) \o <<frame>>
InPhaseAfter(i, trail) == [Top EXCEPT !.phase = i, !.tr = trail]

\* The node on top is mated in ns: on to the next literal to mate, or a resolvent.
Mated(m, ns, frame) ==
  LET later == ToMate(ns, Top.node)
  IN  IF later = {}
      THEN /\ made' = made \cup {Resolvent(m, Rule, ns)}
           /\ nodes' = [ns EXCEPT ![Top.node].clashed = FALSE]
           /\ stack' = WithTop(frame)
      ELSE /\ nodes' = ns
           /\ stack' = WithTop(frame) \o <<Frame(Least(later))>>
           /\ UNCHANGED made

clashUnchanged == <<prob, given, agenda, pc, ctx, outer, hit, targets, expired>>

\* The answer of a retrieval for the node on top; in phase i, or i + 1 if there is none.
Retrieved(found, flip, i) ==
  LET free == [nodes EXCEPT ![Top.node].clashed = FALSE, ![Top.node].pos = found.pos]
      mated == [free EXCEPT ![Top.node].clashed = TRUE, ![Top.node].flipped = flip,
                            ![Top.node].sat = found.ref]
      usable == found.ref # NoRef /\ SatTest(Rule, found.ref)
  IN  /\ mem' = found.m
      /\ IF usable THEN Mated(found.m, mated, InPhaseAfter(i, <<>>))
         ELSE /\ nodes' = free
              /\ stack' = WithTop(InPhaseAfter(IF found.ref = NoRef THEN i + 1 ELSE i, <<>>))
              /\ UNCHANGED made
      /\ UNCHANGED clashUnchanged

\* Phases 0 and 2: the first mate of the literal, or of its flip.
FirstMate(flip) ==
  LET lit == NucLit(TopNode)
      query == IF flip THEN Flip(lit.atom) ELSE lit.atom
      pos == Position(query, TopNode.nucCtx, TopNode.satCtx, ~lit.neg)
  IN  Retrieved(RetrieveNext(mem, pos), flip, IF flip THEN 3 ELSE 1)
FirstPlain == InPhase(0) /\ FirstMate(FALSE)
FirstFlipped == InPhase(2) /\ IsEq(NucLit(TopNode).atom) /\ FirstMate(TRUE)

\* Phases 1 and 3: the next one.
NextClashMate ==
  /\ InPhase(1) \/ InPhase(3)
  /\ Retrieved(RetrieveNext(mem, TopNode.pos), Top.phase = 3, Top.phase)

Unmate(i, trail) ==
  /\ nodes' = [nodes EXCEPT ![Top.node].clashed = FALSE]
  /\ stack' = WithTop(InPhaseAfter(i, trail))
  /\ UNCHANGED <<mem, made, clashUnchanged>>

NotFlipped == InPhase(2) /\ ~IsEq(NucLit(TopNode).atom) /\ Unmate(4, <<>>)

\* Phase 4: a negative equality may be resolved with x=x.
ArgsUnified(m, atom, context) == Unify(m, In(atom.a[1], context), In(atom.a[2], context))
ReflexiveMate ==
  /\ InPhase(4)
  /\ LET lit == NucLit(TopNode)
         r == ArgsUnified(mem, lit.atom, TopNode.nucCtx)
         mated == [nodes EXCEPT ![Top.node].clashed = TRUE, ![Top.node].sat = NoRef]
         last == ToMate(nodes, Top.node) = {}
     IN  IF lit.neg /\ IsEq(lit.atom) /\ r.ok
         THEN /\ mem' = IF last THEN Undo(r.m, r.trail) ELSE r.m
              /\ Mated(r.m, mated, InPhaseAfter(5, IF last THEN <<>> ELSE r.trail))
              /\ UNCHANGED clashUnchanged
         ELSE Unmate(5, <<>>)

\* Phase 5: back to the literal mated before.
PopFrame ==
  /\ InPhase(5)
  /\ mem' = Undo(mem, Top.tr)
  /\ nodes' = [nodes EXCEPT ![Top.node].clashed = FALSE]
  /\ stack' = Front(stack)
  /\ UNCHANGED <<made, clashUnchanged>>

\* clash_timed_out: the deadline is seen at any turn; from then on the loop is left as it is.
TimeOut ==
  /\ pc = "clash" /\ stack # <<>>
  /\ prob.deadline \/ expired
  /\ expired' = TRUE
  /\ stack' = <<>>
  /\ UNCHANGED <<prob, given, agenda, pc, ctx, outer, hit, targets, nodes, mem, made>>

ClashTurn ==
  ~expired /\ (FirstPlain \/ FirstFlipped \/ NextClashMate \/ NotFlipped \/ ReflexiveMate \/ PopFrame)

\* The clash list is freed; for a nucleus that is given its context is freed first.
EndClash ==
  /\ pc = "clash" /\ stack = <<>>
  /\ nodes' = <<>>
  /\ IF Current.kind = "nucleus"
     THEN /\ mem' = ZapClash(FreeAll(mem, ctx), nodes)
          /\ ctx' = <<>> /\ agenda' = Tail(agenda) /\ pc' = "search"
     ELSE /\ mem' = ZapClash(mem, nodes)
          /\ pc' = "targets" /\ UNCHANGED <<ctx, agenda>>
  /\ UNCHANGED <<prob, given, outer, hit, targets, stack, made, expired>>

(***************************************************************************)
(* The rules without an index: each unifies, makes its conclusion from the *)
(* bindings and undoes them.  acc is the memory and the conclusions so far.*)
(***************************************************************************)
Acc(m, conclusions) == [m |-> m, made |-> conclusions]
Attempt(acc, x, y, conclusion(_)) ==
  LET r == Unify(acc.m, x, y)
  IN  IF r.ok THEN Acc(Undo(r.m, r.trail), acc.made \cup {conclusion(r)}) ELSE acc

\* xx_res and binary_factors: the bindings are undone before the answers are instantiated.
AnswersAfterUndo(r, c, context) == Answers(Undo(r.m, r.trail), c, context)

\* xx_res
XxConclusions(m, rule, r) ==
  LET c == NewContext(m)
      atom == LitAt(r).atom
      conclusion(u) == Conclusion(rule, ApplyLits(u.m, r.c, c, LAMBDA l : l # r.l),
                                  AnswersAfterUndo(u, r.c, c))
      acc == Attempt(Acc(GetContext(m), {}), In(atom.a[1], c), In(atom.a[2], c), conclusion)
  IN  Acc(FreeContext(acc.m, c), acc.made)

\* binary_factors: every pair of literals of one sign.
Pairs(n) == FlattenSeq([i \in 1 .. n |-> [d \in 1 .. n - i |-> <<i, i + d>>]])
FactorConclusions(m, k) ==
  LET c == NewContext(m)
      lits == LitsOf(k)
      factor(acc, p) ==
        IF lits[p[1]].neg # lits[p[2]].neg THEN acc
        ELSE Attempt(acc, In(lits[p[1]].atom, c), In(lits[p[2]].atom, c),
               LAMBDA u : Conclusion("factor", ApplyLits(u.m, k, c, LAMBDA l : l # p[2]),
                                     AnswersAfterUndo(u, k, c)))
      acc == Along(factor, Acc(GetContext(m), {}), Pairs(Len(lits)))
  IN  Acc(FreeContext(acc.m, c), acc.made)

(***************************************************************************)
(* Paramodulation.                                                         *)
(***************************************************************************)
\* para_from_right
FromRight(r) ==
  \/ prob.paraFromSmall
  \/ /\ LitAt(r).orient # "oriented"
     /\ ~(LitAt(r).orient = "renamable" /\ Unit(r.c))
FromTest(r) ==
  ~LitAt(r).neg /\ IsEq(LitAt(r).atom) /\ ~Selective(r.c) /\ (prob.ordered => LitAt(r).max)
IntoTest(r) ==
  IF LitAt(r).neg /\ Selective(r.c) THEN LitAt(r).sel
  ELSE ~Selective(r.c) /\ (prob.ordered => LitAt(r).max)

\* para_into: the positions below and at t, the arguments before the term itself.
RECURSIVE Positions(_)
Positions(t) ==
  IF IsVar(t) /\ ~prob.paraIntoVars THEN <<>>
  ELSE FlattenSeq([k \in DOMAIN t.a |->
                     LET below == Positions(t.a[k])
                     IN  [i \in DOMAIN below |-> <<k>> \o below[i]]])
       \o << <<>> >>

\* Mutant: the top of both sides is left out, whatever is tried in the other direction.
IntoPositionsInside(r, checkTop) ==
  LET atom == LitAt(r).atom
      ofSide(k) == LET below == Positions(atom.a[k]) IN [i \in DOMAIN below |-> <<k>> \o below[i]]
      skip(pos) == checkTop /\ IsEq(atom) /\ ~LitAt(r).neg /\ Len(pos) = 1
  IN  SelectSeq(FlattenSeq([k \in DOMAIN atom.a |-> ofSide(k)]), LAMBDA pos : ~skip(pos))

\* para_into_lit: the positions of an atom; the top of a side of an equality is left out
\* where the overlap is made in the other direction.
IntoPositions(r, checkTop) ==
  LET atom == LitAt(r).atom
      ofSide(k) == LET below == Positions(atom.a[k]) IN [i \in DOMAIN below |-> <<k>> \o below[i]]
      top(pos) == Len(pos) = 1 /\ (pos[1] = 1 \/ FromRight(r))
      skip(pos) == checkTop /\ IsEq(atom) /\ ~LitAt(r).neg /\ top(pos)
  IN  SelectSeq(FlattenSeq([k \in DOMAIN atom.a |-> ofSide(k)]), LAMBDA pos : ~skip(pos))

RECURSIVE SubtermAt(_, _)
SubtermAt(t, pos) == IF pos = <<>> THEN t ELSE SubtermAt(t.a[pos[1]], Tail(pos))

\* para_from_into: the literals, the sides and the positions to try, in turn.
Overlaps(from, into, checkTop) ==
  LET overlap(f, side, i, pos) == [from |-> f, side |-> side, into |-> i, pos |-> pos]
      sides(f) == When(~IsVar(LitAt(f).atom.a[1]) \/ prob.paraFromVars, <<1>>)
                  \o When(FromRight(f) /\ (~IsVar(LitAt(f).atom.a[2]) \/ prob.paraFromVars), <<2>>)
      at(f, side, i) == LET ps == IntoPositions(i, checkTop)
                        IN  [k \in DOMAIN ps |-> overlap(f, side, i, ps[k])]
      intoLit(f, i) == When(IntoTest(i), FlattenSeq([k \in DOMAIN sides(f) |-> at(f, sides(f)[k], i)]))
  IN  When(~Selective(from),
           ForEachLit(from, LAMBDA f :
             When(FromTest(f), ForEachLit(into, LAMBDA i : intoLit(f, i)))))

\* paramodulate
Paramodulant(m, o, cf, ci) ==
  LET beta == In(LitAt(o.from).atom.a[3 - o.side], cf)
      intoLit(l) ==
        IF l = o.into.l
        THEN [neg |-> LitAt(o.into).neg,
              atom |-> ApplySubstitute(m, In(LitAt(o.into).atom, ci), o.pos, beta)]
        ELSE ApplyLit(m, LitsOf(o.into.c)[l], ci)
  IN  Conclusion("para",
        ApplyLits(m, o.from.c, cf, LAMBDA l : l # o.from.l)
          \o [l \in DOMAIN LitsOf(o.into.c) |-> intoLit(l)],
        Answers(m, o.from.c, cf) \o Answers(m, o.into.c, ci))

ParaConclusions(m, from, into, checkTop, cf, ci) ==
  LET overlap(acc, o) ==
        Attempt(acc, In(LitAt(o.from).atom.a[o.side], cf),
                     In(SubtermAt(LitAt(o.into).atom, o.pos), ci),
                LAMBDA u : Paramodulant(u.m, o, cf, ci))
  IN  Along(overlap, Acc(m, {}), Overlaps(from, into, checkTop))

\* The contexts of the loop over Usable.
OpenPara ==
  /\ pc = "search" /\ agenda # <<>> /\ Current.kind = "open"
  /\ LET cf == NewContext(mem)
         m1 == GetContext(mem)
     IN  ctx' = <<cf, NewContext(m1)>> /\ mem' = GetContext(m1)
  /\ agenda' = Tail(agenda)
  /\ UNCHANGED <<prob, given, pc, outer, hit, targets, nodes, stack, made, expired>>

ClosePara ==
  /\ pc = "search" /\ agenda # <<>> /\ Current.kind = "close"
  /\ mem' = FreeAll(mem, ctx) /\ ctx' = <<>>
  /\ agenda' = Tail(agenda)
  /\ UNCHANGED <<prob, given, pc, outer, hit, targets, nodes, stack, made, expired>>

\* xx_res, binary_factors, para_from_into
Direct ==
  /\ pc = "search" /\ agenda # <<>> /\ Current.kind \in {"xx", "factor", "para"}
  /\ LET acc == CASE Current.kind = "xx" -> XxConclusions(mem, Rule, Current.at)
                  [] Current.kind = "factor" -> FactorConclusions(mem, Current.at.c)
                  [] Current.kind = "para" ->
                       ParaConclusions(mem, Current.at.c, Current.into, Current.checkTop,
                                       ctx[1], ctx[2])
     IN  mem' = acc.m /\ made' = made \cup acc.made
  /\ agenda' = Tail(agenda)
  /\ UNCHANGED <<prob, given, pc, ctx, outer, hit, targets, nodes, stack, expired>>

Finished ==
  /\ pc = "choose" /\ given = Len(prob.clauses)
  /\ pc' = "done"
  /\ UNCHANGED <<prob, given, agenda, ctx, outer, hit, targets, nodes, stack, mem, made,
                 expired>>

\* The process ended: all inferences are made.
Over == pc = "done" /\ UNCHANGED vars

Searching == EndGiven \/ StartNucleus \/ StartRetrieval \/ NextMate \/ NextTarget
             \/ OpenPara \/ ClosePara \/ Direct
Next == Give \/ Searching \/ ClashTurn \/ TimeOut \/ EndClash \/ Finished \/ Over

Spec == Init /\ [][Next]_vars
==============================================================================
