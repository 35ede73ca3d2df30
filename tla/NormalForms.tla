----------------------------- MODULE NormalForms -----------------------------
(***************************************************************************)
(* The passes of ladr/cnf.c: renaming of bound variables, Skolemization,   *)
(* miniscoping, and conjunctive normal form with and without definitions.  *)
(*                                                                         *)
(* A pass that is left by longjmp, or that uses memory it does not own,    *)
(* returns a node of op "limit" or "crash" instead of a formula.           *)
(***************************************************************************)
EXTENDS Formulas

Limit == Node("limit", "", <<>>)   \* longjmp: the clause limit was exceeded
Crash == Node("crash", "", <<>>)   \* a formula is taken for a binary disjunction
Failed(f) == f.op \in {"limit", "crash"}
\* Op of the kids, or the first kid that failed: kids are done from the left.
IfNoneFailed(Op(_), f) ==
  LET failed == SelectSeq(f.kids, Failed) IN IF failed # <<>> THEN failed[1] ELSE Op(f)

-----------------------------------------------------------------------------
(* Names.                                                                  *)

\* gen_new_symbol: the first name not in used.  Nothing says that no other
\* part of the formula uses it.
GenNewSymbol(prefix, used) ==
  LET name(i) == prefix \o ToString(i)
      i == CHOOSE i \in 0 .. Len(used) :
             /\ name(i) \notin ToSet(used)
             /\ \A j \in 0 .. i - 1 : name(j) \in ToSet(used)
  IN  name(i)

\* The bound variable of f, renamed if it is among used; a new name is substituted below.
RenameBound(f, used) ==
  LET new == GenNewSymbol("x", used)
  IN  IF f.name \in ToSet(used)
      THEN Node(f.op, new, <<SubstFreeVar(f.kids[1], f.name, Rigid(new))>>) ELSE f

\* A pass that carries a state along: Op(st, kid) is [st, f].  From the left ...
Thread(Op(_, _), st, f) ==
  LET done == FoldLeft(LAMBDA acc, k : LET r == Op(acc.st, k)
                                       IN  [st |-> r.st, kids |-> Append(acc.kids, r.f)],
                       [st |-> st, kids |-> <<>>], f.kids)
  IN  [st |-> done.st, f |-> Node(f.op, f.name, done.kids)]
\* ... or from the right, as a stack of kids does.
ThreadBack(Op(_, _), st, f) ==
  LET r == Thread(Op, st, Node(f.op, f.name, Reverse(f.kids)))
  IN  [st |-> r.st, f |-> Node(f.op, f.name, Reverse(r.f.kids))]

\* unique_qvars: the state is the list of names met so far.
RECURSIVE UniqueQvars(_, _)
UniqueQvars(vars, f) ==
  IF f.op = "atom" THEN [st |-> vars, f |-> f]
  ELSE IF QuantForm(f)
  THEN LET g == RenameBound(f, vars) IN Thread(UniqueQvars, <<g.name>> \o vars, g)
  ELSE ThreadBack(UniqueQvars, vars, f)
UniqueQuantifiedVars(f) == UniqueQvars(<<>>, f).f

\* A mutant: the number is used again for the next Skolem symbol.
NextSkolemAgain(sk, n) ==
  LET field == IF n = 0 THEN "c" ELSE "f"
  IN  [st |-> sk, name |-> field \o ToString(sk[field])]

\* next_skolem_symbol.  The state sk has the numbers to be used next, and taken, the
\* symbols <<name, arity>> that are skipped (none with skolem_check(FALSE)).
NextSkolem(sk, n) ==
  LET field == IF n = 0 THEN "c" ELSE "f"
      name(i) == field \o ToString(i)
      i == CHOOSE i \in sk[field] .. sk[field] + Cardinality(sk.taken) :
             /\ <<name(i), n>> \notin sk.taken
             /\ \A j \in sk[field] .. i - 1 : <<name(j), n>> \in sk.taken
  IN  [st |-> [sk EXCEPT ![field] = i + 1], name |-> name(i)]

\* skolem: uvars are the universal variables in whose scope f is, innermost first.
RECURSIVE Skolem(_, _, _)
Skolem(sk, uvars, f) ==
  CASE f.op = "all" ->
         LET g == RenameBound(f, uvars)
         IN  Thread(LAMBDA st, k : Skolem(st, <<g.name>> \o uvars, k), sk, g)
    [] f.op = "exists" ->
         LET new  == NextSkolem(sk, Len(uvars))
             args == [i \in 1 .. Len(uvars) |-> Rigid(Reverse(uvars)[i])]
         IN  Skolem(new.st, uvars,
                    SubstFreeVar(f.kids[1], f.name, Node("term", new.name, args)))
    [] f.op \in {"and", "or"} -> Thread(LAMBDA st, k : Skolem(st, uvars, k), sk, f)
    [] OTHER -> [st |-> sk, f |-> f]

\* remove_uni_quant: the state is the number of the next VARIABLE.
RECURSIVE RemoveUniQuant(_, _)
RemoveUniQuant(varnum, f) ==
  CASE f.op = "all" ->
         RemoveUniQuant(varnum + 1, SubstFreeVar(f.kids[1], f.name, Variable(varnum)))
    [] f.op \in {"and", "or"} -> Thread(RemoveUniQuant, varnum, f)
    [] OTHER -> [st |-> varnum, f |-> f]
RemoveUniversalQuantifiers(f) == RemoveUniQuant(0, f).f

-----------------------------------------------------------------------------
(* Propositional simplification.                                           *)

Complementary(f, g) ==
  \/ f.op = "not" /\ f.kids[1] = g
  \/ g.op = "not" /\ g.kids[1] = f
ContainsComplements(f) ==
  \E i, j \in DOMAIN f.kids : i < j /\ Complementary(f.kids[i], f.kids[j])

\* prop_subsume_share: f is a part of g, for disjunctions, literals, TRUE and FALSE.
PropSubsume(f, g) ==
  \/ f = False
  \/ g = True
  \/ /\ g.op = "or"
     /\ IF f.op = "or" THEN ToSet(f.kids) \subseteq ToSet(g.kids) ELSE f \in ToSet(g.kids)
  \/ g.op # "or" /\ f = g

\* remove_subsumed_share: of two kids one of which subsumes the other, the later goes
\* if it can; a kid that is gone subsumes nothing.
RemoveSubsumed(f) ==
  LET n == Len(f.kids)
      \* those left of alive after kid i was compared with the later ones
      compared(alive, i) ==
        FoldLeft(LAMBDA a, j :
                   CASE ~ {i, j} \subseteq a -> a
                     [] {i, j} \subseteq a /\ PropSubsume(f.kids[i], f.kids[j]) -> a \ {j}
                     [] OTHER -> IF PropSubsume(f.kids[j], f.kids[i]) THEN a \ {i} ELSE a,
                 alive, [k \in 1 .. n - i |-> i + k])
      left == FoldLeft(compared, 1 .. n, [i \in 1 .. n |-> i])
  IN  IF f.op # "and" THEN f
      ELSE And([k \in 1 .. Cardinality(left) |-> f.kids[SetToSortSeq(left, <)[k]]])

\* simplify_and_share
WithoutComplements(f) ==
  CASE f.op # "and" -> f
    [] f.op = "and" /\ Len(f.kids) = 1 -> f.kids[1]
    [] f.op = "and" /\ Len(f.kids) # 1 -> IF ContainsComplements(f) THEN False ELSE f
SimplifyAnd(f) == WithoutComplements(RemoveSubsumed(f))
RemoveSubsumedKids(f) == Dual(RemoveSubsumed(Dual(f)))   \* of a disjunction

\* disjoin_flatten_simplify
DisjoinFlattenSimplify(f, g) ==
  LET a == MakeDisjunction(f).kids
      b == MakeDisjunction(g).kids
  IN  IF \E i \in DOMAIN a, j \in DOMAIN b :
           /\ Complementary(a[i], b[j])
           /\ \A k \in 1 .. i - 1 : a[k] # b[j]
      THEN True
      ELSE Or(a \o SelectSeq(b, LAMBDA l : l \notin ToSet(a)))

-----------------------------------------------------------------------------
(* Distribution of OR over AND.                                            *)

RECURSIVE Bbt(_, _, _)
Bbt(f, start, end) ==
  LET mid == (start + end) \div 2
  IN  IF start = end THEN f.kids[start + 1]
      ELSE Node(f.op, "", <<Bbt(f, start, mid), Bbt(f, mid + 1, end)>>)
BalancedBinary(f) ==
  IF f.op \in {"and", "or"} /\ f.kids # <<>> THEN Bbt(f, 0, Len(f.kids) - 1) ELSE f

\* distribute_top, of a binary disjunction.  limit is Cnf_clause_limit, 0 for none.
DistributeTop(h, limit) ==
  LET f == MakeConjunction(h.kids[1]).kids
      g == MakeConjunction(h.kids[2]).kids
      n == Len(f) * Len(g)
  IN  IF limit > 0 /\ n > limit THEN Limit
      ELSE SimplifyAnd(And([k \in 1 .. n |->
             DisjoinFlattenSimplify(f[((k - 1) \div Len(g)) + 1], g[((k - 1) % Len(g)) + 1])]))

\* distribute.  A disjunction of one kid is replaced by that kid and then read as if it
\* had two kids: undefined unless the kid is a disjunction or conjunction of two or more.
RECURSIVE Distribute(_, _)
Distribute(f, limit) ==
  LET g == IF Len(f.kids) = 2 THEN f ELSE BalancedBinary(f)
      h == Or(<<Distribute(g.kids[1], limit), Distribute(g.kids[2], limit)>>)
  IN  CASE f.op # "or" \/ f.kids = <<>> -> f
        [] f.op = "or" /\ f.kids # <<>> /\ (g.op \notin {"and", "or"} \/ Len(g.kids) < 2) -> Crash
        [] OTHER -> IfNoneFailed(LAMBDA k : DistributeTop(k, limit), h)

\* cnf: of an NNF without quantifiers that is flat.
RECURSIVE Cnf(_, _)
Cnf(f, limit) ==
  LET g == OnKids(LAMBDA k : Cnf(k, limit), f)
  IN  CASE f.op = "and" -> IfNoneFailed(LAMBDA k : SimplifyAnd(FlattenTop(k)), g)
        [] f.op = "or" /\ f.kids # <<>> ->
             IfNoneFailed(LAMBDA k : Distribute(BalancedBinary(RemoveSubsumedKids(k)), limit), g)
        [] OTHER -> f

-----------------------------------------------------------------------------
(* Definitional conjunctive normal form.                                   *)

\* collect_vars_in_formula: the VARIABLEs, in increasing order.
RECURSIVE VariablesOf(_)
VariablesOf(f) ==
  IF f.op = "var" THEN {f.name} ELSE UNION {VariablesOf(f.kids[i]) : i \in DOMAIN f.kids}
RECURSIVE SubstVariable(_, _, _)
SubstVariable(f, v, t) ==
  IF f.op = "var" THEN (IF f.name = v THEN t ELSE f)
                  ELSE OnKids(LAMBDA k : SubstVariable(k, v, t), f)

\* A mutant: the names chosen so far are not passed on, so that all are x0.
ClosedDefinitionSameName(atom, sub) ==
  LET names == [i \in 1 .. Len(atom.kids) |-> atom.kids[i].name]
      body  == FoldLeft(LAMBDA f, v : SubstVariable(f, v, Rigid("x0")), Iff(atom, sub), names)
  IN  FoldLeft(LAMBDA f, v : All("x0", f), body, names)

\* The definition as it is recorded: closed over its VARIABLEs, which take the names
\* x0, x1, ... from the highest down.
ClosedDefinition(atom, sub) ==
  LET vars == [i \in 1 .. Len(atom.kids) |-> atom.kids[i].name]
      n    == Len(vars)
      x(i) == "x" \o ToString(n - i)
      body == FoldLeft(LAMBDA f, i : SubstVariable(f, vars[i], Rigid(x(i))),
                       Iff(atom, sub), [i \in 1 .. n |-> i])
  IN  FoldLeft(LAMBDA f, k : All(x(n + 1 - k), f), body, [k \in 1 .. n |-> k])

\* introduce_definition.  st: clauses has the definition clauses, the last one first,
\* records the recorded definitions; the result stands for sub.
IntroduceDefinition(st, sub) ==
  LET vars    == SetToSortSeq(VariablesOf(sub), LAMBDA a, b : VarNum(a) < VarNum(b))
      atom    == Atom("defn_" \o ToString(Len(st.records)) \o "0",
                      [i \in 1 .. Len(vars) |-> Node("var", vars[i], <<>>)])
      clauses == [i \in 1 .. Len(MakeConjunction(sub).kids) |->
                    DisjoinFlattenSimplify(Not(atom), MakeConjunction(sub).kids[i])]
  IN  [st |-> [clauses |-> Reverse(clauses) \o st.clauses,
               records |-> Append(st.records, ClosedDefinition(atom, sub))],
       f  |-> atom]

\* The renaming loop of cnf_def: while the kids of a disjunction would distribute to
\* more than threshold clauses, the first of the kids with most clauses is renamed.
\* Counting stops at the kid before which the product is exceeded.
RECURSIVE RenameKids(_, _, _)
RenameKids(st, f, threshold) ==
  LET count(j)   == IF f.kids[j].op = "and" THEN Len(f.kids[j].kids) ELSE 1
      product[j \in 0 .. Len(f.kids)] == IF j = 0 THEN 1 ELSE product[j - 1] * count(j)
      exceeded   == \E j \in DOMAIN f.kids : product[j] > threshold
      counted    == {j \in DOMAIN f.kids : \A k \in 1 .. j - 1 : product[k] <= threshold}
      largest    == CHOOSE j \in counted : /\ \A k \in counted : count(j) >= count(k)
                                           /\ \A k \in 1 .. j - 1 : count(j) > count(k)
      r          == IntroduceDefinition(st, f.kids[largest])
  IN  IF exceeded /\ count(largest) > 1
      THEN RenameKids(r.st, [f EXCEPT !.kids[largest] = r.f], threshold)
      ELSE [st |-> st, f |-> f]

\* What cnf_def makes of a node whose kids are done: of a conjunction, of a disjunction.
CnfDefAnd(done) == [done EXCEPT !.f = IfNoneFailed(LAMBDA g : SimplifyAnd(FlattenTop(g)), @)]
CnfDefOr(done, threshold, limit) ==
  LET distributed(r) == [r EXCEPT !.f = Distribute(BalancedBinary(@), limit)]
  IN  IF \E i \in DOMAIN done.f.kids : Failed(done.f.kids[i])
      THEN [done EXCEPT !.f = IfNoneFailed(LAMBDA g : g, @)]
      ELSE distributed(RenameKids(done.st, RemoveSubsumedKids(done.f), threshold))

RECURSIVE CnfDef(_, _, _, _)
CnfDef(st, f, threshold, limit) ==
  LET kids == Thread(LAMBDA s, k : CnfDef(s, k, threshold, limit), st, f)
  IN  CASE f.op = "and"                 -> CnfDefAnd(kids)
        [] f.op = "or" /\ f.kids # <<>> -> CnfDefOr(kids, threshold, limit)
        [] OTHER                        -> [st |-> st, f |-> f]

\* The end of clausify_prepare_cap: the matrix in conjunctive normal form, followed by
\* the definition clauses as they are.  records are the definitions of earlier formulas;
\* threshold 0 is plain CNF.
WithDefinitions(r) ==
  [records |-> r.st.records,
   f |-> IF Failed(r.f) \/ r.st.clauses = <<>> THEN r.f
         ELSE And(MakeConjunction(r.f).kids \o r.st.clauses)]
Matrix(f, records, threshold, limit) ==
  LET st == [clauses |-> <<>>, records |-> records]
  IN  WithDefinitions(IF threshold = 0 THEN [st |-> st, f |-> Cnf(f, limit)]
                                       ELSE CnfDef(st, f, threshold, limit))

-----------------------------------------------------------------------------
(* Miniscoping, for problem reduction.                                     *)

\* A mutant: the quantifier goes to every disjunct that has its variable.
MsFreeVarsEach(f) ==
  LET child == f.kids[1]
  IN  IF child.op # "or" THEN f
      ELSE OnKids(LAMBDA k : IF OccursFree(f.name, k) THEN All(f.name, k) ELSE k, child)

\* ms_free_vars: the quantifier goes, or goes to the disjuncts that have its variable.
MsFreeVars(f) ==
  LET child   == f.kids[1]
      has(k)  == OccursFree(f.name, k)
      free    == SelectSeq(child.kids, has)
      notfree == SelectSeq(child.kids, LAMBDA k : ~ has(k))
  IN  CASE child.op # "or" -> IF has(child) THEN f ELSE child
        [] child.op = "or" /\ notfree = <<>> -> f
        [] child.op = "or" /\ notfree # <<>> /\ free = <<>> -> child
        [] OTHER -> Or(Append(notfree, All(f.name, Or(free))))

RECURSIVE Miniscope(_, _)
Miniscope(f, limit) ==
  LET g == OnKids(LAMBDA k : Miniscope(k, limit), f)
      scoped(k) == IF k.kids[1].op # "and" THEN MsFreeVars(k)
                   ELSE OnKids(LAMBDA c : MsFreeVars(All(k.name, c)), k.kids[1])
  IN  CASE LiteralFormula(f) -> f
        [] f.op = "exists"   -> LET d == Miniscope(Dual(f), limit)
                                IN  IF Failed(d) THEN d ELSE Dual(d)
        [] f.op = "all"      -> IfNoneFailed(scoped, g)
        [] f.op = "and"      -> IfNoneFailed(LAMBDA k : SimplifyAnd(FlattenTop(k)), g)
        [] f.op = "or" /\ f.kids # <<>> ->
             IfNoneFailed(LAMBDA k : Distribute(BalancedBinary(RemoveSubsumedKids(FlattenTop(k))),
                                                limit), g)
        [] OTHER -> f
=============================================================================
