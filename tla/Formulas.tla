------------------------------ MODULE Formulas ------------------------------
(***************************************************************************)
(* Formulas (ladr/formula.c) as trees of nodes, the passes over them that  *)
(* keep their meaning, and the conversion to conjunctive normal form       *)
(* (ladr/cnf.c).  The code walks a tree with a stack of frames and changes *)
(* it in place; a pass is here a function of the tree.                     *)
(*                                                                         *)
(* A node is a record: op is its kind, name the predicate, symbol or bound *)
(* variable, kids its subformulas or arguments.  A term has the op "term", *)
(* or "var" for a VARIABLE.  Bound variables are rigid symbols, as in the  *)
(* code, until the universal quantifiers go.  Nodes the code shares and    *)
(* compares by pointer are equal nodes here.                               *)
(***************************************************************************)
EXTENDS Integers, Sequences, FiniteSets, SequencesExt, FiniteSetsExt, TLC

CONSTANTS
  SymbolOrder,     \* the symbols of arity 0 or more, by increasing SYMNUM
  VariableNames    \* variable_name: symbols that stand for variables if free

Node(op, name, kids) == [op |-> op, name |-> name, kids |-> SubSeq(kids, 1, Len(kids))]
\* f with Op applied to its kids.
OnKids(Op(_), f) == Node(f.op, f.name, [i \in 1 .. Len(f.kids) |-> Op(f.kids[i])])

Rigid(s)        == Node("term", s, <<>>)
Variable(n)     == Node("var", "_" \o ToString(n), <<>>)
VarNum(v)       == CHOOSE n \in 0 .. 99 : Variable(n).name = v
Atom(p, args)   == Node("atom", p, args)
Not(f)          == Node("not", "", <<f>>)
And(fs)         == Node("and", "", fs)
Or(fs)          == Node("or", "", fs)
Imp(f, g)       == Node("imp", "", <<f, g>>)
ImpBy(f, g)     == Node("impby", "", <<f, g>>)
Iff(f, g)       == Node("iff", "", <<f, g>>)
All(x, f)       == Node("all", x, <<f>>)
Exists(x, f)    == Node("exists", x, <<f>>)
True            == And(<<>>)
False           == Or(<<>>)

QuantForm(f)    == f.op \in {"all", "exists"}
LiteralFormula(f) == f.op = "atom" \/ (f.op = "not" /\ f.kids[1].op = "atom")
ClausalFormula(f) ==
  LET RECURSIVE Clausal(_)
      Clausal(g) == IF g.op = "or" THEN \A i \in DOMAIN g.kids : Clausal(g.kids[i])
                                   ELSE LiteralFormula(g)
  IN  Clausal(f)

MakeConjunction(f) == IF f.op = "and" THEN f ELSE And(<<f>>)
MakeDisjunction(f) == IF f.op = "or"  THEN f ELSE Or(<<f>>)

\* dual: a conjunction becomes a disjunction, and back; literals stay.
DualType(op) ==
  CASE op = "and" -> "or"  [] op = "or" -> "and"
    [] op = "all" -> "exists" [] op = "exists" -> "all" [] OTHER -> op
RECURSIVE Dual(_)
Dual(f) == IF LiteralFormula(f) THEN f
           ELSE OnKids(Dual, [f EXCEPT !.op = DualType(@)])

-----------------------------------------------------------------------------
(* Variables and substitution.                                             *)

\* The members of s, each at its first place.
Distinct(s) == FoldLeft(LAMBDA seen, v : IF v \in ToSet(seen) THEN seen ELSE Append(seen, v),
                        <<>>, s)

\* free_vars: the names of the free variables, in order of occurrence.
RECURSIVE FreeVars(_)
FreeVars(f) ==
  CASE f.op = "term" /\ f.kids = <<>> -> IF f.name \in VariableNames THEN <<f.name>> ELSE <<>>
    [] QuantForm(f) -> SelectSeq(FreeVars(f.kids[1]), LAMBDA v : v # f.name)
    [] OTHER -> Distinct(FlattenSeq([i \in 1 .. Len(f.kids) |-> FreeVars(f.kids[i])]))

UniversalClosure(f) == FoldRight(LAMBDA v, g : All(v, g), FreeVars(f), f)

\* subst_free_var and mark_free_vars_formula.  A name that the replacement
\* contains may be bound on the way: nothing is renamed.
RECURSIVE SubstFreeVar(_, _, _)
SubstFreeVar(f, target, replacement) ==
  CASE f.op = "term" /\ f.kids = <<>> -> IF f.name = target THEN replacement ELSE f
    [] QuantForm(f) /\ f.name = target -> f
    [] OTHER -> OnKids(LAMBDA k : SubstFreeVar(k, target, replacement), f)

RECURSIVE OccursFree(_, _)
OccursFree(name, f) ==
  CASE f.op = "term" /\ f.kids = <<>> -> f.name = name
    [] QuantForm(f) /\ f.name = name -> FALSE
    [] OTHER -> \E i \in DOMAIN f.kids : OccursFree(name, f.kids[i])

-----------------------------------------------------------------------------
(* Flattening and negation normal form.                                    *)

\* flatten_top: kids of the same kind give way to their kids.
FlattenTop(f) ==
  LET same(g) == g.op = f.op
      kids    == FlattenSeq([i \in 1 .. Len(f.kids) |->
                    IF same(f.kids[i]) THEN f.kids[i].kids ELSE <<f.kids[i]>>])
  IN  IF f.op \notin {"and", "or"} \/ ~ \E i \in DOMAIN f.kids : same(f.kids[i]) THEN f
      ELSE IF Len(kids) = 1 THEN kids[1] ELSE Node(f.op, "", kids)

RECURSIVE FormulaFlatten(_)
FormulaFlatten(f) == IF f.op = "atom" THEN f ELSE FlattenTop(OnKids(FormulaFlatten, f))

\* A mutant: the second conjunction denies only one side.
NotIffFormOneSided(a, b, pref) ==
  IF pref = "conjunction" THEN And(<<Or(<<a, b>>), Or(<<Not(a), Not(b)>>)>>)
                          ELSE Or(<<And(<<a, Not(b)>>), And(<<Not(a), Not(b)>>)>>)

\* What nnf2 makes of an equivalence and of its negation: pref says which connective is
\* outermost.
IffForm(a, b, pref) ==
  IF pref = "conjunction" THEN And(<<Imp(a, b), ImpBy(a, b)>>)
                          ELSE Or(<<And(<<a, b>>), And(<<Not(a), Not(b)>>)>>)
NotIffForm(a, b, pref) ==
  IF pref = "conjunction" THEN And(<<Or(<<a, b>>), Or(<<Not(a), Not(b)>>)>>)
                          ELSE Or(<<And(<<a, Not(b)>>), And(<<Not(a), b>>)>>)

RECURSIVE Nnf2(_, _)
Nnf2(f, pref) ==
  LET nnf(g) == Nnf2(g, pref)
      h == f.kids[1]
      a == h.kids[1]
      b == h.kids[2]
  IN  CASE LiteralFormula(f) -> f
        [] f.op \in {"all", "exists", "and", "or"} -> OnKids(nnf, f)
        [] f.op = "imp"   -> nnf(Or(<<Not(f.kids[1]), f.kids[2]>>))
        [] f.op = "impby" -> nnf(Or(<<f.kids[1], Not(f.kids[2])>>))
        [] f.op = "iff"   -> nnf(IffForm(f.kids[1], f.kids[2], pref))
        [] f.op = "not" /\ h.op = "not" -> nnf(a)
        [] f.op = "not" /\ h.op \in {"all", "exists", "and", "or"} ->
             OnKids(LAMBDA k : nnf(Not(k)), [h EXCEPT !.op = DualType(@)])
        [] f.op = "not" /\ h.op = "imp"   -> nnf(And(<<a, Not(b)>>))
        [] f.op = "not" /\ h.op = "impby" -> nnf(And(<<Not(a), b>>))
        [] f.op = "not" /\ h.op = "iff"   -> nnf(NotIffForm(a, b, pref))
Nnf(f) == Nnf2(f, "conjunction")

\* term_compare_ncv(s, t) == LESS_THAN, for terms without VARIABLEs: by kind, then by
\* symbol, then by the first arguments that differ.
SymNum(s) == CHOOSE i \in DOMAIN SymbolOrder : SymbolOrder[i] = s
RECURSIVE TermLess(_, _)
TermLess(s, t) ==
  IF (s.kids = <<>>) # (t.kids = <<>>) THEN s.kids = <<>>
  ELSE IF s.name # t.name THEN SymNum(s.name) < SymNum(t.name)
  ELSE \E i \in DOMAIN s.kids : /\ \A j \in 1 .. i - 1 : s.kids[j] = t.kids[j]
                                /\ TermLess(s.kids[i], t.kids[i])

\* formula_canon_eq: an equality has the greater term on its left.
RECURSIVE CanonEq(_)
CanonEq(f) ==
  CASE f.op = "atom" /\ f.name = "=" /\ TermLess(f.kids[1], f.kids[2]) ->
         Atom("=", <<f.kids[2], f.kids[1]>>)
    [] f.op = "atom" -> f
    [] OTHER -> OnKids(CanonEq, f)

RECURSIVE FormulaSize(_)
FormulaSize(f) ==
  IF f.op = "atom" THEN 1
  ELSE FoldLeft(LAMBDA n, k : n + FormulaSize(k), 1, f.kids)

\* cnf_max_clauses: the number of clauses of an NNF if nothing is simplified.
RECURSIVE CnfMaxClauses(_)
CnfMaxClauses(f) ==
  CASE QuantForm(f)   -> CnfMaxClauses(f.kids[1])
    [] f.op = "and"   -> FoldLeft(LAMBDA n, k : n + CnfMaxClauses(k), 0, f.kids)
    [] f.op = "or"    -> FoldLeft(LAMBDA n, k : n * CnfMaxClauses(k), 1, f.kids)
    [] OTHER          -> 1
=============================================================================
