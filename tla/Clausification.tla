--------------------------- MODULE Clausification ---------------------------
(***************************************************************************)
(* From formulas to clauses.  prover9 clausifies every assumption and the  *)
(* negation of the goal (ladr/top_input.c, clausify.c), and searches once; *)
(* fof-prover9 (provers.src/foffer.c) first reduces the denial to a        *)
(* disjunction of subproblems, then clausifies and searches them one after *)
(* the other.  Both pass a formula through the passes of NormalForms.      *)
(*                                                                         *)
(* A problem is [hyps |-> formulas, goals |-> at most one formula].  The   *)
(* search is external: it may prove what it is given only if that has no   *)
(* model of two elements.                                                  *)
(***************************************************************************)
EXTENDS NormalForms

CONSTANTS
  Problems,      \* the problems that can be the input
  FrontEnds,     \* a subset of {"prover9", "fof-prover9"}
  Thresholds,    \* values of definitional_cnf; 0 is off
  ClauseLimits   \* values of cnf_clause_limit; 0 is none

ASSUME ProblemsAssumption == \A p \in Problems : Len(p.goals) <= 1
ASSUME FrontEndsAssumption == FrontEnds \subseteq {"prover9", "fof-prover9"}
ASSUME NumbersAssumption == Thresholds \subseteq Nat /\ ClauseLimits \subseteq Nat

VARIABLES
  problem, front, threshold, limit,   \* the input; they do not change
  pc,            \* the next thing to do, or how it ended
  todo,          \* the formulas still to be clausified, as [goal, f]
  subproblems,   \* of fof-prover9: the disjuncts of the reduced denial
  form,          \* the formula in hand
  captured,      \* the forms kept for the printed proof: [input, nnf, skolem]
  sk,            \* the Skolem numbers to be used next, and the names to avoid
  records,       \* the definitions introduced so far
  clauses        \* the clauses made so far, of a subproblem in fof-prover9
input == <<problem, front, threshold, limit>>
vars  == <<input, pc, todo, subproblems, form, captured, sk, records, clauses>>

\* The rigid symbols of a formula with their arities.
RECURSIVE Symbols(_)
Symbols(f) ==
  LET below == UNION {Symbols(f.kids[i]) : i \in DOMAIN f.kids}
  IN  CASE f.op = "atom" -> (IF f.name = "=" THEN {} ELSE {<<"atom", f.name, Len(f.kids)>>}) \cup below
        [] f.op = "term" -> {<<"term", f.name, Len(f.kids)>>} \cup below
        [] QuantForm(f)  -> below \ {<<"term", f.name, 0>>}
        [] OTHER         -> below

Hyps   == problem.hyps
Closed(fs) == [i \in 1 .. Len(fs) |-> UniversalClosure(fs[i])]
\* construct_problem, negated.
Denied == Not(Imp(And(Closed(Hyps)), IF problem.goals = <<>> THEN False
                                     ELSE And(Closed(problem.goals))))

NoSkolemYet(taken) == [c |-> 1, f |-> 1, taken |-> taken]
NoForm == [input |-> True, nnf |-> True, skolem |-> True]

-----------------------------------------------------------------------------
(* prover9 takes the assumptions, then the goal.  The names to avoid are   *)
(* those of the whole input.                                               *)

Init ==
  /\ problem \in Problems /\ front \in FrontEnds
  /\ threshold \in Thresholds /\ limit \in ClauseLimits
  /\ pc = IF front = "prover9" THEN "next" ELSE "reduce"
  /\ todo = [i \in 1 .. Len(Hyps) |-> [goal |-> FALSE, f |-> Hyps[i]]]
              \o [i \in 1 .. Len(problem.goals) |-> [goal |-> TRUE, f |-> problem.goals[i]]]
  /\ subproblems = <<>> /\ form = True /\ captured = NoForm
  /\ sk = NoSkolemYet({<<s[2], s[3]>> : s \in Symbols(And(Hyps \o problem.goals))})
  /\ records = <<>> /\ clauses = <<>>

\* The literals of a clause: formula_to_literals.
RECURSIVE Literals(_)
Literals(f) == IF f.op = "or" THEN FlattenSeq([i \in 1 .. Len(f.kids) |-> Literals(f.kids[i])])
                              ELSE <<f>>
\* renumber_variables: the VARIABLEs become 0, 1, ... in order of occurrence.
RECURSIVE VariableSeq(_)
VariableSeq(f) == IF f.op = "var" THEN <<f>>
                  ELSE Distinct(FlattenSeq([i \in 1 .. Len(f.kids) |-> VariableSeq(f.kids[i])]))
RECURSIVE Renumber(_, _)
Renumber(f, vs) == IF f.op = "var" THEN Variable((CHOOSE i \in DOMAIN vs : vs[i] = f) - 1)
                   ELSE OnKids(LAMBDA k : Renumber(k, vs), f)
ToClause(f) == LET c == Or(Literals(f)) IN Renumber(c, VariableSeq(c))
\* formula_to_clauses
ToClauses(f) == IF f.op = "and" THEN [i \in 1 .. Len(f.kids) |-> ToClause(f.kids[i])]
                                ELSE <<ToClause(f)>>

\* process_input_formulas: a clause is taken as it is, its free variables as VARIABLEs.
TakeClause ==
  /\ pc = "next" /\ todo # <<>>
  /\ ~ Head(todo).goal /\ ClausalFormula(Head(todo).f)
  /\ clauses' = clauses \o ToClauses(RemoveUniversalQuantifiers(UniversalClosure(Head(todo).f)))
  /\ todo' = Tail(todo)
  /\ UNCHANGED <<input, pc, subproblems, form, captured, sk, records>>

\* process_input_formulas and process_goal_formulas: any other formula is closed, and
\* negated if it is the goal.  A subproblem of fof-prover9 is clausified as it is.
TakeFormula ==
  /\ pc = "next" /\ todo # <<>>
  /\ Head(todo).goal \/ ~ ClausalFormula(Head(todo).f)
  /\ LET f == UniversalClosure(Head(todo).f)
     IN  form' = IF Head(todo).goal THEN Not(f) ELSE f
  /\ captured' = [NoForm EXCEPT !.input = form']
  /\ pc' = "nnf" /\ todo' = Tail(todo)
  /\ UNCHANGED <<input, subproblems, sk, records, clauses>>

-----------------------------------------------------------------------------
(* clausify_prepare_cap and clausify_formula_cap.                          *)

NegationNormalForm ==
  /\ pc = "nnf"
  /\ form' = UniqueQuantifiedVars(Nnf(CanonEq(form)))
  /\ captured' = [captured EXCEPT !.nnf = form']
  /\ pc' = "skolemize"
  /\ UNCHANGED <<input, todo, subproblems, sk, records, clauses>>

\* skolemize_cap.  A name that was given out becomes part of the symbol table.
Skolemize ==
  /\ pc = "skolemize"
  /\ LET r == Skolem(sk, <<>>, form)
     IN  form' = r.f /\ sk' = r.st
  /\ captured' = [captured EXCEPT !.skolem = form']
  /\ pc' = "matrix"
  /\ UNCHANGED <<input, todo, subproblems, records, clauses>>

\* remove_universal_quantifiers, formula_flatten, and cnf or cnf_def.  Exceeding the
\* limit is fatal in prover9; fof-prover9 goes on without clauses.
MatrixMade(r) ==
  /\ form' = r.f /\ records' = r.records
  /\ pc' = CASE r.f = Crash -> "crashed"
             [] r.f = Limit -> IF front = "prover9" THEN "fatal" ELSE "search"
             [] OTHER       -> "clauses"
MakeMatrix ==
  /\ pc = "matrix"
  /\ MatrixMade(Matrix(FormulaFlatten(RemoveUniversalQuantifiers(form)), records,
                       threshold, limit))
  /\ UNCHANGED <<input, todo, subproblems, captured, sk, clauses>>

MakeClauses ==
  /\ pc = "clauses"
  /\ clauses' = clauses \o ToClauses(form)
  /\ form' = True
  /\ pc' = IF front = "prover9" THEN "next" ELSE "search"
  /\ UNCHANGED <<input, todo, subproblems, captured, sk, records>>

-----------------------------------------------------------------------------
(* fof-prover9: reduce_problem and the loop over the subproblems.          *)

\* The denial with its equivalences as disjunctions.  foffer wants its sizes only, but
\* nnf2 works in place and this is the formula that is reduced.
DenialNnf == Nnf2(Denied, "disjunction")

\* reduce_problem: miniscope_formula of that, negated, and negated again.  Its limit on
\* the number of calls is left out.
DeniedAgain(m) == IF Failed(m) THEN m ELSE MakeDisjunction(Nnf(Not(m)))
Reduced == DeniedAgain(Miniscope(FormulaFlatten(Nnf(CanonEq(Not(DenialNnf)))), limit))

\* Subproblems that are larger than the denial by both measures are not searched.
TooLarge(r, denial) ==
  LET largest(Op(_)) == Max({Op(r.kids[i]) : i \in DOMAIN r.kids} \cup {0})
  IN  /\ largest(FormulaSize)   > FormulaSize(denial)
      /\ largest(CnfMaxClauses) > CnfMaxClauses(denial)

\* If reduction fails nothing is searched.  From here on Skolem names are not checked.
ReducedTo(r) ==
  IF Failed(r) \/ TooLarge(r, DenialNnf)
  THEN /\ pc' = IF r = Crash THEN "crashed" ELSE "failed"
       /\ UNCHANGED <<subproblems, sk>>
  ELSE /\ pc' = IF r.kids = <<>> THEN "proved" ELSE "subproblem"
       /\ subproblems' = r.kids /\ sk' = NoSkolemYet({})
Reduce ==
  /\ pc = "reduce"
  /\ ReducedTo(Reduced)
  /\ todo' = <<>>
  /\ UNCHANGED <<input, form, captured, records, clauses>>

\* foffer_clausify: formula_copy of the first subproblem that is left.
StartSubproblem ==
  /\ pc = "subproblem"
  /\ form' = Head(subproblems)
  /\ captured' = [NoForm EXCEPT !.input = form']
  /\ pc' = "nnf"
  /\ UNCHANGED <<input, todo, subproblems, sk, records, clauses>>

-----------------------------------------------------------------------------
(* What formulas mean, in interpretations of two elements.                 *)

Domain == {0, 1}

Interpretations(symbols) ==
  LET values(s) == [[1 .. s[3] -> Domain] -> IF s[1] = "atom" THEN BOOLEAN ELSE Domain]
  IN  FoldSet(LAMBDA s, Is : {(s :> v) @@ I : v \in values(s), I \in Is}, {<<>>}, symbols)

RECURSIVE Value(_, _, _)
Value(t, I, env) ==
  IF t.kids = <<>> /\ t.name \in DOMAIN env THEN env[t.name]
  ELSE I[<<"term", t.name, Len(t.kids)>>][[i \in DOMAIN t.kids |-> Value(t.kids[i], I, env)]]

RECURSIVE Truth(_, _, _)
Truth(f, I, env) ==
  LET kid(i)   == Truth(f.kids[i], I, env)
      bound(d) == Truth(f.kids[1], I, (f.name :> d) @@ env)
  IN  CASE f.op = "atom" /\ f.name = "=" -> Value(f.kids[1], I, env) = Value(f.kids[2], I, env)
        [] f.op = "atom" /\ f.name # "=" ->
             I[<<"atom", f.name, Len(f.kids)>>][[i \in DOMAIN f.kids |-> Value(f.kids[i], I, env)]]
        [] f.op = "not"    -> ~ kid(1)
        [] f.op = "and"    -> \A i \in DOMAIN f.kids : kid(i)
        [] f.op = "or"     -> \E i \in DOMAIN f.kids : kid(i)
        [] f.op = "imp"    -> kid(1) => kid(2)
        [] f.op = "impby"  -> kid(2) => kid(1)
        [] f.op = "iff"    -> kid(1) = kid(2)
        [] f.op = "all"    -> \A d \in Domain : bound(d)
        [] f.op = "exists" -> \E d \in Domain : bound(d)
\* A formula or clause whose VARIABLEs are universal.
Holds(f, I) == \A env \in [VariablesOf(f) -> Domain] : Truth(f, I, env)
HasModel(f) == \E I \in Interpretations(Symbols(f)) : Holds(f, I)

-----------------------------------------------------------------------------
(* The search.                                                             *)

\* prover9 has all the clauses.
StartSearch ==
  /\ pc = "next" /\ todo = <<>>
  /\ pc' = "search"
  /\ UNCHANGED <<input, todo, subproblems, form, captured, sk, records, clauses>>

\* forking_search, and what foffer does after it: the next subproblem is tried only if
\* this one was proved, and its Skolem names start again.
Search ==
  /\ pc = "search"
  /\ \/ /\ ~ HasModel(And(clauses))
        /\ pc' = IF Len(subproblems) > 1 THEN "subproblem" ELSE "proved"
     \/ pc' = "failed"
  /\ IF front = "prover9" THEN UNCHANGED <<subproblems, sk, clauses>>
     ELSE subproblems' = Tail(subproblems) /\ sk' = NoSkolemYet({}) /\ clauses' = <<>>
  /\ UNCHANGED <<input, todo, form, captured, records>>

Next == \/ TakeClause \/ TakeFormula \/ NegationNormalForm \/ Skolemize \/ MakeMatrix
        \/ MakeClauses \/ Reduce \/ StartSubproblem \/ StartSearch \/ Search

Spec == Init /\ [][Next]_vars

-----------------------------------------------------------------------------
(* Properties.                                                             *)

\* What the clauses of a search stand for, and what has become of it so far.
Target  == IF front = "prover9" THEN Denied ELSE captured.input
Pending == [i \in 1 .. Len(todo) |-> IF todo[i].goal THEN Not(UniversalClosure(todo[i].f))
                                                     ELSE UniversalClosure(todo[i].f)]
Current == And(clauses \o <<form>> \o Pending)

\* Model by model: an interpretation of the input's symbols makes what is clausified true
\* iff the symbols introduced since (Skolem functions and definitions) can be interpreted
\* so that the clauses, the formula in hand and the formulas to come are true.
\* clausify.c:139-140: "the result should be unsatisfiable iff f is unsatisfiable".
MeaningKept ==
  pc \in {"next", "skolemize", "matrix", "clauses", "search"} /\ form # Limit =>
    LET new == Symbols(Current) \ Symbols(Target)
    IN  \A I \in Interpretations(Symbols(Target)) :
          Holds(Target, I) <=> \E J \in Interpretations(new) : Holds(Current, J @@ I)

\* The printed proof of a clausification holds step by step, with the symbols it names:
\* the negation normal form says what the input says (thm), the Skolemized form implies
\* it (esa), and the clauses follow from that and the recorded definitions (thm), as
\* cnf.c:1389-1394 claims of the definitions.
RecordedProofHolds ==
  pc = "clauses" =>
    LET made == And(ToClauses(form))
        all  == And(<<captured.input, captured.nnf, captured.skolem, form>> \o records)
    IN  \A I \in Interpretations(Symbols(all)) :
          /\ Holds(captured.nnf, I) <=> Holds(captured.input, I)
          /\ Holds(captured.skolem, I) => Holds(captured.nnf, I)
          /\ Holds(And(<<captured.skolem>> \o records), I) => Holds(made, I)

\* The denial is true exactly where one of the subproblems that are left is, so that
\* nothing is left exactly when the conjecture is proved (foffer.c).
ReductionExact ==
  front = "fof-prover9" /\ pc \in {"subproblem", "nnf", "search", "proved"} =>
    \A I \in Interpretations(Symbols(Denied)) :
      Holds(Denied, I) <=> Holds(Or(subproblems), I)

\* "THEOREM PROVED" is said only of a problem whose denial has no model.
ProvedMeansTheorem == pc = "proved" => ~ HasModel(Denied)
=============================================================================
