----------------------------- MODULE MCInference -----------------------------
(* Problems for InferenceContract. *)
EXTENDS InferenceContract

x == Var(0)
y == Var(1)
z == Var(2)
a == App("a", <<>>)
b == App("b", <<>>)
c0 == App("c", <<>>)
f(s) == App("f", <<s>>)
g(s, t) == App("g", <<s, t>>)
P(s) == App("P", <<s>>)
Q(s) == App("Q", <<s>>)
R(s, t) == App("R", <<s, t>>)
Eq(s, t) == App("=", <<s, t>>)

Lit(neg, atom) ==
  [neg |-> neg, atom |-> atom, max |-> TRUE, maxs |-> TRUE, sel |-> FALSE, orient |-> "none"]
Pos(atom) == Lit(FALSE, atom)
Neg(atom) == Lit(TRUE, atom)
Lesser(lit) == [lit EXCEPT !.max = FALSE]
Selected(lit) == [lit EXCEPT !.sel = TRUE]
Oriented(lit) == [lit EXCEPT !.orient = "oriented"]
Renamable(lit) == [lit EXCEPT !.orient = "renamable"]
Input(lits) == [lits |-> lits, initial |-> TRUE, ans |-> <<>>]
Derived(lits) == [lits |-> lits, initial |-> FALSE, ans |-> <<>>]
Answer(lits, ans) == [lits |-> lits, initial |-> TRUE, ans |-> ans]

Problem(rules, clauses) ==
  [rules |-> rules, clauses |-> clauses, ordered |-> TRUE,
   initialNuclei |-> FALSE, urNucleusLimit |-> 4, deadline |-> FALSE,
   paraFromVars |-> TRUE, paraIntoVars |-> FALSE, paraFromSmall |-> FALSE]

\* Transitivity, a satellite of two literals, and a nucleus given after its satellites;
\* the occurs check refuses R(x, x) for R(y, f(y)).
Chain ==
  <<Input(<<Neg(R(x, y)), Neg(R(y, z)), Pos(R(x, z))>>),
    Answer(<<Pos(R(a, x))>>, <<x>>),
    Input(<<Pos(R(b, f(x))), Lesser(Pos(Q(x)))>>),
    Input(<<Neg(R(x, x)), Neg(Q(f(y)))>>),
    Input(<<Pos(R(y, f(y)))>>)>>

\* Equalities mated as they are, flipped, and with x=x.
Equalities ==
  <<Input(<<Pos(Eq(g(x, a), b))>>),
    Input(<<Neg(Eq(x, y)), Neg(Eq(y, g(z, z))), Pos(R(x, z))>>),
    Input(<<Pos(Eq(g(a, x), g(x, a)))>>)>>

\* Negative hyperresolution into positive equalities.
Denials ==
  <<Input(<<Pos(Eq(g(x, y), f(z))), Neg(Q(x))>>),
    Input(<<Neg(Eq(f(a), g(b, y)))>>),
    Input(<<Pos(Eq(f(y), g(x, x))), Pos(Q(y))>>),
    Input(<<Neg(Q(a))>>),
    Input(<<Pos(Eq(g(b, x), f(y))), Neg(P(y))>>)>>

\* Unit resolution: nuclei of which all literals but one are resolved.
Units ==
  <<Input(<<Neg(P(x)), Neg(R(x, y)), Pos(Q(y))>>),
    Input(<<Pos(P(a))>>),
    Input(<<Pos(R(z, b))>>),
    Input(<<Neg(Q(b))>>),
    Input(<<Pos(Q(f(x)))>>),
    Input(<<Pos(P(f(x))), Neg(Eq(x, y)), Neg(Q(y))>>),
    Input(<<Pos(Eq(f(x), a))>>),
    Input(<<Neg(P(f(x)))>>)>>
UnitsDerived ==
  <<Derived(<<Neg(P(x)), Pos(Q(x))>>), Input(<<Pos(P(a))>>), Input(<<Neg(P(x)), Pos(R(x, x))>>)>>

\* Binary resolution, with a selected literal and without.
Selecting ==
  <<Input(<<Selected(Neg(P(x))), Pos(P(f(x))), Pos(Q(x))>>),
    Input(<<Pos(P(a))>>),
    Input(<<Neg(Eq(g(x, y), f(z))), Lesser(Pos(P(y)))>>),
    Input(<<Pos(Eq(f(x), g(y, a)))>>),
    Input(<<Neg(P(f(f(y))))>>),
    Input(<<Pos(P(g(x, y))), Neg(Eq(x, f(y)))>>)>>

\* Factors, and the binary resolvents of a clause with itself.
Factors ==
  <<Input(<<Pos(R(x, a)), Pos(R(b, y)), Neg(Q(x))>>), Input(<<Pos(P(x)), Pos(P(f(y))), Pos(P(y))>>),
    Input(<<Neg(P(f(a))), Neg(P(f(x)))>>)>>

\* Paramodulation with an oriented, a renamable and a conditional equality.
Rewrites ==
  <<Input(<<Oriented(Pos(Eq(g(x, a), x)))>>),
    Input(<<Renamable(Pos(Eq(g(x, y), g(y, x))))>>),
    Input(<<Pos(P(g(a, f(a))))>>),
    Input(<<Oriented(Pos(Eq(f(x), b))), Lesser(Neg(Q(x)))>>)>>
\* An equality with a variable side, into a negative equality and into a clause with a
\* selected literal.
VariableSides ==
  <<Input(<<Pos(Eq(x, f(y)))>>),
    Input(<<Neg(Eq(f(a), b)), Lesser(Pos(Q(b)))>>),
    Input(<<Selected(Neg(P(f(x)))), Pos(Eq(f(b), x))>>),
    Input(<<Oriented(Pos(Eq(b, a))), Lesser(Pos(Q(x)))>>),
    Input(<<Oriented(Pos(Eq(g(a, a), b)))>>)>>

MCProblems ==
  {Problem({"posHyper"}, Chain),
   [Problem({"posHyper"}, Chain) EXCEPT !.deadline = TRUE],
   [Problem({"posHyper", "negHyper"}, Equalities) EXCEPT !.ordered = FALSE],
   Problem({"negHyper"}, Denials),
   Problem({"posUr", "negUr"}, Units),
   [Problem({"posUr"}, UnitsDerived) EXCEPT !.initialNuclei = TRUE],
   [Problem({"posUr"}, Units) EXCEPT !.urNucleusLimit = 2],
   Problem({"binary"}, Selecting),
   Problem({"negBinary"}, Selecting),
   Problem({"binary", "factor"}, Factors),
   Problem({"para"}, Rewrites),
   [Problem({"para"}, VariableSides) EXCEPT !.paraIntoVars = TRUE],
   Problem({"para"}, VariableSides),
   [Problem({"para"}, Rewrites) EXCEPT !.paraFromSmall = TRUE, !.paraFromVars = FALSE]}
==============================================================================
