------------------------------ MODULE MCClausify ------------------------------
(***************************************************************************)
(* Small problems for Clausification.  In modelled problems no variable is *)
(* called x0, x1, ... and no symbol c1 or f1.                              *)
(***************************************************************************)
EXTENDS Clausification

MCSymbolOrder   == <<"x", "y", "z", "a", "b", "p", "q">>
MCVariableNames == {"x", "y", "z", "x0"}

x == Rigid("x")
y == Rigid("y")
z == Rigid("z")
a == Rigid("a")
b == Rigid("b")
P(t)    == Atom("p", <<t>>)
Q(t, u) == Atom("q", <<t, u>>)
R(s)    == Atom(s, <<>>)
Eq(t, u) == Atom("=", <<t, u>>)
Hyp(f)  == [hyps |-> <<f>>, goals |-> <<>>]
Goal(f) == [hyps |-> <<>>, goals |-> <<f>>]

\* Quantifiers: the same variable bound twice, side by side and one in the other;
\* existential under universal; equivalences of quantified formulas; equalities.
Quantified ==
  { All("x", Exists("y", Q(x, y))),
    Exists("x", All("y", Exists("z", And(<<Q(x, z), Q(y, z)>>)))),
    Iff(All("x", P(x)), Exists("x", Q(x, x))),
    And(<<All("x", P(x)), Exists("x", Not(P(x))), All("y", Exists("x", Q(y, x)))>>),
    All("x", Imp(P(x), All("x", Exists("y", Q(x, y))))),
    Imp(P(x), Exists("x", Q(x, x))),
    All("x", Iff(P(x), Exists("y", And(<<Q(x, y), P(y)>>)))),
    ImpBy(Exists("y", Eq(y, a)), All("x", Or(<<P(x), Not(Eq(a, b))>>))),
    All("x", Or(<<P(x), And(<<Q(x, y), Not(P(y))>>), And(<<P(y), Not(Q(x, y))>>)>>)) }

\* Distribution: subsumed clauses, complements, TRUE and FALSE, and disjunctions of
\* conjunctions of two and three; the last one leaves a disjunction of one formula on
\* which distribute crashes.
Propositional ==
  LET r == R("r")  s == R("s")  t == R("t")
  IN  { Or(<<And(<<r, s>>), And(<<r, t>>), And(<<Not(s), t>>)>>),
        And(<<Or(<<r, s>>), Or(<<s, r, t>>), Or(<<r, Not(r)>>)>>),
        Iff(r, Iff(s, t)),
        And(<<r, Or(<<s, And(<<Not(r), r>>)>>)>>),
        Or(<<And(<<r, s, t>>), And(<<Not(r), Not(s)>>), t>>),
        Imp(And(<<r, s>>), r),
        Or(<<And(<<Or(<<And(<<r, s>>), And(<<r, Not(s)>>)>>), Or(<<r, t>>)>>), R("o")>>) }

Both == { [hyps |-> <<All("x", Exists("y", Q(x, y))), Exists("x", P(x))>>,
           goals |-> <<Exists("x", Exists("y", And(<<P(x), Q(x, y)>>)))>>],
          [hyps |-> <<Or(<<P(x), Not(Q(x, y))>>), Q(a, y)>>, goals |-> <<All("x", P(x))>>],
          [hyps |-> <<All("x", Iff(P(x), Q(x, x)))>>,
           goals |-> <<Iff(Exists("x", P(x)), Exists("x", Q(x, x)))>>] }

MCProblems == {Hyp(f) : f \in Quantified \cup Propositional}
                \cup {Goal(f) : f \in Quantified \cup Propositional} \cup Both

\* A bound x0 under a second binder of x, which is renamed to x0.  No theorem.
CaptureProblems ==
  { [hyps |-> <<All("x", And(<<P(x), All("x", Exists("x0", Q(x, Rigid("x0"))))>>)),
               Not(Q(x, x))>>, goals |-> <<>>] }
==============================================================================
