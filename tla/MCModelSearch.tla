---------------------------- MODULE MCModelSearch ----------------------------
(***************************************************************************)
(* ModelSearch on small sets of clauses.  The inputs are chosen so that    *)
(* every rule of propagation, every kind of cell and every way a search    *)
(* can end occurs: with and without models, with models the least number   *)
(* heuristic identifies, with Skolem functions searched last, with tables  *)
(* fixed in advance, with contradictory clauses and elements out of range. *)
(***************************************************************************)
EXTENDS ModelSearch

MCArity == "c" :> 0 @@ "d" :> 0 @@ "f" :> 1 @@ "s" :> 1 @@ "h" :> 2 @@ "+" :> 2
           @@ "P" :> 1 @@ "R" :> 2 @@ "<" :> 2
Fn(name, t) == App(name, <<t>>)
Bin(name, t, u) == App(name, <<t, u>>)
Equal(t, u) == Pos(Bin("=", t, u))
Differ(t, u) == Neg(Bin("=", t, u))
x == Var(0)
y == Var(1)
C == App("c", <<>>)
D == App("d", <<>>)

AllRules == {"assign", "elim", "near_assign", "near_elim"}
Default == [lnh |-> TRUE, negprop |-> TRUE, rules |-> AllRules, skolemsLast |-> FALSE,
            order |-> "band", measure |-> "crossed", maxModels |-> -1,
            special |-> "none", interrupts |-> FALSE, checkpointExit |-> FALSE]

Problem(syms, clauses, sizes, opt) ==
  [syms |-> syms, clauses |-> clauses, sizes |-> sizes, opt |-> opt]

\* f is an involution without a fixed point.
Involution == << <<Equal(Fn("f", Fn("f", x)), x)>>, <<Differ(Fn("f", x), x)>> >>

\* P is closed under f, holds of c and not of d.
Closed == << <<Pos(Fn("P", C))>>, <<Neg(Fn("P", D))>>,
             <<Neg(Fn("P", x)), Pos(Fn("P", Fn("f", x)))>> >>

\* f is onto: s is its Skolem function; f is not the identity.
Onto == << <<Equal(Fn("f", Fn("s", x)), x)>>, <<Differ(Fn("f", C), C)>> >>

\* h is commutative and idempotent.
Band == << <<Equal(Bin("h", x, x), x)>>, <<Equal(Bin("h", x, y), Bin("h", y, x))>> >>

\* R is irreflexive and relates every x with f(x).
Serial == << <<Neg(Bin("R", x, x))>>, <<Pos(Bin("R", x, Fn("f", x)))>> >>

\* A law of quasigroups, and h is not a projection.
Quasi == << <<Equal(Bin("h", Bin("h", x, y), y), x)>>, <<Differ(Bin("h", C, D), C)>> >>

\* f moves f(x) to c or nowhere.
Nested == << <<Differ(Fn("f", Fn("f", x)), C), Pos(Fn("P", x))>>, <<Neg(Fn("P", Fn("f", C)))>>,
             <<Equal(Fn("f", Fn("f", x)), D), Pos(Fn("P", Fn("f", x)))>> >>

Below == << <<Pos(Bin("<", C, D))>>, <<Differ(Fn("f", x), D)>>, <<Pos(Bin("<", x, Fn("f", x))), Equal(x, D)>> >>
Ring  == << <<Equal(Bin("+", C, C), D)>>, <<Equal(Bin("+", Fn("f", x), x), D)>> >>
Named == << <<Equal(Fn("f", Elem(0)), Elem(2))>>, <<Differ(Fn("f", Fn("f", x)), x)>>,
            <<Differ(Fn("f", Fn("f", Fn("f", x))), Elem(1))>> >>
Absurd == << <<Pos(Fn("P", x))>>, <<Neg(Fn("P", C))>> >>

\* f has no cycle of length two and no fixed point; without a fixed point.
Acyclic == << <<Differ(Fn("f", Fn("f", x)), x)>>, <<Differ(Fn("f", x), x)>> >>
Moving  == << <<Differ(Fn("f", x), x)>> >>
Interrupted == [Default EXCEPT !.interrupts = TRUE]
Exiting == [Interrupted EXCEPT !.checkpointExit = TRUE]

MCProblems ==
  << Problem(<<"f">>, Involution, <<2, 3, 4>>, Default),
     Problem(<<"c", "d", "f", "P">>, Closed, <<2, 3>>, Default),
     Problem(<<"c", "f", "s">>, Onto, <<2, 3>>,
             [Default EXCEPT !.skolemsLast = TRUE, !.measure = "propagations", !.order = "concentric"]),
     Problem(<<"h">>, Band, <<2>>, [Default EXCEPT !.measure = "contradictions"]),
     Problem(<<"f", "R">>, Serial, <<2, 3>>, [Default EXCEPT !.order = "linear", !.measure = "none"]),
     Problem(<<"c", "d", "f", "<">>, Below, <<2, 3>>,
             [Default EXCEPT !.special = "order_domain", !.lnh = FALSE, !.measure = "occurrences"]),
     Problem(<<"c", "d", "f", "+">>, Ring, <<3>>, [Default EXCEPT !.special = "integer_ring", !.lnh = FALSE]),
     Problem(<<"f">>, Named, <<2, 4>>, Default),
     Problem(<<"c", "P">>, Absurd, <<2, 3>>, Default),
     Problem(<<"f">>, Acyclic, <<2, 3>>, Interrupted),
     Problem(<<"c", "f">>, Moving, <<2, 3>>, [Exiting EXCEPT !.maxModels = 2]),
     Problem(<<"c", "d", "P">>, << <<Pos(Fn("P", C))>>, <<Neg(Fn("P", D))>> >>, <<2, 3>>, [Default EXCEPT !.lnh = FALSE, !.negprop = FALSE]),
     Problem(<<"c", "d", "h">>, Quasi, <<2, 3>>, Default),
     Problem(<<"c", "d", "f", "P">>, Nested, <<2, 3>>, [Default EXCEPT !.measure = "contradictions"]) >>

\* c = 0 has models; c = 1 has none, which one more selection finds out.
P0 == Fn("P", Elem(0))
P1 == Fn("P", Elem(1))
NotAtOne == << <<Differ(C, Elem(1)), Pos(P0), Pos(P1)>>, <<Differ(C, Elem(1)), Pos(P0), Neg(P1)>>,
               <<Differ(C, Elem(1)), Neg(P0), Pos(P1)>>, <<Differ(C, Elem(1)), Neg(P0), Neg(P1)>> >>
LastSubtreeProblem == << Problem(<<"c", "P">>, NotAtOne, <<2>>, Default) >>
==============================================================================
