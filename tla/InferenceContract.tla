-------------------------- MODULE InferenceContract --------------------------
(***************************************************************************)
(* What the inference rules of Inference promise, stated without contexts, *)
(* trails, indexes or a clash stack: a conclusion is an instance, by a most*)
(* general unifier of plain terms, of copies of the premises that share no *)
(* variables.                                                              *)
(***************************************************************************)
EXTENDS Inference

\* A mate of a literal: a literal of another clause, or x=x; the literal may be flipped.
Mate(r, flip) == [ref |-> r, flip |-> flip]
Reflexive == Mate(NoRef, FALSE)

\* The literal r of a nucleus (copy 0) and its mate in copy k made equal.
EquationOf(r, mate, k) ==
  LET atom == LitAt(r).atom
      turned == IF mate.flip THEN Flip(atom) ELSE atom
  IN  IF mate = Reflexive THEN <<Copy(0, atom.a[1]), Copy(0, atom.a[2])>>
      ELSE <<Copy(0, turned), Copy(k, LitAt(mate.ref).atom)>>

\* A literal or an answer as a term.
LitTerm(lit) == IF lit.neg THEN App("not", <<lit.atom>>) ELSE lit.atom
AnswerTerm(t) == App("answer", <<t>>)

\* The terms of a copy of clause c, without the literals in dropped.
CopyOf(c, tag, dropped) ==
  LET kept == SelectSeq([l \in DOMAIN LitsOf(c) |-> l], LAMBDA l : l \notin dropped)
  IN  [k \in DOMAIN kept |-> Copy(tag, LitTerm(LitsOf(c)[kept[k]]))]
AnswersOf(c, tag) ==
  [i \in DOMAIN prob.clauses[c].ans |-> Copy(tag, AnswerTerm(prob.clauses[c].ans[i]))]

\* The instance of a sequence of terms by the solution of some equations, up to the
\* names of variables: the set of it, or the empty set if there is no solution.
Instances(equations, terms) ==
  {Canonical([i \in DOMAIN terms |-> Subst(sol, terms[i])]) : sol \in Mgus(equations)}

\* The clash of nucleus c by the mates chosen for some of its literals.
SortedSeq(S) == SetToSortSeq(S, <)
ClashInstances(c, mates) ==
  LET order == SortedSeq(DOMAIN mates)
      real == SelectSeq(order, LAMBDA k : mates[k] # Reflexive)
      equations == [i \in DOMAIN order |->
                      EquationOf(Ref(c, order[i]), mates[order[i]], order[i])]
      sat(k) == mates[k].ref
      terms == CopyOf(c, 0, DOMAIN mates)
                 \o FlattenSeq([i \in DOMAIN real |->
                      CopyOf(sat(real[i]).c, real[i], {sat(real[i]).l})])
                 \o AnswersOf(c, 0)
                 \o FlattenSeq([i \in DOMAIN real |-> AnswersOf(sat(real[i]).c, real[i])])
  IN  Instances(equations, terms)

\* The mates of literal r among literals that pass a test.
MatesOf(r, test(_)) ==
  LET opposite == {s \in ToSet(Indexed(~LitAt(r).neg)) : test(s)}
      flips == IF IsEq(LitAt(r).atom) THEN BOOLEAN ELSE {FALSE}
  IN  {Mate(s, flip) : s \in opposite, flip \in flips}
MatesOrReflexive(r, test(_)) ==
  MatesOf(r, test) \cup (IF LitAt(r).neg /\ IsEq(LitAt(r).atom) THEN {Reflexive} ELSE {})

\* Every choice of mates for the literals K of clause c in which the given clause has a
\* part.  The rule does not flip a given satellite of a negative hyperresolution.
MatesChosen(rule, c, K) ==
  LET options == [k \in K |-> MatesOrReflexive(Ref(c, k), LAMBDA s : SatTest(rule, s))]
      takesPart(mate) == mate.ref.c = given /\ ~(mate.flip /\ rule = "negHyper")
  IN  {f \in [K -> UNION Range(options)] :
         /\ \A k \in K : f[k] \in options[k]
         /\ c = given \/ \E k \in K : takesPart(f[k])}

Longest == Max({Len(LitsOf(c)) : c \in DOMAIN prob.clauses})

HyperReference(rule) ==
  LET clashed(c) == {l \in DOMAIN LitsOf(c) : LitsOf(c)[l].neg = ~Negated(rule)}
      nuclei == {c \in 1 .. given : clashed(c) # {}}
  IN  UNION {ClashInstances(c, f) : <<c, f>> \in
               UNION {{<<c, f>> : f \in MatesChosen(rule, c, clashed(c))} : c \in nuclei}}

UrReference(rule) ==
  LET lefts == {r \in {Ref(c, l) : c \in 1 .. given, l \in 1 .. Longest} :
                  /\ r.l =< Len(LitsOf(r.c)) /\ ~Unit(r.c) /\ NucleusAllowed(r.c)
                  /\ TargetTest(rule, LitAt(r))}
  IN  UNION {UNION {ClashInstances(r.c, f) :
                      f \in MatesChosen(rule, r.c, DOMAIN LitsOf(r.c) \ {r.l})} : r \in lefts}

BinaryReference(rule) ==
  LET test(s) == BinaryTest(rule, s)
      lits == {l \in DOMAIN LitsOf(given) : test(Ref(given, l))}
  IN  UNION {UNION {ClashInstances(given, l :> mate) :
                      mate \in MatesOrReflexive(Ref(given, l), test)} : l \in lits}

FactorReference ==
  LET factor(c, i, j) ==
        IF LitsOf(c)[i].neg = LitsOf(c)[j].neg
        THEN Instances(<< <<Copy(0, LitsOf(c)[i].atom), Copy(0, LitsOf(c)[j].atom)>> >>,
                       CopyOf(c, 0, {j}))
        ELSE {}
      pairs == {q \in (1 .. Longest) \X (1 .. Longest) : q[1] < q[2]}
  IN  UNION {factor(q[1], q[2][1], q[2][2]) :
               q \in {s \in (DOMAIN prob.clauses) \X pairs : s[2][2] =< Len(LitsOf(s[1]))}}

(***************************************************************************)
(* Paramodulation: an equation's side unified with a subterm and replaced. *)
(***************************************************************************)
RECURSIVE PositionsOf(_), Replaced(_, _, _)
PositionsOf(t) ==
  {<< >>} \cup UNION {{<<k>> \o pos : pos \in PositionsOf(t.a[k])} : k \in DOMAIN t.a}
Replaced(t, pos, new) ==
  IF pos = <<>> THEN new
  ELSE App(t.f, [k \in DOMAIN t.a |->
                   IF k = pos[1] THEN Replaced(t.a[k], Tail(pos), new) ELSE t.a[k]])

ParaInstances(f, side, i, pos) ==
  LET from == Copy(0, LitAt(f).atom)
      into == Copy(1, LitAt(i).atom)
      replaced == Replaced(into, pos, from.a[3 - side])
      intoTerm == IF LitAt(i).neg THEN App("not", <<replaced>>) ELSE replaced
      intoLits == [CopyOf(i.c, 1, {}) EXCEPT ![i.l] = intoTerm]
  IN  Instances(<< <<from.a[side], SubtermAt(into, pos)>> >>,
                CopyOf(f.c, 0, {f.l}) \o intoLits \o AnswersOf(f.c, 0) \o AnswersOf(i.c, 1))

\* The overlaps of the given clause with the usable ones, in both directions.
ParaOverlaps ==
  LET lits(c) == {Ref(c, l) : l \in DOMAIN LitsOf(c)}
      withGiven(from) == IF from = given THEN 1 .. given ELSE {given}
      sides(f) == {s \in {1, 2} : /\ s = 1 \/ FromRight(f)
                                  /\ ~IsVar(LitAt(f).atom.a[s]) \/ prob.paraFromVars}
      places(i) == {pos \in PositionsOf(LitAt(i).atom) :
                      pos # <<>> /\ (~IsVar(SubtermAt(LitAt(i).atom, pos)) \/ prob.paraIntoVars)}
      pairs == {q \in UNION {lits(c) \X UNION {lits(d) : d \in withGiven(c)} : c \in 1 .. given} :
                  FromTest(q[1]) /\ IntoTest(q[2])}
  IN  UNION {{[from |-> q[1], side |-> s, into |-> q[2], pos |-> p] :
                s \in sides(q[1]), p \in places(q[2])} : q \in pairs}
ParaOf(overlaps) == UNION {ParaInstances(o.from, o.side, o.into, o.pos) : o \in overlaps}

\* A variable side of an older equation into the top of the given one: left out by the
\* code and, unless variables are paramodulated into, not made in the other direction.
OnVariableTop(o) ==
  /\ o.into.c = given /\ Len(o.pos) = 1 /\ IsEq(LitAt(o.into).atom) /\ ~LitAt(o.into).neg
  /\ IsVar(LitAt(o.from).atom.a[o.side])

\* The forms of a conclusion with its literals in another order and its equations flipped.
MaybeFlipped(t, flip) ==
  CASE ~flip -> t
    [] flip /\ IsEq(t) -> Flip(t)
    [] flip /\ t.f = "not" /\ IsEq(t.a[1]) -> App("not", <<Flip(t.a[1])>>)
    [] OTHER -> t
Rearranged(terms) ==
  LET orders == {p \in [DOMAIN terms -> DOMAIN terms] : IsInjective(p)}
      flips == [DOMAIN terms -> BOOLEAN]
  IN  {Canonical([i \in DOMAIN terms |-> MaybeFlipped(terms[p[i]], f[i])]) :
         p \in orders, f \in flips}

(***************************************************************************)
(* Properties.                                                             *)
(***************************************************************************)
\* What the code made for the given clause by a rule.
Form(c) ==
  Canonical([k \in DOMAIN c.lits |-> LitTerm(c.lits[k])]
              \o [k \in DOMAIN c.ans |-> AnswerTerm(c.ans[k])])
Made(rule) == {Form(c) : c \in {d \in made : d.rule = rule}}

ParaExact ==
  /\ Made("para") \subseteq ParaOf(ParaOverlaps)
  /\ \A form \in ParaOf({o \in ParaOverlaps : ~OnVariableTop(o)}) :
       Made("para") \cap Rearranged(form) # {}

\* Between two turns of clash_recurse the bindings are a most general unifier of exactly
\* the literals mated so far: backtracking over nested retrievals, which share the context
\* of the nucleus, undoes each mate's bindings and no other's.
Clashed == SelectSeq([k \in DOMAIN nodes |-> k], LAMBDA k : nodes[k].clashed)
BindingsAreMgu ==
  pc = "clash" /\ stack # <<>> /\ ~expired /\ (Top.phase \in {0, 2, 4, 5} \/ TopNode.clashed) =>
    LET mate(k) == Mate(nodes[k].sat, nodes[k].flipped /\ nodes[k].sat # NoRef)
        sats == SelectSeq(Clashed, LAMBDA k : nodes[k].sat # NoRef)
        nucleus == nodes[1].lit.c
        bound(c, context) ==
          [l \in DOMAIN LitsOf(c) |-> Apply(mem, In(LitTerm(LitsOf(c)[l]), context))]
        equations == [i \in DOMAIN Clashed |->
                        EquationOf(nodes[Clashed[i]].lit, mate(Clashed[i]), Clashed[i])]
    IN  {Canonical(bound(nucleus, nodes[1].nucCtx)
                     \o FlattenSeq([i \in DOMAIN sats |->
                          bound(nodes[sats[i]].sat.c, nodes[sats[i]].satCtx)]))}
          = Instances(equations,
                      CopyOf(nucleus, 0, {})
                        \o FlattenSeq([i \in DOMAIN sats |->
                             CopyOf(nodes[sats[i]].sat.c, sats[i], {})]))

\* When the rules are done with a given clause they have made the conclusions the rules
\* define, all of them and no others, up to the names of variables: hyper- and
\* UR-resolvents by every choice of mates with a part for the given clause, binary
\* resolvents, resolutions with x=x, paramodulants (whose literals may be in another
\* order) and factors, each by a most general unifier of copies without common variables.
\* The order of activation must lose nothing, and a mate found for one literal must not
\* hide another's.
ConclusionsExact ==
  /\ BindingsAreMgu
  /\ pc = "choose" /\ ~expired =>
    IF given = 0 THEN "factor" \in prob.rules => Made("factor") = FactorReference
    ELSE \A rule \in prob.rules :
           CASE rule \in {"posHyper", "negHyper"}  -> Made(rule) = HyperReference(rule)
             [] rule \in {"posUr", "negUr"}        -> Made(rule) = UrReference(rule)
             [] rule \in {"binary", "negBinary"}   -> Made(rule) = BinaryReference(rule)
             [] rule = "para"                      -> ParaExact
             [] OTHER -> TRUE

\* Recycled contexts are clean (unify.c:68 relies on it): until a deadline ends a clash, a
\* context on the free list has no bound variable, none stays in use between two given
\* clauses, and the package meets no fatal error.  After a deadline none of this holds.
ContextsAreClean ==
  ~expired =>
    /\ ~mem.fatal
    /\ \A slot \in DOMAIN mem.bound : mem.mult[slot[1]] # -1 /\ mem.mult[mem.bound[slot].c] # -1
    /\ pc = "choose" => MultipliersInUse(mem) = {}

==============================================================================
