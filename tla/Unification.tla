----------------------------- MODULE Unification -----------------------------
(***************************************************************************)
(* Terms, contexts and unification (ladr/unify.c), as operators on the     *)
(* memory of the unification package, a record m:                          *)
(*   bound   the slots in use: bound[<<c, i>>] is what variable i of       *)
(*           context c stands for, a term with the context of its variables*)
(*   mult    the multiplier of each context allocated so far; -1: free     *)
(*   free    the free list of contexts, next one to be reused first        *)
(*   fatal   a fatal_error was reached                                     *)
(* The code clears a slot by walking a trail; a trail here is the sequence *)
(* of slots, last bound first.                                             *)
(*                                                                         *)
(* A term is a record: f is the symbol, or "var" for the variable number n;*)
(* a is the sequence of arguments.                                         *)
(***************************************************************************)
EXTENDS Integers, Sequences, FiniteSets, SequencesExt, FiniteSetsExt, TLC

CONSTANTS
  MaxVars,         \* MAX_VARS: variables of a clause are numbered below it
  MaxMultipliers   \* MAX_MULTIPLIERS: contexts in use at one time

ASSUME BoundsAssumption == MaxVars \in Nat \ {0} /\ MaxMultipliers \in Nat \ {0}

\* op(.. op(op(base, seq[1]), seq[2]) .., seq[Len(seq)]).
Along(op(_, _), base, seq) ==
  LET upTo[i \in 0 .. Len(seq)] == IF i = 0 THEN base ELSE op(upTo[i - 1], seq[i])
  IN  upTo[Len(seq)]

\* The same sequence; TLC computes its elements once and for all.
Tup(seq) == SubSeq(seq, 1, Len(seq))

Var(i)    == [f |-> "var", n |-> i, a |-> <<>>]
App(s, a) == [f |-> s, n |-> 0, a |-> Tup(a)]
IsVar(t)  == t.f = "var"
IsEq(t)   == t.f = "="
Flip(t)   == App(t.f, <<t.a[2], t.a[1]>>)

(***************************************************************************)
(* Contexts.                                                               *)
(***************************************************************************)
NoContexts == [bound |-> <<>>, mult |-> <<>>, free |-> <<>>, fatal |-> FALSE]

MultipliersInUse(m) == ToSet(m.mult) \ {-1}
Available(m) == (0 .. MaxMultipliers - 1) \ MultipliersInUse(m)
NextMultiplier(m) == CHOOSE i \in Available(m) : \A j \in Available(m) : i =< j

\* get_context: which context it returns, and the memory afterwards.  A context of
\* the free list is not cleared.
NewContext(m) == IF m.free # <<>> THEN Head(m.free) ELSE Len(m.mult) + 1
GetContext(m) ==
  CASE Available(m) = {} -> [m EXCEPT !.fatal = TRUE]
    [] Available(m) # {} /\ m.free # <<>> ->
         [m EXCEPT !.free = Tail(@), !.mult[Head(m.free)] = NextMultiplier(m)]
    [] OTHER -> [m EXCEPT !.mult = Append(@, NextMultiplier(m))]

FreeContext(m, c) ==
  IF m.mult[c] = -1 THEN [m EXCEPT !.fatal = TRUE]
  ELSE [m EXCEPT !.mult[c] = -1, !.free = <<c>> \o @]

\* undo_subst
Undo(m, trail) ==
  [m EXCEPT !.bound = [slot \in DOMAIN m.bound \ ToSet(trail) |-> m.bound[slot]]]

(***************************************************************************)
(* Terms in contexts: records [t |-> term, c |-> context].                 *)
(***************************************************************************)
In(t, c) == [t |-> t, c |-> c]
Slot(x)  == <<x.c, x.t.n>>

RECURSIVE Deref(_, _)
Deref(m, x) ==
  IF IsVar(x.t) /\ Slot(x) \in DOMAIN m.bound THEN Deref(m, m.bound[Slot(x)]) ELSE x

\* occur_check: the unbound variable v does not occur in x.
RECURSIVE OccurCheck(_, _, _)
OccurCheck(m, v, x) ==
  LET d == Deref(m, x)
  IN  IF IsVar(d.t) THEN d # v
      ELSE \A k \in DOMAIN d.t.a : OccurCheck(m, v, In(d.t.a[k], d.c))

\* BIND_TR
Bind(r, v, x) ==
  [r EXCEPT !.m.bound = (Slot(v) :> x) @@ @, !.trail = <<Slot(v)>> \o @]

ArgPairs(x, y) == [k \in DOMAIN x.t.a |-> <<In(x.t.a[k], x.c), In(y.t.a[k], y.c)>>]

RECURSIVE UnifyPairs(_, _)
UnifyPairs(r, pairs) ==
  IF pairs = <<>> THEN [r EXCEPT !.ok = TRUE]
  ELSE LET x == Deref(r.m, pairs[1][1])
           y == Deref(r.m, pairs[1][2])
           rest == Tail(pairs)
       IN  CASE x = y /\ IsVar(x.t) -> UnifyPairs(r, rest)
             [] IsVar(x.t) /\ x # y /\ (IsVar(y.t) \/ OccurCheck(r.m, x, y)) ->
                  UnifyPairs(Bind(r, x, y), rest)
             [] ~IsVar(x.t) /\ IsVar(y.t) /\ OccurCheck(r.m, y, x) ->
                  UnifyPairs(Bind(r, y, x), rest)
             [] ~IsVar(x.t) /\ ~IsVar(y.t) /\ x.t.f = y.t.f ->
                  UnifyPairs(r, ArgPairs(x, y) \o rest)
             [] OTHER -> r

\* unify: on failure what was bound is undone.
Unify(m, x, y) ==
  LET r == UnifyPairs([ok |-> FALSE, m |-> m, trail |-> <<>>], << <<x, y>> >>)
  IN  IF r.ok THEN r ELSE [r EXCEPT !.m = Undo(r.m, r.trail), !.trail = <<>>]

\* apply
RECURSIVE Apply(_, _)
Apply(m, x) ==
  LET d == Deref(m, x)
  IN  IF IsVar(d.t) THEN Var(m.mult[d.c] * MaxVars + d.t.n)
      ELSE App(d.t.f, [k \in DOMAIN d.t.a |-> Apply(m, In(d.t.a[k], d.c))])

\* apply_substitute2: x with the term at a position replaced.
RECURSIVE ApplySubstitute(_, _, _, _)
ApplySubstitute(m, x, pos, beta) ==
  IF pos = <<>> THEN Apply(m, beta)
  ELSE App(x.t.f, [k \in DOMAIN x.t.a |->
                     IF k = pos[1] THEN ApplySubstitute(m, In(x.t.a[k], x.c), Tail(pos), beta)
                     ELSE Apply(m, In(x.t.a[k], x.c))])

(***************************************************************************)
(* Reference: most general unifiers by solving equations between plain     *)
(* terms, without contexts.  A solution is a function from variable        *)
(* numbers to terms.                                                       *)
(***************************************************************************)
RECURSIVE VarsOf(_), Subst(_, _), Solve(_, _)
VarsOf(t) == IF IsVar(t) THEN {t.n} ELSE UNION {VarsOf(t.a[k]) : k \in DOMAIN t.a}
Subst(sol, t) ==
  IF IsVar(t) THEN IF t.n \in DOMAIN sol THEN sol[t.n] ELSE t
  ELSE App(t.f, [k \in DOMAIN t.a |-> Subst(sol, t.a[k])])

Eliminated(sol, n, t) == (n :> t) @@ [i \in DOMAIN sol |-> Subst(n :> t, sol[i])]

\* The set of solutions found: one most general unifier, or none.
Solve(eqs, sol) ==
  IF eqs = <<>> THEN {sol}
  ELSE LET l == Subst(sol, eqs[1][1])
           r == Subst(sol, eqs[1][2])
           rest == Tail(eqs)
       IN  CASE l = r -> Solve(rest, sol)
             [] l # r /\ IsVar(l) ->
                  IF l.n \in VarsOf(r) THEN {} ELSE Solve(rest, Eliminated(sol, l.n, r))
             [] l # r /\ ~IsVar(l) /\ IsVar(r) ->
                  IF r.n \in VarsOf(l) THEN {} ELSE Solve(rest, Eliminated(sol, r.n, l))
             [] OTHER -> IF l.f # r.f THEN {}
                         ELSE Solve([k \in DOMAIN l.a |-> <<l.a[k], r.a[k]>>] \o rest, sol)
Mgus(eqs) == Solve(eqs, <<>>)

\* A copy of t whose variables no copy with another tag shares.
RECURSIVE Copy(_, _)
Copy(tag, t) ==
  IF IsVar(t) THEN Var(tag * MaxVars + t.n)
  ELSE App(t.f, [k \in DOMAIN t.a |-> Copy(tag, t.a[k])])

\* Variables numbered in the order of their first occurrence: two sequences of terms
\* have the same canonical form if and only if they are variants.
RECURSIVE VarSeq(_)
VarSeq(t) == IF IsVar(t) THEN <<t.n>> ELSE FlattenSeq([k \in DOMAIN t.a |-> VarSeq(t.a[k])])
FirstAt(s, x) == CHOOSE i \in DOMAIN s : s[i] = x /\ \A j \in 1 .. i - 1 : s[j] # x
Canonical(terms) ==
  LET occurrences == FlattenSeq([i \in DOMAIN terms |-> VarSeq(terms[i])])
      names == [n \in ToSet(occurrences) |-> Var(FirstAt(occurrences, n))]
  IN  Tup([i \in DOMAIN terms |-> Subst(names, terms[i])])
==============================================================================
