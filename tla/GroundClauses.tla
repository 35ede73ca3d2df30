---------------------------- MODULE GroundClauses ----------------------------
(***************************************************************************)
(* What mace4 (mace4.src/) searches for: a problem is a set of clauses     *)
(* over function and relation symbols, a cell is one entry f(i,j,..) of    *)
(* the tables to be filled, a model fills every cell so that every ground  *)
(* instance of every clause is true.                                       *)
(*                                                                         *)
(* A term is a record: f is the symbol, or "elem" for a domain element     *)
(* (whose number is n) or "var" for a variable; a is the sequence of       *)
(* arguments.  A relation holds where its cell has the value 1.            *)
(***************************************************************************)
EXTENDS Integers, Sequences, FiniteSets, SequencesExt, FiniteSetsExt, TLC

CONSTANTS
  Arity,        \* Arity[s] for every function and relation symbol s
  Relations,    \* the relation symbols
  Skolems,      \* function symbols introduced by Skolemization
  Problems      \* the inputs: a sequence of problems, see ProblemType

\* op(.. op(op(base, seq[1]), seq[2]) .., seq[Len(seq)]), in linear time.
Along(op(_, _), base, seq) ==
  LET upTo[i \in 0 .. Len(seq)] == IF i = 0 THEN base ELSE op(upTo[i - 1], seq[i])
  IN  upTo[Len(seq)]

\* The same sequence, the same function; TLC computes the elements once and for all.
Tup(seq)   == SubSeq(seq, 1, Len(seq))
Table(fcn) == fcn @@ <<>>

LOCAL MaxOf(S) == FoldSet(LAMBDA x, y : IF x > y THEN x ELSE y, -1, S)

Elem(d)   == [f |-> "elem", n |-> d, a |-> <<>>]
Var(i)    == [f |-> "var", n |-> i, a |-> <<>>]
App(s, a) == [f |-> s, n |-> 0, a |-> a]
Pos(atom) == [neg |-> FALSE, atom |-> atom]
Neg(atom) == [neg |-> TRUE, atom |-> atom]

OptionType ==
  [lnh : BOOLEAN,              \* least number heuristic
   negprop : BOOLEAN,          \* keep the index for negative propagation
   rules : SUBSET {"assign", "elim", "near_assign", "near_elim"},   \* neg_assign, ...
   skolemsLast : BOOLEAN,
   order : {"linear", "concentric", "band"},
   measure : {"none", "occurrences", "propagations", "contradictions", "crossed"},
   maxModels : Int,            \* -1: no limit
   special : {"none", "integer_ring", "order_domain"},
   interrupts : BOOLEAN,       \* clocks and signals may interrupt the search
   checkpointExit : BOOLEAN]

ASSUME ArityAssumption ==
  /\ DOMAIN Arity \cap {"elem", "var", "="} = {}
  /\ \A s \in DOMAIN Arity : Arity[s] \in Nat
  /\ Relations \subseteq DOMAIN Arity /\ Skolems \subseteq DOMAIN Arity \ Relations

\* A measure must be given unless the order is linear; the options that fix a
\* table or an order on the domain clear lnh (init_mace_options).
ASSUME ProblemAssumption ==
  \A i \in DOMAIN Problems :
    LET p == Problems[i] IN
    /\ p.syms \in Seq(DOMAIN Arity) /\ p.sizes \in Seq(Nat \ {0, 1})
    /\ p.opt \in OptionType
    /\ p.opt.measure = "none" => p.opt.order = "linear"
    /\ p.opt.special # "none" => ~p.opt.lnh

\* A cell: a symbol and its arguments.
Cell(s, args) == <<s, Tup(args)>>

(***************************************************************************)
(* Terms.                                                                  *)
(***************************************************************************)
RECURSIVE VarsOf(_), ElemsOf(_), Ground(_, _)
VarsOf(t)  == IF t.f = "var" THEN {t.n} ELSE UNION {VarsOf(t.a[k]) : k \in DOMAIN t.a}
ElemsOf(t) == IF t.f = "elem" THEN {t.n} ELSE UNION {ElemsOf(t.a[k]) : k \in DOMAIN t.a}
Ground(t, vals) ==
  IF t.f = "var" THEN Elem(vals[t.n])
  ELSE [t EXCEPT !.a = Tup([k \in DOMAIN t.a |-> Ground(t.a[k], vals)])]

GroundClause(c, vals) == Tup([i \in DOMAIN c |-> [c[i] EXCEPT !.atom = Ground(c[i].atom, vals)]])

LitsOf(p) == UNION {ToSet(p.clauses[i]) : i \in DOMAIN p.clauses}
ClauseVars(c) == UNION {VarsOf(c[i].atom) : i \in DOMAIN c}

\* Max_domain_element_in_input: the elements the clauses name.
MaxElement(p) == MaxOf(UNION {ElemsOf(l.atom) : l \in LitsOf(p)})

(***************************************************************************)
(* Cells, in the order of their ids: by symbol, then row-major.            *)
(***************************************************************************)
Elements(n) == [d \in 1 .. n |-> d - 1]

Tuples(n, k) ==
  Tup([j \in 1 .. n ^ k |-> Tup([i \in 1 .. k |-> ((j - 1) \div n ^ (k - i)) % n])])

CellSeq(p, n) ==
  Along(LAMBDA acc, s : LET tuples == Tuples(n, Arity[s])
                        IN  acc \o [j \in DOMAIN tuples |-> <<s, tuples[j]>>],
        <<>>, p.syms)
CellSet(p, n) == ToSet(CellSeq(p, n))

IsRelation(cell) == cell[1] \in Relations
CellRange(cell, n) == IF IsRelation(cell) THEN {0, 1} ELSE 0 .. n - 1

MaxIndex(cell) == MaxOf(ToSet(cell[2]))

(***************************************************************************)
(* The tables fixed by integer_ring and order_domain (-1: not fixed).      *)
(***************************************************************************)
SpecialValue(p, n, cell) ==
  LET s == cell[1]
      a == cell[2]
      Bit(b) == IF b THEN 1 ELSE 0
  IN  CASE p.opt.special = "integer_ring" /\ s = "+"  -> (a[1] + a[2]) % n
        [] p.opt.special = "integer_ring" /\ s = "*"  -> (a[1] * a[2]) % n
        [] p.opt.special = "integer_ring" /\ s = "-"  -> (n - a[1]) % n
        [] p.opt.special = "integer_ring" /\ s = "--" -> (a[1] + n - a[2]) % n
        [] p.opt.special = "order_domain" /\ s = "<"  -> Bit(a[1] < a[2])
        [] p.opt.special = "order_domain" /\ s = "<=" -> Bit(a[1] =< a[2])
        [] OTHER -> -1

(***************************************************************************)
(* Reference: what a model is, independent of how mace4 finds it.          *)
(***************************************************************************)
RECURSIVE Value(_, _, _)
Value(I, t, vals) ==
  CASE t.f = "elem" -> t.n
    [] t.f = "var"  -> vals[t.n]
    [] OTHER        -> I[Cell(t.f, [k \in DOMAIN t.a |-> Value(I, t.a[k], vals)])]

TrueLit(I, l, vals) ==
  LET holds == IF l.atom.f = "="
               THEN Value(I, l.atom.a[1], vals) = Value(I, l.atom.a[2], vals)
               ELSE Value(I, l.atom, vals) = 1
  IN  holds # l.neg

Satisfies(p, n, I) ==
  \A i \in DOMAIN p.clauses :
    LET c == p.clauses[i] IN
    \A vals \in [ClauseVars(c) -> 0 .. n - 1] : \E k \in DOMAIN c : TrueLit(I, c[k], vals)

\* One value for each cell, the fixed one if there is one.
Interpretations(p, n) ==
  LET Allowed(cell) == IF SpecialValue(p, n, cell) = -1 THEN CellRange(cell, n)
                       ELSE {SpecialValue(p, n, cell)}
  IN  Along(LAMBDA partial, cell : {I @@ (cell :> v) : I \in partial, v \in Allowed(cell)},
            {<<>>}, CellSeq(p, n))

ModelsOf(p, n) ==
  IF MaxElement(p) >= n THEN {} ELSE {I \in Interpretations(p, n) : Satisfies(p, n, I)}

\* A renaming of the domain that leaves the elements named in the input alone.
Renamings(p, n) ==
  {r \in [0 .. n - 1 -> 0 .. n - 1] :
     /\ \A d, e \in 0 .. n - 1 : r[d] = r[e] => d = e
     /\ \A d \in 0 .. n - 1 : d =< MaxElement(p) => r[d] = d}

Renamed(r, cell) == Cell(cell[1], [k \in DOMAIN cell[2] |-> r[cell[2][k]]])
RenamedValue(r, cell, v) == IF IsRelation(cell) THEN v ELSE r[v]

\* I and J agree, up to r, on the given cells.
SameUpTo(r, cells, I, J) ==
  \A cell \in cells : J[Renamed(r, cell)] = RenamedValue(r, cell, I[cell])
==============================================================================
