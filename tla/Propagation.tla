----------------------------- MODULE Propagation -----------------------------
(***************************************************************************)
(* Unit propagation of mace4: ground.c, propagate.c, negprop.c,            *)
(* negpropindex.c, mstate.c, estack.c and select.c, as operators on the    *)
(* memory of a search, a record m:                                         *)
(*   p, n         the problem (its number) and the domain size             *)
(*   clauses      the kept ground clauses, as they were generated          *)
(*   value        the value of each cell, Open if it has none              *)
(*   possible     the values not crossed off                               *)
(*   arg          what each place of a ground clause was rewritten to      *)
(*                (Open: the original term is still there)                 *)
(*   active, subsumed   the counter and the flag of each ground clause     *)
(*   occ          head of each cell's list of occurrences                  *)
(*   near         heads of the lists of the negative propagation index     *)
(*   link         u.vp of each term: the next one of the list it is on     *)
(*   log          the Estack: updates, most recent first                   *)
(*   jobs, ok     the Mstate                                               *)
(*   propagations Mstats.propagations                                      *)
(*   fatal        a fatal_error was reached                                *)
(*                                                                         *)
(* A place is <<c, i>> \o path: literal i of clause c, then the argument   *)
(* positions that lead to a term in it.  Upward pointers are prefixes.     *)
(***************************************************************************)
EXTENDS GroundClauses

Open == -1
Nil  == <<>>

Opt(m) == Problems[m.p].opt
CellIds(m) == CellSeq(Problems[m.p], m.n)

\* Mutant: a list head that is changed while a clause is indexed is not logged.
UpdateUnlogged(m, field, key, v) ==
  IF field = "occ" THEN [m EXCEPT ![field][key] = v]
  ELSE [m EXCEPT ![field][key] = v,
                 !.log = <<[field |-> field, key |-> key, old |-> m[field][key]]>> \o @]

\* update_and_push: change a location and log its old value.
Update(m, field, key, v) ==
  [m EXCEPT ![field][key] = v,
            !.log = <<[field |-> field, key |-> key, old |-> m[field][key]]>> \o @]

\* restore_from_stack.
Restore(m, log) ==
  Along(LAMBDA s, e : [s EXCEPT ![e.field][e.key] = e.old], m, log)

NewJob(m, job) == [m EXCEPT !.jobs = <<job>> \o @]
Contradiction(m) == [m EXCEPT !.ok = FALSE]

(***************************************************************************)
(* Terms in place.                                                         *)
(***************************************************************************)
Lit(m, p)  == m.clauses[p[1]][p[2]]
Node(m, p) == Along(LAMBDA t, k : t.a[k], Lit(m, p).atom, SubSeq(p, 3, Len(p)))
AtLiteral(p) == Len(p) = 2
Parent(p) == Front(p)

\* Argument k: its value if it is a domain element by now, else Open.
Arg(m, p, k) ==
  LET t == Node(m, p).a[k] IN IF t.f = "elem" THEN t.n ELSE m.arg[Append(p, k)]
Args(m, p)    == [k \in DOMAIN Node(m, p).a |-> Arg(m, p, k)]
IsEterm(m, p) == \A k \in DOMAIN Node(m, p).a : Arg(m, p, k) # Open
CellAt(m, p)  == Cell(Node(m, p).f, Args(m, p))

\* The value of a cell; the equality table is filled by built_in_assignments.
CellValue(m, cell) ==
  IF cell[1] # "=" THEN m.value[cell] ELSE IF cell[2][1] = cell[2][2] THEN 1 ELSE 0

\* nterm: one argument is not an element, and that one is an eterm.
NearArgs(m, p) == {k \in DOMAIN Node(m, p).a : Arg(m, p, k) = Open}
IsNterm(m, p) ==
  /\ Cardinality(NearArgs(m, p)) = 1
  /\ \A k \in NearArgs(m, p) : IsEterm(m, Append(p, k))
NearPos(m, p) == CHOOSE k \in NearArgs(m, p) : TRUE

(***************************************************************************)
(* Assignments and eliminations.                                           *)
(***************************************************************************)
NewAssignment(m, cell, v) ==
  CASE m.value[cell] = Open ->
         NewJob([Update(m, "value", cell, v) EXCEPT !.propagations = @ + 1],
                [type |-> "assign", cell |-> cell])
    [] m.value[cell] = v -> m
    [] OTHER -> Contradiction(m)

\* pvalues_check: the fatal error is a cell with no possible value.
NewElimination(m, cell, v) ==
  CASE m.value[cell] = v -> Contradiction(m)
    [] m.value[cell] \notin {v, Open} \/ v \notin m.possible[cell] -> m
    [] OTHER ->
         LET left == m.possible[cell] \ {v}
             m1 == Update(m, "possible", cell, left)
             m2 == IF Opt(m).negprop
                   THEN NewJob(m1, [type |-> "elim", cell |-> cell, beta |-> v]) ELSE m1
         IN  CASE left = {} -> [m2 EXCEPT !.fatal = TRUE]
               [] Cardinality(left) = 1 ->
                    NewAssignment(m2, cell, CHOOSE w \in left : TRUE)
               [] OTHER -> m2

\* Cross off a sequence of <<cell, value>>, until a contradiction.
Eliminate(m, seq) ==
  Along(LAMBDA s, e : IF s.ok THEN NewElimination(s, e[1], e[2]) ELSE s, m, seq)

(***************************************************************************)
(* The negative propagation index: lists of unit literals, by sign,        *)
(* symbol, value and arguments, where the number n stands for an argument  *)
(* that is not a domain element.                                           *)
(***************************************************************************)
NearKey(sign, sym, val, pattern) == <<sign, sym, val, Tup(pattern)>>

InsertNear(m, key, lit) ==
  IF m.link[lit] # Nil THEN [m EXCEPT !.fatal = TRUE]
  ELSE Update(Update(m, "link", lit, m.near[key]), "near", key, lit)

Pattern(m, p) == [k \in DOMAIN Node(m, p).a |-> IF Arg(m, p, k) = Open THEN m.n ELSE Arg(m, p, k)]

\* A near equation: alpha is its nterm, beta the other side.
NearEquation(m, lit, alpha, beta) ==
  LET neg == Lit(m, lit).neg
      key == NearKey(IF neg THEN 0 ELSE 1, Node(m, alpha).f, beta, Pattern(m, alpha))
      job == [type  |-> IF neg THEN "near_elim" ELSE "near_assign",
              cell  |-> CellAt(m, Append(alpha, NearPos(m, alpha))),
              alpha |-> alpha, beta |-> beta, pos |-> NearPos(m, alpha)]
  IN  NewJob(InsertNear(m, key, lit), job)

NearAtom(m, lit) ==
  LET beta == IF Lit(m, lit).neg THEN 0 ELSE 1
      key == NearKey(1, Node(m, lit).f, beta, Pattern(m, lit))
      job == [type  |-> "near_assign",
              cell  |-> CellAt(m, Append(lit, NearPos(m, lit))),
              alpha |-> lit, beta |-> beta, pos |-> NearPos(m, lit)]
  IN  NewJob(InsertNear(m, key, lit), job)

\* nterm_check_and_process.
NewNear(m, lit) ==
  LET a == Append(lit, 1)
      b == Append(lit, 2)
      Eq == Node(m, lit).f = "="
  IN  CASE Eq /\ Arg(m, lit, 2) # Open /\ Arg(m, lit, 1) = Open /\ IsNterm(m, a) ->
             NearEquation(m, lit, a, Arg(m, lit, 2))
        [] Eq /\ Arg(m, lit, 1) # Open /\ Arg(m, lit, 2) = Open /\ IsNterm(m, b) ->
             NearEquation(m, lit, b, Arg(m, lit, 1))
        [] ~Eq /\ IsNterm(m, lit) -> NearAtom(m, lit)
        [] OTHER -> m

(***************************************************************************)
(* Unit clauses.                                                           *)
(***************************************************************************)
OpenLit(m, c) == CHOOSE i \in DOMAIN m.clauses[c] :
                   m.arg[<<c, i>>] # 0 /\ \A j \in 1 .. i - 1 : m.arg[<<c, j>>] = 0

\* A unit: assignment, elimination, or near one of them.
ProcessUnit(m, lit) ==
  LET neg == Lit(m, lit).neg
      Eq  == Node(m, lit).f = "="
      EtermSide(k) == Eq /\ Arg(m, lit, k) = Open /\ IsEterm(m, Append(lit, k))
                         /\ Arg(m, lit, 3 - k) # Open
      Side(k) == IF neg THEN NewElimination(m, CellAt(m, Append(lit, k)), Arg(m, lit, 3 - k))
                 ELSE NewAssignment(m, CellAt(m, Append(lit, k)), Arg(m, lit, 3 - k))
  IN  CASE ~Eq /\ IsEterm(m, lit) -> NewAssignment(m, CellAt(m, lit), IF neg THEN 0 ELSE 1)
        [] EtermSide(1) -> Side(1)
        [] EtermSide(2) -> Side(2)
        [] OTHER -> IF Opt(m).negprop THEN NewNear(m, lit) ELSE m

ProcessClause(m, c) ==
  CASE m.subsumed[c]    -> m
    [] m.active[c] = 0  -> Contradiction(m)
    [] m.active[c] # 1  -> m
    [] OTHER            -> ProcessUnit(m, <<c, OpenLit(m, c)>>)

\* Mutant: the sign of the literal is not looked at.
HandleUnsigned(m, lit, v) ==
  LET m1 == Update(m, "arg", lit, v)
  IN  IF v = 1 THEN Update(m1, "subsumed", lit[1], TRUE)
      ELSE Update(m1, "active", lit[1], m.active[lit[1]] - 1)

\* handle_literal: an evaluable literal becomes true, and its clause subsumed, or false.
HandleLiteral(m, lit, v) ==
  LET c == lit[1]
      truth == IF Lit(m, lit).neg THEN 1 - v ELSE v
      m1 == Update(m, "arg", lit, truth)
  IN  IF truth = 1 THEN Update(m1, "subsumed", c, TRUE)
      ELSE Update(m1, "active", c, m.active[c] - 1)

(***************************************************************************)
(* Positive propagation.                                                   *)
(***************************************************************************)
Evaluable(m, p) == IsEterm(m, p) /\ CellValue(m, CellAt(m, p)) # Open

\* Rewrite upward from place p; where it stops.
RECURSIVE Climb(_, _)
Climb(m, p) ==
  IF ~AtLiteral(p) /\ Evaluable(m, p)
  THEN Climb(Update(m, "arg", p, CellValue(m, CellAt(m, p))), Parent(p))
  ELSE [m |-> m, p |-> p]

IndexPlace(m, p) ==
  Update(Update(m, "link", p, m.occ[CellAt(m, p)]), "occ", CellAt(m, p), p)

\* Where rewriting stopped: a literal that has a value, or a term that may get one.
Handle(m, p) ==
  CASE AtLiteral(p) /\ Evaluable(m, p) ->
         IF m.subsumed[p[1]] THEN m ELSE HandleLiteral(m, p, CellValue(m, CellAt(m, p)))
    [] IsEterm(m, p) /\ ~(AtLiteral(p) /\ Evaluable(m, p)) -> IndexPlace(m, p)
    [] OTHER -> m

\* Mutant: the side of an equation is too deep to be noticed.
NoticeShallow(m, p) == IF Len(p) < 4 THEN ProcessClause(m, p[1]) ELSE m

\* A change at most two steps below a literal may give a new unit to use.
Notice(m, p) == IF Len(p) =< 4 THEN ProcessClause(m, p[1]) ELSE m

\* One occurrence of a cell that has got a value.
RewriteOccurrence(top) == Notice(Handle(top.m, top.p), top.p)

RECURSIVE RewriteList(_, _), RewriteRest(_, _)
RewriteList(m, t) ==
  IF t = Nil \/ ~m.ok THEN m ELSE RewriteRest(RewriteOccurrence(Climb(m, t)), t)
RewriteRest(m, t) == RewriteList(m, m.link[t])

PropagatePositive(m, cell) == RewriteList(m, m.occ[cell])

(***************************************************************************)
(* Negative propagation: the four rules.                                   *)
(***************************************************************************)
RECURSIVE Chain(_, _)
Chain(m, t) == IF t = Nil THEN <<>> ELSE <<t>> \o Chain(m, m.link[t])

\* negprop_find_near: the literals that differ from the cell in argument k only.
FindNear(m, sign, cell, val, k) ==
  Chain(m, m.near[NearKey(sign, cell[1], val, [cell[2] EXCEPT ![k] = m.n])])

\* For each of them whose argument k is still an eterm, that eterm is not cell[2][k].
NearCuts(m, found, cell, k) ==
  LET Alpha(t) == IF IsRelation(cell) THEN t
                  ELSE IF Arg(m, t, 1) # Open THEN Append(t, 2) ELSE Append(t, 1)
      Usable(t) == /\ IsRelation(cell) \/ \E i \in 1 .. 2 : Arg(m, t, i) = Open
                   /\ Arg(m, Alpha(t), k) = Open /\ IsEterm(m, Append(Alpha(t), k))
      cuts == SelectSeq(found, Usable)
  IN  [i \in DOMAIN cuts |-> <<CellAt(m, Append(Alpha(cuts[i]), k)), cell[2][k]>>]

NegElim(m, cell, beta) ==
  Along(LAMBDA s, k : IF s.ok
                         THEN Eliminate(s, NearCuts(s, FindNear(s, 1, cell, beta, k), cell, k))
                         ELSE s,
           m, [k \in DOMAIN cell[2] |-> k])

NegAssign(m, cell) ==
  LET beta == m.value[cell]
      Range0 == IF IsRelation(cell) THEN 2 ELSE m.n
      others == SelectSeq(Elements(Range0), LAMBDA j : j # beta)
      ByNearElim(s, k) == Eliminate(s, NearCuts(s, FindNear(s, 0, cell, beta, k), cell, k))
      ByNearAssign(s, k) ==
        Along(LAMBDA u, j : IF u.ok
                               THEN Eliminate(u, NearCuts(u, FindNear(u, 1, cell, j, k), cell, k))
                               ELSE u, s, others)
      places == [k \in DOMAIN cell[2] |-> k]
      m1 == IF IsRelation(cell) THEN m
            ELSE Along(LAMBDA s, k : IF s.ok THEN ByNearElim(s, k) ELSE s, m, places)
  IN  Along(LAMBDA s, k : IF s.ok THEN ByNearAssign(s, k) ELSE s, m1, places)

\* The cell of alpha with d in the place of its only open argument.
Filled(m, job, d) ==
  Cell(Node(m, job.alpha).f,
       [i \in DOMAIN Node(m, job.alpha).a |-> IF i = job.pos THEN d ELSE Arg(m, job.alpha, i)])

\* Eliminate d from the eterm wherever the cell with d satisfies Cut.
CutWhere(m, job, Cut(_, _)) ==
  Along(LAMBDA s, d : IF s.ok /\ Cut(s, Filled(s, job, d)) THEN NewElimination(s, job.cell, d)
                         ELSE s,
           m, Elements(m.n))

\* Mutant: cuts the values that make the disequation true.
NearElimWrong(m, job) ==
  IF Arg(m, job.alpha, job.pos) # Open THEN m
  ELSE CutWhere(m, job, LAMBDA s, cell : s.value[cell] \notin {Open, job.beta})

NearElim(m, job) ==
  IF Arg(m, job.alpha, job.pos) # Open THEN m
  ELSE CutWhere(m, job, LAMBDA s, cell : s.value[cell] = job.beta)

NearAssign(m, job) ==
  LET atom == AtLiteral(job.alpha)
      others == SelectSeq(Elements(IF atom THEN 2 ELSE m.n), LAMBDA j : j # job.beta)
      m1 == IF atom THEN m
            ELSE CutWhere(m, job, LAMBDA s, cell : job.beta \notin s.possible[cell])
  IN  IF Arg(m, job.alpha, job.pos) # Open THEN m
      ELSE Along(LAMBDA s, j : CutWhere(s, job, LAMBDA u, cell : u.value[cell] = j), m1, others)

PropagateNegative(m, job) ==
  IF job.type \notin Opt(m).rules THEN m
  ELSE CASE job.type = "elim"        -> NegElim(m, job.cell, job.beta)
         [] job.type = "assign"      -> NegAssign(m, job.cell)
         [] job.type = "near_elim"   -> NearElim(m, job)
         [] job.type = "near_assign" -> NearAssign(m, job)

(***************************************************************************)
(* propagate(): all jobs, last in first out.  A contradiction undoes       *)
(* everything logged.                                                      *)
(***************************************************************************)
Positive(m, job) == IF job.type = "assign" THEN PropagatePositive(m, job.cell) ELSE m
Negative(m, job) == IF m.ok /\ Opt(m).negprop THEN PropagateNegative(m, job) ELSE m
RunJob(m, job)   == Negative(Positive([m EXCEPT !.jobs = Tail(@)], job), job)

RECURSIVE Propagate(_)
Propagate(m) ==
  CASE ~m.ok -> [Restore(m, m.log) EXCEPT !.jobs = <<>>, !.log = <<>>]
    [] m.ok /\ m.jobs = <<>> -> m
    [] OTHER -> Propagate(RunJob(m, Head(m.jobs)))

\* assign_and_propagate: ok is FALSE where the code returns a NULL stack.
AssignAndPropagate(m, cell, v) ==
  IF m.value[cell] # Open THEN [m EXCEPT !.fatal = TRUE]
  ELSE Propagate(NewJob(Update([m EXCEPT !.log = <<>>, !.jobs = <<>>, !.propagations = 0],
                               "value", cell, v),
                        [type |-> "assign", cell |-> cell]))

(***************************************************************************)
(* Initial clauses (ground.c).                                             *)
(***************************************************************************)
Fresh(p, n) ==
  LET prob == Problems[p]
      cells == CellSet(prob, n)
      keys == {NearKey(sign, cell[1], val, pat) : sign \in {0, 1}, val \in 0 .. n - 1,
                 cell \in cells, pat \in UNION {[1 .. Arity[s] -> 0 .. n] : s \in ToSet(prob.syms)}}
  IN  [p |-> p, n |-> n, clauses |-> <<>>,
       value    |-> Table([c \in cells |-> SpecialValue(prob, n, c)]),
       possible |-> Table([c \in cells |-> CellRange(c, n)]),
       arg |-> <<>>, link |-> <<>>, active |-> <<>>, subsumed |-> <<>>,
       occ  |-> Table([c \in cells |-> Nil]),
       near |-> Table([k \in {x \in keys : Len(x[4]) = Arity[x[2]]} |-> Nil]),
       log |-> <<>>, jobs |-> <<>>, ok |-> TRUE, propagations |-> 0, fatal |-> FALSE]

RECURSIVE SimpTerm(_, _)
SimpTerm(m, t) ==
  IF t.f = "elem" THEN t
  ELSE LET u == [t EXCEPT !.a = Tup([k \in DOMAIN t.a |-> SimpTerm(m, t.a[k])])]
           cell == Cell(u.f, [k \in DOMAIN u.a |-> u.a[k].n])
       IN  IF (\A k \in DOMAIN u.a : u.a[k].f = "elem") /\ CellValue(m, cell) # Open
           THEN Elem(CellValue(m, cell)) ELSE u

\* simp_tv of an atom: an element means its truth value.  An equation with a
\* value that has been crossed off is false.
SimpAtom(m, atom) ==
  LET u == SimpTerm(m, atom)
      CrossedOff(k) ==
        /\ u.a[3 - k].f = "elem" /\ u.a[k].f # "elem"
        /\ \A i \in DOMAIN u.a[k].a : u.a[k].a[i].f = "elem"
        /\ u.a[3 - k].n \notin
             m.possible[Cell(u.a[k].f, [i \in DOMAIN u.a[k].a |-> u.a[k].a[i].n])]
  IN  IF u.f = "=" /\ \E k \in 1 .. 2 : CrossedOff(k) THEN Elem(0) ELSE u

SimpLit(m, l) == [l EXCEPT !.atom = SimpAtom(m, l.atom)]
IsTrueLit(l)  == l.atom.f = "elem" /\ l.atom.n = (IF l.neg THEN 0 ELSE 1)
IsFalseLit(l) == l.atom.f = "elem" /\ ~IsTrueLit(l)

\* merge: of equal literals the last stays.
Merge(c) == LET Repeated(i) == \E j \in i + 1 .. Len(c) : c[j] = c[i]
                kept == SelectSeq([i \in DOMAIN c |-> i], LAMBDA i : ~Repeated(i))
            IN  Tup([i \in DOMAIN kept |-> c[kept[i]]])

RECURSIVE PlacesIn(_, _), EtermsIn(_, _)
\* The places of the terms that are not elements; of the eterms, left to right.
PlacesIn(t, p) ==
  {p} \cup UNION {PlacesIn(t.a[k], Append(p, k)) : k \in {j \in DOMAIN t.a : t.a[j].f # "elem"}}
EtermsIn(t, p) ==
  IF t.f = "elem" THEN <<>>
  ELSE IF \A k \in DOMAIN t.a : t.a[k].f = "elem" THEN <<p>>
  ELSE FlattenSeq([k \in DOMAIN t.a |-> EtermsIn(t.a[k], Append(p, k))])

\* term_to_mclause, eterm_index_term: this is not undone, so it is not logged.
KeepClause(m, lits) ==
  LET c == Len(m.clauses) + 1
      places == UNION {PlacesIn(lits[i].atom, <<c, i>>) : i \in DOMAIN lits}
      eterms == FlattenSeq([i \in DOMAIN lits |-> EtermsIn(lits[i].atom, <<c, i>>)])
      New(v) == [x \in places |-> v]
      m1 == [m EXCEPT !.clauses = Append(@, lits), !.active = Append(@, Len(lits)),
                      !.subsumed = Append(@, FALSE),
                      !.arg = New(Open) @@ @, !.link = New(Nil) @@ @]
  IN  Along(LAMBDA s, p : LET cell == CellAt(s, p)
                             IN  [s EXCEPT !.link[p] = s.occ[cell], !.occ[cell] = p],
               m1, eterms)

\* One instance: simplified, dropped if true, otherwise kept and processed.
SimpClause(m, inst) ==
  LET merged == Merge(inst) IN Tup([i \in DOMAIN merged |-> SimpLit(m, merged[i])])

PropagateUnit(m) == IF m.ok /\ m.jobs # <<>> THEN Propagate(m) ELSE m

AddSimplified(m, lits) ==
  LET left == SelectSeq(lits, LAMBDA l : ~IsFalseLit(l))
  IN  CASE \E i \in DOMAIN lits : IsTrueLit(lits[i]) -> m
        [] left = <<>> -> Contradiction(m)
        [] OTHER -> PropagateUnit(ProcessClause(KeepClause(m, left), Len(m.clauses) + 1))

AddInstance(m, inst) == IF m.ok THEN AddSimplified(m, SimpClause(m, inst)) ELSE m

\* instances_recurse: the first variable varies slowest.
Instances(c, n) ==
  LET k == 1 + FoldSet(LAMBDA x, y : IF x > y THEN x ELSE y, -1, ClauseVars(c))
      vals == Tuples(n, k)
  IN  [i \in DOMAIN vals |-> GroundClause(c, [v \in 0 .. k - 1 |-> vals[i][v + 1]])]

\* Units first, then clauses of two literals, then the others.
AllInstances(prob, n) ==
  LET Sized(test(_)) == Along(LAMBDA acc, c : IF test(Len(c)) THEN acc \o Instances(c, n) ELSE acc,
                              <<>>, prob.clauses)
  IN  Sized(LAMBDA k : k < 2) \o Sized(LAMBDA k : k = 2) \o Sized(LAMBDA k : k > 2)

GenerateClauses(p, n) == Along(AddInstance, Fresh(p, n), AllInstances(Problems[p], n))

(***************************************************************************)
(* Selection of the next cell (ordercells.c, select.c).                    *)
(***************************************************************************)
IndexIn(seq, x) == CHOOSE i \in DOMAIN seq : seq[i] = x

SumIndexes(cell) == IF cell[2] = <<>> THEN -1 ELSE Along(LAMBDA a, b : a + b, 0, cell[2])

\* compare_cells, with the id to break ties: merge_sort is stable.
CellKey(prob, n, cell) ==
  <<IF prob.opt.skolemsLast /\ cell[1] \in Skolems THEN 1 ELSE 0,
    MaxIndex(cell), IndexIn(prob.syms, cell[1]), SumIndexes(cell), IndexIn(CellSeq(prob, n), cell)>>

KeyLess(k1, k2) == \E i \in DOMAIN k1 : k1[i] < k2[i] /\ \A j \in 1 .. i - 1 : k1[j] = k2[j]

OrderedCells(prob, n) ==
  LET cells == CellSet(prob, n)
      keys  == Table([c \in cells |-> CellKey(prob, n, c)])
      rank  == Table([c \in cells |-> 1 + Cardinality({d \in cells : KeyLess(keys[d], keys[c])})])
  IN  Tup([i \in 1 .. Cardinality(cells) |-> CHOOSE c \in cells : rank[c] = i])

\* The static tables of every problem and size.
ForEach(Tab(_, _)) ==
  Table([i \in DOMAIN Problems |->
    Table([n \in ToSet(Problems[i].sizes) |-> Tab(Problems[i], n)])])
Ordered == ForEach(OrderedCells)
ById    == ForEach(CellSeq)

\* How many cells come before First_skolem_cell.
FirstSkolem(m) ==
  IF ~Opt(m).skolemsLast THEN Len(Ordered[m.p][m.n])
  ELSE Cardinality({i \in DOMAIN Ordered[m.p][m.n] : Ordered[m.p][m.n][i][1] \notin Skolems})

Trials(m, cell) ==
  Tup([i \in 1 .. IF IsRelation(cell) THEN 2 ELSE m.n |-> AssignAndPropagate(m, cell, i - 1)])

\* What a trial assignment adds to the measure.
Gain(m, trial) == CASE Opt(m).measure = "propagations" -> trial.propagations
                    [] Opt(m).measure = "contradictions" -> IF trial.ok THEN 0 ELSE 1

\* The measure of a cell, and whether one of its trials is a fatal error (also if it is
\* one that the code skips because it could not beat the best so far).
Tried(m, trials) ==
  [n |-> Along(LAMBDA sum, trial : sum + Gain(m, trial), 0, trials),
   fatal |-> \E i \in DOMAIN trials : trials[i].fatal]
SelectionMeasure(m, cell) ==
  LET quick(n) == [n |-> n, fatal |-> FALSE]
  IN  CASE Opt(m).measure = "none"        -> quick(0)
        [] Opt(m).measure = "occurrences" -> quick(Len(Chain(m, m.occ[cell])))
        [] Opt(m).measure = "crossed"     ->
             quick(Cardinality(CellRange(cell, m.n) \ m.possible[cell]))
        [] OTHER -> Tried(m, Trials(m, cell))

\* The first of the cells whose measure is the largest, and what trying them led to.
FirstMax(measure) ==
  CHOOSE i \in DOMAIN measure : /\ \A j \in DOMAIN measure : measure[j].n =< measure[i].n
                                /\ \A j \in 1 .. i - 1 : measure[j].n < measure[i].n
Chosen(cells, measure) ==
  [cell |-> cells[FirstMax(measure)], fatal |-> \E i \in DOMAIN cells : measure[i].fatal]
Best(m, cells) == Chosen(cells, Tup([i \in DOMAIN cells |-> SelectionMeasure(m, cells[i])]))

\* The open cells that select_linear, select_concentric, select_concentric_band choose
\* from, out of a sequence of open cells.
Candidates(m, open, constrained) ==
  LET UpTo(k) == SelectSeq(open, LAMBDA c : MaxIndex(c) =< k)
      ring == UpTo(MaxIndex(Head(open)))
      band == UpTo(constrained)
  IN  CASE Opt(m).order = "linear" -> open
        [] Opt(m).order = "band" /\ band # <<>> -> band
        [] OTHER -> ring

\* select_cell: cells before First_skolem_cell go first.
SelectCell(m, constrained) ==
  LET cells == (IF Opt(m).order = "linear" THEN ById ELSE Ordered)[m.p][m.n]
      OpenIn(lo, hi) == SelectSeq(SubSeq(cells, lo, hi), LAMBDA c : m.value[c] = Open)
      early == OpenIn(1, FirstSkolem(m))
      open == IF early # <<>> THEN early ELSE OpenIn(FirstSkolem(m) + 1, Len(cells))
  IN  IF open = <<>> THEN [cell |-> Nil, fatal |-> FALSE]
                     ELSE Best(m, Candidates(m, open, constrained))
==============================================================================
