----------------------------- MODULE GivenClause -----------------------------
(***************************************************************************)
(* The given-clause loop of prover9 (provers.src/search.c): the lists      *)
(* Usable, Sos, Limbo and Disabled, the indexes kept beside them, and the  *)
(* two search loops (search_loop=otter and search_loop=discount).          *)
(*                                                                         *)
(* A kept clause is a number, its id in order of keeping; "body" says what *)
(* it says.  Limbo is a queue, and clauses are appended to it as they are  *)
(* kept (or alone, when DISCOUNT activates one), so it is a set here and   *)
(* its head is the smallest id.  What bodies do to each other              *)
(* (subsumption, rewriting, unit deletion, inference) is given by the      *)
(* constants, so a rewriting step and an inference are table lookups;      *)
(* which clause is looked up where, when it is retired and what is         *)
(* re-processed afterwards is all here.                                    *)
(*                                                                         *)
(* pc is the place in limbo_process, or "top" for the main loop.  A clause *)
(* handed to cl_process waits in "hand", the one being processed is "cur"; *)
(* nothing else moves until both are empty, since cl_process is a call.    *)
(***************************************************************************)
EXTENDS Integers, Sequences, FiniteSets

CONSTANTS
  Body,          \* what a clause may say
  Empty,         \* the body of the empty clause
  NoBody,        \* no clause is being processed
  Tautology,     \* bodies simplify_literals2 turns into $T
  TooHeavy,      \* bodies over max_weight or matched by a delete rule
  Unit,          \* bodies of one literal
  Equation,      \* units that demodulator_type accepts
  Negative,      \* bodies without a positive literal
  Subsumes,      \* <<b, c>>: b subsumes c
  Conflicts,     \* <<b, c>>: complementary units
  Rewrites,      \* <<d, b, c>>: the demodulator d rewrites b to c in one step
  Deletes,       \* <<u, b, c>>: the unit u deletes a literal of b, leaving c
  Conclusions,   \* Conclusions[<<b, c>>]: resolvents and paramodulants of b and c
  Factors,       \* Factors[b]: factors, new-constant and fold-denial clauses
  SosLimit,      \* sos_limit
  KeepFactor,    \* sos_keep_factor
  MaxKept,       \* max_kept
  Problems       \* inputs: lists and options, see ProblemType

ProblemType ==
  [discount : BOOLEAN,       \* search_loop=discount
   restrict : BOOLEAN,       \* restrict_denials
   unitDeletion : BOOLEAN,   \* unit_deletion
   limits : BOOLEAN,         \* max_weight and sos_limit are set
   maxProofs : Nat \ {0},    \* max_proofs
   usable : Seq(Body),       \* formulas(usable)
   sos : SUBSET Body]        \* formulas(sos), in any order

ASSUME BodyAssumption ==
  /\ Empty \in Body /\ NoBody \notin Body
  /\ Unit \subseteq Body /\ Negative \subseteq Body /\ Equation \subseteq Unit
  /\ Rewrites \subseteq Body \X Body \X Body
  /\ Deletes \subseteq Unit \X Body \X Body
  /\ Conclusions \in [Body \X Body -> SUBSET Body]
  /\ Factors \in [Body -> SUBSET Body]

\* Complementary units are two, each the other's opponent; a unit that falls to
\* unit deletion is the opponent of what deletes it; the empty clause has no
\* literal to rewrite or delete.
ASSUME LiteralAssumption ==
  /\ \A p \in Conflicts : <<p[2], p[1]>> \in Conflicts /\ p[1] # p[2]
  /\ \A t \in Deletes : t[2] \in Unit => <<t[1], t[2]>> \in Conflicts
  /\ \A t \in Rewrites \cup Deletes : t[2] # Empty

ASSUME LimitAssumption ==
  /\ SosLimit \in Nat \ {0} /\ KeepFactor \in Nat \ {0} /\ MaxKept \in Nat

ASSUME ProblemAssumption == Problems \subseteq ProblemType

VARIABLES
  opt,        \* the problem being searched
  body,       \* body of every clause that has an id
  usable, sos, limbo, disabled,    \* Glob's lists
  demods,     \* the list of demodulators and its index
  lits,       \* the literal index: subsumption, unit conflict and deletion
  backDemod,  \* the back-demodulation index
  clash,      \* clashable_idx: the partners of resolution
  wasGiven,   \* clauses whose was_given is set
  epoch, stamp,  \* Simplifier_epoch, simplifier_epoch of the passives
  used,       \* clauses whose "used" was set when they were kept
  pc,         \* place in the loop
  hand,       \* bodies that cl_process is still to be called with
  cur,        \* the body cl_process is working on
  olds,       \* rest of the Plist of back_demod or back_unit_deletion
  given,      \* the clause DISCOUNT is activating, 0 when none
  searching,  \* Glob.searching
  proofs      \* Stats.proofs

lists   == <<usable, sos, limbo, disabled>>
indexes == <<demods, lits, backDemod, clash>>
passive == <<epoch, stamp, used>>
vars    == <<opt, body, lists, indexes, wasGiven, passive, pc, hand, cur, olds,
             given, searching, proofs>>

Ids   == DOMAIN body
Exits == {"max_proofs", "sos_empty", "max_kept"}
Kept  == Len(body) - Len(opt.usable)

Input   == DOMAIN opt.usable

Restricted(b) == opt.restrict /\ b \in Negative

\* In DISCOUNT a kept clause stays out of every index until it is selected.
IsActive(b, wasSelected) == ~opt.discount \/ wasSelected \/ Restricted(b)

Idle == hand = {} /\ cur = NoBody /\ pc \notin Exits

(* ------------------------- forward operations -------------------------- *)
Subsumed(b) == \E l \in lits : <<body[l], b>> \in Subsumes

RewritesOf(b) == {c \in Body : \E d \in demods : <<body[d], b, c>> \in Rewrites}
DeletionsOf(b) ==
  {c \in Body : opt.unitDeletion /\ \E u \in lits : <<body[u], b, c>> \in Deletes}

\* Rewriting comes first, unit deletion works on what it leaves.
SimplerForms(b) == IF RewritesOf(b) # {} THEN RewritesOf(b) ELSE DeletionsOf(b)

\* skip_black_white_tests: no limit applies before the search or to a denial.
Limited(b) == opt.limits /\ searching /\ ~Restricted(b)

\* The tests of cl_process_delete.  sos_keep2 may refuse any clause once Sos is
\* filling up: which ones is up to the selectors.
Unwanted(b) ==
  \/ b \in Tautology
  \/ Limited(b) /\ b \in TooHeavy
  \/ Subsumed(b)
Refusable(b) == Limited(b) /\ Cardinality(sos) >= SosLimit \div KeepFactor

(* ------------------------------ the lists ------------------------------- *)
\* The clauses of S that are in the literal index, by their lists.
SosForgotten(S)   == {}                             \* mutant
IndexedOnSos(S)   == {c \in S \cap sos : ~opt.discount}
IndexedOnLimbo(S) == {c \in S \cap limbo : IsActive(body[c], c \in wasGiven)}

\* disable_clause for every clause of S.
Disable(S) ==
  LET onUsable == S \cap usable
      onSos    == IndexedOnSos(S)
      onLimbo  == IndexedOnLimbo(S)
  IN /\ usable' = usable \ S
     /\ sos' = sos \ S
     /\ limbo' = limbo \ S
     /\ disabled' = disabled \cup S
     /\ demods' = demods \ S
     /\ lits' = lits \ (onUsable \cup onSos \cup onLimbo)
     /\ backDemod' = backDemod \ (onUsable \cup onSos)
     /\ clash' = clash \ {c \in onUsable : ~Restricted(body[c])}

Init ==
  /\ opt \in Problems
  /\ body = opt.usable
  /\ usable = DOMAIN opt.usable /\ sos = {} /\ limbo = {} /\ disabled = {}
  /\ demods = {}
  /\ lits = usable /\ backDemod = usable /\ clash = usable
  /\ wasGiven = {}
  /\ epoch = 1 /\ stamp = [c \in {} |-> 0] /\ used = {}
  /\ pc = "limbo" /\ hand = opt.sos /\ cur = NoBody /\ olds = {}
  /\ given = 0 /\ searching = FALSE /\ proofs = 0

(* ------------------------------ cl_process ------------------------------ *)
\* cl_process is called; it gives up the search once max_kept is exceeded.
Call ==
  /\ pc \notin Exits /\ cur = NoBody
  /\ \E b \in hand : hand' = hand \ {b} /\ cur' = b
  /\ pc' = IF Kept > MaxKept THEN "max_kept" ELSE pc
  /\ UNCHANGED <<opt, body, lists, indexes, wasGiven, passive, olds, given,
                 searching, proofs>>

\* One step of cl_process_simplify.
Simplify ==
  /\ pc \notin Exits /\ cur # NoBody
  /\ cur' \in SimplerForms(cur)
  /\ UNCHANGED <<opt, body, lists, indexes, wasGiven, passive, pc, hand, olds,
                 given, searching, proofs>>

Simplified == pc \notin Exits /\ cur # NoBody /\ SimplerForms(cur) = {}

\* handle_proof_and_maybe_exit, called n times: the last proof ends the search.
LastProof(n) == proofs + n >= opt.maxProofs

Refute ==
  /\ Simplified /\ cur = Empty
  /\ proofs' = proofs + 1
  /\ pc' = IF LastProof(1) THEN "max_proofs" ELSE pc
  /\ cur' = NoBody
  /\ UNCHANGED <<opt, body, lists, indexes, wasGiven, passive, hand, olds, given,
                 searching>>

\* No clause is "used" yet, since unit conflict comes after these tests.
Drop ==
  /\ Simplified /\ cur # Empty /\ (Unwanted(cur) \/ Refusable(cur))
  /\ cur' = NoBody
  /\ UNCHANGED <<opt, body, lists, indexes, wasGiven, passive, pc, hand, olds,
                 given, searching, proofs>>

OpponentsOffLimbo(b) ==                             \* mutant
  {l \in lits \ limbo : <<b, body[l]>> \in Conflicts}
Opponents(b) == {l \in lits : <<b, body[l]>> \in Conflicts}

\* cl_process_conflict finds the last proof: the clause never joins a list.
RefuteByConflict ==
  /\ Simplified /\ cur # Empty /\ ~Unwanted(cur)
  /\ Opponents(cur) # {} /\ LastProof(Cardinality(Opponents(cur)))
  /\ proofs' = opt.maxProofs
  /\ pc' = "max_proofs"
  /\ cur' = NoBody
  /\ UNCHANGED <<opt, body, lists, indexes, wasGiven, passive, hand, olds, given,
                 searching>>

\* cl_process_keep, cl_process_conflict, cl_process_new_demod, index, queue.  A
\* clause in conflict is "used": so are parents, but those are active, and only
\* discount_refresh_selected asks.
Keep ==
  /\ Simplified /\ cur # Empty /\ ~Unwanted(cur)
  /\ Opponents(cur) = {} \/ ~LastProof(Cardinality(Opponents(cur)))
  /\ proofs' = proofs + Cardinality(Opponents(cur))
  /\ LET c == Len(body) + 1
         new == IF IsActive(cur, FALSE) THEN {c} ELSE {}
     IN /\ body' = Append(body, cur)
        /\ demods' = IF cur \in Equation THEN demods \cup new ELSE demods
        /\ lits' = lits \cup new
        /\ limbo' = limbo \cup {c}
        /\ used' = IF Opponents(cur) # {} THEN used \cup {c} ELSE used
  /\ cur' = NoBody
  /\ UNCHANGED <<opt, usable, sos, disabled, backDemod, clash, wasGiven, epoch,
                 stamp, pc, hand, olds, given, searching>>

ClProcess == Call \/ Simplify \/ Refute \/ Drop \/ RefuteByConflict \/ Keep

(* ---------------------------- limbo_process ----------------------------- *)
IsFirst(c) == c \in limbo /\ \A d \in limbo : c <= d

\* A DISCOUNT passive: only the selector gets it.
IsCold(c) == ~IsActive(body[c], c \in wasGiven)

\* restricted denials and the clause being activated go to Usable
ToUsable(c) == Restricted(body[c]) \/ (opt.discount /\ c \in wasGiven)

RoomInSos == opt.limits => Cardinality(sos) < SosLimit

\* c, the head of Limbo, is about to leave it.
Leaves(c) ==
  /\ Idle /\ IsFirst(c)
  /\ \/ pc = "limbo" /\ IsCold(c)
     \/ pc = "backunit" /\ olds = {}

\* sos_displace2: the worst clause of Sos makes room (any clause may be it).
Displace ==
  /\ \E c \in limbo : Leaves(c) /\ ~ToUsable(c)
  /\ ~RoomInSos
  /\ \E worst \in sos : Disable({worst})
  /\ UNCHANGED <<opt, body, wasGiven, passive, pc, hand, cur, olds, given,
                 searching, proofs>>

StoreCold(c) ==
  /\ Leaves(c) /\ pc = "limbo" /\ RoomInSos
  /\ limbo' = limbo \ {c}
  /\ sos' = sos \cup {c}
  /\ stamp' = [d \in DOMAIN stamp \cup {c} |-> IF d = c THEN epoch ELSE stamp[d]]
  /\ UNCHANGED <<opt, body, usable, disabled, indexes, wasGiven, epoch, used,
                 pc, hand, cur, olds, given, searching, proofs>>

\* Factoring, new_constant and fold_denial: new clauses from this one alone.
Factor(c) ==
  /\ Idle /\ pc = "limbo" /\ IsFirst(c) /\ ~IsCold(c)
  /\ hand' = Factors[body[c]]
  /\ pc' = "backsubsume"
  /\ UNCHANGED <<opt, body, lists, indexes, wasGiven, passive, cur, olds, given,
                 searching, proofs>>

Subsumees(c) == {d \in lits \ {c} : <<body[c], body[d]>> \in Subsumes}

\* Disable what c subsumes; then list what back_demod has to redo.
BackSubsume(c) ==
  /\ Idle /\ pc = "backsubsume" /\ IsFirst(c)
  /\ Disable(Subsumees(c))
  /\ olds' = {d \in backDemod' :
                c \in demods /\ \E b \in Body : <<body[c], body[d], b>> \in Rewrites}
  /\ pc' = "backdemod"
  /\ UNCHANGED <<opt, body, wasGiven, passive, hand, cur, given, searching, proofs>>

NoCopy(old) == {}                                   \* mutant
CopyOf(old) == {body[old]}

\* back_demod and back_unit_deletion: retire a clause, process a copy of it.
Redo(old) ==
  /\ Idle /\ pc \in {"backdemod", "backunit"}
  /\ olds' = olds \ {old}
  /\ IF old \in disabled
       THEN UNCHANGED <<lists, indexes, hand>>
       ELSE Disable({old}) /\ hand' = CopyOf(old)
  /\ UNCHANGED <<opt, body, wasGiven, passive, pc, cur, given, searching, proofs>>

\* back_unit_deletable: non-units that the clause, if a unit, shortens.
StartBackUnitDeletion(c) ==
  /\ Idle /\ pc = "backdemod" /\ olds = {} /\ IsFirst(c)
  /\ olds' = {d \in lits : /\ opt.unitDeletion /\ body[d] \notin Unit
                           /\ \E b \in Body : <<body[c], body[d], b>> \in Deletes}
  /\ pc' = "backunit"
  /\ UNCHANGED <<opt, body, lists, indexes, wasGiven, passive, hand, cur, given,
                 searching, proofs>>

MoveToUsable(c) ==
  /\ Leaves(c) /\ pc = "backunit" /\ ToUsable(c)
  /\ limbo' = limbo \ {c}
  /\ usable' = usable \cup {c}
  /\ backDemod' = backDemod \cup {c}
  /\ pc' = "limbo"
  /\ UNCHANGED <<opt, body, sos, disabled, demods, lits, clash, wasGiven, passive,
                 hand, cur, olds, given, searching, proofs>>

MoveToSos(c) ==
  /\ Leaves(c) /\ pc = "backunit" /\ ~ToUsable(c) /\ RoomInSos
  /\ limbo' = limbo \ {c}
  /\ sos' = sos \cup {c}
  /\ backDemod' = backDemod \cup {c}
  /\ pc' = "limbo"
  /\ UNCHANGED <<opt, body, usable, disabled, demods, lits, clash, wasGiven, passive,
                 hand, cur, olds, given, searching, proofs>>

\* What given_infer generates from g, with the given partners.
Inferences(g, partners) == UNION {Conclusions[<<body[g], body[p]>>] : p \in partners}

\* Limbo is drained; a DISCOUNT activation goes on to given_infer.
LimboEmpty ==
  /\ Idle /\ pc = "limbo" /\ limbo = {}
  /\ IF given \in usable
       THEN /\ clash' = IF Restricted(body[given]) THEN clash ELSE clash \cup {given}
            /\ hand' = Inferences(given, clash')
            /\ UNCHANGED <<pc, searching>>
       ELSE /\ pc' = "top" /\ searching' = TRUE
            /\ UNCHANGED <<clash, hand>>
  /\ given' = 0
  /\ UNCHANGED <<opt, body, lists, demods, lits, backDemod, wasGiven, passive, cur,
                 olds, proofs>>

LimboProcess ==
  \/ Displace \/ LimboEmpty
  \/ \E c \in limbo :
       \/ StoreCold(c) \/ Factor(c) \/ BackSubsume(c)
       \/ StartBackUnitDeletion(c) \/ MoveToUsable(c) \/ MoveToSos(c)
  \/ \E old \in olds : Redo(old)

(* --------------------------- make_inferences ---------------------------- *)
\* Otter: the given clause joins Usable and makes its inferences.
SelectGiven(c) ==
  /\ Idle /\ pc = "top" /\ ~opt.discount
  /\ sos' = sos \ {c}
  /\ usable' = usable \cup {c}
  /\ clash' = clash \cup {c}
  /\ wasGiven' = wasGiven \cup {c}
  /\ hand' = Inferences(c, clash')
  /\ pc' = "limbo"
  /\ UNCHANGED <<opt, body, limbo, disabled, demods, lits, backDemod, passive, cur,
                 olds, given, searching, proofs>>

NeverStale(c) == FALSE                              \* mutant
Stale(c) == stamp[c] # epoch

\* mutant: a passive that changed is left in Sos
Requeued(c) == IF SimplerForms(body[c]) # {} THEN {} ELSE {c}
Retired(c) == {c}

\* discount_refresh_selected: a passive that is no longer in simplest form is
\* retired and its copy processed; one that is now subsumed is retired, unless
\* it is used.
Discarded(c) == Subsumed(body[c]) /\ c \notin used
Refresh(c) ==
  /\ Idle /\ pc = "top" /\ opt.discount
  /\ Stale(c)
  /\ SimplerForms(body[c]) # {} \/ Discarded(c)
  /\ sos' = sos \ Retired(c)
  /\ disabled' = disabled \cup Retired(c)
  /\ hand' = IF SimplerForms(body[c]) # {} THEN {body[c]} ELSE {}
  /\ pc' = IF SimplerForms(body[c]) # {} THEN "limbo" ELSE "top"
  /\ UNCHANGED <<opt, body, usable, limbo, indexes, wasGiven, passive, cur, olds,
                 given, searching, proofs>>

\* The passive is up to date: index it and send it through Limbo.
Activate(c) ==
  /\ Idle /\ pc = "top" /\ opt.discount
  /\ Stale(c) => SimplerForms(body[c]) = {} /\ ~Discarded(c)
  /\ sos' = sos \ {c}
  /\ limbo' = limbo \cup {c}
  /\ wasGiven' = wasGiven \cup {c}
  /\ demods' = IF body[c] \in Equation THEN demods \cup {c} ELSE demods
  /\ lits' = lits \cup {c}
  /\ given' = c
  /\ epoch' = epoch + 1
  /\ pc' = "limbo"
  /\ UNCHANGED <<opt, body, usable, disabled, backDemod, clash, stamp, used, hand,
                 cur, olds, searching, proofs>>

\* No given clause is left.
Exhaust ==
  /\ Idle /\ pc = "top" /\ sos = {}
  /\ pc' = IF proofs > 0 THEN "max_proofs" ELSE "sos_empty"
  /\ UNCHANGED <<opt, body, lists, indexes, wasGiven, passive, hand, cur, olds,
                 given, searching, proofs>>

MakeInferences == Exhaust \/ \E c \in sos : SelectGiven(c) \/ Refresh(c) \/ Activate(c)

Next == ClProcess \/ LimboProcess \/ MakeInferences

\* search() is one sequential program: it always takes its next step.
Spec == Init /\ [][Next]_vars
FairSpec == Spec /\ WF_vars(Next)

(* ------------------------------ properties ------------------------------ *)
\* Lists and indexes hold clauses that have an id, and Limbo holds the clause
\* that its processing is about.  (limbo_process)
TypeOK ==
  /\ opt \in ProblemType /\ body \in Seq(Body)
  /\ usable \subseteq Ids /\ sos \subseteq Ids /\ disabled \subseteq Ids
  /\ limbo \subseteq Ids /\ wasGiven \subseteq Ids /\ olds \subseteq Ids
  /\ demods \subseteq Ids /\ lits \subseteq Ids
  /\ backDemod \subseteq Ids /\ clash \subseteq Ids /\ used \subseteq Ids
  /\ epoch \in Nat /\ sos \subseteq DOMAIN stamp \cup (IF opt.discount THEN {} ELSE Ids)
  /\ hand \subseteq Body /\ cur \in Body \cup {NoBody}
  /\ given \in Ids \cup {0} /\ searching \in BOOLEAN /\ proofs \in 0 .. opt.maxProofs
  /\ pc \in {"limbo", "backsubsume", "backdemod", "backunit", "top"} \cup Exits
  /\ pc \in {"backsubsume", "backdemod", "backunit"} => limbo # {}

\* Every clause with an id is on exactly one of the lists.  (disable_clause,
\* clist_append and clist_remove at every move)
OneHome ==
  /\ usable \cup sos \cup limbo \cup disabled = Ids
  /\ usable \cap (sos \cup limbo \cup disabled) = {}
  /\ sos \cap (limbo \cup disabled) = {}
  /\ limbo \cap disabled = {}

\* The indexes say what the lists say, whatever sequence of moves, back
\* operations and copies led here: a passive DISCOUNT clause is in none of
\* them, a retired clause is in none of them, and an active clause is in all
\* those its list calls for.  (disable_clause, cl_process, limbo_process)
IndexesFollowLists ==
  LET onSos == IF opt.discount THEN {} ELSE sos
      onLimbo == {c \in limbo : IsActive(body[c], c \in wasGiven)}
  IN /\ OneHome
     /\ lits = usable \cup onSos \cup onLimbo
     /\ backDemod = usable \cup onSos
     /\ demods = {c \in lits \ Input : body[c] \in Equation}
     /\ clash = {c \in usable \ {given} :
                   c \in Input \/ ~Restricted(body[c])}

\* Nothing retired can take part in the search again: what IndexesFollowLists
\* says of the retired alone.  (disable_clause)
RetiredIsGone == disabled \cap (lits \cup backDemod \cup demods \cup clash) = {}

\* A DISCOUNT clause that was kept with a proof is not discarded as subsumed.
Spared(d) == opt.discount /\ d \in used

\* What c can do to d once both are indexed.
Reduces(c, d) ==
  \/ <<body[c], body[d]>> \in Subsumes /\ ~Spared(d)
  \/ c \in demods /\ \E b \in Body : <<body[c], body[d], b>> \in Rewrites
  \/ opt.unitDeletion /\ \E b \in Body : <<body[c], body[d], b>> \in Deletes

\* "If A is ahead of B, then A does not simplify or subsume B" in Limbo, for
\* the A that are indexed.  (comment of limbo_process)
LimboIsOrdered ==
  \A c, d \in limbo : c < d /\ c \in lits => ~Reduces(c, d)

\* Restricted denials become active without the steps an activation takes.
Selective == ~(opt.discount /\ opt.restrict)

\* When the next given clause is chosen, no active clause is subsumed,
\* rewritten or shortened by another, except within the input Usable list,
\* which is never interreduced, and except complementary units, which stay when
\* the search goes on after their proof and in DISCOUNT may then be subsumed;
\* until then Limbo is ordered.  In DISCOUNT this needs the refresh of every passive whose epoch is old.
\* (limbo_process, discount_refresh_selected)
Interreduced ==
  /\ LimboIsOrdered
  /\ pc = "top" /\ Selective =>
       \A c, d \in lits :
          c # d /\ ~(c \in Input /\ d \in Input) /\ Reduces(c, d)
            => <<body[c], body[d]>> \in Conflicts

\* Two complementary units are never both active without a proof having been
\* found: at once in Otter, by the next given clause in DISCOUNT.
ConflictIsProof ==
  proofs = 0 /\ Selective /\ (~opt.discount \/ pc = "top") =>
    \A c, d \in lits :
      <<body[c], body[d]>> \in Conflicts => c \in Input /\ d \in Input

\* b follows from one clause of Usable by subsumption, after simplification.
Covered(b) ==
  LET forms[n \in 0 .. Cardinality(Body)] ==
        IF n = 0 THEN {b}
        ELSE LET shorter == forms[n - 1]
             IN shorter \cup UNION {SimplerForms(c) : c \in shorter}
  IN \E c \in forms[Cardinality(Body)] : c \in Tautology \/ Subsumed(c)

\* A search that ends because Sos is empty has really closed its input: every
\* input clause and every inference between two clauses of Usable that the
\* loop is to make is covered by a clause of Usable.  This is what makes
\* "sos_empty" mean saturation.  (make_inferences, cl_process, limbo_process)
Saturated ==
  pc = "sos_empty" /\ Selective /\ ~opt.limits =>
    /\ \A b \in opt.sos : Covered(b)
    /\ \A c \in clash, d \in clash \cap wasGiven :
         \A b \in Conclusions[<<body[d], body[c]>>] : Covered(b)

\* The search ends when the problem has finitely many clauses.
Termination == <>(pc \in Exits)
=============================================================================
