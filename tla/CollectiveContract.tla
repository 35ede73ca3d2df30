------------------------- MODULE CollectiveContract -------------------------
(***************************************************************************)
(* What the collective inference frontier of Prover9 promises.  Without it *)
(* a new given clause yields its conclusions with every active clause at   *)
(* once.  The frontier yields the same conclusions later: each that was    *)
(* due when the clause was activated, none twice, none with a clause that  *)
(* was not active at that time, and a bounded number at a time.            *)
(***************************************************************************)
EXTENDS Integers, FiniteSets

CONSTANTS
  Clause,      \* the clauses
  Conclusion   \* the conclusions, records with a field given

VARIABLES
  yield,   \* yield[g][p]: the conclusions of the given clause g with its partner p
  chunk,   \* how many conclusions may be drawn at a time
  past,    \* the clauses that were given
  active,  \* the active clauses
  owed,    \* the conclusions that are due
  made     \* the conclusions that were drawn

vars == <<yield, chunk, past, active, owed, made>>
input == <<yield, chunk>>

ConclusionsOf(g) == {c \in Conclusion : c.given = g}

Init ==
  /\ yield \in [Clause -> [Clause -> SUBSET Conclusion]]
  /\ \A g, p \in Clause : yield[g][p] \subseteq ConclusionsOf(g)
  /\ chunk \in Nat \ {0}
  /\ past = {}
  /\ active \subseteq Clause
  /\ owed = {}
  /\ made = {}

\* The clause g is given: it retires some clauses and is active from now on.
Activate(g, retired) ==
  /\ g \notin past
  /\ past' = past \cup {g}
  /\ active' = (active \ retired) \cup {g}
  /\ owed' = owed \cup UNION {yield[g][p] : p \in active'}
  /\ UNCHANGED <<input, made>>

\* The given clause only retires some clauses: it did not become active itself.
Retire(retired) ==
  /\ active' = active \ retired
  /\ UNCHANGED <<input, past, owed, made>>

\* Some conclusions are drawn.
Draw ==
  /\ owed' \subseteq owed
  /\ Cardinality(owed \ owed') =< chunk
  /\ made' = made \cup (owed \ owed')
  /\ UNCHANGED <<input, past, active>>

Next ==
  \/ \E g \in Clause, retired \in SUBSET active : Activate(g, retired)
  \/ \E retired \in SUBSET active : Retire(retired)
  \/ Draw

Spec == Init /\ [][Next]_vars

-----------------------------------------------------------------------------
\* No conclusion that was drawn is ever drawn again: collective_rotate_or_complete_batch
\* and the cursors never give a unit back.
OnceEach == owed \cap made = {}

\* Nothing is dropped: a conclusion that is due stays due until it is drawn.
NothingDropped == [][owed \cup made \subseteq owed' \cup made']_vars

\* Nothing is invented: what is due or drawn is yielded by its given clause, which was
\* given, with some clause.
Yielded ==
  \A c \in owed \cup made : c.given \in past /\ \E p \in Clause : c \in yield[c.given][p]

=============================================================================
