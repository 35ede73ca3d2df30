---------------------- MODULE CollectiveContractProofs ----------------------
(***************************************************************************)
(* What follows from the contract of the frontier for any clauses, yields  *)
(* and chunk sizes: no conclusion is drawn twice, none is dropped, none is *)
(* invented.                                                               *)
(***************************************************************************)
EXTENDS CollectiveContract, TLAPS

\* The yields of a given clause are conclusions of it.
Yields ==
  /\ yield \in [Clause -> [Clause -> SUBSET Conclusion]]
  /\ \A g, p \in Clause : yield[g][p] \subseteq ConclusionsOf(g)

\* A clause that was not given owes nothing yet, so that OnceEach is kept when it is.
IInv == Yields /\ active \subseteq Clause /\ Yielded /\ OnceEach

LEMMA InitInv == Init => IInv
BY DEF Init, IInv, Yields, Yielded, OnceEach

\* What an activation adds is due for the first time.
LEMMA ActivateInv ==
  ASSUME IInv, NEW g \in Clause, NEW retired \in SUBSET active, Activate(g, retired)
  PROVE  IInv'
<1> USE DEF IInv
<1> DEFINE new == UNION {yield[g][p] : p \in active'}
<1>1. Yields' /\ active' \subseteq Clause
  BY DEF Activate, input, Yields
<1>2. \A c \in new : c.given = g /\ \E p \in Clause : c \in yield[g][p]
  BY <1>1 DEF Yields, ConclusionsOf
<1>3. new \cap (owed \cup made) = {}
  BY <1>2 DEF Activate, Yielded
<1>4. Yielded'
  BY <1>2 DEF Activate, input, Yielded
<1>5. OnceEach'
  BY <1>3 DEF Activate, OnceEach
<1> QED BY <1>1, <1>4, <1>5

LEMMA RetireInv ==
  ASSUME IInv, NEW retired \in SUBSET active, Retire(retired)
  PROVE  IInv'
BY DEF IInv, Retire, input, Yields, Yielded, OnceEach

LEMMA DrawInv ==
  ASSUME IInv, Draw
  PROVE  IInv'
BY DEF IInv, Draw, input, Yields, Yielded, OnceEach

LEMMA NextInv == IInv /\ [Next]_vars => IInv'
<1> SUFFICES ASSUME IInv, [Next]_vars PROVE IInv'
  OBVIOUS
<1>1. CASE \E g \in Clause, retired \in SUBSET active : Activate(g, retired)
  BY <1>1, ActivateInv
<1>2. CASE \E retired \in SUBSET active : Retire(retired)
  BY <1>2, RetireInv
<1>3. CASE Draw
  BY <1>3, DrawInv
<1>4. CASE UNCHANGED vars
  BY <1>4 DEF IInv, vars, Yields, Yielded, OnceEach
<1> QED BY <1>1, <1>2, <1>3, <1>4 DEF Next

\* No conclusion of the frontier is drawn twice, and each is yielded by its given clause
\* and another: search.c keeps one descriptor for each given clause.
THEOREM DrawnOnce == Spec => [](OnceEach /\ Yielded)
<1>1. IInv => OnceEach /\ Yielded
  BY DEF IInv
<1> QED BY InitInv, NextInv, <1>1, PTL DEF Spec

\* A conclusion that is due stays due until it is drawn.
THEOREM DropsNothing == Spec => NothingDropped
<1>1. [Next]_vars => [owed \cup made \subseteq owed' \cup made']_vars
  BY DEF Next, Activate, Retire, Draw, vars
<1> QED BY <1>1, PTL DEF Spec, NothingDropped

=============================================================================
