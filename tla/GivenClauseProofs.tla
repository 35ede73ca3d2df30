-------------------------- MODULE GivenClauseProofs --------------------------
(***************************************************************************)
(* Theorems about the lists and indexes of the given-clause loop, for any  *)
(* clause language, any inputs and any limits.                             *)
(***************************************************************************)
EXTENDS GivenClause, FiniteSetTheorems, TLAPS

BackPcs == {"backsubsume", "backdemod", "backunit"}
Pcs     == {"limbo", "top"} \cup BackPcs \cup Exits

(***************************************************************************)
(* What the loop works on.                                                 *)
(***************************************************************************)
BodyInv ==
  /\ opt \in Problems /\ body \in Seq(Body)
  /\ hand \subseteq Body /\ cur \in Body \cup {NoBody}
  /\ epoch \in Nat /\ searching \in BOOLEAN /\ pc \in Pcs

ProofsInv ==
  /\ opt.maxProofs \in Nat \ {0} /\ proofs \in 0 .. opt.maxProofs
  /\ pc \notin Exits => proofs < opt.maxProofs

IdInv ==
  /\ wasGiven \subseteq Ids /\ olds \subseteq Ids /\ clash \subseteq Ids
  /\ given \in Ids \cup {0} /\ Input \subseteq Ids /\ used \subseteq Ids

(***************************************************************************)
(* The lists: a restricted denial is never in Sos, an input clause of the  *)
(* Usable list is never in Sos or Limbo.                                   *)
(***************************************************************************)
ListInv ==
  /\ OneHome
  /\ Input \cap (sos \cup limbo) = {}
  /\ \A c \in sos : ~Restricted(body[c]) /\ (opt.discount => c \in DOMAIN stamp)

\* The indexes but the clashable one, as IndexesFollowLists describes them.
Active(c)  == IsActive(body[c], c \in wasGiven)
ActiveSos  == IF opt.discount THEN {} ELSE sos
IndexInv ==
  /\ lits = usable \cup ActiveSos \cup {c \in limbo : Active(c)}
  /\ backDemod = usable \cup ActiveSos
  /\ demods = {c \in lits \ Input : body[c] \in Equation}

\* In DISCOUNT the only selected clause in Limbo is the one being activated.
GivenInv ==
  /\ pc = "top" => given = 0
  /\ opt.discount => wasGiven \cap limbo \subseteq {given}

\* While the head of Limbo is being processed it stays there: it is active,
\* and it is not among the clauses that back_demod or back_unit_deletion redo.
HeadInv ==
  /\ pc \in BackPcs => \E c \in limbo : IsFirst(c) /\ Active(c) /\ c \notin olds
  /\ pc \in {"limbo", "top", "backsubsume"} => olds = {}

(***************************************************************************)
(* The inductive invariant, and the clashable index, which follows         *)
(* IndexesFollowLists only when no clause of the input Usable list is a    *)
(* restricted denial.                                                      *)
(***************************************************************************)
IInv == BodyInv /\ ProofsInv /\ IdInv /\ ListInv /\ IndexInv /\ GivenInv /\ HeadInv

InputsUnrestricted ==
  \A p \in Problems : p.restrict => \A c \in DOMAIN p.usable : p.usable[c] \notin Negative

ClashInv ==
  /\ \A c \in Input : ~Restricted(body[c])
  /\ clash = {c \in usable \ {given} : ~Restricted(body[c])}

-----------------------------------------------------------------------------
(* What the operators of the loop return.                                  *)

\* Rewriting, unit deletion and inference yield bodies.
LEMMA SimplerType == \A b : SimplerForms(b) \subseteq Body
BY DEF SimplerForms, RewritesOf, DeletionsOf

LEMMA InferencesType ==
  ASSUME IdInv, BodyInv, NEW g \in Ids, NEW S \in SUBSET Ids
  PROVE  Inferences(g, S) \subseteq Body
<1>1. \A c \in Ids : body[c] \in Body BY DEF BodyInv, Ids
<1>2. \A c \in S : Conclusions[<<body[g], body[c]>>] \subseteq Body
  BY <1>1, BodyAssumption
<1> QED BY <1>2 DEF Inferences

\* The literal index is finite, so complementary units can be counted.
LEMMA OpponentsCount ==
  ASSUME BodyInv, lits \subseteq Ids, NEW b
  PROVE  Cardinality(Opponents(b)) \in Nat /\ (Opponents(b) = {} <=> Cardinality(Opponents(b)) = 0)
<1>1. Ids = 1 .. Len(body) /\ Len(body) \in Nat BY DEF BodyInv, Ids
<1>2. IsFiniteSet(1 .. Len(body)) BY <1>1, FS_Interval
<1>3. Opponents(b) \subseteq 1 .. Len(body) BY <1>1 DEF Opponents
<1>4. IsFiniteSet(Opponents(b)) BY <1>2, <1>3, FS_Subset
<1> QED BY <1>4, FS_CardinalityType, FS_EmptySet

\* The lists and the indexes hold ids only.
LEMMA OnlyIds ==
  ASSUME IdInv, ListInv, IndexInv
  PROVE  /\ usable \subseteq Ids /\ sos \subseteq Ids /\ limbo \subseteq Ids
         /\ disabled \subseteq Ids
         /\ lits \subseteq Ids /\ backDemod \subseteq Ids /\ demods \subseteq Ids
BY DEF IdInv, ListInv, OneHome, IndexInv, ActiveSos

\* disable_clause keeps lists and indexes in step, whatever clauses it is
\* called for and whatever lists they are on.
LEMMA DisableKeeps ==
  ASSUME IdInv, ListInv, IndexInv, NEW S \in SUBSET Ids, Disable(S),
         UNCHANGED <<opt, body, wasGiven, stamp>>
  PROVE  ListInv' /\ IndexInv' /\ clash' \subseteq Ids
<1> USE DEF Disable
<1>1. UNCHANGED <<Ids, Input>> BY DEF Ids, Input
<1>2. OneHome' BY <1>1 DEF ListInv, OneHome
<1>3. ListInv' BY <1>1, <1>2 DEF ListInv, Restricted
<1>4. \A c : Active(c)' <=> Active(c) BY DEF Active, IsActive, Restricted
<1>5. lits' = lits \ S
  BY DEF IndexInv, IndexedOnSos, IndexedOnLimbo, ActiveSos, Active
<1>6. lits' = (usable \cup ActiveSos \cup {c \in limbo : Active(c)})'
  BY <1>4, <1>5 DEF IndexInv, ActiveSos
<1>7. backDemod' = (usable \cup ActiveSos)'
  BY DEF IndexInv, ActiveSos, IndexedOnSos, ListInv, OneHome
<1>8. demods' = {c \in lits' \ Input' : body'[c] \in Equation}
  BY <1>1, <1>5 DEF IndexInv
<1>9. clash' \subseteq Ids BY DEF IdInv
<1> QED BY <1>3, <1>6, <1>7, <1>8, <1>9 DEF IndexInv

-----------------------------------------------------------------------------
(* The initial state.                                                      *)

LEMMA InitInv == Init => IInv
<1> SUFFICES ASSUME Init PROVE IInv OBVIOUS
<1> USE DEF Init
<1>1. opt \in ProblemType BY ProblemAssumption
<1>2. opt.usable \in Seq(Body) /\ opt.sos \subseteq Body BY <1>1 DEF ProblemType
<1>3. Ids = usable /\ Input = usable /\ 0 \notin Ids BY <1>2 DEF Ids, Input
<1>4. BodyInv BY <1>2 DEF BodyInv, Pcs
<1>5. ProofsInv BY <1>1 DEF ProblemType, ProofsInv, Exits
<1>6. IdInv BY <1>3 DEF IdInv
<1>7. ListInv BY <1>3 DEF ListInv, OneHome
<1>8. IndexInv BY <1>3 DEF IndexInv, ActiveSos
<1>9. GivenInv /\ HeadInv BY DEF GivenInv, HeadInv, BackPcs
<1> QED BY <1>4, <1>5, <1>6, <1>7, <1>8, <1>9 DEF IInv

-----------------------------------------------------------------------------
(* cl_process.                                                             *)

\* A step that moves no clause keeps the lists and the indexes.
LEMMA QuietKeeps ==
  ASSUME IdInv, ListInv, IndexInv, UNCHANGED <<opt, body, lists, indexes, wasGiven, stamp, used>>
  PROVE  /\ ListInv' /\ IndexInv'
         /\ olds' \subseteq Ids /\ given' \in Ids \cup {0} => IdInv'
         /\ \A c : (Active(c)' <=> Active(c)) /\ (IsFirst(c)' <=> IsFirst(c))
<1> USE DEF lists, indexes
<1>1. UNCHANGED <<Ids, Input, ActiveSos>> BY DEF Ids, Input, ActiveSos
<1>2. \A c : Active(c)' <=> Active(c) BY DEF Active, IsActive, Restricted
<1>3. olds' \subseteq Ids /\ given' \in Ids \cup {0} => IdInv' BY <1>1 DEF IdInv
<1>4. ListInv' BY <1>1 DEF ListInv, OneHome, Restricted
<1>5. IndexInv' BY <1>1, <1>2 DEF IndexInv
<1>6. \A c : IsFirst(c)' <=> IsFirst(c) BY DEF IsFirst
<1> QED BY <1>2, <1>3, <1>4, <1>5, <1>6

\* Keep gives the clause the next id and appends it to Limbo.
LEMMA KeepKeeps == IInv /\ Keep => IInv'
<1> SUFFICES ASSUME IInv, Keep PROVE IInv' OBVIOUS
<1>0. PICK c : c = Len(body) + 1 OBVIOUS
<1> DEFINE new == IF IsActive(cur, FALSE) THEN {c} ELSE {}
<1>1. /\ BodyInv /\ ProofsInv /\ IdInv /\ ListInv /\ IndexInv /\ GivenInv /\ HeadInv
      /\ cur \in Body /\ body \in Seq(Body)
  BY DEF IInv, Keep, Simplified, BodyInv
<1>2. /\ usable \subseteq Ids /\ sos \subseteq Ids /\ limbo \subseteq Ids
      /\ disabled \subseteq Ids /\ lits \subseteq Ids /\ demods \subseteq Ids
  BY <1>1, OnlyIds
<1>3. /\ body' = Append(body, cur) /\ limbo' = limbo \cup {c} /\ lits' = lits \cup new
      /\ demods' = IF cur \in Equation THEN demods \cup new ELSE demods
      /\ cur' = NoBody
      /\ UNCHANGED <<opt, usable, sos, disabled, backDemod, clash, wasGiven, stamp, epoch,
                     pc, hand, olds, given, searching>>
  BY <1>0 DEF Keep
<1>4. /\ Ids' = Ids \cup {c} /\ c \notin Ids /\ Ids \subseteq Nat /\ c # 0
      /\ body' \in Seq(Body) /\ body'[c] = cur
      /\ \A d \in Ids : body'[d] = body[d] /\ d < c
  BY <1>0, <1>1, <1>3 DEF Ids
<1>5. Input' = Input /\ c \notin Input BY <1>1, <1>3, <1>4 DEF Input, IdInv
<1>6. \A d \in Ids : Active(d)' <=> Active(d)
  BY <1>3, <1>4 DEF Active, IsActive, Restricted
<1>7. new = {d \in {c} : Active(d)'}
  <2>1. c \notin wasGiven' BY <1>1, <1>3, <1>4 DEF IdInv
  <2>2. Active(c)' <=> IsActive(cur, FALSE)
    BY <1>3, <1>4, <2>1 DEF Active, IsActive, Restricted
  <2> QED BY <2>2
<1> HIDE DEF new
<1>8. BodyInv' BY <1>1, <1>3, <1>4 DEF BodyInv
<1>9. ProofsInv'
  <2>1. Cardinality(Opponents(cur)) \in Nat
        /\ (Opponents(cur) = {} => Cardinality(Opponents(cur)) = 0)
    BY <1>1, <1>2, OpponentsCount
  <2>2. proofs' = proofs + Cardinality(Opponents(cur)) /\ pc \notin Exits
        /\ (Opponents(cur) = {} \/ ~(proofs + Cardinality(Opponents(cur)) >= opt.maxProofs))
    BY DEF Keep, LastProof, Simplified
  <2> QED BY <1>1, <1>3, <2>1, <2>2 DEF ProofsInv
<1>10. IdInv'
  <2>1. used' \subseteq used \cup {c} BY <1>0 DEF Keep
  <2> QED BY <1>1, <1>3, <1>4, <1>5, <2>1 DEF IdInv
<1>11. ListInv'
  <2>1. OneHome' BY <1>1, <1>3, <1>4 DEF ListInv, OneHome
  <2>2. \A d \in sos : ~Restricted(body[d])' BY <1>1, <1>2, <1>3, <1>4 DEF ListInv, Restricted
  <2> QED BY <1>1, <1>3, <1>5, <2>1, <2>2 DEF ListInv
<1>12. IndexInv'
  <2>1. lits' = (usable \cup ActiveSos \cup {d \in limbo : Active(d)})'
    <3>1. {d \in limbo' : Active(d)'} = {d \in limbo : Active(d)} \cup new
      BY <1>2, <1>3, <1>6, <1>7
    <3> QED BY <1>1, <1>3, <3>1 DEF IndexInv, ActiveSos
  <2>2. backDemod' = (usable \cup ActiveSos)' BY <1>1, <1>3 DEF IndexInv, ActiveSos
  <2>3. demods' = {d \in lits' \ Input' : body'[d] \in Equation}
    <3>1. new \subseteq {c} BY <1>7
    <3> QED BY <1>1, <1>2, <1>3, <1>4, <1>5, <3>1 DEF IndexInv
  <2> QED BY <2>1, <2>2, <2>3 DEF IndexInv
<1>13. GivenInv' BY <1>1, <1>3, <1>4 DEF GivenInv, IdInv
<1>14. HeadInv'
  <2> SUFFICES ASSUME pc \in BackPcs
               PROVE  \E h \in limbo' : IsFirst(h)' /\ Active(h)' /\ h \notin olds'
    BY <1>1, <1>3 DEF HeadInv
  <2>1. PICK h \in limbo : IsFirst(h) /\ Active(h) /\ h \notin olds BY <1>1 DEF HeadInv
  <2>2. IsFirst(h)' BY <1>2, <1>3, <1>4, <2>1 DEF IsFirst
  <2> QED BY <1>2, <1>3, <1>6, <2>1, <2>2
<1> QED BY <1>8, <1>9, <1>10, <1>11, <1>12, <1>13, <1>14 DEF IInv

LEMMA ProcessKeeps == IInv /\ ClProcess => IInv'
<1> SUFFICES ASSUME IInv, ClProcess PROVE IInv' OBVIOUS
<1>1. CASE Keep BY <1>1, KeepKeeps
<1>2. CASE Call \/ Simplify \/ Refute \/ Drop \/ RefuteByConflict
  <2> USE DEF IInv, Simplified
  <2>1. /\ UNCHANGED <<opt, body, lists, indexes, wasGiven, passive, olds, given, searching>>
        /\ pc' = pc \/ pc' \in Exits
    BY <1>2 DEF Call, Simplify, Refute, Drop, RefuteByConflict, Exits
  <2>2. hand' \subseteq Body /\ cur' \in Body \cup {NoBody}
    BY <1>2, SimplerType DEF BodyInv, Call, Simplify, Refute, Drop, RefuteByConflict
  <2>3. BodyInv' BY <2>1, <2>2 DEF BodyInv, passive, Pcs
  <2>4. ProofsInv'
    BY <1>2
    DEF ProofsInv, Call, Simplify, Refute, Drop, RefuteByConflict, LastProof, Exits
  <2>5. IdInv' /\ ListInv' /\ IndexInv' BY <2>1, QuietKeeps DEF IdInv, passive
  <2>6. GivenInv' BY <2>1 DEF GivenInv, Exits, lists
  <2>7. HeadInv' BY <2>1, QuietKeeps DEF HeadInv, BackPcs, Exits, passive, lists
  <2> QED BY <2>3, <2>4, <2>5, <2>6, <2>7
<1> QED BY <1>1, <1>2 DEF ClProcess

-----------------------------------------------------------------------------
(* limbo_process.                                                          *)

\* The head is factored, and its back operations begin.
LEMMA FactorKeeps == ASSUME NEW c \in limbo, IInv, Factor(c) PROVE IInv'
<1>1. /\ UNCHANGED <<opt, body, lists, indexes, wasGiven, epoch, stamp, used, cur, olds, given,
                     searching, proofs>>
      /\ pc = "limbo" /\ pc' = "backsubsume" /\ IsFirst(c) /\ ~IsCold(c)
      /\ hand' = Factors[body[c]]
  BY DEF Factor, passive
<1>2. body[c] \in Body BY OnlyIds DEF IInv, BodyInv, Ids
<1>3. BodyInv' BY <1>1, <1>2, BodyAssumption DEF IInv, BodyInv, Pcs, BackPcs
<1>4. ProofsInv' BY <1>1 DEF IInv, ProofsInv, Exits
<1>5. IdInv' /\ ListInv' /\ IndexInv' BY <1>1, QuietKeeps DEF IInv, IdInv
<1>6. GivenInv' BY <1>1 DEF IInv, GivenInv, lists
<1>7. HeadInv'
  BY <1>1, QuietKeeps DEF IInv, HeadInv, BackPcs, IsCold, Active, lists
<1> QED BY <1>3, <1>4, <1>5, <1>6, <1>7 DEF IInv

\* What a unit shortens are not units, so the head is not among them.
LEMMA StartBackUnitKeeps ==
  ASSUME NEW c \in limbo, IInv, StartBackUnitDeletion(c) PROVE IInv'
<1>1. /\ UNCHANGED <<opt, body, lists, indexes, wasGiven, epoch, stamp, used, hand, cur, given,
                     searching, proofs>>
      /\ pc = "backdemod" /\ pc' = "backunit" /\ IsFirst(c)
      /\ olds' = {d \in lits : /\ opt.unitDeletion /\ body[d] \notin Unit
                               /\ \E b \in Body : <<body[c], body[d], b>> \in Deletes}
  BY DEF StartBackUnitDeletion, passive
<1>2. olds' \subseteq Ids BY <1>1, OnlyIds DEF IInv
<1>3. BodyInv' BY <1>1 DEF IInv, BodyInv, Pcs, BackPcs
<1>4. ProofsInv' BY <1>1 DEF IInv, ProofsInv, Exits
<1>5. IdInv' /\ ListInv' /\ IndexInv' BY <1>1, <1>2, QuietKeeps DEF IInv, IdInv
<1>6. GivenInv' BY <1>1 DEF IInv, GivenInv, lists
<1>7. HeadInv'
  <2>1. PICK h \in limbo : IsFirst(h) /\ Active(h) BY <1>1 DEF IInv, HeadInv, BackPcs
  <2>2. h = c
    <3>1. h \in Nat /\ c \in Nat BY OnlyIds DEF IInv, BodyInv, Ids
    <3> QED BY <1>1, <2>1, <3>1 DEF IsFirst
  <2>3. c \notin olds' BY <1>1, BodyAssumption
  <2>4. IsFirst(c)' /\ Active(c)' BY <1>1, <2>1, <2>2, QuietKeeps DEF IInv
  <2> QED BY <1>1, <2>3, <2>4 DEF HeadInv, BackPcs, lists
<1> QED BY <1>3, <1>4, <1>5, <1>6, <1>7 DEF IInv

\* The clauses that the head subsumes are disabled; those it rewrites are not
\* in Limbo, which back_demod does not look at.
LEMMA BackSubsumeKeeps ==
  ASSUME NEW c \in limbo, IInv, BackSubsume(c) PROVE IInv'
<1>1. /\ Disable(Subsumees(c))
      /\ UNCHANGED <<opt, body, wasGiven, epoch, stamp, used, hand, cur, given, searching, proofs>>
      /\ pc = "backsubsume" /\ pc' = "backdemod" /\ IsFirst(c)
      /\ olds' \subseteq backDemod'
  BY DEF BackSubsume, passive
<1>2. Subsumees(c) \in SUBSET Ids /\ c \notin Subsumees(c)
  BY OnlyIds DEF IInv, Subsumees
<1>3. ListInv' /\ IndexInv' /\ clash' \subseteq Ids
  BY <1>1, <1>2, DisableKeeps DEF IInv
<1>4. Ids' = Ids /\ Input' = Input BY <1>1 DEF Ids, Input
<1>5. olds' \subseteq Ids /\ olds' \cap limbo' = {}
  BY <1>1, <1>3, <1>4 DEF ListInv, OneHome, IndexInv, ActiveSos
<1>6. BodyInv' BY <1>1 DEF IInv, BodyInv, Pcs, BackPcs
<1>7. ProofsInv' BY <1>1 DEF IInv, ProofsInv, Exits
<1>8. IdInv' BY <1>1, <1>3, <1>4, <1>5 DEF IInv, IdInv
<1>9. GivenInv' BY <1>1 DEF IInv, GivenInv, Disable
<1>10. HeadInv'
  <2>1. PICK h \in limbo : IsFirst(h) /\ Active(h) BY <1>1 DEF IInv, HeadInv, BackPcs
  <2>2. h = c
    <3>1. h \in Nat /\ c \in Nat BY OnlyIds DEF IInv, BodyInv, Ids
    <3> QED BY <1>1, <2>1, <3>1 DEF IsFirst
  <2>3. limbo' = limbo \ Subsumees(c) BY <1>1 DEF Disable
  <2>4. c \in limbo' /\ IsFirst(c)' BY <1>1, <1>2, <2>3 DEF IsFirst
  <2>5. Active(c)' BY <1>1, <2>1, <2>2 DEF Active, IsActive, Restricted
  <2> QED BY <1>1, <1>5, <2>4, <2>5 DEF HeadInv, BackPcs
<1> QED BY <1>3, <1>6, <1>7, <1>8, <1>9, <1>10 DEF IInv

\* A clause to redo is disabled unless it has been already; it is not the head.
LEMMA RedoKeeps == ASSUME NEW old \in olds, IInv, Redo(old) PROVE IInv'
<1>1. /\ UNCHANGED <<opt, body, wasGiven, epoch, stamp, used, pc, cur, given, searching, proofs>>
      /\ pc \in {"backdemod", "backunit"} /\ olds' = olds \ {old}
      /\ \/ UNCHANGED <<lists, indexes, hand>>
         \/ Disable({old}) /\ hand' = {body[old]}
  BY DEF Redo, passive, CopyOf
<1>2. {old} \in SUBSET Ids /\ olds' \subseteq Ids BY <1>1 DEF IInv, IdInv
<1>3. Ids' = Ids /\ Input' = Input BY <1>1 DEF Ids, Input
<1>4. ListInv' /\ IndexInv' /\ clash' \subseteq Ids
  <2>1. CASE UNCHANGED <<lists, indexes, hand>>
    BY <1>1, <2>1, QuietKeeps DEF IInv, IdInv, indexes
  <2>2. CASE Disable({old}) BY <1>1, <1>2, <2>2, DisableKeeps DEF IInv
  <2> QED BY <1>1, <2>1, <2>2
<1>5. body[old] \in Body BY <1>2 DEF IInv, BodyInv, Ids
<1>6. BodyInv' BY <1>1, <1>5 DEF IInv, BodyInv
<1>7. ProofsInv' BY <1>1 DEF IInv, ProofsInv
<1>8. IdInv' BY <1>1, <1>2, <1>3, <1>4 DEF IInv, IdInv
<1>9. limbo' \subseteq limbo /\ limbo \ {old} \subseteq limbo' BY <1>1 DEF Disable, lists
<1>10. GivenInv' BY <1>1, <1>9 DEF IInv, GivenInv
<1>11. HeadInv'
  <2>1. PICK h \in limbo : IsFirst(h) /\ Active(h) /\ h \notin olds
    BY <1>1 DEF IInv, HeadInv, BackPcs
  <2>2. h \in limbo' /\ IsFirst(h)' BY <1>9, <2>1 DEF IsFirst
  <2>3. Active(h)' BY <1>1, <2>1 DEF Active, IsActive, Restricted
  <2> QED BY <1>1, <2>1, <2>2, <2>3 DEF HeadInv
<1> QED BY <1>4, <1>6, <1>7, <1>8, <1>10, <1>11 DEF IInv

\* The clause that makes room is in Sos, so the head stays.
LEMMA DisplaceKeeps == IInv /\ Displace => IInv'
<1> SUFFICES ASSUME IInv, Displace PROVE IInv' OBVIOUS
<1>1. PICK worst \in sos : Disable({worst}) BY DEF Displace
<1>2. UNCHANGED <<opt, body, wasGiven, epoch, stamp, used, pc, hand, cur, olds, given, searching,
                  proofs>>
  BY DEF Displace, passive
<1>3. {worst} \in SUBSET Ids BY OnlyIds DEF IInv
<1>4. Ids' = Ids /\ Input' = Input BY <1>2 DEF Ids, Input
<1>5. limbo' = limbo BY <1>1 DEF Disable, IInv, ListInv, OneHome
<1>6. ListInv' /\ IndexInv' /\ clash' \subseteq Ids
  BY <1>1, <1>2, <1>3, DisableKeeps DEF IInv
<1>7. BodyInv' /\ ProofsInv' BY <1>2 DEF IInv, BodyInv, ProofsInv
<1>8. IdInv' BY <1>2, <1>4, <1>6 DEF IInv, IdInv
<1>9. GivenInv' BY <1>2, <1>5 DEF IInv, GivenInv
<1>10. HeadInv'
  BY <1>2, <1>5 DEF IInv, HeadInv, IsFirst, Active, IsActive, Restricted
<1> QED BY <1>6, <1>7, <1>8, <1>9, <1>10 DEF IInv

\* A clause leaves Limbo for Sos or Usable, and nothing else changes its list.
LEMMA MoveKeeps ==
  ASSUME NEW c \in limbo, IInv, Leaves(c), StoreCold(c) \/ MoveToUsable(c) \/ MoveToSos(c)
  PROVE  IInv'
<1>1. /\ UNCHANGED <<opt, body, disabled, demods, lits, clash, wasGiven, epoch, used, hand,
                     cur, olds, given, searching, proofs>>
      /\ limbo' = limbo \ {c} /\ pc' = "limbo" /\ pc \in {"limbo", "backunit"}
  BY DEF StoreCold, MoveToUsable, MoveToSos, passive, indexes, Leaves
<1>2. Ids' = Ids /\ Input' = Input BY <1>1 DEF Ids, Input
<1>3. /\ usable \subseteq Ids /\ sos \subseteq Ids /\ limbo \subseteq Ids /\ lits \subseteq Ids
      /\ opt.discount \in BOOLEAN
  BY OnlyIds, ProblemAssumption DEF IInv, BodyInv, ProblemType
<1>4. \A d : Active(d)' <=> Active(d) BY <1>1 DEF Active, IsActive, Restricted
<1>5. ASSUME StoreCold(c) PROVE ListInv' /\ IndexInv'
  <2>1. /\ sos' = sos \cup {c} /\ usable' = usable /\ backDemod' = backDemod /\ ~Active(c)
        /\ DOMAIN stamp' = DOMAIN stamp \cup {c}
    BY <1>5 DEF StoreCold, Leaves, IsCold, Active, indexes
  <2>2. opt.discount /\ ~Restricted(body[c]) BY <2>1 DEF Active, IsActive
  <2>3. OneHome' BY <1>1, <1>2, <2>1 DEF IInv, ListInv, OneHome
  <2>4. ListInv' BY <1>1, <1>2, <2>1, <2>2, <2>3 DEF IInv, ListInv, Restricted
  <2>5. IndexInv' BY <1>1, <1>2, <1>4, <2>1, <2>2 DEF IInv, IndexInv, ActiveSos
  <2> QED BY <2>4, <2>5
<1>6. ASSUME MoveToUsable(c) PROVE ListInv' /\ IndexInv'
  <2>1. /\ usable' = usable \cup {c} /\ sos' = sos /\ backDemod' = backDemod \cup {c}
        /\ ToUsable(c) /\ stamp' = stamp
    BY <1>6 DEF MoveToUsable, passive
  <2>2. Active(c) BY <2>1 DEF ToUsable, Active, IsActive
  <2>3. OneHome' BY <1>1, <1>2, <2>1 DEF IInv, ListInv, OneHome
  <2>4. ListInv' BY <1>1, <1>2, <2>1, <2>3 DEF IInv, ListInv, Restricted
  <2>5. IndexInv' BY <1>1, <1>2, <1>4, <2>1, <2>2 DEF IInv, IndexInv, ActiveSos
  <2> QED BY <2>4, <2>5
<1>7. ASSUME MoveToSos(c) PROVE ListInv' /\ IndexInv'
  <2>1. /\ sos' = sos \cup {c} /\ usable' = usable /\ backDemod' = backDemod \cup {c}
        /\ ~ToUsable(c) /\ pc = "backunit" /\ stamp' = stamp
    BY <1>7 DEF MoveToSos, passive
  <2>2. Active(c)
    <3>1. PICK h \in limbo : IsFirst(h) /\ Active(h) BY <2>1 DEF IInv, HeadInv, BackPcs
    <3>2. h \in Nat /\ c \in Nat BY <1>3 DEF IInv, BodyInv, Ids
    <3> QED BY <3>1, <3>2 DEF Leaves, IsFirst
  <2>3. ~opt.discount /\ ~Restricted(body[c]) BY <2>1, <2>2 DEF ToUsable, Active, IsActive
  <2>4. OneHome' BY <1>1, <1>2, <2>1 DEF IInv, ListInv, OneHome
  <2>5. ListInv' BY <1>1, <1>2, <2>1, <2>3, <2>4 DEF IInv, ListInv, Restricted
  <2>6. IndexInv' BY <1>1, <1>2, <1>4, <2>1, <2>2, <2>3 DEF IInv, IndexInv, ActiveSos
  <2> QED BY <2>5, <2>6
<1>8. BodyInv' /\ ProofsInv' BY <1>1 DEF IInv, BodyInv, ProofsInv, Pcs, Exits
<1>9. IdInv' BY <1>1, <1>2 DEF IInv, IdInv
<1>10. GivenInv' BY <1>1 DEF IInv, GivenInv
<1>11. olds = {} BY <1>1 DEF IInv, HeadInv, Leaves
<1>12. HeadInv' BY <1>1, <1>11 DEF HeadInv, BackPcs
<1> QED BY <1>5, <1>6, <1>7, <1>8, <1>9, <1>10, <1>12 DEF IInv

\* Limbo is empty: the clause DISCOUNT has activated makes its inferences, or
\* the main loop goes on.
LEMMA LimboEmptyKeeps == IInv /\ LimboEmpty => IInv'
<1> SUFFICES ASSUME IInv, LimboEmpty PROVE IInv' OBVIOUS
<1>1. /\ UNCHANGED <<opt, body, lists, demods, lits, backDemod, wasGiven, epoch, stamp, used, cur,
                     olds, proofs>>
      /\ given' = 0 /\ limbo = {} /\ pc = "limbo" /\ pc' \in {"limbo", "top"}
      /\ clash' \subseteq clash \cup (usable \cap {given})
      /\ searching' \in {searching, TRUE}
      /\ \/ hand' = hand
         \/ given \in usable /\ hand' = Inferences(given, clash')
  BY DEF LimboEmpty, passive
<1>2. Ids' = Ids /\ Input' = Input BY <1>1 DEF Ids, Input
<1>3. clash' \subseteq Ids /\ usable \subseteq Ids BY <1>1, OnlyIds DEF IInv, IdInv
<1>4. hand' \subseteq Body BY <1>1, <1>3, InferencesType DEF IInv, BodyInv
<1>5. BodyInv' BY <1>1, <1>4 DEF IInv, BodyInv, Pcs
<1>6. ProofsInv' BY <1>1 DEF IInv, ProofsInv, Exits
<1>7. IdInv' BY <1>1, <1>2, <1>3 DEF IInv, IdInv
<1>8. ListInv' BY <1>1, <1>2 DEF IInv, ListInv, OneHome, Restricted, lists
<1>9. IndexInv'
  BY <1>1, <1>2 DEF IInv, IndexInv, ActiveSos, Active, IsActive, Restricted, lists
<1>10. GivenInv' BY <1>1 DEF IInv, GivenInv, lists
<1>11. HeadInv' BY <1>1 DEF IInv, HeadInv, BackPcs
<1> QED BY <1>5, <1>6, <1>7, <1>8, <1>9, <1>10, <1>11 DEF IInv

LEMMA LimboKeeps == IInv /\ LimboProcess => IInv'
<1> SUFFICES ASSUME IInv, LimboProcess PROVE IInv' OBVIOUS
<1>1. ASSUME NEW c \in limbo, StoreCold(c) \/ MoveToUsable(c) \/ MoveToSos(c) PROVE IInv'
  BY <1>1, MoveKeeps DEF StoreCold, MoveToUsable, MoveToSos
<1> QED
  BY <1>1, DisplaceKeeps, LimboEmptyKeeps, FactorKeeps, BackSubsumeKeeps,
     StartBackUnitKeeps, RedoKeeps
  DEF LimboProcess

-----------------------------------------------------------------------------
(* make_inferences.                                                        *)

\* In Otter every clause of Sos is indexed already; only its list changes.
LEMMA SelectGivenKeeps == ASSUME NEW c \in sos, IInv, SelectGiven(c) PROVE IInv'
<1>1. /\ UNCHANGED <<opt, body, limbo, disabled, demods, lits, backDemod, epoch, stamp, used, cur,
                     olds, given, searching, proofs>>
      /\ sos' = sos \ {c} /\ usable' = usable \cup {c} /\ clash' = clash \cup {c}
      /\ wasGiven' = wasGiven \cup {c} /\ hand' = Inferences(c, clash')
      /\ pc = "top" /\ pc' = "limbo" /\ ~opt.discount
  BY DEF SelectGiven, passive
<1>2. Ids' = Ids /\ Input' = Input BY <1>1 DEF Ids, Input
<1>3. c \in Ids /\ clash' \subseteq Ids BY <1>1, OnlyIds DEF IInv, IdInv
<1>4. hand' \subseteq Body BY <1>1, <1>3, InferencesType DEF IInv
<1>5. BodyInv' BY <1>1, <1>4 DEF IInv, BodyInv, Pcs
<1>6. ProofsInv' BY <1>1 DEF IInv, ProofsInv, Exits
<1>7. IdInv' BY <1>1, <1>2, <1>3 DEF IInv, IdInv
<1>8. ListInv' BY <1>1, <1>2 DEF IInv, ListInv, OneHome, Restricted
<1>9. \A d : Active(d) /\ Active(d)' BY <1>1 DEF Active, IsActive
<1>10. IndexInv' BY <1>1, <1>2, <1>9 DEF IInv, IndexInv, ActiveSos
<1>11. GivenInv' BY <1>1 DEF IInv, GivenInv
<1>12. HeadInv' BY <1>1 DEF IInv, HeadInv, BackPcs
<1> QED BY <1>5, <1>6, <1>7, <1>8, <1>10, <1>11, <1>12 DEF IInv

\* A passive clause is in no index, so retiring it leaves them all alone.
LEMMA RefreshKeeps == ASSUME NEW c \in sos, IInv, Refresh(c) PROVE IInv'
<1>1. /\ UNCHANGED <<opt, body, usable, limbo, indexes, wasGiven, epoch, stamp, used, cur, olds,
                     given, searching, proofs>>
      /\ sos' = sos \ {c} /\ disabled' = disabled \cup {c}
      /\ hand' \subseteq {body[c]} /\ pc = "top" /\ pc' \in {"limbo", "top"} /\ opt.discount
  BY DEF Refresh, Retired, passive
<1>2. Ids' = Ids /\ Input' = Input BY <1>1 DEF Ids, Input
<1>3. body[c] \in Body BY OnlyIds DEF IInv, BodyInv, Ids
<1>4. BodyInv' BY <1>1, <1>3 DEF IInv, BodyInv, Pcs
<1>5. ProofsInv' BY <1>1 DEF IInv, ProofsInv, Exits
<1>6. IdInv' BY <1>1, <1>2 DEF IInv, IdInv, indexes
<1>7. ListInv' BY <1>1, <1>2 DEF IInv, ListInv, OneHome, Restricted
<1>8. IndexInv'
  BY <1>1, <1>2 DEF IInv, IndexInv, ActiveSos, Active, IsActive, Restricted, indexes
<1>9. GivenInv' BY <1>1 DEF IInv, GivenInv
<1>10. HeadInv' BY <1>1 DEF IInv, HeadInv, BackPcs
<1> QED BY <1>4, <1>5, <1>6, <1>7, <1>8, <1>9, <1>10 DEF IInv

\* The activated clause enters the literal index, and the demodulators if it
\* is one; it is then the only selected clause in Limbo.
LEMMA ActivateKeeps == ASSUME NEW c \in sos, IInv, Activate(c) PROVE IInv'
<1>1. /\ UNCHANGED <<opt, body, usable, disabled, backDemod, clash, stamp, used, hand, cur, olds,
                     searching, proofs>>
      /\ sos' = sos \ {c} /\ limbo' = limbo \cup {c} /\ wasGiven' = wasGiven \cup {c}
      /\ demods' = IF body[c] \in Equation THEN demods \cup {c} ELSE demods
      /\ lits' = lits \cup {c} /\ given' = c /\ epoch' = epoch + 1
      /\ pc = "top" /\ pc' = "limbo" /\ opt.discount
  BY DEF Activate, passive
<1>2. Ids' = Ids /\ Input' = Input BY <1>1 DEF Ids, Input
<1>3. c \in Ids /\ c \notin Input /\ limbo \subseteq Ids /\ 0 \notin Ids
  BY OnlyIds DEF IInv, ListInv, BodyInv, Ids
<1>4. BodyInv' BY <1>1 DEF IInv, BodyInv, Pcs
<1>5. ProofsInv' BY <1>1 DEF IInv, ProofsInv, Exits
<1>6. IdInv' BY <1>1, <1>2, <1>3 DEF IInv, IdInv
<1>7. ListInv'
  <2>1. OneHome' BY <1>1, <1>2 DEF IInv, ListInv, OneHome
  <2> QED BY <1>1, <1>2, <1>3, <2>1 DEF IInv, ListInv, Restricted
<1>8. IndexInv'
  <2>1. Active(c)' /\ \A d : d # c => (Active(d)' <=> Active(d))
    BY <1>1 DEF Active, IsActive, Restricted
  <2>2. lits' = (usable \cup ActiveSos \cup {d \in limbo : Active(d)})'
    BY <1>1, <2>1 DEF IInv, IndexInv, ActiveSos, ListInv, OneHome
  <2>3. backDemod' = (usable \cup ActiveSos)' BY <1>1 DEF IInv, IndexInv, ActiveSos
  <2>4. demods' = {d \in lits' \ Input' : body'[d] \in Equation}
    BY <1>1, <1>2, <1>3 DEF IInv, IndexInv
  <2> QED BY <2>2, <2>3, <2>4 DEF IndexInv
<1>9. GivenInv' BY <1>1, <1>3 DEF IInv, GivenInv
<1>10. HeadInv' BY <1>1 DEF IInv, HeadInv, BackPcs
<1> QED BY <1>4, <1>5, <1>6, <1>7, <1>8, <1>9, <1>10 DEF IInv

LEMMA ExhaustKeeps == IInv /\ (Exhaust \/ UNCHANGED vars) => IInv'
<1> SUFFICES ASSUME IInv, Exhaust \/ UNCHANGED vars PROVE IInv' OBVIOUS
<1>1. /\ UNCHANGED <<opt, body, lists, indexes, wasGiven, epoch, stamp, used, hand, cur, olds,
                     given, searching, proofs>>
      /\ pc' = pc \/ pc' \in Exits
  BY DEF Exhaust, vars, passive, Exits
<1>2. BodyInv' /\ ProofsInv' BY <1>1 DEF IInv, BodyInv, ProofsInv, Pcs
<1>3. IdInv' /\ ListInv' /\ IndexInv' BY <1>1, QuietKeeps DEF IInv, IdInv
<1>4. GivenInv' BY <1>1 DEF IInv, GivenInv, Exits, lists
<1>5. HeadInv' BY <1>1, QuietKeeps DEF IInv, HeadInv, BackPcs, Exits, lists
<1> QED BY <1>2, <1>3, <1>4, <1>5 DEF IInv

LEMMA Inductive == IInv /\ [Next]_vars => IInv'
BY ProcessKeeps, LimboKeeps, SelectGivenKeeps, RefreshKeeps, ActivateKeeps, ExhaustKeeps
   DEF Next, MakeInferences

LEMMA Invariant == Spec => []IInv
BY InitInv, Inductive, PTL DEF Spec

-----------------------------------------------------------------------------
(* The clashable index.                                                    *)

LEMMA ClashInit == InputsUnrestricted /\ Init => ClashInv
<1> SUFFICES ASSUME InputsUnrestricted, Init PROVE ClashInv OBVIOUS
<1> USE DEF Init
<1>1. opt.usable \in Seq(Body) BY ProblemAssumption DEF ProblemType
<1>2. \A c \in Input : ~Restricted(body[c]) BY DEF InputsUnrestricted, Input, Restricted
<1>3. usable = Input /\ 0 \notin usable BY <1>1 DEF Input
<1> QED BY <1>2, <1>3 DEF ClashInv

\* Only three steps put a clause into the clashable index or into Usable.
LEMMA ClashNext == IInv /\ ClashInv /\ [Next]_vars => ClashInv'
<1> SUFFICES ASSUME IInv, ClashInv, [Next]_vars PROVE ClashInv' OBVIOUS
<1>1. /\ opt' = opt /\ Input' = Input
      /\ \A c \in Ids : body'[c] = body[c]
      /\ body' = body \/ usable' = usable
  <2>1. CASE Keep BY <2>1 DEF Keep, IInv, BodyInv, Ids, Input
  <2>2. CASE ~Keep
    BY <2>2
    DEF Next, ClProcess, LimboProcess, MakeInferences, Call, Simplify, Refute, Drop,
        RefuteByConflict, Displace, StoreCold, Factor, BackSubsume, Redo,
        StartBackUnitDeletion, MoveToUsable, MoveToSos, LimboEmpty, Exhaust, SelectGiven,
        Refresh, Activate, vars, Input
  <2> QED BY <2>1, <2>2
<1>2. /\ Input \subseteq Ids /\ usable \subseteq Ids /\ sos \subseteq Ids /\ limbo \subseteq Ids
      /\ 0 \notin Ids
  BY OnlyIds DEF IInv, IdInv, BodyInv, Ids
<1>3. \A c \in Ids : Restricted(body[c])' <=> Restricted(body[c]) BY <1>1 DEF Restricted
<1>4. \A c \in Input' : ~Restricted(body[c])' BY <1>1, <1>2, <1>3 DEF ClashInv
<1> DEFINE Open(S) == {c \in S : ~Restricted(body[c])}
<1>5. ASSUME NEW S, Disable(S), given' = given PROVE clash' = Open(usable' \ {given'})
  BY <1>5 DEF Disable, ClashInv
<1>6. ASSUME UNCHANGED <<usable, clash, given>> PROVE clash' = Open(usable' \ {given'})
  BY <1>6 DEF ClashInv
<1>7. ASSUME ClProcess PROVE UNCHANGED <<usable, clash, given>>
  BY <1>7 DEF ClProcess, Call, Simplify, Refute, Drop, RefuteByConflict, Keep, lists, indexes
<1>8. ASSUME LimboProcess PROVE clash' = Open(usable' \ {given'})
  <2>1. CASE Displace BY <1>5, <2>1 DEF Displace
  <2>2. CASE LimboEmpty BY <1>2, <2>2 DEF LimboEmpty, ClashInv, lists
  <2>3. ASSUME NEW c \in limbo,
               StoreCold(c) \/ Factor(c) \/ StartBackUnitDeletion(c) \/ MoveToSos(c)
        PROVE  clash' = Open(usable' \ {given'})
    BY <1>6, <2>3
    DEF StoreCold, Factor, StartBackUnitDeletion, MoveToSos, lists, indexes
  <2>4. ASSUME NEW c \in limbo, BackSubsume(c) PROVE clash' = Open(usable' \ {given'})
    BY <1>5, <2>4 DEF BackSubsume
  <2>5. ASSUME NEW c \in limbo, MoveToUsable(c) PROVE clash' = Open(usable' \ {given'})
    <3>1. /\ usable' = usable \cup {c} /\ UNCHANGED <<clash, given>>
          /\ Restricted(body[c]) \/ (opt.discount /\ c \in wasGiven)
      BY <2>5 DEF MoveToUsable, ToUsable
    <3>2. Restricted(body[c]) \/ c = given BY <3>1 DEF IInv, GivenInv
    <3> QED BY <3>1, <3>2 DEF ClashInv
  <2>6. ASSUME NEW old \in olds, Redo(old) PROVE clash' = Open(usable' \ {given'})
    BY <1>5, <1>6, <2>6 DEF Redo, lists, indexes
  <2> QED BY <1>8, <2>1, <2>2, <2>3, <2>4, <2>5, <2>6 DEF LimboProcess
<1>9. ASSUME NEW c \in sos, SelectGiven(c) PROVE clash' = Open(usable' \ {given'})
  <2>1. /\ usable' = usable \cup {c} /\ clash' = clash \cup {c} /\ given' = 0
    BY <1>9 DEF SelectGiven, IInv, GivenInv
  <2>2. given = 0 BY <1>9 DEF SelectGiven, IInv, GivenInv
  <2>3. ~Restricted(body[c]) BY DEF IInv, ListInv
  <2> QED BY <1>2, <2>1, <2>2, <2>3 DEF ClashInv
<1>10. ASSUME NEW c \in sos, Activate(c) PROVE clash' = Open(usable' \ {given'})
  <2>1. UNCHANGED <<usable, clash>> /\ given' = c /\ given = 0
    BY <1>10 DEF Activate, IInv, GivenInv
  <2>2. c \notin usable BY DEF IInv, ListInv, OneHome
  <2> QED BY <1>2, <2>1, <2>2 DEF ClashInv
<1>11. ASSUME NEW c \in sos, Refresh(c) PROVE UNCHANGED <<usable, clash, given>>
  BY <1>11 DEF Refresh, indexes
<1>12. ASSUME Exhaust \/ UNCHANGED vars PROVE UNCHANGED <<usable, clash, given>>
  BY <1>12 DEF Exhaust, vars, lists, indexes
<1>13. clash' = Open(usable' \ {given'})
  BY <1>6, <1>7, <1>8, <1>9, <1>10, <1>11, <1>12 DEF Next, MakeInferences
<1>14. usable' \subseteq Ids
  <2>1. CASE usable' = usable BY <1>2, <2>1
  <2>2. CASE body' = body
    <3>1. IInv' BY Inductive
    <3>2. usable' \subseteq Ids' BY <3>1 DEF IInv, ListInv, OneHome
    <3> QED BY <2>2, <3>2 DEF Ids
  <2> QED BY <1>1, <2>1, <2>2
<1> QED BY <1>2, <1>3, <1>4, <1>13, <1>14 DEF ClashInv

-----------------------------------------------------------------------------
(* What active clauses do to each other.                                   *)

(***************************************************************************)
(* Between two given clauses nothing is being processed.                   *)
(***************************************************************************)
TopInv == pc = "top" => limbo = {} /\ hand = {} /\ cur = NoBody

(***************************************************************************)
(* What the back operations remove: unit deletion leaves units alone,      *)
(* since a unit that falls to another is in conflict with it.              *)
(***************************************************************************)
Rewritten(c, d) ==
  c \in demods /\ \E b \in Body : <<body[c], body[d], b>> \in Rewrites
Shortened(c, d) ==
  opt.unitDeletion /\ \E b \in Body : <<body[c], body[d], b>> \in Deletes
Weakens(c, d) ==
  \/ <<body[c], body[d]>> \in Subsumes /\ ~Spared(d)
  \/ Rewritten(c, d)
  \/ body[d] \notin Unit /\ Shortened(c, d)

\* An active clause that weakens another has not left Limbo.
Pending ==
  \A c, d \in lits :
    c # d /\ ~(c \in Input /\ d \in Input) /\ Weakens(c, d) => c \in limbo

\* What the head of Limbo still weakens is among the clauses to redo.
HeadDone ==
  \A c \in limbo, d \in lits : IsFirst(c) /\ d # c =>
    /\ pc \in {"backdemod", "backunit"} => <<body[c], body[d]>> \notin Subsumes
    /\ pc = "backdemod" /\ Rewritten(c, d) => d \in olds
    /\ pc = "backunit" =>
         /\ ~Rewritten(c, d)
         /\ body[d] \notin Unit /\ Shortened(c, d) => d \in olds

\* A DISCOUNT passive is in simplest form until the next activation.
ColdInv ==
  opt.discount =>
    /\ \A d \in limbo : d \notin lits => \A l \in lits : ~Reduces(l, d)
    /\ \A d \in sos : /\ stamp[d] \in Nat /\ stamp[d] <= epoch
                      /\ stamp[d] = epoch => \A l \in lits : ~Reduces(l, d)

ReduceInv ==
  TopInv /\ LimboIsOrdered /\ (Selective => Pending /\ HeadDone /\ ColdInv)

(***************************************************************************)
(* Complementary units: in Otter they are found when the later is kept; in *)
(* DISCOUNT when the inferences of the one being activated are made.       *)
(***************************************************************************)
Opposed(c, d) == <<body[c], body[d]>> \in Conflicts /\ ~(c \in Input /\ d \in Input)

ConflictInv ==
  proofs = 0 /\ Selective =>
    \A c, d \in lits : Opposed(c, d) =>
      opt.discount /\ (given \in {c, d} \/ Empty \in hand \/ cur = Empty)

\* The relations depend on the bodies, the demodulators and the options.
LEMMA SameRelations ==
  ASSUME opt' = opt, NEW c, NEW d, body'[c] = body[c], body'[d] = body[d],
         c \in demods' => c \in demods, used \subseteq used'
  PROVE  (Weakens(c, d)' => Weakens(c, d)) /\ (Reduces(c, d)' => Reduces(c, d))
         /\ (Rewritten(c, d)' => Rewritten(c, d))
         /\ (Shortened(c, d)' => Shortened(c, d))
BY DEF Weakens, Reduces, Rewritten, Shortened, Spared

LEMMA WeakensReduces ==
  ASSUME NEW c, NEW d
  PROVE  /\ Weakens(c, d) => Reduces(c, d)
         /\ Reduces(c, d) => Weakens(c, d) \/ <<body[c], body[d]>> \in Conflicts
<1>1. \A b : <<body[c], body[d], b>> \in Deletes /\ body[d] \in Unit
               => <<body[c], body[d]>> \in Conflicts
  BY LiteralAssumption
<1> QED BY <1>1 DEF Weakens, Reduces, Rewritten, Shortened

\* A clause that is kept is in simplest form and not subsumed.
LEMMA Irreducible ==
  ASSUME NEW b, NEW l \in lits, SimplerForms(b) = {}
  PROVE  /\ ~Subsumed(b) => <<body[l], b>> \notin Subsumes
         /\ \A c \in Body : l \in demods => <<body[l], b, c>> \notin Rewrites
         /\ \A c \in Body : opt.unitDeletion => <<body[l], b, c>> \notin Deletes
<1>1. RewritesOf(b) = {} /\ DeletionsOf(b) = {} BY DEF SimplerForms
<1> QED BY <1>1 DEF Subsumed, RewritesOf, DeletionsOf

\* Steps that take clauses away from the lists and the indexes, and keep the
\* place, or leave limbo_process for the main loop, or end the search.
LEMMA ShrinkKeeps ==
  ASSUME IInv, ReduceInv, UNCHANGED <<opt, body, stamp, epoch, used>>,
         lits' \subseteq lits, demods' \subseteq demods, limbo' \subseteq limbo,
         sos' \subseteq sos, limbo \ limbo' \subseteq Ids \ lits',
         limbo' \cap lits \subseteq lits',
         \A c \in limbo' : IsFirst(c)' => IsFirst(c) \/ pc' \notin {"backdemod", "backunit"},
         pc' \in {"backdemod", "backunit"} =>
            pc' = pc /\ \A d \in olds : d \in lits' => d \in olds',
         TopInv'
  PROVE  ReduceInv'
<1> USE DEF ReduceInv
<1>0. /\ \A c, d : (Weakens(c, d)' => Weakens(c, d)) /\ (Reduces(c, d)' => Reduces(c, d))
                    /\ (Rewritten(c, d)' => Rewritten(c, d))
                    /\ (Shortened(c, d)' => Shortened(c, d))
      /\ Input' = Input /\ Selective' = Selective
  BY SameRelations DEF Input, Selective
<1>1. LimboIsOrdered' BY <1>0 DEF LimboIsOrdered
<1>2. ASSUME Selective PROVE Pending' BY <1>0, <1>2 DEF Pending
<1>3. ASSUME Selective PROVE HeadDone'
  <2> SUFFICES ASSUME NEW c \in limbo', NEW d \in lits', IsFirst(c)', d # c,
                      pc' \in {"backdemod", "backunit"}
               PROVE  /\ <<body[c], body[d]>> \notin Subsumes
                      /\ pc = "backdemod" /\ Rewritten(c, d)' => d \in olds'
                      /\ pc = "backunit" =>
                           /\ ~Rewritten(c, d)'
                           /\ body[d] \notin Unit /\ Shortened(c, d)' => d \in olds'
    BY DEF HeadDone
  <2>1. c \in limbo /\ d \in lits /\ IsFirst(c) /\ pc' = pc OBVIOUS
  <2> QED BY <1>0, <1>3, <2>1 DEF HeadDone
<1>4. ASSUME Selective PROVE ColdInv'
  <2> SUFFICES ASSUME opt.discount
               PROVE  /\ \A d \in limbo' : d \notin lits' => \A l \in lits' : ~Reduces(l, d)'
                      /\ \A d \in sos' : /\ stamp[d] \in Nat /\ stamp[d] <= epoch
                                         /\ stamp[d] = epoch => \A l \in lits' : ~Reduces(l, d)'
    BY DEF ColdInv
  <2>1. ColdInv BY <1>4
  <2>2. \A d \in sos' : /\ stamp[d] \in Nat /\ stamp[d] <= epoch
                        /\ stamp[d] = epoch => \A l \in lits' : ~Reduces(l, d)'
    BY <1>0, <2>1 DEF ColdInv
  <2>3. ASSUME NEW d \in limbo', d \notin lits', NEW l \in lits' PROVE ~Reduces(l, d)'
    BY <1>0, <2>1, <2>3 DEF ColdInv
  <2> QED BY <2>2, <2>3
<1> QED BY <1>0, <1>1, <1>2, <1>3, <1>4

\* disable_clause, for clauses that are not at the head of Limbo.
LEMMA DisableReduces ==
  ASSUME IInv, ReduceInv, NEW S \in SUBSET Ids, Disable(S),
         UNCHANGED <<opt, body, wasGiven, stamp, epoch, used, pc>>, pc # "top",
         \A h \in limbo : IsFirst(h) /\ pc \in BackPcs => h \notin S,
         \A d \in olds : d \in olds' \/ d \in S
  PROVE  ReduceInv'
<1>1. lits' = lits \ S
  BY DEF Disable, IInv, IndexInv, IndexedOnSos, IndexedOnLimbo, ActiveSos, Active
<1>2. demods' \subseteq demods /\ limbo' = limbo \ S /\ sos' \subseteq sos
  BY DEF Disable
<1>3. TopInv' BY DEF TopInv
<1>4. ASSUME NEW c \in limbo', IsFirst(c)', pc' \in {"backdemod", "backunit"}
      PROVE  IsFirst(c)
  <2>1. PICK h \in limbo : IsFirst(h) BY <1>4 DEF IInv, HeadInv, BackPcs
  <2>2. h \in limbo' BY <1>2, <1>4, <2>1 DEF BackPcs
  <2>3. h \in Nat /\ c \in Nat BY <1>2, OnlyIds DEF IInv, BodyInv, Ids
  <2>4. c = h BY <1>2, <1>4, <2>1, <2>2, <2>3 DEF IsFirst
  <2> QED BY <2>1, <2>4
<1>5. limbo \ limbo' \subseteq Ids \ lits' BY <1>1, <1>2
<1>6. limbo' \cap lits \subseteq lits' BY <1>1, <1>2
<1>7. \A d \in olds : d \in lits' => d \in olds' BY <1>1
<1> HIDE DEF Disable
<1> QED BY <1>1, <1>2, <1>3, <1>4, <1>5, <1>6, <1>7, ShrinkKeeps

LEMMA KeepReduces == IInv /\ ReduceInv /\ Keep => ReduceInv'
<1> SUFFICES ASSUME IInv, ReduceInv, Keep PROVE ReduceInv' OBVIOUS
<1>0. PICK c : c = Len(body) + 1 OBVIOUS
<1> DEFINE new == IF IsActive(cur, FALSE) THEN {c} ELSE {}
<1>1. /\ body' = Append(body, cur) /\ limbo' = limbo \cup {c} /\ lits' = lits \cup new
      /\ demods' = IF cur \in Equation THEN demods \cup new ELSE demods
      /\ UNCHANGED <<opt, sos, pc, olds, stamp, epoch>> /\ used \subseteq used'
      /\ cur \in Body /\ cur # NoBody /\ SimplerForms(cur) = {} /\ ~Subsumed(cur)
  BY <1>0 DEF Keep, passive, IInv, BodyInv, Simplified, Unwanted
<1>2. /\ Ids = 1 .. Len(body) /\ Len(body) \in Nat /\ body'[c] = cur
      /\ \A d \in Ids : body'[d] = body[d] /\ d < c /\ d # c /\ d \in Nat
      /\ c \in Nat /\ c \notin Ids
  BY <1>0, <1>1 DEF IInv, BodyInv, Ids
<1>3. /\ lits \subseteq Ids /\ limbo \subseteq Ids /\ sos \subseteq Ids /\ demods \subseteq Ids
      /\ Input \subseteq Ids /\ Input' = Input /\ Selective' = Selective
  BY <1>1, OnlyIds DEF IInv, IdInv, Input, Selective
<1>4. ASSUME NEW a \in Ids, NEW d \in Ids
      PROVE  /\ (Weakens(a, d)' => Weakens(a, d)) /\ (Reduces(a, d)' => Reduces(a, d))
             /\ (Rewritten(a, d)' => Rewritten(a, d))
             /\ (Shortened(a, d)' => Shortened(a, d))
  BY <1>1, <1>2, SameRelations
<1>5. ASSUME NEW l \in lits
      PROVE  ~Reduces(l, c)' /\ ~Weakens(l, c)' /\ <<body'[l], body'[c]>> \notin Subsumes
  <2>1. l # c /\ body'[l] = body[l] /\ l \in Ids BY <1>2, <1>3
  <2>2. /\ <<body[l], cur>> \notin Subsumes
        /\ \A b \in Body : l \in demods => <<body[l], cur, b>> \notin Rewrites
        /\ \A b \in Body : opt.unitDeletion => <<body[l], cur, b>> \notin Deletes
    BY <1>1, Irreducible
  <2>3. l \in demods' => l \in demods BY <1>1, <2>1
  <2> QED BY <1>1, <1>2, <2>1, <2>2, <2>3 DEF Reduces, Weakens, Rewritten, Shortened
<1> USE DEF ReduceInv
<1>6. TopInv' BY <1>1 DEF TopInv
<1>7. LimboIsOrdered'
  <2> SUFFICES ASSUME NEW a \in limbo', NEW d \in limbo', a < d, a \in lits'
               PROVE  ~Reduces(a, d)'
    BY DEF LimboIsOrdered
  <2>1. CASE d = c
    <3>1. a # c BY <1>2, <2>1
    <3>2. a \in lits BY <1>1, <3>1
    <3> QED BY <1>5, <2>1, <3>2
  <2>2. CASE d # c
    <3>1. d \in limbo /\ a # c
      BY <1>1, <1>2, <1>3, <2>2
    <3> QED BY <1>1, <1>3, <1>4, <2>2, <3>1 DEF LimboIsOrdered
  <2> QED BY <2>1, <2>2
<1>8. ASSUME Selective PROVE Pending'
  <2> SUFFICES ASSUME NEW a \in lits', NEW d \in lits', a # d,
                      ~(a \in Input /\ d \in Input), Weakens(a, d)'
               PROVE  a \in limbo'
    BY <1>3 DEF Pending
  <2>1. CASE a = c BY <1>1, <2>1
  <2>2. CASE a # c
    <3>1. a \in lits BY <1>1, <2>2
    <3>2. d # c BY <1>5, <3>1
    <3> QED BY <1>1, <1>3, <1>4, <1>8, <3>1, <3>2 DEF Pending
  <2> QED BY <2>1, <2>2
<1>9. ASSUME Selective PROVE HeadDone'
  <2> SUFFICES ASSUME NEW h \in limbo', NEW d \in lits', IsFirst(h)', d # h,
                      pc \in {"backdemod", "backunit"}
               PROVE  /\ <<body'[h], body'[d]>> \notin Subsumes
                      /\ pc = "backdemod" /\ Rewritten(h, d)' => d \in olds
                      /\ pc = "backunit" =>
                           /\ ~Rewritten(h, d)'
                           /\ body'[d] \notin Unit /\ Shortened(h, d)' => d \in olds
    BY <1>1 DEF HeadDone
  <2>1. PICK g \in limbo : IsFirst(g) /\ Active(g) BY DEF IInv, HeadInv, BackPcs
  <2>2. h = g /\ h \in lits
    <3>1. h <= g /\ g <= h
      BY <1>1, <1>2, <1>3, <2>1 DEF IsFirst
    <3>2. h = g BY <1>1, <1>2, <1>3, <2>1, <3>1
    <3> QED BY <2>1, <3>2 DEF IInv, IndexInv
  <2>3. CASE d = c
    <3>1. ~Reduces(h, c)' /\ <<body'[h], body'[c]>> \notin Subsumes BY <1>5, <2>2
    <3> QED BY <2>3, <3>1 DEF Reduces, Rewritten, Shortened
  <2>4. CASE d # c
    <3>1. d \in lits /\ h \in Ids /\ d \in Ids BY <1>1, <1>3, <2>2, <2>4
    <3> QED BY <1>2, <1>4, <1>9, <2>1, <2>2, <3>1 DEF HeadDone
  <2> QED BY <2>3, <2>4
<1>10. ASSUME Selective PROVE ColdInv'
  <2> SUFFICES ASSUME opt.discount
               PROVE  /\ \A d \in limbo' : d \notin lits' => \A l \in lits' : ~Reduces(l, d)'
                      /\ \A d \in sos : /\ stamp[d] \in Nat /\ stamp[d] <= epoch
                                        /\ stamp[d] = epoch => \A l \in lits' : ~Reduces(l, d)'
    BY <1>1 DEF ColdInv
  <2>1. lits' = lits /\ ColdInv
    BY <1>1, <1>10 DEF Selective, IsActive, Restricted
  <2>2. ASSUME NEW d \in limbo', d \notin lits', NEW l \in lits PROVE ~Reduces(l, d)'
    BY <1>1, <1>3, <1>4, <1>5, <2>1, <2>2 DEF ColdInv
  <2>3. ASSUME NEW d \in sos, stamp[d] = epoch, NEW l \in lits PROVE ~Reduces(l, d)'
    BY <1>3, <1>4, <2>1, <2>3 DEF ColdInv
  <2> QED BY <2>1, <2>2, <2>3 DEF ColdInv
<1> QED BY <1>3, <1>6, <1>7, <1>8, <1>9, <1>10

\* The head leaves Limbo when its back operations are over, or as a passive.
LEMMA MoveReduces ==
  ASSUME NEW c \in limbo, IInv, ReduceInv,
         StoreCold(c) \/ MoveToUsable(c) \/ MoveToSos(c)
  PROVE  ReduceInv'
<1>1. /\ UNCHANGED <<opt, body, demods, lits, epoch, used>> /\ Leaves(c)
      /\ limbo' = limbo \ {c} /\ pc' = "limbo" /\ IsFirst(c)
  BY DEF StoreCold, MoveToUsable, MoveToSos, passive, indexes, Leaves
<1>2. Input' = Input /\ Selective' = Selective BY <1>1 DEF Input, Selective
<1>3. ASSUME NEW a, NEW d
      PROVE (Weakens(a, d)' => Weakens(a, d)) /\ (Reduces(a, d)' => Reduces(a, d))
  BY <1>1, SameRelations
<1> USE DEF ReduceInv
<1>4. TopInv' BY <1>1 DEF TopInv
<1>5. LimboIsOrdered' BY <1>1, <1>3 DEF LimboIsOrdered
<1>6. ASSUME Selective PROVE Pending'
  <2> SUFFICES ASSUME NEW a \in lits, NEW d \in lits, a # d,
                      ~(a \in Input /\ d \in Input), Weakens(a, d)
               PROVE  a \in limbo \ {c}
    BY <1>1, <1>2, <1>3 DEF Pending
  <2>1. a \in limbo BY <1>6 DEF Pending
  <2>2. CASE a = c
    <3>1. pc = "backunit" /\ olds = {}
      <4>1. Active(c)
        <5>1. c \notin usable /\ c \notin sos BY DEF IInv, ListInv, OneHome
        <5> QED BY <2>2, <5>1 DEF IInv, IndexInv, ActiveSos
      <4> QED BY <1>1, <4>1 DEF Leaves, IsCold, Active
    <3> QED BY <1>1, <1>6, <2>2, <3>1 DEF HeadDone, Weakens
  <2> QED BY <2>1, <2>2
<1>7. HeadDone' BY <1>1 DEF HeadDone
<1>8. ASSUME Selective PROVE ColdInv'
  <2> SUFFICES ASSUME opt.discount
               PROVE  /\ \A d \in limbo' : d \notin lits => \A l \in lits : ~Reduces(l, d)
                      /\ \A d \in sos' : /\ stamp'[d] \in Nat /\ stamp'[d] <= epoch
                                         /\ stamp'[d] = epoch => \A l \in lits : ~Reduces(l, d)
    BY <1>1, <1>3 DEF ColdInv
  <2>1. ColdInv /\ epoch \in Nat BY <1>8 DEF IInv, BodyInv
  <2>2. \A d \in limbo' : d \notin lits => \A l \in lits : ~Reduces(l, d)
    BY <1>1, <2>1 DEF ColdInv
  <2>3. CASE StoreCold(c)
    <3>1. /\ sos' = sos \cup {c} /\ ~Active(c)
          /\ stamp' = [d \in DOMAIN stamp \cup {c} |-> IF d = c THEN epoch ELSE stamp[d]]
      BY <2>3 DEF StoreCold, Leaves, IsCold, Active
    <3>2. c \notin lits
      BY <3>1 DEF IInv, ListInv, OneHome, IndexInv, ActiveSos
    <3>3. \A d \in sos : d \in DOMAIN stamp /\ d # c BY DEF IInv, ListInv, OneHome
    <3> QED BY <2>1, <2>2, <3>1, <3>2, <3>3 DEF ColdInv
  <2>4. CASE MoveToUsable(c)
    <3>1. sos' = sos /\ stamp' = stamp BY <2>4 DEF MoveToUsable, passive
    <3> QED BY <2>1, <2>2, <3>1 DEF ColdInv
  <2>5. CASE MoveToSos(c)
    <3>1. pc \in BackPcs /\ ~ToUsable(c) BY <2>5 DEF MoveToSos, BackPcs
    <3>2. PICK h \in limbo : IsFirst(h) /\ Active(h) BY <3>1 DEF IInv, HeadInv
    <3>3. h \in Nat /\ c \in Nat BY OnlyIds DEF IInv, BodyInv, Ids
    <3>4. Active(c) BY <1>1, <3>2, <3>3 DEF IsFirst
    <3>5. FALSE BY <3>1, <3>4 DEF ToUsable, Active, IsActive
    <3> QED BY <3>5
  <2> QED BY <2>3, <2>4, <2>5
<1> QED BY <1>2, <1>4, <1>5, <1>6, <1>7, <1>8

\* The back operations of the head: their first steps.
LEMMA BackReduces ==
  ASSUME NEW c \in limbo, IInv, ReduceInv, BackSubsume(c) \/ StartBackUnitDeletion(c)
  PROVE  ReduceInv'
<1>1. /\ IsFirst(c) /\ pc \in BackPcs /\ pc' \in BackPcs
      /\ UNCHANGED <<opt, body, wasGiven, stamp, epoch, used>>
  BY DEF BackSubsume, StartBackUnitDeletion, passive, BackPcs
<1>2. \A h \in limbo : IsFirst(h) => h = c
  <2>1. \A h \in limbo : h \in Nat BY OnlyIds DEF IInv, BodyInv, Ids
  <2> QED BY <1>1, <2>1 DEF IsFirst
<1>3. Active(c) /\ c \in lits
  BY <1>1, <1>2 DEF IInv, HeadInv, IndexInv
<1>4. Input' = Input /\ Selective' = Selective BY <1>1 DEF Input, Selective
<1>5. /\ lits' \subseteq lits /\ demods' \subseteq demods /\ limbo' \subseteq limbo
      /\ sos' \subseteq sos /\ limbo \ limbo' \subseteq Ids \ lits'
      /\ limbo' \cap lits \subseteq lits' /\ c \in limbo'
  <2>1. CASE BackSubsume(c)
    <3>1. Disable(Subsumees(c)) BY <2>1 DEF BackSubsume
    <3>2. Subsumees(c) \subseteq Ids /\ c \notin Subsumees(c)
      BY OnlyIds DEF IInv, Subsumees
    <3>3. lits' = lits \ Subsumees(c)
      BY <3>1 DEF Disable, IInv, IndexInv, IndexedOnSos, IndexedOnLimbo, ActiveSos, Active
    <3> QED BY <3>1, <3>2, <3>3 DEF Disable
  <2>2. CASE StartBackUnitDeletion(c)
    BY <2>2 DEF StartBackUnitDeletion, lists, indexes
  <2> QED BY <2>1, <2>2
<1>6. \A a, d : /\ (Weakens(a, d)' => Weakens(a, d)) /\ (Reduces(a, d)' => Reduces(a, d))
                /\ (Rewritten(a, d)' => Rewritten(a, d))
                /\ (Shortened(a, d)' => Shortened(a, d))
  BY <1>1, <1>5, SameRelations
<1> USE DEF ReduceInv
<1>7. TopInv' BY <1>1 DEF TopInv, BackPcs
<1>8. LimboIsOrdered' BY <1>5, <1>6 DEF LimboIsOrdered
<1>9. ASSUME Selective PROVE Pending'
  BY <1>4, <1>5, <1>6, <1>9 DEF Pending
<1>10. ASSUME Selective PROVE ColdInv'
  BY <1>1, <1>5, <1>6, <1>10 DEF ColdInv
<1>11. ASSUME NEW h \in limbo', IsFirst(h)' PROVE h = c
  <2>1. h \in Nat /\ c \in Nat /\ h \in limbo BY <1>5, OnlyIds DEF IInv, BodyInv, Ids
  <2> QED BY <1>1, <1>5, <1>11, <2>1 DEF IsFirst
<1>12. ASSUME BackSubsume(c), Selective PROVE HeadDone'
  <2>1. /\ Disable(Subsumees(c)) /\ pc' = "backdemod"
        /\ olds' = {d \in backDemod' :
               c \in demods /\ \E b \in Body : <<body[c], body[d], b>> \in Rewrites}
    BY <1>12 DEF BackSubsume
  <2>2. lits' = lits \ Subsumees(c) /\ backDemod' = backDemod \ Subsumees(c)
    BY <2>1 DEF Disable, IInv, IndexInv, IndexedOnSos, IndexedOnLimbo, ActiveSos, Active,
                ListInv, OneHome
  <2> SUFFICES ASSUME NEW d \in lits', d # c
               PROVE  /\ <<body[c], body[d]>> \notin Subsumes
                      /\ Rewritten(c, d) => d \in olds'
    BY <1>1, <1>6, <1>11, <2>1 DEF HeadDone
  <2>3. <<body[c], body[d]>> \notin Subsumes BY <2>2 DEF Subsumees
  <2>4. ASSUME Rewritten(c, d) PROVE d \in backDemod'
    <3>1. CASE d \in limbo
      <4>1. c \in Nat /\ d \in Nat BY <3>1, OnlyIds DEF IInv, BodyInv, Ids
      <4>2. c < d BY <1>1, <3>1, <4>1 DEF IsFirst
      <4>3. ~Reduces(c, d) BY <1>3, <3>1, <4>2 DEF LimboIsOrdered
      <4> QED BY <2>4, <4>3 DEF Reduces, Rewritten
    <3>2. CASE d \notin limbo BY <2>2, <3>2 DEF IInv, IndexInv
    <3> QED BY <3>1, <3>2
  <2> QED BY <2>1, <2>3, <2>4 DEF Rewritten
<1>13. ASSUME StartBackUnitDeletion(c), Selective PROVE HeadDone'
  <2>1. /\ pc = "backdemod" /\ pc' = "backunit" /\ olds = {} /\ lits' = lits
        /\ olds' = {d \in lits : /\ opt.unitDeletion /\ body[d] \notin Unit
                                 /\ \E b \in Body : <<body[c], body[d], b>> \in Deletes}
    BY <1>13 DEF StartBackUnitDeletion, indexes
  <2> SUFFICES ASSUME NEW d \in lits, d # c
               PROVE  /\ <<body[c], body[d]>> \notin Subsumes
                      /\ ~Rewritten(c, d)
                      /\ body[d] \notin Unit /\ Shortened(c, d) => d \in olds'
    BY <1>1, <1>6, <1>11, <2>1 DEF HeadDone
  <2> QED BY <1>1, <1>13, <2>1 DEF HeadDone, Shortened
<1> QED BY <1>4, <1>7, <1>8, <1>9, <1>10, <1>12, <1>13

\* A clause to redo is not the head of Limbo; once retired it is not active.
LEMMA RedoReduces ==
  ASSUME NEW old \in olds, IInv, ReduceInv, Redo(old) PROVE ReduceInv'
<1>1. /\ UNCHANGED <<opt, body, wasGiven, epoch, stamp, used, pc>>
      /\ pc \in {"backdemod", "backunit"} /\ olds' = olds \ {old}
      /\ \/ old \in disabled /\ UNCHANGED <<lists, indexes>>
         \/ Disable({old})
  BY DEF Redo, passive
<1>2. {old} \in SUBSET Ids BY DEF IInv, IdInv
<1>3. CASE old \in disabled /\ UNCHANGED <<lists, indexes>>
  <2>1. old \notin lits BY <1>3 DEF IInv, ListInv, OneHome, IndexInv, ActiveSos
  <2>2. UNCHANGED <<lits, demods, limbo, sos>> BY <1>3 DEF lists, indexes
  <2>3. TopInv' BY <1>1 DEF TopInv
  <2>4. \A c \in limbo' : IsFirst(c)' => IsFirst(c) BY <2>2 DEF IsFirst
  <2> QED BY <1>1, <2>1, <2>2, <2>3, <2>4, ShrinkKeeps
<1>4. CASE Disable({old})
  <2>1. \A h \in limbo : IsFirst(h) => h # old
    <3>1. PICK g \in limbo : IsFirst(g) /\ g \notin olds BY <1>1 DEF IInv, HeadInv, BackPcs
    <3>2. \A h \in limbo : h \in Nat BY OnlyIds DEF IInv, BodyInv, Ids
    <3> QED BY <3>1, <3>2 DEF IsFirst
  <2>2. pc # "top" BY <1>1
  <2> QED BY <1>1, <1>2, <1>4, <2>1, <2>2, DisableReduces
<1> QED BY <1>1, <1>3, <1>4

LEMMA DisplaceReduces == IInv /\ ReduceInv /\ Displace => ReduceInv'
<1> SUFFICES ASSUME IInv, ReduceInv, Displace PROVE ReduceInv' OBVIOUS
<1>1. PICK worst \in sos : Disable({worst}) BY DEF Displace
<1>2. UNCHANGED <<opt, body, wasGiven, stamp, epoch, used, pc, olds>> /\ pc # "top"
  BY DEF Displace, passive, Leaves
<1>3. {worst} \in SUBSET Ids BY OnlyIds DEF IInv
<1>4. \A h \in limbo : h # worst BY DEF IInv, ListInv, OneHome
<1> QED BY <1>1, <1>2, <1>3, <1>4, DisableReduces

\* Steps that leave the indexes and Limbo alone.
LEMMA QuietReduces ==
  ASSUME IInv, ReduceInv, UNCHANGED <<opt, body, stamp, epoch, used, lits, demods, limbo>>,
         sos' \subseteq sos,
         pc' \in {"backdemod", "backunit"} => pc' = pc /\ olds' = olds,
         TopInv'
  PROVE  ReduceInv'
<1>1. \A c \in limbo' : IsFirst(c)' => IsFirst(c) BY DEF IsFirst
<1>2. limbo \ limbo' = {} /\ limbo' \cap lits \subseteq lits' OBVIOUS
<1> QED BY <1>1, <1>2, ShrinkKeeps

LEMMA ProcessReduces == IInv /\ ReduceInv /\ ClProcess => ReduceInv'
<1> SUFFICES ASSUME IInv, ReduceInv, ClProcess PROVE ReduceInv' OBVIOUS
<1>1. CASE Keep BY <1>1, KeepReduces
<1>2. CASE Call \/ Simplify \/ Refute \/ Drop \/ RefuteByConflict
  <2>1. UNCHANGED <<opt, body, stamp, epoch, used, lits, demods, limbo, sos, olds>>
    BY <1>2 DEF Call, Simplify, Refute, Drop, RefuteByConflict, lists, indexes, passive
  <2>2. pc # "top"
    BY <1>2
    DEF ReduceInv, TopInv, Call, Simplify, Refute, Drop, RefuteByConflict, Simplified
  <2>3. pc' = pc \/ pc' \in Exits
    BY <1>2 DEF Call, Simplify, Refute, Drop, RefuteByConflict, Exits
  <2>4. TopInv' BY <2>2, <2>3 DEF TopInv, Exits
  <2>5. pc' \in {"backdemod", "backunit"} => pc' = pc BY <2>3 DEF Exits
  <2> QED BY <2>1, <2>4, <2>5, QuietReduces
<1> QED BY <1>1, <1>2 DEF ClProcess

\* The main loop's steps other than an activation, and the ones of
\* limbo_process that only go on to another place.
LEMMA LoopReduces ==
  ASSUME IInv, ReduceInv,
         \/ LimboEmpty \/ Exhaust \/ UNCHANGED vars
         \/ \E c \in limbo : Factor(c)
         \/ \E c \in sos : SelectGiven(c) \/ Refresh(c)
  PROVE  ReduceInv'
<1> USE DEF ReduceInv
<1>1. CASE LimboEmpty
  <2>1. UNCHANGED <<opt, body, stamp, epoch, used, lits, demods, limbo, sos, cur>>
    BY <1>1 DEF LimboEmpty, lists, passive
  <2>2. pc' \in {"limbo", "top"} /\ TopInv' BY <1>1, <2>1 DEF LimboEmpty, TopInv, Idle
  <2> QED BY <2>1, <2>2, QuietReduces
<1>2. CASE Exhaust
  <2>1. UNCHANGED <<opt, body, stamp, epoch, used, lits, demods, limbo, sos>> /\ pc' \in Exits
    BY <1>2 DEF Exhaust, lists, indexes, passive, Exits
  <2>2. TopInv' BY <2>1 DEF TopInv, Exits
  <2> QED BY <2>1, <2>2, QuietReduces DEF Exits
<1>3. CASE UNCHANGED vars
  <2>1. UNCHANGED <<opt, body, stamp, epoch, used, lits, demods, limbo, sos, pc, olds, hand, cur>>
    BY <1>3 DEF vars, lists, indexes, passive
  <2>2. TopInv' BY <2>1 DEF TopInv
  <2> QED BY <2>1, <2>2, QuietReduces
<1>4. CASE \E c \in limbo : Factor(c)
  <2>1. /\ UNCHANGED <<opt, body, stamp, epoch, used, lits, demods, limbo, sos>>
        /\ pc' = "backsubsume"
    BY <1>4 DEF Factor, lists, indexes, passive
  <2>2. TopInv' BY <2>1 DEF TopInv
  <2> QED BY <2>1, <2>2, QuietReduces
<1>5. ASSUME NEW c \in sos, SelectGiven(c) PROVE ReduceInv'
  <2>1. /\ UNCHANGED <<opt, body, stamp, epoch, used, lits, demods, limbo>>
        /\ sos' \subseteq sos /\ pc' = "limbo"
    BY <1>5 DEF SelectGiven, passive
  <2>2. TopInv' BY <2>1 DEF TopInv
  <2> QED BY <2>1, <2>2, QuietReduces
<1>6. ASSUME NEW c \in sos, Refresh(c) PROVE ReduceInv'
  <2>1. /\ UNCHANGED <<opt, body, stamp, epoch, used, lits, demods, limbo, cur>>
        /\ sos' \subseteq sos /\ pc' \in {"limbo", "top"} /\ pc = "top"
        /\ pc' = "top" => hand' = {}
    BY <1>6 DEF Refresh, indexes, passive
  <2>2. TopInv' BY <2>1 DEF TopInv
  <2> QED BY <2>1, <2>2, QuietReduces
<1> QED BY <1>1, <1>2, <1>3, <1>4, <1>5, <1>6

\* The passive that is activated was refreshed, or is up to date: nothing
\* active reduces it; what it reduces waits for it to leave Limbo.
LEMMA ActivateReduces ==
  ASSUME NEW c \in sos, IInv, ReduceInv, Activate(c) PROVE ReduceInv'
<1>1. /\ UNCHANGED <<opt, body, stamp, used>>
      /\ sos' = sos \ {c} /\ limbo' = limbo \cup {c} /\ lits' = lits \cup {c}
      /\ demods' = IF body[c] \in Equation THEN demods \cup {c} ELSE demods
      /\ epoch' = epoch + 1 /\ pc = "top" /\ pc' = "limbo" /\ opt.discount
      /\ Stale(c) => SimplerForms(body[c]) = {} /\ ~Discarded(c)
  BY DEF Activate
<1>2. limbo = {} /\ c \in Nat /\ epoch \in Nat
  BY <1>1, OnlyIds DEF ReduceInv, TopInv, IInv, BodyInv, Ids
<1>3. Input' = Input /\ Selective' = Selective BY <1>1 DEF Input, Selective
<1>4. TopInv' BY <1>1 DEF TopInv
<1>5. LimboIsOrdered' BY <1>1, <1>2 DEF LimboIsOrdered
<1>6. HeadDone' BY <1>1 DEF HeadDone
<1>7. ASSUME Selective PROVE Pending' /\ ColdInv'
  <2>1. Pending /\ ColdInv BY <1>7 DEF ReduceInv
  <2>2. ASSUME NEW a \in lits PROVE ~Reduces(a, c)
    <3>1. CASE Stale(c)
      <4>1. SimplerForms(body[c]) = {} BY <1>1, <3>1
      <4>2. /\ \A b \in Body : a \in demods => <<body[a], body[c], b>> \notin Rewrites
            /\ \A b \in Body : opt.unitDeletion => <<body[a], body[c], b>> \notin Deletes
        BY <4>1, Irreducible
      <4>3. <<body[a], body[c]>> \in Subsumes => Spared(c)
        BY <1>1, <3>1 DEF Discarded, Subsumed, Spared
      <4> QED BY <4>2, <4>3 DEF Reduces
    <3>2. CASE ~Stale(c) BY <1>1, <2>1, <3>2 DEF Stale, ColdInv
    <3> QED BY <3>1, <3>2
  <2>3. Pending'
    <3> SUFFICES ASSUME NEW a \in lits', NEW d \in lits', a # d,
                        ~(a \in Input /\ d \in Input), Weakens(a, d)'
                 PROVE  a = c
      BY <1>1, <1>3 DEF Pending
    <3> SUFFICES ASSUME a # c PROVE FALSE OBVIOUS
    <3>1. a \in lits /\ (a \in demods' => a \in demods) BY <1>1
    <3>2. Weakens(a, d) BY <1>1, <3>1, SameRelations
    <3>3. CASE d = c BY <2>2, <3>1, <3>2, <3>3, WeakensReduces
    <3>4. CASE d # c BY <1>1, <1>2, <2>1, <3>1, <3>2, <3>4 DEF Pending
    <3> QED BY <3>3, <3>4
  <2>4. ColdInv'
    <3>1. \A d \in sos' : stamp'[d] \in Nat /\ stamp'[d] <= epoch' /\ stamp'[d] # epoch'
      BY <1>1, <1>2, <2>1 DEF ColdInv
    <3>2. \A d \in limbo' : d \in lits' BY <1>1, <1>2
    <3> QED BY <3>1, <3>2 DEF ColdInv
  <2> QED BY <2>3, <2>4
<1> QED BY <1>3, <1>4, <1>5, <1>6, <1>7 DEF ReduceInv

LEMMA ReduceInit == Init => ReduceInv
<1> SUFFICES ASSUME Init PROVE ReduceInv OBVIOUS
<1>1. lits = Input /\ limbo = {} /\ sos = {} /\ pc = "limbo" BY DEF Init, Input
<1> QED
  BY <1>1 DEF ReduceInv, TopInv, LimboIsOrdered, Pending, HeadDone, ColdInv

LEMMA ReduceNext == IInv /\ ReduceInv /\ [Next]_vars => ReduceInv'
BY ProcessReduces, DisplaceReduces, LoopReduces, MoveReduces, BackReduces, RedoReduces,
   ActivateReduces
   DEF Next, LimboProcess, MakeInferences

-----------------------------------------------------------------------------
(* Complementary units.                                                    *)

\* An inference rule that resolves two complementary units is switched on.
ConflictsResolve == \A p \in Conflicts : Empty \in Conclusions[p]

\* Without restrict_denials nothing is kept out of the clashable index.
FreeClash == ~opt.restrict => ClashInv

LEMMA FreeClashInit == Init => FreeClash
<1> SUFFICES ASSUME Init, ~opt.restrict PROVE ClashInv BY DEF FreeClash
<1>1. opt.usable \in Seq(Body) BY ProblemAssumption DEF Init, ProblemType
<1>2. usable = Input /\ clash = usable /\ given = 0 /\ 0 \notin usable
  BY <1>1 DEF Init, Input
<1> QED BY <1>2 DEF ClashInv, Restricted

LEMMA SameProblem == [Next]_vars => opt' = opt
BY DEF Next, ClProcess, LimboProcess, MakeInferences, Call, Simplify, Refute, Drop,
       RefuteByConflict, Keep, Displace, StoreCold, Factor, BackSubsume, Redo,
       StartBackUnitDeletion, MoveToUsable, MoveToSos, LimboEmpty, Exhaust, SelectGiven,
       Refresh, Activate, vars

LEMMA FreeClashNext == IInv /\ FreeClash /\ [Next]_vars => FreeClash'
BY SameProblem, ClashNext DEF FreeClash

\* The empty clause is in simplest form.
LEMMA EmptyIsSimple == SimplerForms(Empty) = {}
<1>1. \A b, c : <<b, Empty, c>> \notin Rewrites /\ <<b, Empty, c>> \notin Deletes
  BY LiteralAssumption
<1> QED BY <1>1 DEF SimplerForms, RewritesOf, DeletionsOf

\* Steps that index no clause and lose no empty clause.
LEMMA ConflictShrinks ==
  ASSUME ConflictInv, UNCHANGED <<opt, body, given>>, lits' \subseteq lits,
         proofs' = 0 => proofs = 0,
         proofs' = 0 /\ (Empty \in hand \/ cur = Empty) => Empty \in hand' \/ cur' = Empty
  PROVE  ConflictInv'
BY DEF ConflictInv, Opposed, Selective, Input

\* cl_process_conflict looks the clause up in the literal index before it joins.
LEMMA KeepConflict == IInv /\ ConflictInv /\ Keep => ConflictInv'
<1> SUFFICES ASSUME IInv, ConflictInv, Keep, proofs' = 0, Selective',
                    NEW a \in lits', NEW d \in lits', Opposed(a, d)'
             PROVE  opt'.discount /\ (given' \in {a, d} \/ Empty \in hand' \/ cur' = Empty)
  BY DEF ConflictInv
<1>0. PICK c : c = Len(body) + 1 OBVIOUS
<1> DEFINE new == IF IsActive(cur, FALSE) THEN {c} ELSE {}
<1>1. /\ body' = Append(body, cur) /\ lits' = lits \cup new
      /\ UNCHANGED <<opt, given, hand>> /\ cur # Empty
      /\ proofs' = proofs + Cardinality(Opponents(cur))
  BY <1>0 DEF Keep
<1>2. /\ lits \subseteq Ids /\ Input' = Input /\ Input \subseteq Ids
      /\ Selective /\ \A l \in Ids : body'[l] = body[l] /\ l # c
      /\ body'[c] = cur
  <2>1. body \in Seq(Body) /\ cur \in Body BY DEF IInv, BodyInv, Keep, Simplified
  <2>2. lits \subseteq Ids BY OnlyIds DEF IInv
  <2> QED BY <1>0, <1>1, <2>1, <2>2 DEF IInv, IdInv, Ids, Input, Selective
<1>3. proofs = 0 /\ Opponents(cur) = {}
  <2>1. /\ Cardinality(Opponents(cur)) \in Nat
        /\ Cardinality(Opponents(cur)) = 0 => Opponents(cur) = {}
    BY <1>2, OpponentsCount DEF IInv
  <2>2. proofs \in Nat BY DEF IInv, ProofsInv
  <2> QED BY <1>1, <2>1, <2>2
<1>4. \A l \in lits : <<cur, body[l]>> \notin Conflicts /\ <<body[l], cur>> \notin Conflicts
  BY <1>3, LiteralAssumption DEF Opponents
<1>5. <<cur, cur>> \notin Conflicts BY LiteralAssumption
<1>6. a \in lits /\ d \in lits
  BY <1>1, <1>2, <1>4, <1>5 DEF Opposed
<1>7. Opposed(a, d) BY <1>2, <1>6 DEF Opposed
<1> QED BY <1>1, <1>2, <1>3, <1>6, <1>7 DEF ConflictInv

\* given_infer resolves the clause being activated with its opponents.
LEMMA LimboEmptyConflict ==
  ASSUME ConflictsResolve, IInv, FreeClash, ConflictInv, LimboEmpty
  PROVE  ConflictInv'
<1> SUFFICES ASSUME proofs' = 0, Selective', NEW a \in lits', NEW d \in lits', Opposed(a, d)'
             PROVE  opt'.discount /\ Empty \in hand'
  BY DEF ConflictInv
<1>1. /\ UNCHANGED <<opt, body, lits, proofs>> /\ limbo = {} /\ hand = {} /\ cur = NoBody
      /\ given \in usable =>
           /\ clash' = IF Restricted(body[given]) THEN clash ELSE clash \cup {given}
           /\ hand' = Inferences(given, clash')
  BY DEF LimboEmpty, Idle
<1>2. Opposed(a, d) /\ a # d /\ opt.discount /\ given \in {a, d}
  <2>1. Opposed(a, d) /\ Selective BY <1>1 DEF Opposed, Selective, Input
  <2>2. a # d BY <2>1, LiteralAssumption DEF Opposed
  <2>3. cur # Empty BY <1>1, BodyAssumption
  <2> QED BY <1>1, <2>1, <2>2, <2>3 DEF ConflictInv
<1>3. ~opt.restrict BY <1>1, <1>2 DEF Selective
<1>4. a \in usable /\ d \in usable BY <1>1, <1>2 DEF IInv, IndexInv, ActiveSos
<1>5. PICK l \in usable : l # given /\ <<body[given], body[l]>> \in Conflicts
  <2>1. <<body[a], body[d]>> \in Conflicts /\ <<body[d], body[a]>> \in Conflicts
    BY <1>2, LiteralAssumption DEF Opposed
  <2> QED BY <1>2, <1>4, <2>1
<1>6. l \in clash' /\ given \in usable
  BY <1>1, <1>2, <1>3, <1>4, <1>5 DEF FreeClash, ClashInv, Restricted
<1>7. Empty \in Conclusions[<<body[given], body[l]>>] BY <1>5 DEF ConflictsResolve
<1> QED BY <1>1, <1>2, <1>6, <1>7 DEF Inferences

\* Only the clause being activated can be in conflict with an active one.
LEMMA ActivateConflict ==
  ASSUME NEW c \in sos, IInv, ConflictInv, Activate(c) PROVE ConflictInv'
<1> SUFFICES ASSUME proofs' = 0, Selective', NEW a \in lits', NEW d \in lits', Opposed(a, d)',
                    c \notin {a, d}
             PROVE  FALSE
  BY DEF ConflictInv, Activate
<1>1. /\ UNCHANGED <<opt, body, proofs>> /\ lits' = lits \cup {c} /\ pc = "top"
      /\ hand = {} /\ cur = NoBody
  BY DEF Activate, Idle
<1>2. a \in lits /\ d \in lits /\ Opposed(a, d) /\ Selective
  BY <1>1 DEF Opposed, Selective, Input
<1>3. given \in {a, d} BY <1>1, <1>2, BodyAssumption DEF ConflictInv
<1>4. given = 0 /\ 0 \notin lits BY <1>1, OnlyIds DEF IInv, GivenInv, BodyInv, Ids
<1> QED BY <1>2, <1>3, <1>4

LEMMA ConflictInit == Init => ConflictInv
BY DEF Init, ConflictInv, Opposed, Input

LEMMA ConflictNext ==
  ConflictsResolve /\ IInv /\ FreeClash /\ ConflictInv /\ [Next]_vars => ConflictInv'
<1> SUFFICES ASSUME ConflictsResolve, IInv, FreeClash, ConflictInv, [Next]_vars
             PROVE  ConflictInv'
  OBVIOUS
<1>1. ASSUME Call \/ Simplify \/ Refute \/ Drop \/ RefuteByConflict PROVE ConflictInv'
  <2>1. UNCHANGED <<opt, body, given, lits>>
    BY <1>1 DEF Call, Simplify, Refute, Drop, RefuteByConflict, indexes
  <2>2. proofs \in Nat /\ opt.maxProofs > 0 BY DEF IInv, ProofsInv
  <2>3. proofs' = 0 => proofs = 0
    BY <1>1, <2>2 DEF Call, Simplify, Refute, Drop, RefuteByConflict
  <2>4. CASE Call
    BY <2>1, <2>3, <2>4, ConflictShrinks, BodyAssumption DEF Call
  <2>5. CASE Simplify
    <3>1. cur # Empty /\ hand' = hand BY <2>5, EmptyIsSimple DEF Simplify
    <3> QED BY <2>1, <2>3, <3>1, ConflictShrinks
  <2>6. CASE Drop BY <2>1, <2>3, <2>6, ConflictShrinks DEF Drop
  <2>7. CASE Refute \/ RefuteByConflict
    <3>1. proofs' # 0 BY <2>2, <2>7 DEF Refute, RefuteByConflict
    <3> QED BY <2>1, <3>1, ConflictShrinks
  <2> QED BY <1>1, <2>4, <2>5, <2>6, <2>7
<1>2. ASSUME Idle, UNCHANGED <<opt, body, given, proofs>>, lits' \subseteq lits
      PROVE  ConflictInv'
  BY <1>2, ConflictShrinks, BodyAssumption DEF Idle
<1>3. ASSUME NEW S, Disable(S) PROVE lits' \subseteq lits BY <1>3 DEF Disable
<1>4. ASSUME Displace PROVE ConflictInv'
  BY <1>2, <1>3, <1>4 DEF Displace, Leaves
<1>5. ASSUME NEW c \in limbo,
             \/ StoreCold(c) \/ Factor(c) \/ StartBackUnitDeletion(c)
             \/ MoveToUsable(c) \/ MoveToSos(c) \/ BackSubsume(c)
      PROVE  ConflictInv'
  BY <1>2, <1>3, <1>5
  DEF StoreCold, Factor, StartBackUnitDeletion, MoveToUsable, MoveToSos, BackSubsume, Leaves,
      indexes
<1>6. ASSUME NEW old \in olds, Redo(old) PROVE ConflictInv'
  BY <1>2, <1>3, <1>6 DEF Redo, indexes
<1>7. ASSUME Exhaust PROVE ConflictInv' BY <1>2, <1>7 DEF Exhaust, indexes
<1>8. ASSUME NEW c \in sos, SelectGiven(c) \/ Refresh(c) PROVE ConflictInv'
  BY <1>2, <1>8 DEF SelectGiven, Refresh, indexes
<1>9. ASSUME UNCHANGED vars PROVE ConflictInv'
  BY <1>9, ConflictShrinks DEF vars, indexes
<1> QED
  BY <1>1, <1>4, <1>5, <1>6, <1>7, <1>8, <1>9, KeepConflict, LimboEmptyConflict,
     ActivateConflict
  DEF Next, ClProcess, LimboProcess, MakeInferences

-----------------------------------------------------------------------------
(* The theorems.                                                           *)

\* The variables of the search always have their types, and while a clause of
\* Limbo is being processed Limbo holds it.
THEOREM TypeCorrect == Spec => []TypeOK
<1>1. IInv => TypeOK
  <2> SUFFICES ASSUME IInv PROVE TypeOK OBVIOUS
  <2>1. opt \in ProblemType BY ProblemAssumption DEF IInv, BodyInv
  <2>2. /\ usable \subseteq Ids /\ sos \subseteq Ids /\ limbo \subseteq Ids
        /\ disabled \subseteq Ids
        /\ lits \subseteq Ids /\ backDemod \subseteq Ids /\ demods \subseteq Ids
    BY OnlyIds DEF IInv
  <2>3. sos \subseteq DOMAIN stamp \cup (IF opt.discount THEN {} ELSE Ids)
    BY <2>2 DEF IInv, ListInv
  <2>4. pc \in {"backsubsume", "backdemod", "backunit"} => limbo # {}
    BY DEF IInv, HeadInv, BackPcs
  <2> QED
    BY <2>1, <2>2, <2>3, <2>4 DEF IInv, BodyInv, ProofsInv, IdInv, TypeOK, Pcs, BackPcs
<1> QED BY <1>1, Invariant, PTL

\* Every clause is on exactly one list, whatever the problem.
THEOREM ClausesHaveOneHome == Spec => []OneHome
<1>1. IInv => OneHome BY DEF IInv, ListInv
<1> QED BY <1>1, Invariant, PTL

\* The indexes say what the lists say, provided no clause of the input Usable
\* list is a restricted denial.
THEOREM IndexesInStep == InputsUnrestricted /\ Spec => []IndexesFollowLists
<1>1. IInv /\ ClashInv => IndexesFollowLists
  BY DEF IInv, ListInv, IndexInv, ActiveSos, Active, ClashInv, IndexesFollowLists
<1> QED BY <1>1, Invariant, ClashInit, ClashNext, PTL DEF Spec

\* Under the same condition no index keeps a clause that has been disabled.
THEOREM RetiredStaysGone == InputsUnrestricted /\ Spec => []RetiredIsGone
<1>1. IInv /\ ClashInv => RetiredIsGone
  BY DEF IInv, ListInv, OneHome, IndexInv, ActiveSos, ClashInv, RetiredIsGone
<1> QED BY <1>1, Invariant, ClashInit, ClashNext, PTL DEF Spec

\* In both loops, when the next given clause is chosen the active clauses are
\* interreduced, and until then a clause of Limbo does nothing to those behind
\* it; what is excepted are pairs of input clauses and complementary units.
THEOREM KeepsInterreduced == Spec => []Interreduced
<1>1. IInv /\ ReduceInv => Interreduced
  <2> SUFFICES ASSUME IInv, ReduceInv, pc = "top", Selective,
                      NEW c \in lits, NEW d \in lits, c # d, ~(c \in Input /\ d \in Input),
                      Reduces(c, d), <<body[c], body[d]>> \notin Conflicts
               PROVE  FALSE
    BY DEF ReduceInv, Interreduced
  <2>1. Weakens(c, d) BY WeakensReduces
  <2> QED BY <2>1 DEF ReduceInv, TopInv, Pending
<1> QED BY <1>1, Invariant, ReduceInit, ReduceNext, PTL DEF Spec

\* Until a proof is found, and provided two complementary units resolve to the
\* empty clause, no two of them are active: in Otter never, in DISCOUNT not
\* when the next given clause is chosen.
THEOREM ConflictsAreProofs == ConflictsResolve /\ Spec => []ConflictIsProof
<1> SUFFICES ASSUME ConflictsResolve PROVE Spec => []ConflictIsProof OBVIOUS
<1>1. IInv /\ ReduceInv /\ ConflictInv => ConflictIsProof
  <2> SUFFICES ASSUME IInv, ReduceInv, ConflictInv, proofs = 0, Selective,
                      ~opt.discount \/ pc = "top",
                      NEW c \in lits, NEW d \in lits, Opposed(c, d)
               PROVE  FALSE
    BY DEF ConflictIsProof, Opposed
  <2>1. opt.discount /\ (given \in {c, d} \/ Empty \in hand \/ cur = Empty)
    BY DEF ConflictInv
  <2>2. hand = {} /\ cur # Empty /\ given = 0
    BY <2>1, BodyAssumption DEF ReduceInv, TopInv, IInv, GivenInv
  <2>3. 0 \notin lits BY OnlyIds DEF IInv, BodyInv, Ids
  <2> QED BY <2>1, <2>2, <2>3
<1>2. IInv /\ FreeClash /\ ConflictInv /\ [Next]_vars => ConflictInv'
  BY ConflictNext
<1> QED
  BY <1>1, <1>2, Invariant, ReduceInit, ReduceNext, FreeClashInit, FreeClashNext,
     ConflictInit, PTL DEF Spec
=============================================================================
