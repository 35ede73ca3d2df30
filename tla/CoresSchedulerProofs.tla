------------------------ MODULE CoresSchedulerProofs ------------------------
(***************************************************************************)
(* Theorems about the -cores scheduler of prover9, for every number of     *)
(* slots and strategies.                                                   *)
(***************************************************************************)
EXTENDS CoresScheduler, TLAPS

LoopPcs   == {"fill", "trackFill", "head", "poll", "refill", "trackRefill", "tail"}
AnswerPcs == {"disarm", "rearm", "publish", "relay", "claim", "emit", "exited"}

(***************************************************************************)
(* The status part: the guard is up only once the answer is being written, *)
(* and nothing is on standard output while it is down.                     *)
(***************************************************************************)
StatusInv ==
  /\ szsEmitted => pc \in {"relay", "emit", "exited", "killed"}
  /\ ~szsEmitted => stdout = <<>>
  /\ pc = "emit" => szsEmitted /\ stdout = <<>>
  /\ Len(stdout) <= 1

(***************************************************************************)
(* The ownership part: OneOwner, with what the loop knows about next and   *)
(* the current slot.                                                       *)
(***************************************************************************)
PcInv == /\ pc \in LoopPcs => result = "none"
         /\ pc \in AnswerPcs => result # "none"

NewbornInv == pc \in LoopPcs =>
  newborn = IF pc \in {"trackFill", "trackRefill"} THEN next ELSE Idle

FillInv == pc \in {"fill", "trackFill"} =>
  next = i /\ \A n \in Slots : n >= i => slots[n] = Idle

RefillInv == /\ pc \in {"refill", "trackRefill"} => slots[i] = Idle
             /\ pc = "trackRefill" => next < Phase1Limit

UnbornInv == pc \in LoopPcs => \A s \in Strats : s >= next /\ s # newborn => kid[s] = "unborn"

LoopInv == PcInv /\ NewbornInv /\ FillInv /\ RefillInv /\ UnbornInv

(***************************************************************************)
(* The inductive invariant.  OneOwner and LoopInv say nothing once the     *)
(* loop is over, so a step that ends it only has to show that it leaves no *)
(* child behind.                                                           *)
(***************************************************************************)
OwnInv == LoopInv /\ OneOwner /\ NoOrphans /\ DeathSparesOnlyNewborn

(***************************************************************************)
(* The search part: which strategies are done, and with what.              *)
(***************************************************************************)
CodeInv == \A s \in Strats :
  /\ kid[s] \in {"unborn", "forked", "running", "stopped"} => code[s] = "none"
  /\ kid[s] = "zombie" => code[s] # "none"

\* The strategies whose child is gone, and those passed over.
DoneInv == pc \in LoopPcs => \A s \in Strats :
  /\ kid[s] = "gone" => /\ code[s] # "Proof"
                        /\ code[s] = "none" => MegsBudget
                        /\ code[s] = "SosEmpty" => bestCode = "SosEmpty"
  /\ kid[s] = "unborn" /\ s < next => MayFailFork

Proved == \E s \in Strats : code[s] = "Proof"

\* What may claim a proof.
WordInv == bestCode # "Proof" /\ (deathLine = "Theorem" => Proved)

SearchInv ==
  /\ CodeInv /\ DoneInv /\ WordInv
  /\ result = "drained" => childPids = {} /\ DrainedIsComplete

IInv == TypeOK /\ StatusInv /\ OwnInv /\ SearchInv

-----------------------------------------------------------------------------
\* Every status word is a string, whatever the exit code.
LEMMA SzsType == \A c : Szs(c) \in SzsWords
BY DEF Szs, SzsWords

\* Removing an entry of the pool leaves a sequence of strategies.
LEMMA WithoutType ==
  ASSUME NEW S, NEW seq \in Seq(S), NEW p \in 1 .. Len(seq)
  PROVE  /\ Without(seq, p) \in Seq(S)
         /\ Len(Without(seq, p)) = Len(seq) - 1
         /\ \A q \in 1 .. Len(seq) - 1 :
              Without(seq, p)[q] = IF q < p THEN seq[q] ELSE seq[q + 1]
<1> DEFINE n == Len(seq) - 1
<1>1. n \in Nat OBVIOUS
<1>2. \A q \in 1 .. n : (IF q < p THEN seq[q] ELSE seq[q + 1]) \in S OBVIOUS
<1>3. Without(seq, p) \in [1 .. n -> S] BY <1>1, <1>2 DEF Without
<1>4. Without(seq, p) \in Seq(S) BY <1>1, <1>3
<1>5. Len(Without(seq, p)) = n BY <1>1, <1>3, <1>4
<1> QED BY <1>3, <1>4, <1>5 DEF Without

\* Advancing the slot index keeps it a slot.
LEMMA AfterSlotType ==
  i \in Slots /\ AfterSlot => i' \in Slots /\ pc' \in {"fill", "head", "poll", "tail"}
BY ConstantsAssumption DEF AfterSlot, Slots, Filling

LEMMA TypeInit == Init => TypeOK
<1> SUFFICES ASSUME Init PROVE TypeOK OBVIOUS
<1> USE ConstantsAssumption DEF Init
<1>1. pc \in PcValues /\ i \in Slots /\ next \in 0 .. Phase1Limit
  BY DEF PcValues, Slots
<1>2. slots \in [Slots -> Strats \cup {Idle}] OBVIOUS
<1>3. suspended \in Seq(Strats) /\ newborn \in Strats \cup {Idle} /\ childPids \subseteq Strats OBVIOUS
<1>4. stdout \in Seq(SzsWords) /\ deathLine \in SzsWords \cup {"none"} BY DEF SzsWords
<1>5. kid \in [Strats -> {"unborn", "forked", "running", "stopped", "zombie", "gone"}] OBVIOUS
<1>6. code \in [Strats -> ExitCodes \cup {"none"}] OBVIOUS
<1>7. bufOf \in [Strats -> Slots \cup {Idle}] /\ output \in [Slots -> Strats \cup {Idle}] OBVIOUS
<1>8. given \in [Strats -> 0 .. MaxGiven] /\ prevGiven \in [Strats -> 0 .. MaxGiven] OBVIOUS
<1> QED BY <1>1, <1>2, <1>3, <1>4, <1>5, <1>6, <1>7, <1>8 DEF TypeOK

\* A strategy is left wherever the code calls spawn_child.
LEMMA NextIsStrat ==
  TypeOK /\ LoopInv /\ (pc \in {"fill", "trackFill", "trackRefill"} \/ (pc = "refill" /\ next < Phase1Limit))
    => next \in Strats
<1> SUFFICES ASSUME TypeOK, LoopInv,
                    pc \in {"fill", "trackFill", "trackRefill"} \/ (pc = "refill" /\ next < Phase1Limit)
             PROVE  next \in Strats
  OBVIOUS
<1>1. next \in Nat /\ i \in Slots BY ConstantsAssumption DEF TypeOK
<1>2. next < Phase1Limit
  <2>1. CASE pc \in {"fill", "trackFill"}
    <3>1. next = i BY <2>1 DEF LoopInv, FillInv
    <3> QED BY <1>1, <3>1, ConstantsAssumption DEF Slots
  <2>2. CASE pc = "trackRefill"
    BY <2>2 DEF LoopInv, RefillInv
  <2> QED BY <2>1, <2>2
<1> QED BY <1>1, <1>2, ConstantsAssumption DEF Strats

LEMMA TypeNext == TypeOK /\ LoopInv /\ [Next]_vars => TypeOK'
<1> SUFFICES ASSUME TypeOK, LoopInv, [Next]_vars PROVE TypeOK' OBVIOUS
<1> USE DEF TypeOK
<1>1. CASE Fork
  <2>1. next \in Strats BY <1>1, NextIsStrat DEF Fork
  <2> QED BY <1>1, <2>1 DEF Fork, PcValues
<1>2. CASE Track
  <2>1. next \in Strats BY <1>2, NextIsStrat DEF Track
  <2>2. newborn = next BY <1>2 DEF Track, LoopInv, NewbornInv, LoopPcs
  <2>3. next' \in 0 .. Phase1Limit BY <1>2, <2>1, ConstantsAssumption DEF Track, Strats
  <2> QED BY <1>2, <2>1, <2>2, <2>3, AfterSlotType DEF Track, Tracked, children, PcValues
<1>3. CASE ForkFails
  <2>1. next \in Strats BY <1>3, NextIsStrat DEF ForkFails
  <2>2. next' \in 0 .. Phase1Limit BY <1>3, <2>1, ConstantsAssumption DEF ForkFails, Strats
  <2> QED BY <1>3, <2>2, AfterSlotType DEF ForkFails, children, PcValues
<1>4. CASE Resume
  <2>1. PICK p \in 1 .. Len(suspended) :
          /\ suspended' = Without(suspended, p)
          /\ slots' = [slots EXCEPT ![i] = suspended[p]]
          /\ kid' = [kid EXCEPT ![suspended[p]] = IF @ = "stopped" THEN "running" ELSE @]
    BY <1>4 DEF Resume
  <2>2. suspended[p] \in Strats OBVIOUS
  <2>3. suspended' \in Seq(Strats)
    <3>1. suspended \in Seq(Strats) OBVIOUS
    <3> QED BY <2>1, <3>1, WithoutType
  <2>4. kid' \in [Strats -> {"unborn", "forked", "running", "stopped", "zombie", "gone"}]
    BY <2>1, <2>2
  <2>5. slots' \in [Slots -> Strats \cup {Idle}] BY <2>1, <2>2
  <2>7. i' \in Slots /\ pc' \in PcValues BY <1>4, AfterSlotType DEF Resume, PcValues
  <2> QED BY <1>4, <2>3, <2>4, <2>5, <2>7 DEF Resume
<1>5. CASE NothingToRun
  BY <1>5, AfterSlotType DEF NothingToRun, LeaveSlot, children, PcValues
<1>6. CASE LoopTop
  <2>1. CASE DeadlinePassed
    BY <1>6, <2>1 DEF LoopTop, Kill, PcValues
  <2>2. CASE ~DeadlinePassed
    BY <1>6, <2>2 DEF LoopTop, PcValues
  <2> QED BY <2>1, <2>2
<1>7. CASE PollNothing
  BY <1>7, AfterSlotType DEF PollNothing, LeaveSlot, children, PcValues
<1>8. CASE PollStopped
  <2>1. slots[i] \in Strats BY <1>8 DEF PollStopped
  <2>2. suspended' \in Seq(Strats)
    <3>1. suspended \in Seq(Strats) /\ Append(suspended, slots[i]) \in Seq(Strats) BY <2>1
    <3> QED BY <1>8, <3>1 DEF PollStopped
  <2>3. /\ kid' \in [Strats -> {"unborn", "forked", "running", "stopped", "zombie", "gone"}]
        /\ childPids' \subseteq Strats
    BY <1>8 DEF PollStopped, Kill
  <2>4. prevGiven' \in [Strats -> 0 .. MaxGiven] BY <1>8, <2>1 DEF PollStopped
  <2>5. slots' \in [Slots -> Strats \cup {Idle}] BY <1>8 DEF PollStopped
  <2> QED BY <1>8, <2>2, <2>3, <2>4, <2>5 DEF PollStopped, PcValues
<1>9. CASE PollEnded
  BY <1>9 DEF PollEnded, Kill, BetterCode, PcValues, Idle
<1>10. CASE PollProof
  BY <1>10 DEF PollProof, PcValues
<1>11. CASE LoopEnd
  BY <1>11 DEF LoopEnd, children, PcValues
<1>12. CASE DisarmDeath
  BY <1>12 DEF DisarmDeath, children, PcValues
<1>13. CASE RearmDeath
  BY <1>13, SzsType DEF RearmDeath, BufferStatus, children, PcValues
<1>14. CASE PublishWinner
  <2>1. stdout' \in Seq(SzsWords)
    <3>1. CASE BufferStatus(i) = "none" \/ szsEmitted
      BY <1>14, <3>1 DEF PublishWinner
    <3>2. CASE ~(BufferStatus(i) = "none" \/ szsEmitted)
      <4>1. BufferStatus(i) \in SzsWords BY <3>2, SzsType DEF BufferStatus
      <4>2. Append(stdout, BufferStatus(i)) \in Seq(SzsWords) BY <4>1
      <4> QED BY <1>14, <3>2, <4>2 DEF PublishWinner
    <3> QED BY <3>1, <3>2
  <2>2. szsEmitted' \in BOOLEAN BY <1>14 DEF PublishWinner
  <2> QED BY <1>14, <2>1, <2>2 DEF PublishWinner, children, PcValues
<1>15. CASE Relay
  BY <1>15 DEF Relay, children, PcValues
<1>16. CASE ClaimNoProof
  BY <1>16 DEF ClaimNoProof, ExitCodes, children, PcValues
<1>17. CASE EmitNoProof
  <2>1. stdout' \in Seq(SzsWords) BY <1>17, SzsType DEF EmitNoProof
  <2> QED BY <1>17, <2>1 DEF EmitNoProof, children, PcValues
<1>18. CASE ParentDeath
  <2>1. stdout' \in Seq(SzsWords)
    <3>1. CASE HandlerSpeaks
      <4>1. deathLine \in SzsWords BY <3>1 DEF HandlerSpeaks
      <4>2. Append(stdout, deathLine) \in Seq(SzsWords) BY <4>1
      <4> QED BY <1>18, <3>1, <4>2 DEF ParentDeath
    <3>2. CASE ~HandlerSpeaks
      BY <1>18, <3>2 DEF ParentDeath
    <3> QED BY <3>1, <3>2
  <2>2. szsEmitted' \in BOOLEAN BY <1>18 DEF ParentDeath
  <2>3. kid' \in [Strats -> {"unborn", "forked", "running", "stopped", "zombie", "gone"}]
    BY <1>18 DEF ParentDeath
  <2> QED BY <1>18, <2>1, <2>2, <2>3 DEF ParentDeath, PcValues
<1>19. CASE Expire
  BY <1>19 DEF Expire, parent, children
<1>20. ASSUME NEW s \in Strats, Child(s) PROVE TypeOK'
  <2>1. CASE ChildStarts(s)
    BY <2>1 DEF ChildStarts, parent
  <2>2. CASE ChildProgress(s)
    <3>1. given[s] + 1 \in 0 .. MaxGiven
      BY <2>2, ConstantsAssumption DEF ChildProgress
    <3>2. given' \in [Strats -> 0 .. MaxGiven]
      BY <2>2, <3>1 DEF ChildProgress
    <3> QED BY <2>2, <3>2 DEF ChildProgress, parent
  <2>3. CASE ChildSuspends(s)
    BY <2>3 DEF ChildSuspends, parent
  <2>4. CASE ChildExits(s)
    <3>1. code' \in [Strats -> ExitCodes \cup {"none"}]
      BY <2>4, ConstantsAssumption DEF ChildExits
    <3>2. output' \in [Slots -> Strats \cup {Idle}]
      BY <2>4 DEF ChildExits
    <3> QED BY <2>4, <3>1, <3>2 DEF ChildExits, parent
  <2>5. CASE ChildCrashes(s)
    BY <2>5 DEF ChildCrashes, parent, ExitCodes
  <2> QED BY <1>20, <2>1, <2>2, <2>3, <2>4, <2>5 DEF Child
<1>21. CASE UNCHANGED vars
  BY <1>21 DEF vars, parent, children
<1> QED
  BY <1>1, <1>2, <1>3, <1>4, <1>5, <1>6, <1>7, <1>8, <1>9, <1>10, <1>11,
     <1>12, <1>13, <1>14, <1>15, <1>16, <1>17, <1>18, <1>19, <1>20, <1>21
  DEF Next, Parent, FillSlot, PollSlot, Answer

-----------------------------------------------------------------------------
(* At most one status line.                                                *)

LEMMA StatusNext == TypeOK /\ StatusInv /\ [Next]_vars => StatusInv'
<1> SUFFICES ASSUME TypeOK, StatusInv, [Next]_vars PROVE StatusInv' OBVIOUS
<1> USE DEF StatusInv
<1>1. CASE FillSlot \/ LoopTop \/ PollSlot \/ LoopEnd \/ DisarmDeath \/ RearmDeath
  <2>1. ~szsEmitted /\ UNCHANGED <<szsEmitted, stdout>> /\ pc' # "emit"
    BY <1>1 DEF FillSlot, Fork, Track, ForkFails, Resume, NothingToRun, LoopTop,
         PollSlot, PollNothing, PollStopped, PollEnded, PollProof, LoopEnd,
         DisarmDeath, RearmDeath, LeaveSlot, AfterSlot
  <2> QED BY <2>1
<1>2. CASE PublishWinner
  <2>1. stdout = <<>> BY <1>2 DEF PublishWinner
  <2>2. Len(Append(stdout, BufferStatus(i))) = 1 BY <2>1
  <2> QED BY <1>2, <2>1, <2>2 DEF PublishWinner
<1>3. CASE Relay
  BY <1>3 DEF Relay
<1>4. CASE ClaimNoProof
  BY <1>4 DEF ClaimNoProof
<1>5. CASE EmitNoProof
  <2>1. stdout = <<>> /\ szsEmitted BY <1>5 DEF EmitNoProof
  <2>2. Len(Append(stdout, Szs(bestCode))) = 1 BY <2>1
  <2> QED BY <1>5, <2>1, <2>2 DEF EmitNoProof
<1>6. CASE ParentDeath
  <2>1. CASE HandlerSpeaks
    <3>1. stdout = <<>> BY <2>1 DEF HandlerSpeaks
    <3>2. Len(Append(stdout, deathLine)) = 1 BY <3>1
    <3> QED BY <1>6, <2>1, <3>2 DEF ParentDeath
  <2>2. CASE ~HandlerSpeaks
    BY <1>6, <2>2 DEF ParentDeath
  <2> QED BY <2>1, <2>2
<1>7. CASE Expire \/ (\E s \in Strats : Child(s)) \/ UNCHANGED vars
  BY <1>7 DEF Expire, Child, ChildStarts, ChildProgress, ChildSuspends,
       ChildExits, ChildCrashes, vars, parent
<1> QED
  BY <1>1, <1>2, <1>3, <1>4, <1>5, <1>6, <1>7 DEF Next, Parent, Answer

-----------------------------------------------------------------------------
(* Who owns a child.                                                       *)

\* Putting a child in an empty slot, and emptying a slot.
LEMMA SlotPut ==
  ASSUME TypeOK, slots[i] = Idle, NEW s \in Strats,
         slots' = [slots EXCEPT ![i] = s]
  PROVE  InSlots' = InSlots \cup {s}
BY DEF TypeOK, InSlots, Idle, Strats

LEMMA SlotClear ==
  ASSUME TypeOK, slots' = [slots EXCEPT ![i] = Idle],
         \A m, n \in Slots : slots[m] = slots[n] /\ slots[m] # Idle => m = n
  PROVE  InSlots' = InSlots \ {slots[i]}
BY DEF TypeOK, InSlots

\* Appending to the pool, and removing from it.
LEMMA PoolPut ==
  ASSUME TypeOK, NEW s \in Strats, suspended' = Append(suspended, s)
  PROVE  InPool' = InPool \cup {s}
<1>1. /\ Len(suspended') = Len(suspended) + 1
      /\ \A q \in 1 .. Len(suspended) : suspended'[q] = suspended[q]
      /\ suspended'[Len(suspended) + 1] = s
      /\ Len(suspended) \in Nat
  BY DEF TypeOK
<1>2. ASSUME NEW x PROVE x \in InPool' <=> x \in InPool \cup {s}
  BY <1>1 DEF InPool
<1> QED BY <1>2

LEMMA PoolTake ==
  ASSUME TypeOK, NEW p \in 1 .. Len(suspended), suspended' = Without(suspended, p),
         \A q, r \in 1 .. Len(suspended) : suspended[q] = suspended[r] => q = r
  PROVE  /\ InPool' = InPool \ {suspended[p]}
         /\ \A q, r \in 1 .. Len(suspended') : suspended'[q] = suspended'[r] => q = r
<1>1. suspended \in Seq(Strats) BY DEF TypeOK
<1>0. /\ Len(Without(suspended, p)) = Len(suspended) - 1
      /\ \A q \in 1 .. Len(suspended) - 1 :
           Without(suspended, p)[q] = IF q < p THEN suspended[q] ELSE suspended[q + 1]
  BY <1>1, WithoutType
<1>2. /\ Len(suspended) \in Nat
      /\ Len(suspended') = Len(suspended) - 1
      /\ \A q \in 1 .. Len(suspended) - 1 :
           suspended'[q] = IF q < p THEN suspended[q] ELSE suspended[q + 1]
  BY <1>0, <1>1
<1>3. ASSUME NEW x \in InPool' PROVE x \in InPool \ {suspended[p]}
  BY <1>2, <1>3 DEF InPool
<1>4. ASSUME NEW x \in InPool \ {suspended[p]} PROVE x \in InPool'
  <2>1. PICK q \in 1 .. Len(suspended) : x = suspended[q] BY DEF InPool
  <2>2. q # p BY <2>1
  <2>3. CASE q < p
    <3>1. q \in 1 .. Len(suspended) - 1 BY <1>2, <2>1, <2>3
    <3>2. suspended'[q] = suspended[q] BY <1>2, <2>3, <3>1
    <3>3. q \in 1 .. Len(suspended') BY <1>2, <3>1
    <3> QED BY <2>1, <3>2, <3>3 DEF InPool
  <2>4. CASE q > p
    <3>1. q - 1 \in 1 .. Len(suspended) - 1 /\ ~(q - 1 < p) BY <1>2, <2>1, <2>4
    <3>2. suspended'[q - 1] = suspended[q] BY <1>2, <3>1
    <3>3. q - 1 \in 1 .. Len(suspended') BY <1>2, <3>1
    <3> QED BY <2>1, <3>2, <3>3 DEF InPool
  <2> QED BY <2>2, <2>3, <2>4, <1>2
<1>5. ASSUME NEW q \in 1 .. Len(suspended'), NEW r \in 1 .. Len(suspended'),
             suspended'[q] = suspended'[r]
      PROVE  q = r
  <2> DEFINE old(k) == IF k < p THEN k ELSE k + 1
  <2>1. q \in 1 .. Len(suspended) - 1 /\ r \in 1 .. Len(suspended) - 1 BY <1>2
  <2>2. old(q) \in 1 .. Len(suspended) /\ old(r) \in 1 .. Len(suspended) BY <1>2, <2>1
  <2>3. suspended'[q] = suspended[old(q)] /\ suspended'[r] = suspended[old(r)] BY <1>2, <2>1
  <2>4. old(q) = old(r) BY <1>5, <2>2, <2>3
  <2> QED BY <2>1, <2>4
<1> QED BY <1>3, <1>4, <1>5

LEMMA OwnInit == Init => OwnInv
BY ConstantsAssumption
DEF Init, OwnInv, LoopInv, PcInv, NewbornInv, FillInv, RefillInv, UnbornInv,
    LoopPcs, AnswerPcs, OneOwner, NoOrphans,
    DeathSparesOnlyNewborn, InSlots, InPool, Living, Slots, Strats, Idle

LEMMA OwnFill == TypeOK /\ OwnInv /\ FillSlot => OwnInv'
<1> SUFFICES ASSUME TypeOK, OwnInv, FillSlot PROVE OwnInv' OBVIOUS
<1> USE DEF OwnInv, LoopInv
<1>0. pc \in LoopPcs /\ pc # "killed" /\ result = "none" /\ result' = "none"
  BY DEF FillSlot, Fork, Track, ForkFails, Resume, NothingToRun, LeaveSlot,
         LoopPcs, PcInv
<1>1. ASSUME pc' \in LoopPcs, NewbornInv', FillInv', RefillInv', UnbornInv', OneOwner'
      PROVE  OwnInv'
  BY <1>0, <1>1 DEF PcInv, NoOrphans, DeathSparesOnlyNewborn, LoopPcs, AnswerPcs
<1>2. CASE Fork
  <2>1. next \in Strats BY <1>2, NextIsStrat DEF Fork
  <2>2. newborn = Idle BY <1>0, <1>2 DEF Fork, NewbornInv
  <2>3. kid[next] = "unborn" BY <1>0, <2>1, <2>2 DEF UnbornInv, Strats, Idle
  <2>4. slots[i] = Idle BY <1>2 DEF Fork, FillInv, RefillInv, TypeOK, Slots
  <2>5. next \notin InSlots \cup InPool
    BY <1>0, <2>1, <2>3 DEF OneOwner, Living
  <2>6. UNCHANGED <<InSlots, InPool, childPids, slots, suspended>>
    BY <1>2 DEF Fork, InSlots, InPool
  <2>7. \A s \in Strats : Living(s)' <=> Living(s) \/ s = next
    BY <1>2, <2>1 DEF Fork, Living, TypeOK
  <2>8. OneOwner'
    <3>1. \A s \in Strats : Living(s)' <=> s \in InSlots \cup InPool \cup {next}
      BY <1>0, <2>1, <2>2, <2>7 DEF OneOwner, Idle, Strats
    <3> QED BY <1>0, <1>2, <2>5, <2>6, <3>1 DEF Fork, OneOwner
  <2>9. pc' \in LoopPcs /\ NewbornInv' BY <1>2, <2>2 DEF Fork, NewbornInv, LoopPcs
  <2>10. FillInv' /\ RefillInv'
    BY <1>2, <2>4, <2>1 DEF Fork, FillInv, RefillInv, Strats, TypeOK
  <2>11. UnbornInv'
    BY <1>0, <1>2, <2>1, <2>2 DEF Fork, UnbornInv, TypeOK, Idle, Strats
  <2> QED BY <1>1, <2>8, <2>9, <2>10, <2>11
<1>3. CASE Track
  <2>1. next \in Strats /\ newborn = next
    <3>1. next \in Strats BY <1>3, NextIsStrat DEF Track
    <3> QED BY <1>0, <1>3, <3>1 DEF Track, NewbornInv
  <2>2. slots[i] = Idle BY <1>3 DEF Track, FillInv, RefillInv, TypeOK, Slots
  <2>3. InSlots' = InSlots \cup {newborn} /\ InPool' = InPool
    BY <1>3, <2>1, <2>2, SlotPut DEF Track, InPool
  <2>4. newborn \notin InSlots \cup InPool BY <1>0 DEF OneOwner
  <2>5. OneOwner'
    <3>1. \A s \in Strats : Living(s)' <=> Living(s) BY <1>3 DEF Track, children, Living
    <3>2. \A m, n \in Slots : slots'[m] = slots'[n] /\ slots'[m] # Idle => m = n
      BY <1>0, <1>3, <2>2, <2>4 DEF Track, OneOwner, InSlots, TypeOK
    <3>3. newborn' = Idle /\ Idle \notin InSlots /\ Idle \notin Strats
      BY <1>3 DEF Track, InSlots, Idle, Strats
    <3>4. Idle \notin InPool BY <3>3 DEF InPool, TypeOK
    <3>5. Idle \notin InSlots' \cup InPool' BY <2>1, <2>3, <3>3, <3>4
    <3>6. InSlots' \cap InPool' = {} BY <1>0, <2>3, <2>4 DEF OneOwner
    <3>7. \A p, q \in 1 .. Len(suspended') : suspended'[p] = suspended'[q] => p = q
      BY <1>0, <1>3 DEF Track, OneOwner
    <3>8. \A s \in Strats : Living(s)' <=> s \in InSlots' \cup InPool' \cup {newborn'}
      BY <1>0, <2>3, <3>1, <3>3 DEF OneOwner
    <3>9. childPids' = InSlots' \cup InPool'
      BY <1>0, <1>3, <2>3 DEF Track, Tracked, OneOwner
    <3> QED BY <3>2, <3>3, <3>5, <3>6, <3>7, <3>8, <3>9 DEF OneOwner
  <2>6. pc' \in LoopPcs \ {"trackFill", "trackRefill", "refill"}
    BY <1>3 DEF Track, AfterSlot, LoopPcs
  <2>7. NewbornInv' /\ RefillInv' BY <1>3, <2>6 DEF Track, NewbornInv, RefillInv
  <2>8. FillInv'
    <3>1. ASSUME pc' = "fill" PROVE pc = "trackFill" /\ i' = i + 1
      BY <1>3, <3>1 DEF Track, AfterSlot, Filling
    <3>2. ASSUME pc' = "fill" PROVE next' = i' /\ \A n \in Slots : n >= i' => slots'[n] = Idle
      BY <1>3, <3>1, <3>2 DEF Track, FillInv, TypeOK, Slots
    <3> QED BY <2>6, <3>2 DEF FillInv
  <2>9. UnbornInv'
    BY <1>0, <1>3, <2>1 DEF Track, children, UnbornInv, Strats
  <2> QED BY <1>1, <2>5, <2>6, <2>7, <2>8, <2>9
<1>4. CASE ForkFails \/ NothingToRun
  <2>1. UNCHANGED <<slots, suspended, newborn, childPids, kid>>
    BY <1>4 DEF ForkFails, NothingToRun, LeaveSlot, children
  <2>2. OneOwner'
    BY <1>0, <2>1 DEF OneOwner, InSlots, InPool, Living
  <2>3. pc' \in LoopPcs \ {"trackFill", "trackRefill", "refill"}
    BY <1>4 DEF ForkFails, NothingToRun, LeaveSlot, AfterSlot, LoopPcs
  <2>4. newborn = Idle
    BY <1>0, <1>4 DEF ForkFails, NothingToRun, NewbornInv
  <2>5. NewbornInv' /\ RefillInv' BY <2>1, <2>3, <2>4 DEF NewbornInv, RefillInv
  <2>6. FillInv'
    <3>1. ASSUME pc' = "fill" PROVE ForkFails /\ pc = "fill" /\ i' = i + 1
      BY <1>4, <3>1 DEF ForkFails, NothingToRun, LeaveSlot, AfterSlot, Filling
    <3>2. ASSUME pc' = "fill" PROVE next' = i' /\ \A n \in Slots : n >= i' => slots'[n] = Idle
      BY <2>1, <3>1, <3>2 DEF ForkFails, FillInv, TypeOK, Slots
    <3> QED BY <2>3, <3>2 DEF FillInv
  <2>7. next' \in {next, next + 1} BY <1>4 DEF ForkFails, NothingToRun, LeaveSlot
  <2>8. UnbornInv'
    BY <1>0, <2>1, <2>7 DEF UnbornInv, Strats, TypeOK
  <2> QED BY <1>1, <2>2, <2>3, <2>5, <2>6, <2>8
<1>5. CASE Resume
  <2>1. PICK p \in 1 .. Len(suspended) :
          /\ suspended' = Without(suspended, p)
          /\ slots' = [slots EXCEPT ![i] = suspended[p]]
          /\ kid' = [kid EXCEPT ![suspended[p]] = IF @ = "stopped" THEN "running" ELSE @]
    BY <1>5 DEF Resume
  <2>2. suspended[p] \in Strats /\ suspended[p] \in InPool BY DEF TypeOK, InPool
  <2>3. slots[i] = Idle /\ newborn = Idle
    BY <1>0, <1>5 DEF Resume, RefillInv, NewbornInv
  <2>4. InSlots' = InSlots \cup {suspended[p]} BY <2>1, <2>2, <2>3, SlotPut
  <2>5. /\ InPool' = InPool \ {suspended[p]}
        /\ \A q, r \in 1 .. Len(suspended') : suspended'[q] = suspended'[r] => q = r
    <3>1. \A q, r \in 1 .. Len(suspended) : suspended[q] = suspended[r] => q = r
      BY <1>0 DEF OneOwner
    <3> QED BY <2>1, <3>1, PoolTake
  <2>6. \A s \in Strats : Living(s)' <=> Living(s) BY <2>1 DEF Living, TypeOK
  <2>7. OneOwner'
    <3>1. suspended[p] \notin InSlots BY <1>0, <2>2 DEF OneOwner
    <3>2. /\ i \in Slots /\ slots'[i] = suspended[p]
          /\ \A n \in Slots : n # i => slots'[n] = slots[n] /\ slots[n] # suspended[p]
      <4>1. i \in Slots /\ slots \in [Slots -> Strats \cup {Idle}] BY DEF TypeOK
      <4>2. suspended[p] # Idle BY <2>2 DEF Idle, Strats
      <4>3. \A n \in Slots : slots[n] # suspended[p] BY <3>1, <4>2 DEF InSlots
      <4> QED BY <2>1, <4>1, <4>3
    <3>3. \A m, n \in Slots : slots[m] = slots[n] /\ slots[m] # Idle => m = n
      BY <1>0 DEF OneOwner
    <3>4. ASSUME NEW m \in Slots, NEW n \in Slots, slots'[m] = slots'[n], slots'[m] # Idle
          PROVE  m = n
      <4>1. CASE m = i \/ n = i BY <3>2, <3>4, <4>1
      <4>2. CASE m # i /\ n # i
        <5>1. slots[m] = slots[n] /\ slots[m] # Idle BY <3>2, <3>4, <4>2
        <5> QED BY <3>3, <5>1
      <4> QED BY <4>1, <4>2
    <3>5. /\ InSlots \cap InPool = {} /\ newborn \notin InSlots \cup InPool
          /\ \A s \in Strats : Living(s) <=> s \in InSlots \cup InPool \cup {newborn}
          /\ childPids = InSlots \cup InPool
      BY <1>0 DEF OneOwner
    <3>6. UNCHANGED <<newborn, childPids>> BY <1>5 DEF Resume
    <3>7. InSlots' \cup InPool' = InSlots \cup InPool /\ InSlots' \cap InPool' = {}
      BY <2>2, <2>4, <2>5, <3>5
    <3>8. \A s \in Strats : Living(s)' <=> s \in InSlots' \cup InPool' \cup {newborn'}
      BY <2>6, <3>5, <3>6, <3>7
    <3> QED BY <2>5, <3>4, <3>5, <3>6, <3>7, <3>8 DEF OneOwner
  <2>8. pc' \in {"poll", "tail"} BY <1>5 DEF Resume, AfterSlot, Filling
  <2>9. NewbornInv' /\ FillInv' /\ RefillInv'
    <3>1. newborn' = Idle BY <1>5, <2>3 DEF Resume
    <3> QED BY <2>8, <3>1 DEF NewbornInv, FillInv, RefillInv
  <2>10. UnbornInv'
    <3>1. \A s \in Strats : kid[s] = "unborn" => kid'[s] = "unborn"
      BY <2>1 DEF TypeOK
    <3> QED BY <1>0, <1>5, <3>1 DEF Resume, UnbornInv
  <2> QED BY <1>1, <2>7, <2>8, <2>9, <2>10 DEF LoopPcs
<1> QED BY <1>2, <1>3, <1>4, <1>5 DEF FillSlot

LEMMA OwnPoll == TypeOK /\ OwnInv /\ (PollSlot \/ LoopTop \/ LoopEnd) => OwnInv'
<1> SUFFICES ASSUME TypeOK, OwnInv, PollSlot \/ LoopTop \/ LoopEnd PROVE OwnInv' OBVIOUS
<1> USE DEF OwnInv, LoopInv
<1>0. /\ pc \in LoopPcs /\ pc # "killed" /\ result = "none" /\ newborn = Idle
      /\ UNCHANGED <<newborn, next>>
  BY DEF PollSlot, PollNothing, PollStopped, PollEnded, PollProof, LoopTop, LoopEnd,
         LeaveSlot, LoopPcs, PcInv, NewbornInv
\* A step that goes on in the loop.
<1>1. ASSUME pc' \in LoopPcs \ {"fill", "trackFill", "trackRefill"}, result' = "none",
             pc' = "refill" => slots'[i'] = Idle,
             \A s \in Strats : kid[s] = "unborn" => kid'[s] = "unborn", OneOwner'
      PROVE  OwnInv'
  <2>1. NewbornInv' BY <1>0, <1>1 DEF NewbornInv
  <2>3. FillInv' BY <1>1 DEF FillInv
  <2>4. RefillInv' BY <1>1 DEF RefillInv
  <2>2. UnbornInv' BY <1>0, <1>1 DEF UnbornInv
  <2>5. PcInv' BY <1>1 DEF PcInv, LoopPcs, AnswerPcs
  <2>6. NoOrphans' /\ DeathSparesOnlyNewborn'
    BY <1>1 DEF NoOrphans, DeathSparesOnlyNewborn, LoopPcs
  <2> QED BY <1>1, <2>1, <2>2, <2>3, <2>4, <2>5, <2>6
\* A step that leaves the loop.
<1>2. ASSUME pc' \in {"claim", "disarm"}, result' # "none", \A s \in Strats : ~Living(s)'
      PROVE  OwnInv'
  BY <1>2 DEF PcInv, NewbornInv, FillInv, RefillInv, UnbornInv, OneOwner, NoOrphans,
              DeathSparesOnlyNewborn, LoopPcs, AnswerPcs
<1>3. \A s \in Strats : Living(s) <=> s \in InSlots \cup InPool
  BY <1>0 DEF OneOwner, Idle, Strats
<1>4. CASE PollNothing
  <2>1. UNCHANGED <<slots, suspended, childPids, kid, result>>
    BY <1>4 DEF PollNothing, LeaveSlot, children
  <2>2. OneOwner' BY <1>0, <2>1 DEF OneOwner, InSlots, InPool, Living
  <2>3. pc' \in {"poll", "tail"} BY <1>4 DEF PollNothing, LeaveSlot, AfterSlot, Filling
  <2> QED BY <1>0, <1>1, <2>1, <2>2, <2>3 DEF LoopPcs
<1>5. ASSUME PollStopped \/ PollEnded
      PROVE  OwnInv'
  <2>1. /\ slots[i] \in Strats /\ slots[i] \in InSlots /\ slots[i] \notin InPool
        /\ slots' = [slots EXCEPT ![i] = Idle]
    BY <1>0, <1>5 DEF PollStopped, PollEnded, TypeOK, InSlots, OneOwner
  <2>2. InSlots' = InSlots \ {slots[i]} BY <1>0, <2>1, SlotClear DEF OneOwner
  <2>3. \A m, n \in Slots : slots'[m] = slots'[n] /\ slots'[m] # Idle => m = n
    BY <1>0, <2>1 DEF OneOwner, TypeOK
  <2>4. pc' = "refill" /\ result' = "none" /\ slots'[i'] = Idle
    BY <1>0, <1>5, <2>1 DEF PollStopped, PollEnded, TypeOK
  \* the child is killed or has been reaped
  <2>5. ASSUME Kill({slots[i]}), UNCHANGED suspended PROVE OwnInv'
    <3>1. \A s \in Strats : Living(s)' <=> Living(s) /\ s # slots[i]
      BY <2>5 DEF Kill, Living
    <3>2. InPool' = InPool BY <2>5 DEF InPool
    <3>3. childPids' = InSlots' \cup InPool'
      BY <1>0, <2>1, <2>2, <2>5, <3>2 DEF Kill, OneOwner
    <3>4. \A s \in Strats : Living(s)' <=> s \in InSlots' \cup InPool' \cup {newborn'}
      BY <1>0, <1>3, <2>1, <2>2, <3>1, <3>2 DEF Idle, Strats
    <3>5. newborn' \notin InSlots' \cup InPool'
      BY <1>0, <2>2, <3>2 DEF OneOwner
    <3>6. OneOwner'
      BY <1>0, <2>2, <2>3, <2>5, <3>2, <3>3, <3>4, <3>5 DEF OneOwner
    <3>7. kid[slots[i]] # "unborn" BY <1>3, <2>1 DEF Living
    <3>8. \A s \in Strats : kid[s] = "unborn" => kid'[s] = "unborn"
      BY <2>5, <3>7 DEF Kill
    <3> QED BY <1>1, <2>4, <3>6, <3>8 DEF LoopPcs
  \* the child goes to the pool
  <2>6. ASSUME suspended' = Append(suspended, slots[i]), UNCHANGED <<kid, childPids>>
        PROVE  OwnInv'
    <3>1. InPool' = InPool \cup {slots[i]} BY <2>1, <2>6, PoolPut
    <3>2. \A p, q \in 1 .. Len(suspended') : suspended'[p] = suspended'[q] => p = q
      <4>1. /\ Len(suspended') = Len(suspended) + 1
            /\ \A q \in 1 .. Len(suspended) : suspended'[q] = suspended[q]
            /\ suspended'[Len(suspended) + 1] = slots[i]
            /\ Len(suspended) \in Nat
        BY <2>6 DEF TypeOK
      <4>2. \A q \in 1 .. Len(suspended) : suspended[q] # slots[i]
        BY <2>1 DEF InPool
      <4> QED BY <1>0, <4>1, <4>2 DEF OneOwner
    <3>3. \A s \in Strats : Living(s)' <=> Living(s) BY <2>6 DEF Living
    <3>4. InSlots' \cap InPool' = {} BY <1>0, <2>2, <3>1 DEF OneOwner
    <3>5. InSlots' \cup InPool' = InSlots \cup InPool BY <2>1, <2>2, <3>1
    <3>6. OneOwner'
      BY <1>0, <2>3, <2>6, <3>2, <3>3, <3>4, <3>5 DEF OneOwner
    <3> QED BY <1>1, <2>4, <2>6, <3>6 DEF LoopPcs
  <2> QED BY <1>5, <2>5, <2>6 DEF PollStopped, PollEnded
<1>6. CASE PollProof
  <2>1. \A s \in Strats : ~Living(s)'
    BY <1>3, <1>6 DEF PollProof, EveryChild, Living
  <2> QED BY <1>2, <1>6, <2>1 DEF PollProof
<1>7. CASE LoopTop
  <2>1. CASE DeadlinePassed
    <3>1. \A s \in Strats : ~Living(s)'
      BY <1>3, <1>7, <2>1 DEF LoopTop, EveryChild, Kill, Living
    <3> QED BY <1>2, <1>7, <2>1, <3>1 DEF LoopTop
  <2>2. CASE ~DeadlinePassed
    <3>1. UNCHANGED <<slots, suspended, childPids, kid, result>> /\ pc' = "poll"
      BY <1>7, <2>2 DEF LoopTop
    <3>2. OneOwner' BY <1>0, <3>1 DEF OneOwner, InSlots, InPool, Living
    <3> QED BY <1>0, <1>1, <3>1, <3>2 DEF LoopPcs
  <2> QED BY <2>1, <2>2
<1>8. CASE LoopEnd
  <2>1. UNCHANGED <<slots, suspended, childPids, kid>> BY <1>8 DEF LoopEnd, children
  <2>2. CASE NoWorkLeft
    <3>1. InPool = {} BY <2>2 DEF NoWorkLeft, InPool
    <3>2. \A s \in Strats : ~Living(s)'
      BY <1>3, <2>1, <2>2, <3>1 DEF NoWorkLeft, Living
    <3> QED BY <1>2, <1>8, <2>2, <3>2 DEF LoopEnd
  <2>3. CASE ~NoWorkLeft
    <3>1. pc' = "head" /\ UNCHANGED result BY <1>8, <2>3 DEF LoopEnd
    <3>2. OneOwner' BY <1>0, <2>1, <3>1 DEF OneOwner, InSlots, InPool, Living
    <3> QED BY <1>0, <1>1, <2>1, <3>1, <3>2 DEF LoopPcs
  <2> QED BY <2>2, <2>3
<1> QED BY <1>4, <1>5, <1>6, <1>7, <1>8 DEF PollSlot

LEMMA OwnAnswer == TypeOK /\ OwnInv /\ Answer => OwnInv'
<1> SUFFICES ASSUME TypeOK, OwnInv, Answer PROVE OwnInv' OBVIOUS
<1>1. /\ pc \in AnswerPcs /\ pc' \in AnswerPcs
      /\ UNCHANGED <<result, kid>>
  BY DEF Answer, DisarmDeath, RearmDeath, PublishWinner, Relay, ClaimNoProof,
         EmitNoProof, AnswerPcs, children
<1>2. result # "none" BY <1>1 DEF OwnInv, LoopInv, PcInv
<1>3. \A s \in Strats : ~Living(s)' BY <1>1, <1>2 DEF OwnInv, NoOrphans, Living
<1> QED
  BY <1>1, <1>2, <1>3
  DEF OwnInv, LoopInv, PcInv, NewbornInv, FillInv, RefillInv, UnbornInv, OneOwner,
      NoOrphans, DeathSparesOnlyNewborn, LoopPcs, AnswerPcs

LEMMA OwnDeath == TypeOK /\ OwnInv /\ ParentDeath => OwnInv'
<1> SUFFICES ASSUME TypeOK, OwnInv, ParentDeath PROVE OwnInv' OBVIOUS
<1>1. pc \in LoopPcs \cup AnswerPcs /\ pc # "killed" /\ pc' = "killed"
      /\ UNCHANGED <<result, newborn>>
  BY DEF ParentDeath, TypeOK, PcValues, LoopPcs, AnswerPcs
<1>2. \A s \in Strats : Living(s)' => Living(s) /\ s \notin childPids
  BY DEF ParentDeath, Living
<1>3. \A s \in Strats : Living(s)' => s = newborn
  <2>1. CASE result = "none"
    BY <1>1, <1>2, <2>1 DEF OwnInv, OneOwner
  <2>2. CASE result # "none"
    BY <1>2, <2>2 DEF OwnInv, NoOrphans
  <2> QED BY <2>1, <2>2
<1>4. result # "none" => \A s \in Strats : ~Living(s)'
  BY <1>2 DEF OwnInv, NoOrphans
<1> QED
  BY <1>1, <1>3, <1>4
  DEF OwnInv, LoopInv, PcInv, NewbornInv, FillInv, RefillInv, UnbornInv, OneOwner,
      NoOrphans, DeathSparesOnlyNewborn, LoopPcs, AnswerPcs

\* A child neither comes to life nor is reaped by a step of its own.
LEMMA OwnChild ==
  TypeOK /\ OwnInv /\ (Expire \/ (\E s \in Strats : Child(s)) \/ UNCHANGED vars) => OwnInv'
<1> SUFFICES ASSUME TypeOK, OwnInv,
                    Expire \/ (\E s \in Strats : Child(s)) \/ UNCHANGED vars
             PROVE  OwnInv'
  OBVIOUS
<1>1. UNCHANGED parent
  BY DEF Expire, Child, ChildStarts, ChildProgress, ChildSuspends, ChildExits,
         ChildCrashes, vars
<1>2. /\ \A s \in Strats : Living(s)' <=> Living(s)
      /\ \A s \in Strats : kid[s] = "unborn" => kid'[s] = "unborn"
  <2>1. CASE Expire \/ UNCHANGED vars
    BY <2>1 DEF Expire, vars, children, Living
  <2>2. ASSUME NEW c \in Strats, Child(c)
        PROVE  \A s \in Strats : /\ Living(s)' <=> Living(s)
                                 /\ kid[s] = "unborn" => kid'[s] = "unborn"
    BY <2>2 DEF Child, ChildStarts, ChildProgress, ChildSuspends, ChildExits,
                ChildCrashes, Living, TypeOK
  <2> QED BY <2>1, <2>2
<1> QED
  BY <1>1, <1>2
  DEF parent, OwnInv, LoopInv, PcInv, NewbornInv, FillInv, RefillInv, UnbornInv,
      OneOwner, NoOrphans, DeathSparesOnlyNewborn, InSlots, InPool

-----------------------------------------------------------------------------
(* Which strategies are done.                                              *)

\* What a step can do to a child: nothing, let it go on, launch it, end it, or kill
\* or reap it.
LEMMA KidSteps ==
  ASSUME TypeOK, OwnInv, [Next]_vars, NEW s \in Strats
  PROVE  \/ kid'[s] = kid[s] /\ code'[s] = code[s]
         \/ /\ kid[s] \in {"forked", "running", "stopped"}
            /\ kid'[s] \in {"running", "stopped"} /\ code'[s] = code[s]
         \/ Fork /\ s = next /\ kid[s] = "unborn" /\ kid'[s] = "forked" /\ code'[s] = code[s]
         \/ /\ kid[s] \in {"forked", "running", "stopped"} /\ kid'[s] = "zombie"
            /\ code'[s] \in ExitCodes /\ UNCHANGED parent
         \/ kid'[s] = "gone" /\ code'[s] = code[s]
<1> USE DEF OwnInv, LoopInv
<1>1. CASE Track \/ ForkFails \/ NothingToRun \/ PollNothing \/ LoopEnd \/ Answer \/ Expire \/ UNCHANGED vars
  BY <1>1 DEF Track, ForkFails, NothingToRun, PollNothing, LeaveSlot, LoopEnd, Answer, DisarmDeath,
       RearmDeath, PublishWinner, Relay, ClaimNoProof, EmitNoProof, Expire, vars, children
<1>2. CASE Fork
  <2>1. next \in Strats BY <1>2, NextIsStrat DEF Fork
  <2>2. newborn = Idle BY <1>2 DEF Fork, NewbornInv, LoopPcs
  <2>3. kid[next] = "unborn" BY <1>2, <2>1, <2>2 DEF Fork, UnbornInv, LoopPcs, Strats, Idle
  <2>4. kid' = [kid EXCEPT ![next] = "forked"] /\ code' = code BY <1>2 DEF Fork
  <2>5. CASE s = next BY <1>2, <2>3, <2>4, <2>5 DEF TypeOK
  <2>6. CASE s # next BY <2>1, <2>4, <2>6 DEF TypeOK
  <2> QED BY <2>5, <2>6
<1>3. CASE Resume
  BY <1>3 DEF Resume, TypeOK
<1>4. CASE LoopTop \/ PollStopped \/ PollEnded \/ PollProof \/ ParentDeath
  BY <1>4 DEF LoopTop, PollStopped, PollEnded, PollProof, Kill, ParentDeath, TypeOK
<1>8. ASSUME NEW c \in Strats, Child(c)
      PROVE  \/ kid'[s] = kid[s] /\ code'[s] = code[s]
             \/ /\ kid[s] \in {"forked", "running", "stopped"}
                /\ kid'[s] \in {"running", "stopped"} /\ code'[s] = code[s]
             \/ /\ kid[s] \in {"forked", "running", "stopped"} /\ kid'[s] = "zombie"
                /\ code'[s] \in ExitCodes /\ UNCHANGED parent
  <2>1. CASE ChildStarts(c) \/ ChildSuspends(c) \/ ChildProgress(c)
    BY <2>1 DEF ChildStarts, ChildSuspends, ChildProgress, TypeOK
  <2>2. CASE ChildExits(c)
    <3>1. PICK o \in Codes : code' = [code EXCEPT ![c] = o] BY <2>2 DEF ChildExits
    <3>2. o \in ExitCodes BY ConstantsAssumption
    <3> QED BY <2>2, <3>1, <3>2 DEF ChildExits, TypeOK
  <2>3. CASE ChildCrashes(c)
    BY <2>3 DEF ChildCrashes, TypeOK, ExitCodes
  <2> QED BY <1>8, <2>1, <2>2, <2>3 DEF Child
<1> QED BY <1>1, <1>2, <1>3, <1>4, <1>8 DEF Next, Parent, FillSlot, PollSlot

LEMMA CodeNext == TypeOK /\ OwnInv /\ CodeInv /\ [Next]_vars => CodeInv'
BY KidSteps DEF CodeInv, ExitCodes

\* An exit code is final.
LEMMA CodeKept ==
  ASSUME TypeOK, OwnInv, CodeInv, [Next]_vars, NEW s \in Strats, code[s] # "none"
  PROVE  code'[s] = code[s]
BY KidSteps DEF CodeInv

\* An exhausted search outranks every other end.
LEMMA BestCodeKept ==
  ASSUME [Next]_vars, bestCode = "SosEmpty"
  PROVE  bestCode' = "SosEmpty"
BY DEF Next, Parent, FillSlot, Fork, Track, ForkFails, Resume, NothingToRun, LeaveSlot, LoopTop,
       PollSlot, PollNothing, PollStopped, PollEnded, PollProof, BetterCode, LoopEnd, Answer,
       DisarmDeath, RearmDeath, PublishWinner, Relay, ClaimNoProof, EmitNoProof, ParentDeath,
       Expire, Child, ChildStarts, ChildProgress, ChildSuspends, ChildExits, ChildCrashes,
       vars, parent

LEMMA DoneNext == TypeOK /\ OwnInv /\ SearchInv /\ [Next]_vars => DoneInv'
<1> SUFFICES ASSUME TypeOK, OwnInv, SearchInv, [Next]_vars, pc' \in LoopPcs, NEW s \in Strats
             PROVE  /\ kid'[s] = "gone" => /\ code'[s] # "Proof"
                                           /\ code'[s] = "none" => MegsBudget
                                           /\ code'[s] = "SosEmpty" => bestCode' = "SosEmpty"
                    /\ kid'[s] = "unborn" /\ s < next' => MayFailFork
  BY DEF DoneInv
<1>0. /\ pc \in LoopPcs
      /\ CodeInv
      /\ kid[s] = "gone" => /\ code[s] # "Proof"
                            /\ code[s] = "none" => MegsBudget
                            /\ code[s] = "SosEmpty" => bestCode = "SosEmpty"
      /\ kid[s] = "unborn" /\ s < next => MayFailFork
  <2>1. pc \in LoopPcs
    BY DEF Next, Parent, FillSlot, Fork, Track, ForkFails, Resume, NothingToRun, LoopTop,
       PollSlot, PollNothing, PollStopped, PollEnded, PollProof, LoopEnd, Answer,
       DisarmDeath, RearmDeath, PublishWinner, Relay, ClaimNoProof, EmitNoProof, ParentDeath,
       Expire, Child, ChildStarts, ChildProgress, ChildSuspends, ChildExits, ChildCrashes,
       vars, parent, LoopPcs
  <2> QED BY <2>1 DEF SearchInv, DoneInv
<1>1. ASSUME kid'[s] = "gone"
      PROVE  /\ code'[s] # "Proof" /\ (code'[s] = "none" => MegsBudget)
             /\ code'[s] = "SosEmpty" => bestCode' = "SosEmpty"
  <2>1. CASE kid[s] = "gone"
    <3>1. code'[s] = code[s] BY <2>1, KidSteps DEF Living
    <3> QED BY <1>0, <2>1, <3>1, BestCodeKept
  <2>2. CASE kid[s] # "gone"
    <3>1. PollStopped \/ PollEnded
      BY <1>0, <1>1, <2>2 DEF Next, Parent, FillSlot, Fork, Track, ForkFails, Resume, NothingToRun,
         LeaveSlot, LoopTop, Kill, PollSlot, PollNothing, PollProof, LoopEnd, Answer,
         DisarmDeath, RearmDeath, PublishWinner, Relay, ClaimNoProof, EmitNoProof, ParentDeath,
         Expire, Child, ChildStarts, ChildProgress, ChildSuspends, ChildExits, ChildCrashes,
         vars, children, LoopPcs, TypeOK
    <3>2. CASE PollStopped
      <4>1. s = slots[i] /\ kid[s] = "stopped" /\ MegsBudget /\ code' = code
        BY <1>1, <2>2, <3>2 DEF PollStopped, Kill
      <4> QED BY <1>0, <4>1 DEF CodeInv
    <3>3. CASE PollEnded
      <4>1. s = slots[i] /\ kid[s] = "zombie" /\ code[s] # "Proof" /\ code' = code
            /\ bestCode' = BetterCode(code[s])
        BY <1>1, <2>2, <3>3 DEF PollEnded, Kill
      <4>2. code[s] # "none" BY <1>0, <4>1 DEF CodeInv
      <4> QED BY <4>1, <4>2 DEF BetterCode
    <3> QED BY <3>1, <3>2, <3>3
  <2> QED BY <2>1, <2>2
<1>2. ASSUME kid'[s] = "unborn", s < next' PROVE MayFailFork
  <2>1. kid[s] = "unborn" BY <1>2, KidSteps
  <2>2. CASE next' = next BY <1>0, <1>2, <2>1, <2>2
  <2>3. CASE Track
    <3>1. newborn = next /\ next \in Strats
      <4>1. next \in Strats BY <2>3, NextIsStrat DEF Track, OwnInv
      <4> QED BY <2>3, <4>1 DEF Track, OwnInv, LoopInv, NewbornInv, LoopPcs
    <3>2. Living(next) BY <1>0, <2>3, <3>1 DEF OwnInv, LoopInv, PcInv, OneOwner, Track, LoopPcs
    <3>3. s # next BY <2>1, <3>2 DEF Living
    <3>4. s < next BY <1>2, <2>3, <3>1, <3>3 DEF Track, Strats
    <3> QED BY <1>0, <2>1, <3>4
  <2>4. CASE ForkFails BY <2>4 DEF ForkFails
  <2>5. next' = next \/ Track \/ ForkFails
    BY DEF Next, Parent, FillSlot, Fork, Resume, NothingToRun, LeaveSlot, LoopTop,
       PollSlot, PollNothing, PollStopped, PollEnded, PollProof, LoopEnd, Answer,
       DisarmDeath, RearmDeath, PublishWinner, Relay, ClaimNoProof, EmitNoProof, ParentDeath,
       Expire, Child, ChildStarts, ChildProgress, ChildSuspends, ChildExits, ChildCrashes,
       vars, parent
  <2> QED BY <2>2, <2>3, <2>4, <2>5
<1> QED BY <1>1, <1>2

-----------------------------------------------------------------------------
(* What may be claimed.                                                    *)

\* Theorem is the word of a proof, and of nothing else.
LEMMA TheoremIsProof == \A c : Szs(c) = "Theorem" => c = "Proof"
BY DEF Szs

LEMMA BufferIsProof == TypeOK /\ BufferStatus(i) = "Theorem" => Proved
<1> SUFFICES ASSUME TypeOK, BufferStatus(i) = "Theorem" PROVE Proved OBVIOUS
<1>1. output[i] \in Strats BY DEF BufferStatus, TypeOK
<1>2. code[output[i]] = "Proof" BY <1>1, TheoremIsProof DEF BufferStatus
<1> QED BY <1>1, <1>2 DEF Proved

LEMMA ProvedKept == TypeOK /\ OwnInv /\ CodeInv /\ [Next]_vars /\ Proved => Proved'
<1> SUFFICES ASSUME TypeOK, OwnInv, CodeInv, [Next]_vars, NEW s \in Strats, code[s] = "Proof"
             PROVE  Proved'
  BY DEF Proved
<1>1. code'[s] = "Proof" BY CodeKept
<1> QED BY <1>1 DEF Proved

LEMMA WordNext == TypeOK /\ OwnInv /\ SearchInv /\ [Next]_vars => WordInv'
<1> SUFFICES ASSUME TypeOK, OwnInv, SearchInv, [Next]_vars PROVE WordInv' OBVIOUS
<1>0. CodeInv /\ WordInv BY DEF SearchInv
<1>1. CASE RearmDeath
  <2>1. deathLine' = "Theorem" => Proved BY <1>1, BufferIsProof DEF RearmDeath
  <2> QED BY <1>0, <1>1, <2>1, ProvedKept DEF RearmDeath, WordInv
<1>2. CASE PollEnded
  BY <1>0, <1>2, ProvedKept DEF PollEnded, BetterCode, WordInv
<1>3. CASE DisarmDeath \/ ClaimNoProof
  BY <1>0, <1>3, ProvedKept DEF DisarmDeath, ClaimNoProof, WordInv
<1>4. CASE ~RearmDeath /\ ~PollEnded /\ ~DisarmDeath /\ ~ClaimNoProof
  <2>1. UNCHANGED <<bestCode, deathLine>>
    BY <1>4 DEF Next, Parent, FillSlot, Fork, Track, ForkFails, Resume, NothingToRun, LeaveSlot,
         LoopTop, PollSlot, PollNothing, PollStopped, PollProof, LoopEnd, Answer,
         PublishWinner, Relay, EmitNoProof, ParentDeath, Expire, Child, ChildStarts,
         ChildProgress, ChildSuspends, ChildExits, ChildCrashes, vars, parent
  <2> QED BY <1>0, <2>1, ProvedKept DEF WordInv
<1> QED BY <1>1, <1>2, <1>3, <1>4

\* When no work is left, every strategy has been tried.
LEMMA Drains == TypeOK /\ OwnInv /\ SearchInv /\ LoopEnd /\ NoWorkLeft => childPids' = {} /\ DrainedIsComplete'
<1> SUFFICES ASSUME TypeOK, OwnInv, SearchInv, LoopEnd, NoWorkLeft
             PROVE  childPids' = {} /\ DrainedIsComplete'
  OBVIOUS
<1>1. pc \in LoopPcs /\ result = "none" /\ newborn = Idle
  BY DEF LoopEnd, OwnInv, LoopInv, PcInv, NewbornInv, LoopPcs
<1>2. InSlots = {} /\ InPool = {} BY DEF NoWorkLeft, InPool
<1>3. childPids = {} /\ \A s \in Strats : ~Living(s)
  BY <1>1, <1>2, ConstantsAssumption DEF OwnInv, OneOwner, LoopEnd, Strats, Idle
<1>4. UNCHANGED <<kid, code, bestCode, childPids>> BY DEF LoopEnd, children
<1>5. ASSUME NEW s \in Strats
      PROVE  /\ code[s] = "SosEmpty" => bestCode = "SosEmpty"
             /\ code[s] # "Proof"
             /\ code[s] # "none" \/ (kid[s] = "unborn" /\ MayFailFork) \/ (kid[s] = "gone" /\ MegsBudget)
  <2>1. kid[s] \in {"unborn", "gone"} BY <1>3 DEF TypeOK, Living
  <2>2. s < next BY ConstantsAssumption DEF NoWorkLeft, Strats, TypeOK
  <2>3. CASE kid[s] = "gone" BY <1>1, <2>3 DEF SearchInv, DoneInv
  <2>4. CASE kid[s] = "unborn" BY <1>1, <2>2, <2>4 DEF SearchInv, DoneInv, CodeInv
  <2> QED BY <2>1, <2>3, <2>4
<1> QED BY <1>3, <1>4, <1>5 DEF DrainedIsComplete

\* Nothing happens to the strategies after that.
LEMMA StaysDrained ==
  ASSUME TypeOK, OwnInv, SearchInv, [Next]_vars, result = "drained", result' = "drained"
  PROVE  childPids' = {} /\ DrainedIsComplete'
<1>1. /\ childPids = {} /\ \A s \in Strats : ~Living(s)
      /\ pc \in AnswerPcs \cup {"killed"}
  BY DEF SearchInv, OwnInv, LoopInv, PcInv, NoOrphans, TypeOK, PcValues, LoopPcs, AnswerPcs
<1>2. (\E s \in Strats : code[s] = "SosEmpty") => bestCode = "SosEmpty"
  BY DEF SearchInv, DrainedIsComplete
<1>3. UNCHANGED <<kid, code, childPids>>
  BY <1>1 DEF Next, Parent, FillSlot, Fork, Track, ForkFails, Resume, NothingToRun,
       LoopTop, PollSlot, PollNothing, PollStopped, PollEnded, PollProof, LoopEnd, Answer,
       DisarmDeath, RearmDeath, PublishWinner, Relay, ClaimNoProof, EmitNoProof, ParentDeath,
       Expire, Child, ChildStarts, ChildProgress, ChildSuspends, ChildExits, ChildCrashes,
       vars, parent, children, AnswerPcs, Living, TypeOK
<1> QED BY <1>1, <1>2, <1>3, BestCodeKept DEF SearchInv, DrainedIsComplete

LEMMA SearchNext == TypeOK /\ OwnInv /\ SearchInv /\ [Next]_vars => SearchInv'
<1> SUFFICES ASSUME TypeOK, OwnInv, SearchInv, [Next]_vars PROVE SearchInv' OBVIOUS
<1>1. CodeInv' /\ DoneInv' /\ WordInv' BY CodeNext, DoneNext, WordNext DEF SearchInv
<1>2. ASSUME result' = "drained" PROVE childPids' = {} /\ DrainedIsComplete'
  <2>1. result = "drained" \/ (LoopEnd /\ NoWorkLeft)
    BY <1>2 DEF Next, Parent, FillSlot, Fork, Track, ForkFails, Resume, NothingToRun, LeaveSlot,
       LoopTop, PollSlot, PollNothing, PollStopped, PollEnded, PollProof, LoopEnd, Answer,
       DisarmDeath, RearmDeath, PublishWinner, Relay, ClaimNoProof, EmitNoProof, ParentDeath,
       Expire, Child, ChildStarts, ChildProgress, ChildSuspends, ChildExits, ChildCrashes,
       vars, parent
  <2> QED BY <1>2, <2>1, Drains, StaysDrained
<1> QED BY <1>1, <1>2 DEF SearchInv

-----------------------------------------------------------------------------
(* The race.                                                               *)

LEMMA RaceStep == IInv /\ [Next]_vars => [Race!Next]_Race!vars
<1> SUFFICES ASSUME IInv, [Next]_vars PROVE [Race!Next]_Race!vars OBVIOUS
<1> DEFINE ended == pc \in {"exited", "killed"}
<1>0. TypeOK /\ StatusInv /\ OwnInv /\ CodeInv /\ WordInv BY DEF IInv, SearchInv
<1>1. Proved => Proved' BY <1>0, ProvedKept
<1>2. ASSUME UNCHANGED stdout, ended' = ended PROVE [Race!Next]_Race!vars
  BY <1>1, <1>2 DEF Race!Next, Race!Succeed, Race!vars, Proved
<1>3. ASSUME UNCHANGED <<stdout, code>>, ~ended, ended' PROVE Race!Next
  BY <1>3 DEF Race!Next, Race!Finish
<1>4. ASSUME NEW w \in SzsWords, UNCHANGED code, ~ended, ended' \in BOOLEAN, stdout = <<>>,
             stdout' = Append(stdout, w), w = "Theorem" => Proved
      PROVE  Race!Next
  <2>1. stdout' = <<w>> BY <1>4
  <2>2. Race!Answer(w) BY <1>4, <2>1 DEF Race!Answer, Proved
  <2> QED BY <2>2 DEF Race!Next
<1>5. CASE FillSlot \/ LoopTop \/ PollSlot \/ LoopEnd \/ DisarmDeath \/ RearmDeath \/ ClaimNoProof
  <2>1. UNCHANGED stdout
    BY <1>5 DEF FillSlot, Fork, Track, ForkFails, Resume, NothingToRun, LeaveSlot, LoopTop,
       PollSlot, PollNothing, PollStopped, PollEnded, PollProof, LoopEnd, DisarmDeath, RearmDeath,
       ClaimNoProof
  <2>2. pc \notin {"exited", "killed"} /\ pc' \notin {"exited", "killed"}
    BY <1>5 DEF FillSlot, Fork, Track, ForkFails, Resume, NothingToRun, LeaveSlot, AfterSlot, LoopTop,
       PollSlot, PollNothing, PollStopped, PollEnded, PollProof, LoopEnd, DisarmDeath, RearmDeath,
       ClaimNoProof
  <2> QED BY <1>2, <2>1, <2>2
<1>6. CASE PublishWinner
  <2>1. ~ended /\ ~ended' /\ UNCHANGED code /\ stdout = <<>>
    BY <1>0, <1>6 DEF PublishWinner, StatusInv, children
  <2>2. CASE BufferStatus(i) = "none" \/ szsEmitted
    <3>1. UNCHANGED stdout BY <1>6, <2>2 DEF PublishWinner
    <3> QED BY <1>2, <2>1, <3>1
  <2>3. CASE ~(BufferStatus(i) = "none" \/ szsEmitted)
    <3>1. BufferStatus(i) \in SzsWords BY <2>3, SzsType DEF BufferStatus
    <3>2. stdout' = Append(stdout, BufferStatus(i)) BY <1>6, <2>3 DEF PublishWinner
    <3> QED BY <1>0, <1>4, <2>1, <3>1, <3>2, BufferIsProof
  <2> QED BY <2>2, <2>3
<1>7. CASE Relay
  BY <1>3, <1>7 DEF Relay, children
<1>8. CASE EmitNoProof
  <2>1. stdout = <<>> /\ ~ended /\ ended' /\ UNCHANGED code /\ stdout' = Append(stdout, Szs(bestCode))
    BY <1>0, <1>8 DEF EmitNoProof, StatusInv, children
  <2>2. Szs(bestCode) # "Theorem" BY <1>0, TheoremIsProof DEF WordInv
  <2> QED BY <1>4, <2>1, <2>2, SzsType
<1>9. CASE ParentDeath
  <2>1. ~ended /\ ended' /\ UNCHANGED code BY <1>9 DEF ParentDeath
  <2>2. CASE HandlerSpeaks
    <3>1. stdout = <<>> /\ deathLine \in SzsWords BY <1>0, <2>2 DEF HandlerSpeaks, StatusInv, TypeOK
    <3>2. stdout' = Append(stdout, deathLine) BY <1>9, <2>2 DEF ParentDeath
    <3> QED BY <1>0, <1>4, <2>1, <3>1, <3>2 DEF WordInv
  <2>3. CASE ~HandlerSpeaks
    BY <1>3, <1>9, <2>1, <2>3 DEF ParentDeath
  <2> QED BY <2>2, <2>3
<1>10. CASE Expire \/ (\E s \in Strats : Child(s)) \/ UNCHANGED vars
  <2>1. UNCHANGED <<stdout, pc>>
    BY <1>10 DEF Expire, Child, ChildStarts, ChildProgress, ChildSuspends, ChildExits,
         ChildCrashes, vars, parent
  <2> QED BY <1>2, <2>1
<1> QED BY <1>5, <1>6, <1>7, <1>8, <1>9, <1>10 DEF Next, Parent, Answer

-----------------------------------------------------------------------------
(* The theorems.                                                           *)

LEMMA Inductive == IInv /\ [Next]_vars => IInv'
<1> SUFFICES ASSUME IInv, [Next]_vars PROVE IInv' OBVIOUS
<1>1. TypeOK' BY TypeNext DEF IInv, OwnInv
<1>2. StatusInv' BY StatusNext DEF IInv
<1>3. OwnInv' BY OwnFill, OwnPoll, OwnAnswer, OwnDeath, OwnChild DEF IInv, Next, Parent
<1>4. SearchInv' BY SearchNext DEF IInv
<1> QED BY <1>1, <1>2, <1>3, <1>4 DEF IInv

LEMMA Invariant == Spec => []IInv
<1>1. Init => IInv
  <2> SUFFICES ASSUME Init PROVE IInv OBVIOUS
  <2>1. TypeOK /\ StatusInv /\ OwnInv BY TypeInit, OwnInit DEF StatusInv, Init
  <2>2. SearchInv BY ConstantsAssumption DEF Init, SearchInv, CodeInv, DoneInv, WordInv, Strats
  <2> QED BY <2>1, <2>2 DEF IInv
<1> QED BY <1>1, Inductive, PTL DEF Spec

\* The variables of the poll loop always have their types: in particular the
\* slot index and next never leave slots[] and order[].
THEOREM TypeCorrect == Spec => []TypeOK
<1>1. IInv => TypeOK BY DEF IInv
<1> QED BY <1>1, Invariant, PTL

\* While the loop runs every living child is in one place and tracked.
THEOREM Ownership == Spec => []OneOwner
<1>1. IInv => OneOwner BY DEF IInv, OwnInv
<1> QED BY <1>1, Invariant, PTL

\* cores_poll_loop never returns with a child still alive, and the signal handler
\* kills every child the parent knows of.
THEOREM LeavesNoSurvivors == Spec => []NoSurvivors
<1>1. IInv => NoSurvivors BY DEF IInv, OwnInv, NoSurvivors
<1> QED BY <1>1, Invariant, PTL

\* Neither two normal answers nor an answer and the handler's line are ever
\* both written.
THEOREM SingleStatus == Spec => []AtMostOneStatus
<1>1. IInv => AtMostOneStatus BY DEF IInv, StatusInv, AtMostOneStatus
<1> QED BY <1>1, Invariant, PTL

\* When the loop stops for want of work, every strategy has been run to its end, was
\* ejected or could not be forked, none had a proof, and one exhausted search makes
\* the answer GaveUp.
THEOREM DrainedMeansDone == Spec => []DrainedIsComplete
<1>1. IInv => DrainedIsComplete BY DEF IInv, SearchInv, DrainedIsComplete
<1> QED BY <1>1, Invariant, PTL

\* The scheduler implements the contract of a race: at most one status line, and
\* Theorem only if some strategy found a proof.
THEOREM ImplementsRace == Spec => KeepsRaceContract
<1>1. Init => Race!Init
  BY DEF Init, Race!Init
<1>2. IInv /\ [Next]_vars => [Race!Next]_Race!vars BY RaceStep
<1> QED BY <1>1, <1>2, Invariant, PTL DEF Spec, KeepsRaceContract, Race!Spec
=============================================================================
