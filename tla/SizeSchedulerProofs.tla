------------------------- MODULE SizeSchedulerProofs -------------------------
(***************************************************************************)
(* Theorems about the -cores scheduler of mace4, for every number of       *)
(* cores, range of sizes and increment.                                    *)
(***************************************************************************)
EXTENDS SizeScheduler, TLAPS

LoopPcs == {"arm", "top", "launch", "track", "wait", "poll", "retain"}
EndPcs  == {"publish", "status", "relay", "exit", "say", "exited"}

Lives == {"unborn", "running", "zombie", "gone"}

\* The variables of mace4_parallel and of the children have their types.
TypeOK ==
  /\ pc \in LoopPcs \cup {"cleanup", "killed"} \cup EndPcs
  /\ kids \subseteq Sizes /\ toPoll \subseteq Sizes /\ tracked \subseteq Sizes
  /\ newborn \in Sizes \cup {Nobody} /\ next \in Int
  /\ best \in Start .. MaxInt /\ floor \in Start .. MaxInt
  /\ decided \in BOOLEAN /\ deadlineHit \in BOOLEAN /\ ladrOutput \in BOOLEAN
  /\ publishing \in BOOLEAN /\ szsPrinted \in BOOLEAN
  /\ ret \in {"none", "Model", "Seconds", "Exhausted"}
  /\ kid \in [Sizes -> Lives] /\ code \in [Sizes -> ExitCodes \cup {"none"}]

(***************************************************************************)
(* The ownership part: as long as the loop runs, the living children are   *)
(* those of kids[] and the one just forked, and the handler's table agrees *)
(* with kids[].                                                            *)
(***************************************************************************)
Owned ==
  /\ pc = "track" => newborn = next
  /\ pc # "track" => newborn = Nobody
  /\ tracked = kids
  /\ \A s \in Sizes : Living(s) <=> s \in kids \cup {newborn}

OwnInv ==
  /\ pc \in LoopPcs \cup {"cleanup"} => Owned
  /\ pc \in EndPcs => tracked = {} /\ \A s \in Sizes : ~Living(s)
  /\ pc = "killed" => \A s \in Sizes : Living(s) => s = newborn

(***************************************************************************)
(* The search part.  OnGrid: the sizes that next goes through.             *)
(***************************************************************************)
OnGrid(s) == (s - Start) % Incr = 0

\* A child has an exit code once it has ended, and only then unless it was killed.
CodeInv == \A s \in Sizes :
  /\ kid[s] \in {"unborn", "running"} => code[s] = "none"
  /\ kid[s] = "zombie" => code[s] # "none"
  /\ code[s] = "Model" => s < OverflowFrom
  /\ code[s] = "Overflow" => s >= OverflowFrom

\* next has passed every launched size, and no other of the grid.
LaunchInv ==
  /\ next >= Start => OnGrid(next)
  /\ \A s \in Sizes : kid[s] = "unborn" /\ OnGrid(s) => Start <= next /\ next <= s
  /\ \A s \in Sizes : Start <= next /\ next <= s /\ s # newborn => kid[s] = "unborn"
  /\ pc = "track" => next \in Sizes /\ kid[next] # "unborn"

\* The retained model is a model; only overflowing sizes lower the floor.
BestInv == /\ HaveModel => best \in Sizes /\ code[best] = "Model"
           /\ floor = MaxInt \/ floor >= OverflowFrom

\* Below the retained size, the sizes that are done had no model, and those whose
\* child was killed were not worth a search.
Searched == \A s \in Sizes : kid[s] = "gone" /\ s < best =>
              code[s] # "Model" /\ (code[s] = "none" => s >= OverflowFrom)

Smallest == \A s \in Before(best) : code[s] \in {"Overflow", "NoModel", "Limit"}

SearchInv ==
  /\ CodeInv /\ LaunchInv /\ BestInv
  /\ pc \in LoopPcs => Searched
  /\ pc = "cleanup" /\ ~deadlineHit => kids = {} /\ Searched
  /\ (pc \in {"publish", "status", "relay"} \/ ret = "Model") /\ ~deadlineHit
       => HaveModel /\ Smallest

(***************************************************************************)
(* The output part: what is prepared for the handler, and what has been    *)
(* written, at each place of the parent.                                   *)
(***************************************************************************)
DeathInv ==
  /\ pc = "arm" => deathBuf = <<>> /\ ~HaveModel
  /\ pc = "retain" => HaveModel /\ deathBuf \in {Rendered(FALSE), Rendered(TRUE)}
  /\ pc \notin {"arm", "retain", "killed"} => deathBuf = Rendered(HaveModel)

OutInv ==
  /\ pc \in LoopPcs \cup {"cleanup", "publish"} =>
       stdout = <<>> /\ ~szsPrinted /\ ~publishing /\ ret = "none"
  /\ pc \in {"publish", "status", "relay"} => HaveModel /\ ret = "none"
  /\ pc = "status" => publishing /\ ~szsPrinted /\ ~ladrOutput /\ stdout = <<>>
  /\ pc = "relay" => /\ publishing /\ szsPrinted = ~ladrOutput
                     /\ stdout = IF ladrOutput THEN <<>> ELSE <<"Satisfiable">>
  /\ pc = "exit" /\ ret = "Model" =>
       /\ HaveModel /\ publishing /\ szsPrinted = ~ladrOutput
       /\ stdout = IF ladrOutput THEN <<"ModelText">> ELSE Rendered(TRUE)
  /\ pc = "exit" /\ ret # "Model" =>
       ~HaveModel /\ ~publishing /\ ~szsPrinted /\ stdout = <<>>
  /\ pc = "say" =>
       /\ szsPrinted
       /\ stdout = IF ret = "Model" THEN <<"ModelText">> ELSE <<>>
       /\ ret = "Model" => HaveModel

IInv == TypeOK /\ OwnInv /\ SearchInv /\ DeathInv /\ OutInv

-----------------------------------------------------------------------------
(* Types.                                                                  *)

LEMMA TypeInit == Init => TypeOK
<1> SUFFICES ASSUME Init PROVE TypeOK OBVIOUS
<1>1. kid \in [Sizes -> Lives] /\ code \in [Sizes -> ExitCodes \cup {"none"}]
  BY DEF Init, Lives
<1>2. next \in Int /\ best \in Start .. MaxInt /\ floor \in Start .. MaxInt
  BY ConstantsAssumption DEF Init
<1> QED BY <1>1, <1>2 DEF Init, TypeOK, LoopPcs

\* Only a size of the range is launched.
LEMMA LaunchedIsSize == TypeOK /\ CanLaunch => next \in Sizes
BY ConstantsAssumption DEF TypeOK, CanLaunch, Useful, InRange, Sizes

LEMMA TypeNext == TypeOK /\ OwnInv /\ SearchInv /\ [Next]_vars => TypeOK'
<1> SUFFICES ASSUME TypeOK, OwnInv, SearchInv, [Next]_vars PROVE TypeOK' OBVIOUS
<1> USE DEF TypeOK, LoopPcs, EndPcs, Lives, loop, answer
<1>1. CASE Arm \/ LoopTop \/ Launched \/ Wait \/ Retain
  <2>1. CASE Arm \/ LoopTop BY <2>1 DEF Arm, LoopTop
  <2>2. CASE Launched BY <2>2 DEF Launched
  <2>3. CASE Wait BY <2>3 DEF Wait
  <2>4. CASE Retain BY <2>4 DEF Retain
  <2> QED BY <1>1, <2>1, <2>2, <2>3, <2>4
<1>2. CASE Fork
  BY <1>2, LaunchedIsSize DEF Fork
<1>3. CASE Track
  <2>1. newborn \in Sizes BY <1>3 DEF Track, SearchInv, LaunchInv, OwnInv, Owned
  <2>2. next' \in Int BY <1>3, ConstantsAssumption DEF Track, Plus
  <2> QED BY <1>3, <2>1, <2>2 DEF Track
<1>4. CASE Poll
  <2>1. PICK s \in toPoll : toPoll' = toPoll \ {s} /\ (StillRuns(s) \/ Reaped(s))
    BY <1>4 DEF Poll
  <2>2. s \in Sizes /\ s \in Start .. MaxInt BY ConstantsAssumption DEF Sizes
  <2>3. CASE StillRuns(s) BY <1>4, <2>1, <2>3 DEF Poll, StillRuns
  <2>4. CASE Reaped(s)
    <3>1. kid' \in [Sizes -> Lives] BY <2>4 DEF Reaped
    <3>2. kids' \subseteq Sizes /\ tracked' \subseteq Sizes BY <2>4 DEF Reaped, Dropped
    <3>3. best' \in Start .. MaxInt /\ floor' \in Start .. MaxInt BY <2>2, <2>4 DEF Reaped
    <3> QED BY <1>4, <2>1, <2>4, <3>1, <3>2, <3>3 DEF Poll, Reaped
  <2> QED BY <2>1, <2>3, <2>4
<1>5. CASE Supersede \/ Cleanup
  BY <1>5 DEF Supersede, Cleanup, Kill
<1>6. CASE StartPublishing \/ PublishStatus \/ Relay \/ ClaimStatus \/ SayStatus
  <2>1. CASE StartPublishing BY <2>1 DEF StartPublishing
  <2>2. CASE PublishStatus BY <2>2 DEF PublishStatus
  <2>3. CASE Relay BY <2>3 DEF Relay
  <2>4. CASE ClaimStatus BY <2>4 DEF ClaimStatus
  <2>5. CASE SayStatus BY <2>5 DEF SayStatus
  <2> QED BY <1>6, <2>1, <2>2, <2>3, <2>4, <2>5
<1>7. CASE ParentDeath \/ Alarm
  <2>1. CASE ParentDeath BY <2>1 DEF ParentDeath
  <2>2. CASE Alarm BY <2>2 DEF Alarm
  <2> QED BY <1>7, <2>1, <2>2
<1>8. ASSUME NEW s \in Sizes, ChildEnds(s) PROVE TypeOK'
  <2>1. code' \in [Sizes -> ExitCodes \cup {"none"}]
    BY <1>8, ConstantsAssumption DEF ChildEnds, Outcomes
  <2> QED BY <1>8, <2>1 DEF ChildEnds
<1>9. CASE UNCHANGED vars
  BY <1>9 DEF vars
<1> QED BY <1>1, <1>2, <1>3, <1>4, <1>5, <1>6, <1>7, <1>8, <1>9 DEF Next, Parent

-----------------------------------------------------------------------------
(* Who owns a child.                                                       *)

LEMMA OwnNext == TypeOK /\ OwnInv /\ SearchInv /\ [Next]_vars => OwnInv'
<1> SUFFICES ASSUME TypeOK, OwnInv, SearchInv, [Next]_vars PROVE OwnInv' OBVIOUS
<1> USE DEF LoopPcs, EndPcs, loop, answer
<1>0. Nobody \notin Sizes BY ConstantsAssumption DEF Nobody, Sizes
\* The steps that leave the children alone.
<1>1. ASSUME pc \in LoopPcs \cup {"cleanup"}, pc' \in (LoopPcs \cup {"cleanup"}) \ {"track"}, pc # "track",
             UNCHANGED <<kids, tracked, newborn, kid>>
      PROVE  OwnInv'
  BY <1>1 DEF OwnInv, Owned, Living
<1>2. CASE Arm \/ LoopTop \/ Launched \/ Wait \/ Retain
  BY <1>1, <1>2 DEF Arm, LoopTop, Launched, Wait, Retain
<1>3. CASE Fork
  <2>1. Owned /\ newborn = Nobody BY <1>3 DEF Fork, OwnInv, Owned
  <2>2. next \in Sizes BY <1>3, LaunchedIsSize DEF Fork
  <2>3. \A s \in Sizes : Living(s)' <=> Living(s) \/ s = next
    BY <1>3, <2>2 DEF Fork, Living, TypeOK
  <2>4. Owned' BY <1>0, <1>3, <2>1, <2>3 DEF Fork, Owned
  <2> QED BY <1>3, <2>4 DEF Fork, OwnInv
<1>4. CASE Track
  BY <1>0, <1>4 DEF Track, OwnInv, Owned, Living
<1>5. CASE Poll
  <2>1. PICK s \in toPoll : toPoll' = toPoll \ {s} /\ (StillRuns(s) \/ Reaped(s))
    BY <1>5 DEF Poll
  <2>2. CASE StillRuns(s) BY <1>1, <1>5, <2>2 DEF Poll, StillRuns
  <2>3. CASE Reaped(s)
    <3>1. Owned /\ newborn = Nobody /\ UNCHANGED newborn BY <1>5 DEF Poll, OwnInv, Owned
    <3>2. \A t \in Sizes : Living(t)' <=> Living(t) /\ t # s
      BY <2>3 DEF Reaped, Living, TypeOK
    <3>3. Owned' BY <1>0, <2>3, <3>1, <3>2 DEF Reaped, Dropped, Owned
    <3> QED BY <2>3, <3>3 DEF Reaped, OwnInv
  <2> QED BY <2>1, <2>2, <2>3
<1>6. ASSUME pc \in LoopPcs \cup {"cleanup"}, pc # "track", UNCHANGED newborn,
             NEW S \in SUBSET kids, Kill(S)
      PROVE  /\ newborn' = Nobody /\ tracked' = kids' /\ kids' = kids \ S
             /\ \A s \in Sizes : Living(s)' <=> s \in kids'
  BY <1>0, <1>6 DEF OwnInv, Owned, Kill, Living, TypeOK
<1>7. CASE Supersede
  <2>1. Superseded \in SUBSET kids BY DEF Superseded
  <2>2. Owned' BY <1>0, <1>6, <1>7, <2>1 DEF Supersede, Owned
  <2> QED BY <1>7, <2>2 DEF Supersede, OwnInv
<1>8. CASE Cleanup
  <2>1. tracked' = {} /\ \A s \in Sizes : ~Living(s)' BY <1>6, <1>8 DEF Cleanup, Leftovers
  <2> QED BY <1>8, <2>1 DEF Cleanup, OwnInv
<1>9. CASE StartPublishing \/ PublishStatus \/ Relay \/ ClaimStatus \/ SayStatus
  <2>1. pc \in EndPcs /\ pc' \in EndPcs /\ UNCHANGED <<kid, tracked>>
    BY <1>9 DEF StartPublishing, PublishStatus, Relay, ClaimStatus, SayStatus
  <2> QED BY <2>1 DEF OwnInv, Living
<1>10. CASE ParentDeath
  <2>1. pc' = "killed" /\ UNCHANGED newborn BY <1>10 DEF ParentDeath
  <2>2. \A s \in Sizes : Living(s)' => Living(s) /\ s \notin tracked
    BY <1>10 DEF ParentDeath, Living
  <2>3. pc \in LoopPcs \cup {"cleanup"} \cup EndPcs BY <1>10 DEF ParentDeath, TypeOK
  <2> QED BY <2>1, <2>2, <2>3 DEF OwnInv, Owned
<1>11. CASE Alarm \/ UNCHANGED vars
  BY <1>11 DEF Alarm, vars, OwnInv, Owned, Living
<1>12. ASSUME NEW c \in Sizes, ChildEnds(c) PROVE OwnInv'
  <2>1. \A s \in Sizes : Living(s)' <=> Living(s) BY <1>12 DEF ChildEnds, Living, TypeOK
  <2> QED BY <1>12, <2>1 DEF ChildEnds, OwnInv, Owned
<1> QED
  BY <1>2, <1>3, <1>4, <1>5, <1>7, <1>8, <1>9, <1>10, <1>11, <1>12 DEF Next, Parent

-----------------------------------------------------------------------------
(* Which sizes have been searched.                                         *)

\* The sizes of the grid are Incr apart.
LEMMA GridSteps ==
  ASSUME NEW n \in Int, OnGrid(n)
  PROVE  /\ OnGrid(n + Incr)
         /\ \A t \in Int : OnGrid(t) /\ n < t => n + Incr <= t
<1>0. Incr \in Nat \ {0} /\ Start \in Int BY ConstantsAssumption
<1>1. \A m \in Int : m = Incr * (m \div Incr) + (m % Incr) /\ m \div Incr \in Int BY <1>0
<1>2. \A k \in Int : (Incr * k) % Incr = 0 BY <1>0
<1>6. ASSUME NEW t \in Int, OnGrid(t) PROVE \E k \in Int : t - Start = Incr * k
  <2> DEFINE m == t - Start
  <2>1. m \in Int /\ m % Incr = 0 BY <1>0, <1>6 DEF OnGrid
  <2>2. m = Incr * (m \div Incr) + (m % Incr) /\ m \div Incr \in Int BY <1>1, <2>1
  <2> HIDE DEF m
  <2>3. m = Incr * (m \div Incr) BY <1>0, <2>1, <2>2
  <2>4. \E k \in Int : m = Incr * k BY <2>2, <2>3
  <2> QED BY <2>4 DEF m
<1>3. PICK j \in Int : n - Start = Incr * j BY <1>6
<1>4. OnGrid(n + Incr)
  <2>1. Incr * (j + 1) = Incr * j + Incr BY <1>0
  <2>2. (n + Incr) - Start = Incr * (j + 1) BY <1>0, <1>3, <2>1
  <2> QED BY <1>2, <2>2 DEF OnGrid
<1>5. ASSUME NEW t \in Int, OnGrid(t), n < t PROVE n + Incr <= t
  <2>1. PICK k \in Int : t - Start = Incr * k BY <1>5, <1>6
  <2>2. Incr * j < Incr * k BY <1>0, <1>3, <1>5, <2>1
  <2>3. Incr * j + Incr <= Incr * k BY <1>0, <2>2
  <2> QED BY <1>0, <1>3, <2>1, <2>3
<1> QED BY <1>4, <1>5

\* What a step can do to a child: nothing, launch it, end it, or kill or reap it.
LEMMA KidSteps ==
  ASSUME TypeOK, OwnInv, [Next]_vars, NEW s \in Sizes
  PROVE  \/ kid'[s] = kid[s] /\ code'[s] = code[s]
         \/ kid'[s] = "gone" /\ Living(s) /\ code'[s] = code[s]
         \/ Fork /\ s = next /\ kid'[s] = "running" /\ code'[s] = code[s]
         \/ ChildEnds(s) /\ kid[s] = "running" /\ kid'[s] = "zombie" /\ code'[s] \in Outcomes(s)
<1> USE DEF loop, answer
<1>1. CASE Arm \/ LoopTop \/ Launched \/ Wait \/ Retain \/ Track
  BY <1>1 DEF Arm, LoopTop, Launched, Wait, Retain, Track
<1>2. CASE Fork
  BY <1>2 DEF Fork, TypeOK
<1>3. CASE Poll
  BY <1>3 DEF Poll, StillRuns, Reaped, TypeOK, Living
<1>4. CASE Supersede \/ Cleanup
  <2>1. \A t \in kids : Living(t)
    BY <1>4 DEF Supersede, Cleanup, OwnInv, Owned, LoopPcs, TypeOK
  <2> QED BY <1>4, <2>1 DEF Supersede, Cleanup, Kill, Superseded, Leftovers
<1>5. CASE StartPublishing \/ PublishStatus \/ Relay \/ ClaimStatus \/ SayStatus
  BY <1>5 DEF StartPublishing, PublishStatus, Relay, ClaimStatus, SayStatus
<1>6. CASE ParentDeath
  <2>1. \A t \in tracked : Living(t)
    BY <1>6 DEF ParentDeath, OwnInv, Owned, TypeOK
  <2> QED BY <1>6, <2>1 DEF ParentDeath
<1>7. CASE Alarm \/ UNCHANGED vars
  BY <1>7 DEF Alarm, vars
<1>8. ASSUME NEW c \in Sizes, ChildEnds(c)
      PROVE  \/ /\ ChildEnds(s) /\ kid[s] = "running" /\ kid'[s] = "zombie"
                /\ code'[s] \in Outcomes(s)
             \/ kid'[s] = kid[s] /\ code'[s] = code[s]
  <2>1. CASE s = c
    <3>1. ChildEnds(s) BY <1>8, <2>1
    <3>2. PICK o \in Outcomes(s) : code' = [code EXCEPT ![s] = o] BY <3>1 DEF ChildEnds
    <3>3. code'[s] \in Outcomes(s) BY <3>2 DEF TypeOK
    <3>4. kid[s] = "running" /\ kid'[s] = "zombie" BY <3>1 DEF ChildEnds, TypeOK
    <3> QED BY <3>1, <3>3, <3>4
  <2>2. CASE s # c BY <1>8, <2>2 DEF ChildEnds, TypeOK
  <2> QED BY <2>1, <2>2
<1> QED BY <1>1, <1>2, <1>3, <1>4, <1>5, <1>6, <1>7, <1>8 DEF Next, Parent

\* A size that is launched has no child yet.
LEMMA LaunchedIsUnborn == TypeOK /\ OwnInv /\ LaunchInv /\ Fork => kid[next] = "unborn" /\ next \in Sizes
<1> SUFFICES ASSUME TypeOK, OwnInv, LaunchInv, Fork PROVE kid[next] = "unborn" /\ next \in Sizes OBVIOUS
<1>1. next \in Sizes BY LaunchedIsSize DEF Fork
<1>2. newborn = Nobody BY DEF Fork, OwnInv, Owned, LoopPcs
<1>3. Start <= next /\ next # Nobody BY <1>1, ConstantsAssumption DEF Sizes, Nobody
<1>4. next <= next BY <1>1, ConstantsAssumption DEF Sizes
<1> QED BY <1>1, <1>2, <1>3, <1>4 DEF LaunchInv

LEMMA CodeNext == TypeOK /\ OwnInv /\ SearchInv /\ [Next]_vars => CodeInv'
<1> SUFFICES ASSUME TypeOK, OwnInv, SearchInv, [Next]_vars, NEW s \in Sizes
             PROVE  /\ kid'[s] \in {"unborn", "running"} => code'[s] = "none"
                    /\ kid'[s] = "zombie" => code'[s] # "none"
                    /\ code'[s] = "Model" => s < OverflowFrom
                    /\ code'[s] = "Overflow" => s >= OverflowFrom
  BY DEF CodeInv
<1> USE DEF SearchInv, CodeInv
<1>1. CASE kid'[s] = kid[s] /\ code'[s] = code[s] BY <1>1
<1>2. CASE kid'[s] = "gone" /\ code'[s] = code[s] BY <1>2
<1>3. CASE Fork /\ s = next /\ kid'[s] = "running" /\ code'[s] = code[s]
  BY <1>3, LaunchedIsUnborn
<1>4. CASE kid'[s] = "zombie" /\ code'[s] \in Outcomes(s)
  <2>1. code'[s] \in ExitCodes /\ code'[s] # "none"
    BY <1>4, ConstantsAssumption DEF Outcomes, ExitCodes
  <2>2. /\ s >= OverflowFrom => code'[s] # "Model"
        /\ ~(s >= OverflowFrom) => code'[s] # "Overflow"
    BY <1>4 DEF Outcomes, ExitCodes
  <2>3. s >= OverflowFrom \/ s < OverflowFrom BY ConstantsAssumption DEF Sizes
  <2> QED BY <1>4, <2>1, <2>2, <2>3
<1> QED BY <1>1, <1>2, <1>3, <1>4, KidSteps

LEMMA LaunchNext == TypeOK /\ OwnInv /\ SearchInv /\ [Next]_vars => LaunchInv'
<1> SUFFICES ASSUME TypeOK, OwnInv, SearchInv, [Next]_vars PROVE LaunchInv' OBVIOUS
<1> USE DEF SearchInv, loop, answer
<1>1. CASE Fork
  <2>1. kid[next] = "unborn" /\ next \in Sizes BY <1>1, LaunchedIsUnborn
  <2>2. newborn = Nobody /\ newborn' = next /\ next' = next
    BY <1>1 DEF Fork, OwnInv, Owned, LoopPcs
  <2>3. \A s \in Sizes : kid'[s] = IF s = next THEN "running" ELSE kid[s]
    BY <1>1, <2>1 DEF Fork, TypeOK
  <2>4. \A s \in Sizes : s # Nobody BY ConstantsAssumption DEF Sizes, Nobody
  <2> QED BY <2>1, <2>2, <2>3, <2>4 DEF LaunchInv, OnGrid
<1>2. CASE Track
  <2>1. /\ newborn = next /\ newborn' = Nobody /\ next' = Plus(next, Incr) /\ kid' = kid
        /\ next \in Sizes /\ kid[next] # "unborn" /\ pc' # "track"
    BY <1>2 DEF Track, OwnInv, Owned, LoopPcs, LaunchInv
  <2>2. next \in Int /\ Start <= next /\ next < MaxInt BY <2>1, ConstantsAssumption DEF Sizes
  <2>3. OnGrid(next) BY <2>2, ConstantsAssumption DEF LaunchInv
  <2>4. next' = IF next + Incr > MaxInt THEN next + Incr - 2 * (MaxInt + 1) ELSE next + Incr
    BY <2>1 DEF Plus
  <2>5. next' >= Start => next' = next + Incr
    BY <2>2, <2>4, ConstantsAssumption
  <2>6. next' >= Start => OnGrid(next')
    BY <2>2, <2>3, <2>5, GridSteps
  <2>7. ASSUME NEW s \in Sizes, kid[s] = "unborn", OnGrid(s) PROVE Start <= next' /\ next' <= s
    <3>1. s \in Int /\ s < MaxInt /\ Start <= s BY ConstantsAssumption DEF Sizes
    <3>2. next <= s /\ s # next BY <2>1, <2>7 DEF LaunchInv
    <3>3. next + Incr <= s BY <2>2, <2>3, <2>7, <3>1, <3>2, GridSteps
    <3> QED BY <2>2, <2>4, <3>1, <3>3, ConstantsAssumption
  <2>8. ASSUME NEW s \in Sizes, Start <= next', next' <= s PROVE kid[s] = "unborn"
    <3>1. s \in Int BY ConstantsAssumption DEF Sizes
    <3>2. next < s BY <2>2, <2>5, <2>8, <3>1, ConstantsAssumption
    <3> QED BY <2>1, <2>2, <3>1, <3>2 DEF LaunchInv
  <2> QED BY <2>1, <2>6, <2>7, <2>8 DEF LaunchInv, OnGrid
<1>3. CASE ~Fork /\ ~Track
  <2>1. UNCHANGED <<next, newborn>> /\ (pc' = "track" => pc = "track")
    BY <1>3 DEF Next, Parent, Arm, LoopTop, Launched, Wait, Poll, StillRuns, Reaped, Retain,
         Supersede, Cleanup, StartPublishing, PublishStatus, Relay, ClaimStatus, SayStatus,
         ParentDeath, Alarm, ChildEnds, vars
  <2>2. \A s \in Sizes : kid'[s] = "unborn" <=> kid[s] = "unborn"
    BY <1>3, KidSteps DEF Living
  <2> QED BY <2>1, <2>2 DEF LaunchInv, OnGrid
<1> QED BY <1>1, <1>2, <1>3

\* A child that has ended keeps its code, and so does every model.
LEMMA CodeSteps ==
  ASSUME TypeOK, OwnInv, SearchInv, [Next]_vars, NEW s \in Sizes, code[s] # "none"
  PROVE  code'[s] = code[s]
BY KidSteps DEF SearchInv, CodeInv

LEMMA BestNext == TypeOK /\ OwnInv /\ SearchInv /\ [Next]_vars => BestInv'
<1> SUFFICES ASSUME TypeOK, OwnInv, SearchInv, [Next]_vars PROVE BestInv' OBVIOUS
<1>0. BestInv /\ CodeInv BY DEF SearchInv
<1>1. CASE Poll
  <2>1. PICK s \in toPoll : toPoll' = toPoll \ {s} /\ (StillRuns(s) \/ Reaped(s))
    BY <1>1 DEF Poll
  <2>2. s \in Sizes /\ code' = code /\ s # MaxInt
    BY <1>1, ConstantsAssumption DEF Poll, TypeOK, Sizes
  <2>3. CASE StillRuns(s)
    BY <1>0, <2>2, <2>3 DEF StillRuns, BestInv, HaveModel
  <2>4. CASE Reaped(s)
    <3>1. HaveModel' => best' \in Sizes /\ code'[best'] = "Model"
      BY <1>0, <2>2, <2>4 DEF Reaped, BestInv, HaveModel
    <3>2. floor' = MaxInt \/ floor' >= OverflowFrom
      BY <1>0, <2>2, <2>4 DEF Reaped, BestInv, CodeInv
    <3> QED BY <3>1, <3>2 DEF BestInv
  <2> QED BY <2>1, <2>3, <2>4
<1>2. CASE ~Poll
  <2>1. UNCHANGED <<best, floor>>
    BY <1>2 DEF Next, Parent, Arm, LoopTop, Fork, Track, Launched, Wait, Retain,
         Supersede, Cleanup, StartPublishing, PublishStatus, Relay, ClaimStatus, SayStatus,
         ParentDeath, Alarm, ChildEnds, vars, loop
  <2>2. HaveModel => code'[best] = "Model"
    BY <1>0, CodeSteps DEF BestInv
  <2> QED BY <1>0, <2>1, <2>2 DEF BestInv, HaveModel
<1> QED BY <1>1, <1>2

\* A size is not called done, or given up, for no reason.
LEMMA SearchedKept ==
  ASSUME TypeOK, OwnInv, SearchInv, [Next]_vars, Searched, best' = best,
         \A s \in Sizes : kid'[s] = "gone" => kid[s] = "gone"
  PROVE  Searched'
<1> SUFFICES ASSUME NEW s \in Sizes, kid'[s] = "gone", s < best
             PROVE  code'[s] # "Model" /\ (code'[s] = "none" => s >= OverflowFrom)
  BY DEF Searched
<1>1. kid[s] = "gone" OBVIOUS
<1>2. code'[s] = code[s] BY <1>1, KidSteps DEF Living
<1> QED BY <1>1, <1>2 DEF Searched

LEMMA SearchedNext ==
  TypeOK /\ OwnInv /\ SearchInv /\ [Next]_vars /\ pc \in LoopPcs => Searched' \/ pc' = "killed"
<1> SUFFICES ASSUME TypeOK, OwnInv, SearchInv, [Next]_vars, pc \in LoopPcs PROVE Searched' \/ pc' = "killed" OBVIOUS
<1>0. Searched /\ CodeInv /\ BestInv BY DEF SearchInv
<1>1. CASE Poll
  <2>1. PICK s \in toPoll : toPoll' = toPoll \ {s} /\ (StillRuns(s) \/ Reaped(s))
    BY <1>1 DEF Poll
  <2>2. s \in Sizes /\ code' = code BY <1>1 DEF Poll, TypeOK
  <2>3. CASE StillRuns(s)
    BY <1>0, <2>2, <2>3 DEF StillRuns, Searched
  <2>4. CASE Reaped(s)
    <3>1. /\ \A t \in Sizes : kid'[t] = "gone" => kid[t] = "gone" \/ t = s
          /\ best' = IF code[s] = "Model" /\ s < best THEN s ELSE best
      BY <2>2, <2>4 DEF Reaped, BetterThanBest, TypeOK
    <3>2. code[s] # "none" BY <1>0, <2>2, <2>4 DEF Reaped, CodeInv
    <3>3. \A t \in Sizes : t \in Int BY ConstantsAssumption DEF Sizes
    <3>4. best \in Int BY ConstantsAssumption DEF TypeOK
    <3>5. SUFFICES ASSUME NEW t \in Sizes, kid'[t] = "gone", t < best'
                   PROVE  code[t] # "Model" /\ (code[t] = "none" => t >= OverflowFrom)
      BY <2>2 DEF Searched
    <3>6. t < best BY <2>2, <3>1, <3>3, <3>4, <3>5
    <3>7. CASE t = s BY <3>1, <3>2, <3>3, <3>4, <3>5, <3>6, <3>7
    <3>8. CASE t # s BY <1>0, <3>1, <3>5, <3>6, <3>8 DEF Searched
    <3> QED BY <3>7, <3>8
  <2> QED BY <2>1, <2>3, <2>4
<1>2. CASE Supersede
  <2>1. /\ code' = code /\ best' = best
        /\ \A s \in Sizes : kid'[s] = "gone" => kid[s] = "gone" \/ s \in Superseded
    BY <1>2 DEF Supersede, Kill
  <2>2. SUFFICES ASSUME NEW s \in Superseded, s \in Sizes, s < best
                 PROVE  code[s] # "Model" /\ s >= OverflowFrom
    BY <1>0, <2>1 DEF Searched
  <2>3. s \in Int /\ best \in Int /\ floor \in Int /\ s < MaxInt
    BY <2>2, ConstantsAssumption DEF TypeOK, Sizes
  <2>4. s >= floor BY <2>2, <2>3 DEF Superseded
  <2>5. s >= OverflowFrom BY <1>0, <2>3, <2>4, ConstantsAssumption DEF BestInv
  <2> QED BY <1>0, <2>2, <2>3, <2>5, ConstantsAssumption DEF CodeInv
<1>3. CASE ~Poll /\ ~Supersede
  <2>1. best' = best /\ (pc' = "killed" \/ \A s \in Sizes : kid'[s] = "gone" => kid[s] = "gone")
    BY <1>3 DEF Next, Parent, Arm, LoopTop, Fork, Track, Launched, Wait, Retain,
         Cleanup, StartPublishing, PublishStatus, Relay, ClaimStatus, SayStatus,
         ParentDeath, Alarm, ChildEnds, vars, loop, LoopPcs, TypeOK
  <2> QED BY <1>0, <2>1, SearchedKept
<1> QED BY <1>1, <1>2, <1>3

\* When nothing runs any more, every size below the retained one was searched.
LEMMA SmallestWhenIdle ==
  ASSUME TypeOK, CodeInv, LaunchInv, BestInv, Searched, HaveModel, newborn = Nobody,
         \A s \in Sizes : ~Living(s)
  PROVE  Smallest
<1>1. best \in Sizes /\ code[best] = "Model" /\ best < OverflowFrom BY DEF BestInv, CodeInv
<1>2. kid[best] # "unborn" BY <1>1 DEF CodeInv
<1>3. best # newborn BY <1>1, ConstantsAssumption DEF Sizes, Nobody
<1>4. ~(Start <= next /\ next <= best) BY <1>1, <1>2, <1>3 DEF LaunchInv
<1>5. SUFFICES ASSUME NEW s \in Before(best)
               PROVE  code[s] \in {"Overflow", "NoModel", "Limit"}
  BY DEF Smallest
<1>6. s \in Sizes /\ s < best /\ OnGrid(s) BY DEF Before, OnGrid
<1>7. \A t \in Sizes : t \in Int BY ConstantsAssumption DEF Sizes
<1>8. kid[s] # "unborn" BY <1>1, <1>4, <1>6, <1>7, ConstantsAssumption DEF LaunchInv, TypeOK
<1>9. kid[s] = "gone" BY <1>6, <1>8 DEF TypeOK, Lives, Living
<1>10. code[s] # "Model" /\ (code[s] = "none" => s >= OverflowFrom) BY <1>6, <1>9 DEF Searched
<1>11. ~(s >= OverflowFrom) BY <1>1, <1>6, <1>7, ConstantsAssumption
<1> QED BY <1>6, <1>10, <1>11 DEF TypeOK, ExitCodes

LEMMA SmallestKept ==
  ASSUME TypeOK, OwnInv, SearchInv, [Next]_vars, Smallest, best' = best
  PROVE  Smallest'
<1> SUFFICES ASSUME NEW s \in Before(best)
             PROVE  code'[s] \in {"Overflow", "NoModel", "Limit"}
  BY DEF Smallest, Before
<1>1. s \in Sizes /\ code[s] \in {"Overflow", "NoModel", "Limit"} BY DEF Smallest, Before
<1> QED BY <1>1, CodeSteps

LEMMA SearchNext == TypeOK /\ OwnInv /\ SearchInv /\ OutInv /\ [Next]_vars => SearchInv'
<1> SUFFICES ASSUME TypeOK, OwnInv, SearchInv, OutInv, [Next]_vars PROVE SearchInv' OBVIOUS
<1>0. CodeInv' /\ LaunchInv' /\ BestInv' BY CodeNext, LaunchNext, BestNext
<1>1. pc' \in LoopPcs => pc \in LoopPcs
  BY DEF Next, Parent, Arm, LoopTop, Fork, Track, Launched, Wait, Poll, StillRuns, Reaped, Retain,
         Supersede, Cleanup, StartPublishing, PublishStatus, Relay, ClaimStatus, SayStatus,
         ParentDeath, Alarm, ChildEnds, vars, LoopPcs
<1>2. pc' \in LoopPcs => Searched' BY <1>1, SearchedNext DEF LoopPcs
<1>3. ASSUME pc' = "cleanup", ~deadlineHit' PROVE kids' = {} /\ Searched'
  <2>1. CASE LoopTop \/ Launched \/ Wait \/ Supersede
    <3>1. pc \in LoopPcs /\ kids' = {}
      BY <1>3, <2>1 DEF LoopTop, Launched, Wait, Supersede, TimeUp, LoopPcs, loop
    <3> QED BY <1>3, <3>1, SearchedNext
  <2>2. CASE ~(LoopTop \/ Launched \/ Wait \/ Supersede)
    <3>1. /\ pc = "cleanup" /\ ~deadlineHit /\ UNCHANGED <<kids, best>>
          /\ \A s \in Sizes : kid'[s] = "gone" => kid[s] = "gone"
      BY <1>3, <2>2 DEF Next, Parent, Arm, Fork, Track, Poll, StillRuns, Reaped, Retain,
           Cleanup, StartPublishing, PublishStatus, Relay, ClaimStatus, SayStatus,
           ParentDeath, Alarm, ChildEnds, vars, loop, LoopPcs, TypeOK
    <3>2. kids = {} /\ Searched BY <3>1 DEF SearchInv
    <3> QED BY <3>1, <3>2, SearchedKept
  <2> QED BY <2>1, <2>2
<1>4. ASSUME pc' \in {"publish", "status", "relay"} \/ ret' = "Model", ~deadlineHit'
      PROVE  HaveModel' /\ Smallest'
  <2>1. CASE Cleanup
    <3>1. HaveModel /\ pc = "cleanup" /\ ~deadlineHit /\ UNCHANGED <<best, deadlineHit>>
      BY <1>4, <2>1 DEF Cleanup, OutInv
    <3>2. kids = {} /\ newborn = Nobody /\ \A s \in Sizes : ~Living(s)
      BY <3>1, ConstantsAssumption DEF SearchInv, OwnInv, Owned, Sizes, Nobody
    <3>3. Smallest BY <3>1, <3>2, SmallestWhenIdle DEF SearchInv
    <3> QED BY <3>1, <3>3, SmallestKept DEF HaveModel
  <2>2. CASE ~Cleanup
    <3>0. ~Poll
      <4>1. Poll => ret' = "none" /\ pc' \in {"poll", "retain"}
        BY DEF Poll, StillRuns, Reaped, OutInv, LoopPcs, answer
      <4> QED BY <1>4, <4>1
    <3>1. /\ pc \in {"publish", "status", "relay"} \/ ret = "Model"
          /\ ~deadlineHit /\ best' = best
      <4>1. CASE Arm \/ LoopTop \/ Fork \/ Track \/ Launched \/ Wait \/ Retain \/ Supersede
        <5>1. UNCHANGED <<best, ret, deadlineHit>>
          BY <4>1 DEF Arm, LoopTop, Fork, Track, Launched, Wait, Retain, Supersede, loop, answer
        <5>2. pc' \notin {"publish", "status", "relay"}
          BY <4>1 DEF Arm, LoopTop, Fork, Track, Launched, Wait, Retain, Supersede
        <5> QED BY <1>4, <5>1, <5>2
      <4>2. CASE StartPublishing \/ PublishStatus \/ Relay \/ ClaimStatus \/ SayStatus
        BY <1>4, <4>2 DEF StartPublishing, PublishStatus, Relay, ClaimStatus, SayStatus, loop
      <4>3. CASE ParentDeath \/ Alarm \/ (\E s \in Sizes : ChildEnds(s)) \/ UNCHANGED vars
        BY <1>4, <4>3 DEF ParentDeath, Alarm, ChildEnds, vars, loop, answer, TypeOK
      <4> QED BY <2>2, <3>0, <4>1, <4>2, <4>3 DEF Next, Parent
    <3>2. HaveModel /\ Smallest BY <3>1 DEF SearchInv
    <3> QED BY <3>1, <3>2, SmallestKept DEF HaveModel
  <2> QED BY <2>1, <2>2
<1> QED BY <1>0, <1>2, <1>3, <1>4 DEF SearchInv

-----------------------------------------------------------------------------
(* What is written.                                                        *)

LEMMA TwoTexts ==
  ASSUME NEW a, NEW b
  PROVE  Append(<<a>>, b) = <<a, b>> /\ <<a>> \o <<b>> = <<a, b>>
<1> DEFINE S == {a, b}
           r == Append(<<a>>, b)
           c == <<a>> \o <<b>>
<1>1. <<a>> \in Seq(S) /\ <<b>> \in Seq(S) OBVIOUS
<1>2. r \in Seq(S) /\ Len(r) = 2 /\ r[1] = a /\ r[2] = b BY <1>1
<1>3. c \in Seq(S) /\ Len(c) = 2 /\ c[1] = a /\ c[2] = b BY <1>1
<1> HIDE DEF r, c
<1>4. r \in [1 .. 2 -> S] /\ c \in [1 .. 2 -> S] BY <1>2, <1>3
<1>5. r = <<a, b>> /\ c = <<a, b>> BY <1>2, <1>3, <1>4
<1> QED BY <1>5 DEF r, c

\* The answer obeys the single-status guard at every place of the parent.
LEMMA OutNext == TypeOK /\ OwnInv /\ SearchInv /\ DeathInv /\ OutInv /\ [Next]_vars => DeathInv' /\ OutInv'
<1> SUFFICES ASSUME TypeOK, OwnInv, SearchInv, DeathInv, OutInv, [Next]_vars
             PROVE  DeathInv' /\ OutInv'
  OBVIOUS
<1> USE DEF DeathInv, OutInv, LoopPcs, loop, answer
<1>1. CASE Arm \/ LoopTop \/ Fork \/ Track \/ Launched \/ Wait \/ Supersede
  BY <1>1 DEF Arm, LoopTop, Fork, Track, Launched, Wait, Supersede, HaveModel, Rendered
<1>2. CASE Poll
  <2>1. PICK s \in toPoll : toPoll' = toPoll \ {s} /\ (StillRuns(s) \/ Reaped(s))
    BY <1>2 DEF Poll
  <2>2. s # MaxInt BY ConstantsAssumption DEF TypeOK, Sizes
  <2>3. CASE StillRuns(s)
    BY <1>2, <2>3 DEF Poll, StillRuns, HaveModel, Rendered
  <2>4. CASE Reaped(s)
    <3>1. best' # best => best' # MaxInt BY <2>2, <2>4 DEF Reaped
    <3>2. HaveModel \in BOOLEAN BY DEF HaveModel
    <3> QED BY <1>2, <2>4, <3>1, <3>2 DEF Poll, Reaped, HaveModel, Rendered
  <2> QED BY <2>1, <2>3, <2>4
<1>3. CASE Retain
  <2>1. HaveModel /\ HaveModel' BY <1>3 DEF Retain, HaveModel
  <2> QED BY <1>3, <2>1 DEF Retain, Rendered
<1>4. CASE Cleanup
  BY <1>4 DEF Cleanup, HaveModel, Rendered
<1>5. CASE StartPublishing
  BY <1>5 DEF StartPublishing, HaveModel, Rendered, TypeOK
<1>10. CASE PublishStatus
  <2>1. Append(<<>>, "Satisfiable") = <<"Satisfiable">> OBVIOUS
  <2> QED BY <1>10, <2>1 DEF PublishStatus, HaveModel, Rendered, TypeOK
<1>6. CASE Relay
  <2>1. Append(<<>>, "ModelText") = <<"ModelText">> OBVIOUS
  <2>2. Append(<<"Satisfiable">>, "ModelText") = <<"Satisfiable", "ModelText">> BY TwoTexts
  <2> QED BY <1>6, <2>1, <2>2 DEF Relay, HaveModel, Rendered
<1>7. CASE ClaimStatus \/ SayStatus
  BY <1>7 DEF ClaimStatus, SayStatus, HaveModel, Rendered, TypeOK
<1>8. CASE ParentDeath
  BY <1>8 DEF ParentDeath
<1>9. CASE Alarm \/ (\E s \in Sizes : ChildEnds(s)) \/ UNCHANGED vars
  BY <1>9 DEF Alarm, ChildEnds, vars, HaveModel, Rendered
<1> QED BY <1>1, <1>2, <1>3, <1>4, <1>5, <1>6, <1>7, <1>8, <1>9, <1>10 DEF Next, Parent

\* The status lines of everything the parent can have written.
LEMMA Statuses ==
  /\ Status(<<>>) = <<>> /\ Status(<<"ModelText">>) = <<>>
  /\ \A w : w # "ModelText" => Status(<<w>>) = <<w>>
  /\ Status(<<"Satisfiable", "ModelText">>) = <<"Satisfiable">>
  /\ Status(<<"ModelText", "Satisfiable">>) = <<"Satisfiable">>
<1>1. Status(<<>>) = <<>> BY DEF Status
<1>2. Status(<<"ModelText">>) = <<>> BY DEF Status
<1>3. \A w : w # "ModelText" => Status(<<w>>) = <<w>> BY DEF Status
<1>4. Status(<<"Satisfiable", "ModelText">>) = <<"Satisfiable">> BY DEF Status
<1>5. Status(<<"ModelText", "Satisfiable">>) = <<"Satisfiable">> BY DEF Status
<1> QED BY <1>1, <1>2, <1>3, <1>4, <1>5

\* What a signal leaves on standard output, wherever it strikes.
LEMMA LastOutput ==
  ASSUME IInv, ParentDeath
  PROVE  /\ HaveModel /\ pc \notin {"retain", "say"} => stdout' \in {<<"Satisfiable">>, Rendered(TRUE)}
         /\ \/ Status(stdout') = Status(stdout)
            \/ /\ Status(stdout) = <<>>
               /\ \/ Status(stdout') = <<"Timeout">>
                  \/ Status(stdout') = <<"Satisfiable">> /\ HaveModel
<1>1. stdout' = stdout \o LastWords BY DEF ParentDeath
<1>2. CASE pc \in {"retain", "arm"} \/ pc \in LoopPcs \cup {"cleanup", "publish"}
  <2>1. stdout = <<>> /\ LastWords = deathBuf
    BY <1>2 DEF IInv, OutInv, LoopPcs, LastWords
  <2>2. deathBuf \in {<<>>, <<"Timeout">>, <<"ModelText", "Satisfiable">>, <<"Satisfiable", "ModelText">>}
    BY <1>2 DEF IInv, DeathInv, LoopPcs, Rendered
  <2>3. stdout' = deathBuf BY <1>1, <2>1, <2>2
  <2>4. CASE pc = "retain"
    BY <2>1, <2>3, <2>4, Statuses DEF IInv, DeathInv, Rendered
  <2>5. CASE pc = "arm"
    BY <2>1, <2>3, <2>5, Statuses DEF IInv, DeathInv
  <2>6. CASE pc \notin {"retain", "arm"}
    <3>1. deathBuf = Rendered(HaveModel) BY <1>2, <2>6 DEF IInv, DeathInv, LoopPcs
    <3>2. CASE HaveModel
      <4>1. deathBuf = Rendered(TRUE) BY <3>1, <3>2 DEF Rendered
      <4>2. Status(deathBuf) = <<"Satisfiable">> BY <4>1, Statuses DEF Rendered
      <4> QED BY <2>1, <2>3, <3>2, <4>1, <4>2, Statuses
    <3>3. CASE ~HaveModel
      <4>1. deathBuf = <<"Timeout">> BY <3>1, <3>3 DEF Rendered
      <4> QED BY <2>1, <2>3, <3>3, <4>1, Statuses
    <3> QED BY <3>2, <3>3
  <2> QED BY <2>4, <2>5, <2>6
<1>3. CASE szsPrinted /\ pc \in {"relay", "exit", "say"}
  <2>1. stdout \in {<<>>, <<"ModelText">>, <<"Satisfiable">>, <<"Satisfiable", "ModelText">>}
    BY <1>3 DEF IInv, OutInv, Rendered
  <2>2. LastWords = <<>> BY <1>3 DEF LastWords
  <2>3. stdout' = stdout BY <1>1, <2>1, <2>2
  <2>4. HaveModel /\ pc # "say" => stdout \in {<<"Satisfiable">>, Rendered(TRUE)}
    BY <1>3 DEF IInv, OutInv, Rendered
  <2> QED BY <2>3, <2>4
<1>4. CASE ~szsPrinted /\ publishing /\ pc \in {"status", "relay", "exit"}
  <2>1. HaveModel /\ stdout \in {<<>>, <<"ModelText">>} /\ (stdout # <<>> => ladrOutput)
    BY <1>4 DEF IInv, OutInv, Rendered
  <2>2. deathBuf = Rendered(TRUE) BY <1>4, <2>1 DEF IInv, DeathInv, Rendered
  <2>3. LastWords = <<"Satisfiable">> BY <1>4, <2>2, Statuses DEF LastWords, Rendered
  <2>5. stdout' \in {<<"Satisfiable">>, Rendered(TRUE)}
    <3>1. CASE stdout = <<>> BY <1>1, <2>3, <3>1
    <3>2. CASE stdout = <<"ModelText">> /\ ladrOutput BY <1>1, <2>3, <3>2, TwoTexts DEF Rendered
    <3> QED BY <2>1, <3>1, <3>2
  <2>6. Status(stdout) = <<>> BY <2>1, Statuses
  <2>7. Status(stdout') = <<"Satisfiable">> BY <2>5, Statuses DEF Rendered
  <2> QED BY <2>1, <2>5, <2>6, <2>7
<1>5. CASE ~szsPrinted /\ ~publishing /\ pc = "exit"
  <2>1. stdout = <<>> /\ ~HaveModel BY <1>5 DEF IInv, OutInv
  <2>2. deathBuf = <<"Timeout">> BY <1>5, <2>1 DEF IInv, DeathInv, Rendered
  <2>3. stdout' = <<"Timeout">> BY <1>1, <1>5, <2>1, <2>2 DEF LastWords
  <2> QED BY <2>1, <2>3, Statuses
<1>6. pc = "status" => publishing /\ ~szsPrinted BY DEF IInv, OutInv
<1>7. pc = "relay" => publishing BY DEF IInv, OutInv
<1>8. pc = "say" => szsPrinted BY DEF IInv, OutInv
<1> QED BY <1>2, <1>3, <1>4, <1>5, <1>6, <1>7, <1>8
        DEF IInv, TypeOK, ParentDeath, LoopPcs, EndPcs

-----------------------------------------------------------------------------
(* The theorems.                                                           *)

LEMMA Invariant == Spec => []IInv
<1>1. Init => IInv
  <2> SUFFICES ASSUME Init PROVE IInv OBVIOUS
  <2>1. TypeOK BY TypeInit
  <2>2. OwnInv
    BY ConstantsAssumption DEF Init, OwnInv, Owned, Living, LoopPcs, EndPcs, Sizes, Nobody
  <2>3. CodeInv /\ BestInv /\ Searched
    BY DEF Init, CodeInv, BestInv, Searched, HaveModel
  <2>4. LaunchInv
    <3>1. Incr \in Nat \ {0} /\ next - Start = 0 BY ConstantsAssumption DEF Init
    <3>2. OnGrid(next) BY <3>1 DEF OnGrid
    <3> QED BY <3>2, ConstantsAssumption DEF Init, LaunchInv, Sizes
  <2>5. DeathInv /\ OutInv
    BY DEF Init, DeathInv, OutInv, LoopPcs, HaveModel
  <2> QED BY <2>1, <2>2, <2>3, <2>4, <2>5 DEF IInv, SearchInv, Init
<1>2. IInv /\ [Next]_vars => IInv'
  BY TypeNext, OwnNext, SearchNext, OutNext DEF IInv
<1> QED BY <1>1, <1>2, PTL DEF Spec

\* The variables of mace4_parallel always have their types: in particular only sizes
\* of the range are launched, although next wraps around.
THEOREM TypeCorrect == Spec => []TypeOK
<1>1. IInv => TypeOK BY DEF IInv
<1> QED BY <1>1, Invariant, PTL

\* No child survives the parent, but one that fork() has just made.
THEOREM LeavesNoOrphans == Spec => []NoOrphans
<1>1. IInv => NoOrphans BY DEF IInv, OwnInv, EndPcs, NoOrphans
<1> QED BY <1>1, Invariant, PTL

\* The model retained is the smallest reaped, and one published before the deadline
\* is the smallest of the sizes the scheduler goes through.
THEOREM PublishesSmallest == Spec => []SmallestModel
<1>1. IInv => SmallestModel
  <2> SUFFICES ASSUME IInv PROVE SmallestModel OBVIOUS
  <2>1. ASSUME pc \in {"top", "launch", "wait"}, NEW s \in Sizes, kid[s] = "gone", code[s] = "Model"
        PROVE  best <= s
    <3>1. ~(s < best) BY <2>1 DEF IInv, SearchInv, LoopPcs, Searched
    <3> QED BY <3>1, ConstantsAssumption DEF IInv, TypeOK, Sizes
  <2>2. ASSUME ret = "Model", ~deadlineHit
        PROVE  code[best] = "Model" /\ Smallest
    BY <2>2 DEF IInv, SearchInv, BestInv
  <2> QED BY <2>1, <2>2 DEF SmallestModel, Smallest
<1> QED BY <1>1, Invariant, PTL

\* A signal never loses a retained model, outside the two windows the property names.
THEOREM KeepsModel == Spec => KillKeepsModel
<1>1. IInv /\ [Next]_vars =>
        [ParentDeath /\ HaveModel /\ pc \notin {"retain", "say"}
           => stdout' \in {<<"Satisfiable">>, Rendered(TRUE)}]_vars
  BY LastOutput
<1> QED BY <1>1, Invariant, PTL DEF Spec, KillKeepsModel

\* The race: a search that has found a model stays one that has.
LEMMA RaceStep == IInv /\ [Next]_vars => [Race!Next]_Race!vars
<1> SUFFICES ASSUME IInv, [Next]_vars PROVE [Race!Next]_Race!vars OBVIOUS
<1> DEFINE found == \E s \in Sizes : code[s] = "Model"
           ended == pc \in {"exited", "killed"}
<1>0. TypeOK /\ OwnInv /\ SearchInv /\ OutInv BY DEF IInv
<1>1. found => found'
  <2> SUFFICES ASSUME NEW s \in Sizes, code[s] = "Model" PROVE code'[s] = "Model" OBVIOUS
  <2> QED BY <1>0, CodeSteps
<1>2. HaveModel => found BY <1>0 DEF SearchInv, BestInv
<1>3. ASSUME UNCHANGED stdout, ended' = ended PROVE [Race!Next]_Race!vars
  BY <1>1, <1>3 DEF Race!Next, Race!Succeed, Race!vars
<1>4. ASSUME UNCHANGED code, Status(stdout') = Status(stdout), ~ended, ended'
      PROVE  Race!Next
  BY <1>4 DEF Race!Next, Race!Finish
<1>5. ASSUME NEW w \in Outputs \ {"ModelText"}, UNCHANGED code, ~ended,
             Status(stdout) = <<>>, Status(stdout') = <<w>>,
             w = "Satisfiable" => HaveModel
      PROVE  Race!Next
  <2>1. Race!Answer(w) BY <1>2, <1>5 DEF Race!Answer
  <2> QED BY <2>1 DEF Race!Next
<1>6. CASE Parent /\ ~PublishStatus /\ ~Relay /\ ~ClaimStatus /\ ~SayStatus
  <2>1. UNCHANGED stdout
    BY <1>6 DEF Parent, Arm, LoopTop, Fork, Track, Launched, Wait, Poll, Retain, Supersede,
         Cleanup, StartPublishing, answer
  <2>2. pc \notin {"exited", "killed"} /\ pc' \notin {"exited", "killed"}
    BY <1>6 DEF Parent, Arm, LoopTop, Fork, Track, Launched, Wait, Poll, StillRuns, Reaped,
         Retain, Supersede, Cleanup, StartPublishing
  <2> QED BY <1>3, <2>1, <2>2
<1>7. CASE PublishStatus
  <2>1. stdout = <<>> /\ HaveModel /\ stdout' = <<"Satisfiable">>
    BY <1>0, <1>7 DEF PublishStatus, OutInv
  <2> QED BY <1>5, <1>7, <2>1, Statuses DEF PublishStatus, Outputs
<1>8. CASE Relay
  <2>1. stdout \in {<<>>, <<"Satisfiable">>} BY <1>0, <1>8 DEF Relay, OutInv
  <2>2. stdout' \in {<<"ModelText">>, <<"Satisfiable", "ModelText">>}
        /\ (stdout = <<>> <=> stdout' = <<"ModelText">>)
    <3>1. Append(<<>>, "ModelText") = <<"ModelText">> OBVIOUS
    <3>2. Append(<<"Satisfiable">>, "ModelText") = <<"Satisfiable", "ModelText">> BY TwoTexts
    <3>3. <<"ModelText">> # <<"Satisfiable", "ModelText">> OBVIOUS
    <3> QED BY <1>8, <2>1, <3>1, <3>2, <3>3 DEF Relay
  <2>3. Status(stdout') = Status(stdout) BY <2>1, <2>2, Statuses
  <2> QED BY <1>8, <2>3 DEF Relay, Race!vars
<1>9. CASE ClaimStatus
  <2>1. CASE szsPrinted BY <1>4, <1>9, <2>1 DEF ClaimStatus, loop
  <2>2. CASE ~szsPrinted BY <1>3, <1>9, <2>2 DEF ClaimStatus
  <2> QED BY <2>1, <2>2
<1>10. CASE SayStatus
  <2>1. CASE ret = "Model"
    <3>1. stdout = <<"ModelText">> /\ HaveModel BY <1>0, <1>10, <2>1 DEF SayStatus, OutInv
    <3>2. stdout' = <<"ModelText", "Satisfiable">>
      BY <1>10, <2>1, <3>1, TwoTexts DEF SayStatus, Szs
    <3> QED BY <1>5, <1>10, <3>1, <3>2, Statuses DEF SayStatus, Outputs
  <2>2. CASE ret # "Model"
    <3>1. stdout = <<>> BY <1>0, <1>10, <2>2 DEF SayStatus, OutInv
    <3>2. Szs(ret) \in {"Timeout", "GaveUp"} /\ stdout' = <<Szs(ret)>>
      BY <1>10, <2>2, <3>1 DEF SayStatus, Szs
    <3> QED BY <1>5, <1>10, <3>1, <3>2, Statuses DEF SayStatus, Outputs
  <2> QED BY <2>1, <2>2
<1>11. CASE ParentDeath
  <2>1. ~ended /\ ended' /\ UNCHANGED code BY <1>11 DEF ParentDeath
  <2>2. CASE Status(stdout') = Status(stdout) BY <1>4, <2>1, <2>2
  <2>3. CASE Status(stdout) = <<>> /\ Status(stdout') = <<"Timeout">>
    BY <1>5, <2>1, <2>3 DEF Outputs
  <2>4. CASE Status(stdout) = <<>> /\ Status(stdout') = <<"Satisfiable">> /\ HaveModel
    BY <1>5, <2>1, <2>4 DEF Outputs
  <2> QED BY <1>11, <2>2, <2>3, <2>4, LastOutput
<1>12. CASE Alarm \/ (\E s \in Sizes : ChildEnds(s)) \/ UNCHANGED vars
  BY <1>3, <1>12 DEF Alarm, ChildEnds, vars, answer
<1> QED BY <1>6, <1>7, <1>8, <1>9, <1>10, <1>11, <1>12 DEF Next

\* The scheduler implements the contract of a race: at most one status line, and
\* Satisfiable only if some size has a model.
THEOREM ImplementsRace == Spec => KeepsRaceContract
<1>1. Init => Race!Init
  BY Statuses DEF Init, Race!Init
<1>2. IInv /\ [Next]_vars => [Race!Next]_Race!vars BY RaceStep
<1> QED BY <1>1, <1>2, Invariant, PTL DEF Spec, KeepsRaceContract, Race!Spec
=============================================================================
