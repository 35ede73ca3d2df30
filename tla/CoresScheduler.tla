--------------------------- MODULE CoresScheduler ---------------------------
(***************************************************************************)
(* The -cores N strategy scheduler of prover9 (provers.src/prover9.c).     *)
(*                                                                         *)
(* The parent forks one child per strategy, at most NSlots at a time, and  *)
(* polls them.  A child suspends itself when its time slice is over; the   *)
(* parent then pools it and gives the slot to the next strategy (phase 1)  *)
(* or to a pooled child (phase 2).  A child leaves its captured output in  *)
(* a shared buffer; the parent relays the output of the child that found a *)
(* proof.  A signal may end the parent between any two of its steps: its   *)
(* handler kills the tracked children and writes the armed status line.    *)
(*                                                                         *)
(* A child is named by its position in order[]; every position is forked   *)
(* at most once.  Signals are blocked in the steps PublishWinner and Fork, *)
(* which are therefore single steps; everywhere else the code can be       *)
(* interrupted, and "pc" has a value for each place where it matters.      *)
(***************************************************************************)
EXTENDS Integers, Sequences, FiniteSets

CONSTANTS
  NSlots,        \* -cores N: children running at once
  Phase1Limit,   \* phase1_limit: strategies to try, never below N
  Codes,         \* exit codes a child may end with, a subset of ExitCodes
  MaxGiven,      \* bound on the given-clause count a child reports
  MegsBudget,    \* is a per-child memory budget enforced?
  MayKill,       \* may SIGTERM, SIGXCPU or SIGINT reach the parent?
  MayFailFork    \* may fork() fail?

ExitCodes == {"Proof", "SosEmpty", "MaxMegs", "MaxSeconds", "Fatal"}

ASSUME ConstantsAssumption ==
  /\ NSlots \in Nat \ {0}
  /\ Phase1Limit \in Nat
  /\ Phase1Limit >= NSlots
  /\ Codes \subseteq ExitCodes
  /\ MaxGiven \in Nat
  /\ MegsBudget \in BOOLEAN /\ MayKill \in BOOLEAN /\ MayFailFork \in BOOLEAN

Slots  == 0 .. NSlots - 1
Strats == 0 .. Phase1Limit - 1
Idle   == -1                    \* an empty slot, an empty buffer, no child
AutoDefault == 0                \* order[0] is auto_default, never suspended

VARIABLES
  \* the parent
  pc, i,         \* where the parent is, and its slot index
  next,          \* position in order[] of the next strategy to launch
  slots,         \* the child in each slot
  suspended,     \* the suspended pool
  newborn,       \* a child forked but not yet returned by spawn_child
  childPids,     \* Child_pids: what the signal handler would kill
  bestCode,      \* best exit code of a child that found no proof
  szsEmitted,    \* the single-status guard
  deathLine,     \* the status the handler would write, "none" if none
  result,        \* how the poll loop ended
  stdout,        \* the status lines written to the real stdout
  expired,       \* has the backstop deadline passed?
  \* the children and the memory they share with the parent
  kid, code,     \* life cycle and exit code of each child
  bufOf,         \* the output buffer a child was given at its fork
  output,        \* whose output each shared buffer holds
  given, prevGiven   \* the hints: given clauses now and at the last suspend

parent == <<pc, i, next, slots, suspended, newborn, childPids, bestCode,
            szsEmitted, deathLine, result, stdout>>
children == <<kid, code, bufOf, output, given, prevGiven>>
vars == <<parent, children, expired>>

-----------------------------------------------------------------------------
RunningOrEnded(s) == s # Idle /\ kid[s] \in {"forked", "running", "zombie"}   \* mutant
Running(s) == s # Idle /\ kid[s] \in {"forked", "running"}
Living(s)  == kid[s] \in {"forked", "running", "stopped", "zombie"}

SzsWords == {"Theorem", "GaveUp", "MemoryOut", "Timeout", "Error"}

\* The SZS word for an exit code; "none" stands for a buffer with no status line.
Szs(c) == CASE c = "Proof"      -> "Theorem"
            [] c = "SosEmpty"   -> "GaveUp"
            [] c = "MaxMegs"    -> "MemoryOut"
            [] c = "MaxSeconds" -> "Timeout"
            [] OTHER            -> "Error"

\* The status line the parent finds in shared buffer b.
BufferStatus(b) == IF output[b] = Idle THEN "none" ELSE Szs(code[output[b]])

\* pick_best_suspended: the first pooled child with the highest score.
Score(s) == IF given[s] = 0 THEN 0
            ELSE 1000 + 100 * (given[s] - prevGiven[s]) + given[s]
IsPick(p) == \A q \in 1 .. Len(suspended) :
                /\ Score(suspended[p]) >= Score(suspended[q])
                /\ q < p => Score(suspended[p]) > Score(suspended[q])

WithoutNobody(seq, p) == seq                       \* mutant
Without(seq, p) == [q \in 1 .. Len(seq) - 1 |-> IF q < p THEN seq[q] ELSE seq[q + 1]]

Init ==
  /\ pc = "fill" /\ i = 0 /\ next = 0
  /\ slots = [n \in Slots |-> Idle]
  /\ suspended = <<>> /\ newborn = Idle /\ childPids = {}
  /\ bestCode = "none" /\ szsEmitted = FALSE /\ deathLine = "Timeout"
  /\ result = "none" /\ stdout = <<>> /\ expired = FALSE
  /\ kid = [s \in Strats |-> "unborn"]
  /\ code = [s \in Strats |-> "none"]
  /\ bufOf = [s \in Strats |-> Idle]
  /\ output = [n \in Slots |-> Idle]
  /\ given = [s \in Strats |-> 0]
  /\ prevGiven = [s \in Strats |-> 0]

-----------------------------------------------------------------------------
(* The parent: filling a slot.                                             *)

Filling == pc \in {"fill", "trackFill"}

\* mutant: the last slot is never used
AfterSlotOffByOne ==
  IF i + 2 < NSlots
  THEN i' = i + 1 /\ pc' = IF Filling THEN "fill" ELSE "poll"
  ELSE i' = 0     /\ pc' = IF Filling THEN "head" ELSE "tail"

\* Where the parent goes once slot i has been dealt with.
AfterSlot ==
  IF i + 1 < NSlots
  THEN i' = i + 1 /\ pc' = IF Filling THEN "fill" ELSE "poll"
  ELSE i' = 0     /\ pc' = IF Filling THEN "head" ELSE "tail"

\* spawn_child for the strategy order[next]; fork() succeeds.
Fork ==
  /\ \/ pc = "fill"
     \/ pc = "refill" /\ next < Phase1Limit
  /\ newborn' = next
  /\ kid' = [kid EXCEPT ![next] = "forked"]
  /\ bufOf' = [bufOf EXCEPT ![next] = i]
  /\ pc' = IF pc = "fill" THEN "trackFill" ELSE "trackRefill"
  /\ UNCHANGED <<i, next, slots, suspended, childPids, bestCode, szsEmitted,
                 deathLine, result, stdout, expired, code, output, given,
                 prevGiven>>

\* track_child adds a pid to the table (which never fills up: there are 128
\* entries and at most 96 strategies).
TrackedNobody(s) == childPids                     \* mutant
Tracked(s) == childPids \cup {s}

\* track_child, and the slot takes the child.
Track ==
  /\ pc \in {"trackFill", "trackRefill"}
  /\ childPids' = Tracked(newborn)
  /\ slots' = [slots EXCEPT ![i] = newborn]
  /\ newborn' = Idle
  /\ next' = next + 1
  /\ AfterSlot
  /\ UNCHANGED <<suspended, bestCode, szsEmitted, deathLine, result, stdout,
                 expired, children>>

\* fork() fails: the strategy is skipped and the slot stays empty.
ForkFails ==
  /\ MayFailFork
  /\ \/ pc = "fill"
     \/ pc = "refill" /\ next < Phase1Limit
  /\ next' = next + 1
  /\ AfterSlot
  /\ UNCHANGED <<slots, suspended, newborn, childPids, bestCode, szsEmitted,
                 deathLine, result, stdout, expired, children>>

\* Phase 2: resume the best suspended child in the slot that came free.
Resume ==
  /\ pc = "refill" /\ next >= Phase1Limit /\ suspended # <<>>
  /\ \E p \in 1 .. Len(suspended) :
     /\ IsPick(p)
     /\ suspended' = Without(suspended, p)
     /\ slots' = [slots EXCEPT ![i] = suspended[p]]
     /\ kid' = [kid EXCEPT ![suspended[p]] = IF @ = "stopped" THEN "running" ELSE @]
  /\ AfterSlot
  /\ UNCHANGED <<next, newborn, childPids, bestCode, szsEmitted, deathLine,
                 result, stdout, expired, code, bufOf, output, given, prevGiven>>

LeaveSlot == AfterSlot /\ UNCHANGED <<next, slots, suspended, newborn, childPids,
  bestCode, szsEmitted, deathLine, result, stdout, expired, children>>

NothingToRun == pc = "refill" /\ next >= Phase1Limit /\ suspended = <<>> /\ LeaveSlot

-----------------------------------------------------------------------------
(* The parent: one round of the polling loop.                              *)

\* kill_child: SIGKILL and reap every child in S.
Kill(S) == /\ kid' = [s \in Strats |-> IF s \in S THEN "gone" ELSE kid[s]]
           /\ childPids' = childPids \ S

InSlots == {slots[n] : n \in Slots} \ {Idle}
InPool  == {suspended[p] : p \in 1 .. Len(suspended)}

PoolForgotten == InSlots                           \* mutant
EveryChild == InSlots \cup InPool

NoDeadline == FALSE                                \* mutant
DeadlinePassed == expired

\* Top of the loop; past the deadline every child is killed.
LoopTop ==
  /\ pc = "head"
  /\ IF DeadlinePassed
     THEN /\ Kill(EveryChild)
          /\ slots' = [n \in Slots |-> Idle]
          /\ suspended' = <<>>
          /\ result' = "deadline" /\ pc' = "claim"
     ELSE /\ pc' = "poll"
          /\ UNCHANGED <<kid, childPids, slots, suspended, result>>
  /\ UNCHANGED <<i, next, newborn, bestCode, szsEmitted, deathLine, stdout,
                 expired, code, bufOf, output, given, prevGiven>>

\* waitpid(WNOHANG) reports nothing, or the slot is empty.
PollNothing ==
  /\ pc = "poll"
  /\ slots[i] = Idle \/ Running(slots[i])
  /\ LeaveSlot

\* The child has stopped itself: pool it, or eject it if it is over budget.
PollStopped ==
  /\ pc = "poll" /\ slots[i] # Idle /\ kid[slots[i]] = "stopped"
  /\ \/ /\ suspended' = Append(suspended, slots[i])
        /\ prevGiven' = [prevGiven EXCEPT ![slots[i]] = given[slots[i]]]
        /\ UNCHANGED <<kid, childPids>>
     \/ /\ MegsBudget
        /\ Kill({slots[i]})
        /\ UNCHANGED <<suspended, prevGiven>>
  /\ slots' = [slots EXCEPT ![i] = Idle]
  /\ pc' = "refill"
  /\ UNCHANGED <<i, next, newborn, bestCode, szsEmitted, deathLine, result,
                 stdout, expired, code, bufOf, output, given>>

BetterCode(c) == IF \/ bestCode = "none"
                    \/ c = "SosEmpty"
                    \/ c = "MaxSeconds" /\ bestCode # "SosEmpty"
                 THEN c ELSE bestCode

\* The child has ended without a proof.
PollEnded ==
  /\ pc = "poll" /\ slots[i] # Idle
  /\ kid[slots[i]] = "zombie" /\ code[slots[i]] # "Proof"
  /\ bestCode' = BetterCode(code[slots[i]])
  /\ Kill({slots[i]})           \* reaped and untracked
  /\ slots' = [slots EXCEPT ![i] = Idle]
  /\ pc' = "refill"
  /\ UNCHANGED <<i, next, suspended, newborn, szsEmitted, deathLine, result,
                 stdout, expired, code, bufOf, output, given, prevGiven>>

\* The child has found a proof: kill all the others.  The winner itself is
\* reaped by waitpid and never untracked.
PollProof ==
  /\ pc = "poll" /\ slots[i] # Idle
  /\ kid[slots[i]] = "zombie" /\ code[slots[i]] = "Proof"
  /\ LET losers == EveryChild \ {slots[i]} IN
     /\ kid' = [s \in Strats |-> IF s \in losers \cup {slots[i]} THEN "gone" ELSE kid[s]]
     /\ childPids' = childPids \ losers
  /\ slots' = [n \in Slots |-> IF n = i THEN slots[n] ELSE Idle]
  /\ suspended' = <<>>
  /\ result' = "proof" /\ pc' = "disarm"
  /\ UNCHANGED <<i, next, newborn, bestCode, szsEmitted, deathLine, stdout,
                 expired, code, bufOf, output, given, prevGiven>>

NoChildPooled == next >= Phase1Limit /\ suspended = <<>>   \* mutant
NoWorkLeft == InSlots = {} /\ next >= Phase1Limit /\ suspended = <<>>

\* Bottom of the loop.
LoopEnd ==
  /\ pc = "tail"
  /\ IF NoWorkLeft
     THEN result' = "drained" /\ pc' = "claim"
     ELSE pc' = "head" /\ UNCHANGED result
  /\ UNCHANGED <<i, next, slots, suspended, newborn, childPids, bestCode,
                 szsEmitted, deathLine, stdout, expired, children>>

-----------------------------------------------------------------------------
(* The parent: the answer.                                                 *)

\* cores_arm_death_from_winner(&output_shm[i]): the armed line is emptied,
\* then (a second step) replaced by the status found in the buffer.
DisarmDeath ==
  /\ pc = "disarm"
  /\ IF BufferStatus(i) = "none"
     THEN pc' = "publish" /\ UNCHANGED deathLine
     ELSE pc' = "rearm" /\ deathLine' = "none"
  /\ UNCHANGED <<i, next, slots, suspended, newborn, childPids, bestCode,
                 szsEmitted, result, stdout, expired, children>>

RearmDeath ==
  /\ pc = "rearm"
  /\ deathLine' = BufferStatus(i)
  /\ pc' = "publish"
  /\ UNCHANGED <<i, next, slots, suspended, newborn, childPids, bestCode,
                 szsEmitted, result, stdout, expired, children>>

\* cores_publish_winner(&output_shm[i]) under its signal block; a buffer
\* without a status line is relayed verbatim.
PublishWinner ==
  /\ pc = "publish"
  /\ szsEmitted' = TRUE
  /\ stdout' = IF BufferStatus(i) = "none" \/ szsEmitted THEN stdout
               ELSE Append(stdout, BufferStatus(i))
  /\ pc' = "relay"
  /\ UNCHANGED <<i, next, slots, suspended, newborn, childPids, bestCode,
                 deathLine, result, expired, children>>

\* The rest of the buffer is written, and cores_search exits.
Relay ==
  /\ pc = "relay"
  /\ pc' = "exited"
  /\ UNCHANGED <<i, next, slots, suspended, newborn, childPids, bestCode,
                 szsEmitted, deathLine, result, stdout, expired, children>>

\* cores_emit_no_proof: the guard is claimed, then (a second step) the line
\* is written and the process exits.
ClaimNoProof ==
  /\ pc = "claim"
  /\ szsEmitted' = TRUE
  /\ bestCode' = IF bestCode = "none" THEN "MaxSeconds" ELSE bestCode
  /\ pc' = "emit"
  /\ UNCHANGED <<i, next, slots, suspended, newborn, childPids, deathLine,
                 result, stdout, expired, children>>

EmitNoProof ==
  /\ pc = "emit"
  /\ stdout' = Append(stdout, Szs(bestCode))
  /\ pc' = "exited"
  /\ UNCHANGED <<i, next, slots, suspended, newborn, childPids, bestCode,
                 szsEmitted, deathLine, result, expired, children>>

HandlerAlwaysSpeaks == deathLine # "none"              \* mutant
HandlerSpeaks == ~szsEmitted /\ deathLine # "none"

\* parent_death_handler.
ParentDeath ==
  /\ MayKill /\ pc \notin {"exited", "killed"}
  /\ kid' = [s \in Strats |-> IF s \in childPids THEN "gone" ELSE kid[s]]
  /\ IF HandlerSpeaks
     THEN szsEmitted' = TRUE /\ stdout' = Append(stdout, deathLine)
     ELSE UNCHANGED <<szsEmitted, stdout>>
  /\ pc' = "killed"
  /\ UNCHANGED <<i, next, slots, suspended, newborn, childPids, bestCode,
                 deathLine, result, expired, code, bufOf, output, given,
                 prevGiven>>

-----------------------------------------------------------------------------
(* The children.                                                           *)

\* The child drops the inherited handlers and empties its output buffer.
ChildStarts(s) ==
  /\ kid[s] = "forked"
  /\ kid' = [kid EXCEPT ![s] = "running"]
  /\ output' = [output EXCEPT ![bufOf[s]] = Idle]
  /\ UNCHANGED <<parent, expired, code, bufOf, given, prevGiven>>

\* shm_progress_update.
ChildProgress(s) ==
  /\ kid[s] = "running" /\ given[s] < MaxGiven
  /\ given' = [given EXCEPT ![s] = @ + 1]
  /\ UNCHANGED <<parent, expired, kid, code, bufOf, output, prevGiven>>

\* suspend_handler: SIGALRM at the end of the slice raises SIGSTOP.
ChildSuspends(s) ==
  /\ kid[s] = "running" /\ s # AutoDefault
  /\ kid' = [kid EXCEPT ![s] = "stopped"]
  /\ UNCHANGED <<parent, expired, code, bufOf, output, given, prevGiven>>

\* child_exit: the output is copied to the child's buffer before _exit.
ChildExits(s) ==
  /\ kid[s] = "running"
  /\ \E c \in Codes : code' = [code EXCEPT ![s] = c]
  /\ kid' = [kid EXCEPT ![s] = "zombie"]
  /\ output' = [output EXCEPT ![bufOf[s]] = s]
  /\ UNCHANGED <<parent, expired, bufOf, given, prevGiven>>

\* The child dies without child_exit: its buffer is left as it was.
ChildCrashes(s) ==
  /\ "Fatal" \in Codes
  /\ kid[s] \in {"forked", "running", "stopped"}
  /\ code' = [code EXCEPT ![s] = "Fatal"]
  /\ kid' = [kid EXCEPT ![s] = "zombie"]
  /\ UNCHANGED <<parent, expired, bufOf, output, given, prevGiven>>

\* The wall clock passes total_deadline.
Expire ==
  /\ ~expired
  /\ expired' = TRUE
  /\ UNCHANGED <<parent, children>>

-----------------------------------------------------------------------------
FillSlot == Fork \/ Track \/ ForkFails \/ Resume \/ NothingToRun
PollSlot == PollNothing \/ PollStopped \/ PollEnded \/ PollProof
Answer   == DisarmDeath \/ RearmDeath \/ PublishWinner \/ Relay
              \/ ClaimNoProof \/ EmitNoProof
Parent   == FillSlot \/ LoopTop \/ PollSlot \/ LoopEnd \/ Answer

Child(s) == ChildStarts(s) \/ ChildProgress(s) \/ ChildSuspends(s)
              \/ ChildExits(s) \/ ChildCrashes(s)

Next == Parent \/ ParentDeath \/ Expire \/ \E s \in Strats : Child(s)

Spec == Init /\ [][Next]_vars

(***************************************************************************)
(* The parent process is scheduled.  The wall clock advances, and a child  *)
(* that runs is stopped by its timer or ends -- but auto_default, which    *)
(* has no timer, may run for ever.                                         *)
(***************************************************************************)
ParentFairness == WF_vars(Parent)
ClockFairness  == WF_vars(Expire)
SliceFairness  == \A s \in Strats \ {AutoDefault} :
                     /\ WF_vars(ChildStarts(s))
                     /\ WF_vars(ChildSuspends(s) \/ ChildExits(s) \/ ChildCrashes(s))

FairSpec  == Spec /\ ParentFairness /\ ClockFairness
SliceSpec == Spec /\ ParentFairness /\ SliceFairness

-----------------------------------------------------------------------------
(* Invariants.                                                             *)

PcValues == {"fill", "trackFill", "head", "poll", "refill", "trackRefill", "tail",
             "disarm", "rearm", "publish", "relay", "claim", "emit", "exited", "killed"}

\* The variables of cores_poll_loop and of the children have their types.
TypeOK ==
  /\ pc \in PcValues /\ i \in Slots /\ next \in 0 .. Phase1Limit
  /\ slots \in [Slots -> Strats \cup {Idle}]
  /\ suspended \in Seq(Strats)
  /\ newborn \in Strats \cup {Idle} /\ childPids \subseteq Strats
  /\ bestCode \in ExitCodes \cup {"none"} /\ szsEmitted \in BOOLEAN
  /\ deathLine \in SzsWords \cup {"none"} /\ stdout \in Seq(SzsWords)
  /\ result \in {"none", "proof", "drained", "deadline"} /\ expired \in BOOLEAN
  /\ kid \in [Strats -> {"unborn", "forked", "running", "stopped", "zombie", "gone"}]
  /\ code \in [Strats -> ExitCodes \cup {"none"}]
  /\ bufOf \in [Strats -> Slots \cup {Idle}]
  /\ output \in [Slots -> Strats \cup {Idle}]
  /\ given \in [Strats -> 0 .. MaxGiven] /\ prevGiven \in [Strats -> 0 .. MaxGiven]

\* While the loop runs, every child that has not been reaped is in exactly
\* one place -- one slot, one entry of the pool, or just forked -- and
\* Child_pids holds exactly the children the loop has placed.
OneOwner ==
  pc # "killed" /\ result = "none" =>
    /\ \A m, n \in Slots : slots[m] = slots[n] /\ slots[m] # Idle => m = n
    /\ \A p, q \in 1 .. Len(suspended) : suspended[p] = suspended[q] => p = q
    /\ InSlots \cap InPool = {}
    /\ newborn \notin InSlots \cup InPool
    /\ \A s \in Strats : Living(s) <=> s \in InSlots \cup InPool \cup {newborn}
    /\ childPids = InSlots \cup InPool

\* Once the loop has ended, for whatever reason, it leaves no child behind.
NoOrphans == result # "none" => \A s \in Strats : ~Living(s)

\* A signal that ends the parent kills every child but the one that fork()
\* has just made and track_child has not recorded.
DeathSparesOnlyNewborn == pc = "killed" => \A s \in Strats : Living(s) => s = newborn

\* However the parent ends, by itself or by a signal at any point, no child that it
\* has recorded survives it.
NoSurvivors == NoOrphans /\ DeathSparesOnlyNewborn

\* No interleaving of the normal answer and the signal handler writes a
\* second status line ("single-status guard").
AtMostOneStatus == Len(stdout) <= 1

\* When the loop stops because there is no work left, every strategy has been
\* run to its end (or ejected, or could not be forked), none had a proof, and in
\* whatever order they ended one exhausted search makes the answer GaveUp.
DrainedIsComplete ==
  result = "drained" =>
    /\ (\E s \in Strats : code[s] = "SosEmpty") => bestCode = "SosEmpty"
    /\ \A s \in Strats : /\ code[s] # "Proof"
                         /\ \/ code[s] # "none"
                            \/ kid[s] = "unborn" /\ MayFailFork
                            \/ kid[s] = "gone" /\ MegsBudget

\* The output of the parent obeys the contract of a race.
Race == INSTANCE RaceContract WITH
          Words <- SzsWords, Successes <- {"Theorem"},
          succeeded <- \E s \in Strats : code[s] = "Proof",
          answers <- stdout, over <- pc \in {"exited", "killed"}
KeepsRaceContract == Race!Spec

(* Liveness.                                                               *)

\* The parent ends: the deadline bounds every run.
Termination == <>(pc \in {"exited", "killed"})

\* A proof is not left unread: a child that ended with one makes the parent
\* answer, even if no deadline ever comes.
ProofIsReaped ==
  \A s \in Strats : kid[s] = "zombie" /\ code[s] = "Proof" ~> pc \in {"exited", "killed"}

\* Breadth: every strategy is launched although auto_default may keep its
\* slot forever.
EveryStrategyTried == <>(next = Phase1Limit \/ result # "none" \/ pc = "killed")

-----------------------------------------------------------------------------
(* What comments of the source say, and the code does not do.              *)

\* "On proof, copies winner output to saved_stdout."
WinnerIsPublished == pc = "relay" => stdout = <<"Theorem">>
=============================================================================
