---------------------------- MODULE SizeScheduler ----------------------------
(***************************************************************************)
(* The -cores N scheduler of mace4 over domain sizes                       *)
(* (mace4.src/sizesched.c), with the exit path of mace4.src/msearch.c.     *)
(*                                                                         *)
(* The parent forks one child per domain size, smallest sizes first, and   *)
(* retains the smallest model found.  It stops when nothing smaller can    *)
(* still run or when its wall clock (SIGALRM, SIGINT) has run out, and     *)
(* then publishes the retained model.  SIGTERM and SIGXCPU may end it at   *)
(* any moment: the handler kills the children and writes output prepared   *)
(* in advance.  The run is in TPTP mode.  A child is named by its size.    *)
(*                                                                         *)
(* "Satisfiable" stands for CounterSatisfiable as well.  Sections with the *)
(* signals blocked are single steps.                                       *)
(***************************************************************************)
EXTENDS Integers, Sequences, FiniteSets

CONSTANTS
  NCores,        \* ncores
  Start, End, Incr,  \* start_size, end_size (-1: unbounded) and increment
  MaxInt,        \* INT_MAX
  Codes,         \* how a child may end, a subset of ExitCodes
  OverflowFrom,  \* the first size whose cells overflow an int
  MayKill,       \* may SIGTERM or SIGXCPU reach the parent?
  MayAlarm,      \* may SIGALRM or SIGINT reach the parent?
  MayFailFork    \* may pipe() or fork() fail?

\* Model: one of the four codes of a model; Overflow: MACE_CELLS_OVERFLOW;
\* NoModel: the size is exhausted; Limit: a limit or a crash ended the child.
ExitCodes == {"Model", "Overflow", "NoModel", "Limit"}

ASSUME ConstantsAssumption ==
  /\ NCores \in Nat \ {0}
  /\ MaxInt \in Nat
  /\ Start \in 2 .. MaxInt /\ Incr \in 1 .. MaxInt /\ End \in -1 .. MaxInt
  /\ Codes \subseteq ExitCodes /\ OverflowFrom \in Nat
  /\ MayKill \in BOOLEAN /\ MayAlarm \in BOOLEAN
  /\ MayFailFork \in BOOLEAN

Sizes == Start .. MaxInt - 1
Nobody == -1

VARIABLES
  pc,          \* where the parent is
  kids,        \* kids[]: the children the loop knows, by their size
  toPoll,      \* those the current round has still to look at
  newborn,     \* a child forked but not yet in Sched_kid_pids
  next,        \* the next size to launch
  best,        \* best_size; MaxInt while no model is retained
  floor,       \* overflow_floor: sizes from here on are unlaunchable
  decided,     \* decided_to_stop
  deadlineHit, \* Deadline_hit
  ladrOutput,  \* -ladr_out: model first, status last
  tracked,     \* Sched_kid_pids
  deathBuf,    \* Death_buf: the output prepared for the handler
  publishing,  \* Publish_started
  szsPrinted,  \* Mace4_szs_printed
  ret,         \* return_code, "none" before
  stdout,      \* status words and model texts written, in order
  kid, code    \* life cycle and exit code of each child

answer == <<publishing, szsPrinted, ret, stdout>>
loop   == <<kids, toPoll, newborn, next, best, floor, decided, tracked, deathBuf>>
vars   == <<pc, loop, answer, deadlineHit, ladrOutput, kid, code>>

-----------------------------------------------------------------------------
HaveModel == best # MaxInt
Living(s) == kid[s] \in {"running", "zombie"}

\* What arm_death_output prepares: the status before the model text, or
\* after it for -ladr_out.
Rendered(model) ==
  CASE ~model             -> <<"Timeout">>
    [] model /\ ladrOutput  -> <<"ModelText", "Satisfiable">>
    [] OTHER              -> <<"Satisfiable", "ModelText">>

\* The prepared status line alone (Death_line): the text without the model, which
\* an output holds at most once.
Status(text) ==
  LET ModelBy(n) == \E p \in 1 .. n : text[p] = "ModelText"
  IN  IF ~ModelBy(Len(text)) THEN text
      ELSE [n \in 1 .. Len(text) - 1 |-> IF ModelBy(n) THEN text[n + 1] ELSE text[n]]

\* mace4_szs_status for the codes mace4_parallel returns.
Szs(r) == CASE r = "Model"   -> "Satisfiable"
            [] r = "Seconds" -> "Timeout"
            [] OTHER         -> "GaveUp"

\* int addition.
Plus(a, b) == IF a + b > MaxInt THEN a + b - 2 * (MaxInt + 1) ELSE a + b

Init ==
  /\ pc = "arm" /\ kids = {} /\ toPoll = {} /\ newborn = Nobody
  /\ next = Start /\ best = MaxInt /\ floor = MaxInt
  /\ decided = FALSE /\ deadlineHit = FALSE /\ ladrOutput \in BOOLEAN /\ tracked = {}
  /\ deathBuf = <<>> /\ publishing = FALSE /\ szsPrinted = FALSE
  /\ ret = "none" /\ stdout = <<>>
  /\ kid = [s \in Sizes |-> "unborn"]
  /\ code = [s \in Sizes |-> "none"]

-----------------------------------------------------------------------------
(* The parent: launching.                                                  *)

\* The handlers are installed; the Timeout line is prepared only now.
Arm ==
  /\ pc = "arm"
  /\ deathBuf' = Rendered(FALSE)
  /\ pc' = "top"
  /\ UNCHANGED <<kids, toPoll, newborn, next, best, floor, decided, tracked,
                 answer, deadlineHit, ladrOutput, kid, code>>

TimeForgotten == FALSE                              \* mutant
TimeUp == deadlineHit

\* while (!Deadline_hit)
LoopTop ==
  /\ pc = "top"
  /\ pc' = IF TimeUp THEN "cleanup" ELSE "launch"
  /\ UNCHANGED <<loop, answer, deadlineHit, ladrOutput, kid, code>>

InRange(s) == s >= Start /\ (End < 0 \/ s <= End)

Useful(s) == InRange(s) /\ s < best /\ s < floor

CanLaunch == Cardinality(kids) < NCores /\ Useful(next)

\* fork_size_child; the signals are blocked until the parent is out of fork().
Fork ==
  /\ pc = "launch" /\ CanLaunch
  /\ newborn' = next
  /\ kid' = [kid EXCEPT ![next] = "running"]
  /\ pc' = "track"
  /\ UNCHANGED <<kids, toPoll, next, best, floor, decided, tracked, deathBuf,
                 answer, deadlineHit, ladrOutput, code>>

\* sched_track_kid (its table has as many entries as kids[]), and kids[]
\* takes the child.
Track ==
  /\ pc = "track"
  /\ tracked' = tracked \cup {newborn}
  /\ kids' = kids \cup {newborn}
  /\ newborn' = Nobody
  /\ next' = Plus(next, Incr)
  /\ pc' = "launch"
  /\ UNCHANGED <<toPoll, best, floor, decided, deathBuf, answer, deadlineHit, ladrOutput,
                 kid, code>>

\* The launching loop is left, because nothing can be launched or because
\* fork_size_child failed; without any child the search is over.
Launched ==
  /\ pc = "launch" /\ (CanLaunch => MayFailFork)
  /\ IF kids = {}
     THEN decided' = ~HaveModel /\ pc' = "cleanup"
     ELSE pc' = "wait" /\ UNCHANGED decided
  /\ UNCHANGED <<kids, toPoll, newborn, next, best, floor, tracked, deathBuf,
                 answer, deadlineHit, ladrOutput, kid, code>>

-----------------------------------------------------------------------------
(* The parent: waiting for the children.                                   *)

\* select() returns, on activity or after 0.2 s.
Wait ==
  /\ pc = "wait"
  /\ IF TimeUp
     THEN pc' = "cleanup" /\ UNCHANGED toPoll
     ELSE pc' = "poll" /\ toPoll' = kids
  /\ UNCHANGED <<kids, newborn, next, best, floor, decided, tracked, deathBuf,
                 answer, deadlineHit, ladrOutput, kid, code>>

\* kids[] is in launching order, so the smallest size comes first.
Polled(s) == s \in toPoll /\ \A t \in toPoll : s <= t

StillRuns(s) ==
  /\ kid[s] = "running"
  /\ UNCHANGED <<pc, kids, best, floor, tracked, kid>>

LatestIsBest(s) == TRUE                             \* mutant
BetterThanBest(s) == s < best

DroppedNot(K, s) == K                               \* mutant
Dropped(K, s) == K \ {s}

\* The child has ended: it is reaped and untracked, and its exit code is
\* folded into best_size or overflow_floor.
Reaped(s) ==
  /\ kid[s] = "zombie"
  /\ kid' = [kid EXCEPT ![s] = "gone"]
  /\ tracked' = tracked \ {s}
  /\ kids' = Dropped(kids, s)
  /\ best' = IF code[s] = "Model" /\ BetterThanBest(s) THEN s ELSE best
  /\ floor' = IF code[s] = "Overflow" /\ s < floor THEN s ELSE floor
  /\ pc' = IF best' # best THEN "retain" ELSE "poll"

Poll ==
  /\ pc = "poll"
  /\ \E s \in toPoll :
     /\ Polled(s)
     /\ toPoll' = toPoll \ {s}
     /\ StillRuns(s) \/ Reaped(s)
  /\ UNCHANGED <<newborn, next, decided, deathBuf, answer, deadlineHit, ladrOutput, code>>

\* arm_death_output(best_text), the signals blocked.
Retain ==
  /\ pc = "retain"
  /\ deathBuf' = Rendered(TRUE)
  /\ pc' = "poll"
  /\ UNCHANGED <<kids, toPoll, newborn, next, best, floor, decided, tracked,
                 answer, deadlineHit, ladrOutput, kid, code>>

\* kill_kid: SIGKILL, reap and untrack every child in S.
Kill(S) ==
  /\ kid' = [s \in Sizes |-> IF s \in S THEN "gone" ELSE kid[s]]
  /\ tracked' = tracked \ S
  /\ kids' = kids \ S

Superseded == {s \in kids : s >= best \/ s >= floor}

\* End of the round: children that cannot help any more are killed, and the
\* loop ends when the retained model cannot be improved.
Supersede ==
  /\ pc = "poll" /\ toPoll = {}
  /\ Kill(Superseded)
  /\ pc' = IF HaveModel /\ kids' = {} /\ (next >= best \/ ~InRange(next))
           THEN "cleanup" ELSE "top"
  /\ UNCHANGED <<toPoll, newborn, next, best, floor, decided, deathBuf,
                 answer, deadlineHit, ladrOutput, code>>

-----------------------------------------------------------------------------
(* The parent: the answer.                                                 *)

LeftoversForgotten == {}                             \* mutant
Leftovers == kids

\* After the loop: everything still running is killed.
Cleanup ==
  /\ pc = "cleanup"
  /\ Kill(Leftovers)
  /\ IF HaveModel THEN pc' = "publish" /\ UNCHANGED ret
     ELSE /\ pc' = "exit"
          /\ ret' = IF deadlineHit /\ ~decided THEN "Seconds" ELSE "Exhausted"
  /\ UNCHANGED <<toPoll, newborn, next, best, floor, decided, deathBuf,
                 publishing, szsPrinted, stdout, deadlineHit, ladrOutput, code>>

\* Publish_started = 1.
StartPublishing ==
  /\ pc = "publish"
  /\ publishing' = TRUE
  /\ pc' = IF ladrOutput THEN "relay" ELSE "status"
  /\ UNCHANGED <<loop, szsPrinted, ret, stdout, deadlineHit, ladrOutput, kid, code>>

\* The status line comes first, printed with the signals blocked.
PublishStatus ==
  /\ pc = "status"
  /\ szsPrinted' = TRUE
  /\ stdout' = IF szsPrinted THEN stdout ELSE Append(stdout, "Satisfiable")
  /\ pc' = "relay"
  /\ UNCHANGED <<loop, publishing, ret, deadlineHit, ladrOutput, kid, code>>

\* The captured model is relayed and mace4_parallel returns.
Relay ==
  /\ pc = "relay"
  /\ stdout' = Append(stdout, "ModelText")
  /\ ret' = "Model"
  /\ pc' = "exit"
  /\ UNCHANGED <<loop, publishing, szsPrinted, deadlineHit, ladrOutput, kid, code>>

\* mace4_exit: the guard is set, then (a second step) the line is printed.
ClaimStatus ==
  /\ pc = "exit"
  /\ szsPrinted' = TRUE
  /\ pc' = IF szsPrinted THEN "exited" ELSE "say"
  /\ UNCHANGED <<loop, publishing, ret, stdout, deadlineHit, ladrOutput, kid, code>>

SayStatus ==
  /\ pc = "say"
  /\ stdout' = Append(stdout, Szs(ret))
  /\ pc' = "exited"
  /\ UNCHANGED <<loop, publishing, szsPrinted, ret, deadlineHit, ladrOutput, kid, code>>

-----------------------------------------------------------------------------
(* Signals, and the children.                                              *)

LastWordsTwice == deathBuf                                              \* mutant
LastWordsSkipped == IF szsPrinted \/ publishing THEN <<>> ELSE deathBuf  \* mutant

\* What the handler of SIGTERM and SIGXCPU writes: nothing once the status
\* is printed, the status line alone once the publication has started.
LastWords == CASE szsPrinted               -> <<>>
               [] ~szsPrinted /\ publishing -> Status(deathBuf)
               [] OTHER                    -> deathBuf

\* sizesched_death_handler.
ParentDeath ==
  /\ MayKill /\ pc \notin {"exited", "killed"}
  /\ kid' = [s \in Sizes |-> IF s \in tracked THEN "gone" ELSE kid[s]]
  /\ stdout' = stdout \o LastWords
  /\ pc' = "killed"
  /\ UNCHANGED <<loop, publishing, szsPrinted, ret, deadlineHit, ladrOutput, code>>

\* sizesched_sig_handler: SIGALRM or SIGINT.
Alarm ==
  /\ MayAlarm /\ ~deadlineHit /\ pc \notin {"exited", "killed"}
  /\ deadlineHit' = TRUE
  /\ UNCHANGED <<pc, loop, answer, ladrOutput, kid, code>>

\* How a search of size s can end: init_for_domain_size refuses exactly the
\* sizes from some size on, before any search.
Outcomes(s) == Codes \cap (IF s >= OverflowFrom THEN {"Overflow", "Limit"}
                                                ELSE ExitCodes \ {"Overflow"})

\* mace4_one_size_exit_code in the child of size s.
ChildEnds(s) ==
  /\ kid[s] = "running"
  /\ \E c \in Outcomes(s) : code' = [code EXCEPT ![s] = c]
  /\ kid' = [kid EXCEPT ![s] = "zombie"]
  /\ UNCHANGED <<pc, loop, answer, deadlineHit, ladrOutput>>

-----------------------------------------------------------------------------
Parent == \/ Arm \/ LoopTop \/ Fork \/ Track \/ Launched
          \/ Wait \/ Poll \/ Retain \/ Supersede
          \/ Cleanup \/ StartPublishing \/ PublishStatus \/ Relay
          \/ ClaimStatus \/ SayStatus

Next == Parent \/ ParentDeath \/ Alarm \/ \E s \in Sizes : ChildEnds(s)

Spec == Init /\ [][Next]_vars

\* The parent is scheduled, and the timer fires or every child ends.
FairSpec == Spec /\ WF_vars(Parent) /\ (WF_vars(Alarm) \/ \A s \in Sizes : WF_vars(ChildEnds(s)))

-----------------------------------------------------------------------------
(* Invariants.                                                             *)

\* What the parent may write.
Outputs == {"Timeout", "GaveUp", "Satisfiable", "ModelText"}

\* Nothing survives the parent, except after a signal between fork() and
\* sched_track_kid the child that fork() has just made.
NoOrphans ==
  /\ pc \in {"publish", "exit", "say", "exited"} => \A s \in Sizes : ~Living(s)
  /\ pc = "killed" => \A s \in Sizes : Living(s) => s = newborn

\* The sizes the scheduler goes through, in order, before it reaches s.
Before(s) == {t \in Sizes : t < s /\ (t - Start) % Incr = 0}

\* Even when the clock cuts the race short, the model retained is the smallest
\* that was ever reaped.  A model published without the deadline is the smallest
\* there is: every smaller size of the range was searched until its child ended
\* by itself, without a model ("no smaller size remains to run").
SmallestModel ==
  /\ pc \in {"top", "launch", "wait"} =>
       \A s \in Sizes : kid[s] = "gone" /\ code[s] = "Model" => best <= s
  /\ ret = "Model" /\ ~deadlineHit =>
       /\ code[best] = "Model"
       /\ \A s \in Before(best) : code[s] \in {"Overflow", "NoModel", "Limit"}

\* A kill never loses a retained model: the answer still says Satisfiable, once, and
\* before the text of the model, so that truncated output shows it (after the text
\* with -ladr_out).
\* The two windows left out are the one before arm_death_output has run
\* and the one inside mace4_exit.
KillKeepsModel ==
  [][ParentDeath /\ HaveModel /\ pc \notin {"retain", "say"}
       => stdout' \in {<<"Satisfiable">>, Rendered(TRUE)}]_vars

\* The output of the parent obeys the contract of a race.
Race == INSTANCE RaceContract WITH
          Words <- Outputs \ {"ModelText"}, Successes <- {"Satisfiable"},
          succeeded <- \E s \in Sizes : code[s] = "Model",
          answers <- Status(stdout), over <- pc \in {"exited", "killed"}
KeepsRaceContract == Race!Spec

\* The parent ends.
Termination == <>(pc \in {"exited", "killed"})

=============================================================================
