----------------------------- MODULE ModelSearch -----------------------------
(***************************************************************************)
(* mace4 without -cores: the loop over domain sizes (mace4), the search of *)
(* one size (mace4n, search_iterative), and checkpoint and resume of that  *)
(* search (write_mace4_checkpoint, mace4n_resume,                          *)
(* search_iterative_resume), all in mace4.src/msearch.c.                   *)
(*                                                                         *)
(* The process is sequential: one action is one turn of a loop.  What may  *)
(* happen at any moment is a request for a checkpoint (SIGUSR2), a clock   *)
(* or memory limit found exceeded, and a kill.  A killed or checkpointed   *)
(* process can be resumed from the last checkpoint written.                *)
(***************************************************************************)
EXTENDS Propagation

VARIABLES
  prob,       \* the problem: its number
  k,          \* which of its domain sizes is being searched
  pc,         \* "next_size", "top", "checked", "assigned", "selected", "sized", "exited", "done"
  m,          \* the memory (Propagation)
  base,       \* the memory in which the search of this size started
  frames,     \* Search_stack, depths 0 .. Current_depth
  cell,       \* what select_cell returned
  rc,         \* the return code of the search
  resumed,    \* "no"; or the process is a resumed one: inside a "trail", at the
              \* "next" size, or at the last size "again"
  models,     \* the models reported: size and values of the cells
  request,    \* Mace4_checkpoint_requested_flag
  saved,      \* the checkpoint: size, trail, number of models; <<>> when none
  truth,      \* the models of this size (not in the code: what to compare with)
  interrupted \* a request or a kill has been spent (bound)

vars == <<prob, k, pc, m, base, frames, cell, rc, resumed, models, request, saved, truth,
          interrupted>>
sizeVars == <<base, truth>>

P == Problems[prob]
N == P.sizes[k]
Limits == {"MaxTotalSeconds", "MaxDomainSeconds", "MaxMegs"}
Codes == {"GoModels", "GoNoModels", "MaxModels", "Checkpoint", "OutOfRange"} \cup Limits

NoMemory == <<>>
NoFrames == <<>>

Settled(s) == [s EXCEPT !.log = <<>>, !.jobs = <<>>, !.ok = TRUE, !.propagations = 0]

Init ==
  /\ prob \in DOMAIN Problems
  /\ k = 1 /\ pc = "next_size" /\ m = NoMemory /\ base = NoMemory
  /\ frames = NoFrames /\ cell = Nil /\ rc = "GoNoModels" /\ truth = {}
  /\ resumed = "no" /\ models = <<>> /\ request = FALSE /\ saved = <<>> /\ interrupted = FALSE

(***************************************************************************)
(* Pieces of search_iterative.                                             *)
(***************************************************************************)
\* check_time_memory: "GoNoModels" or the limit that was exceeded.
CheckTimeMemory == IF P.opt.interrupts THEN {"GoNoModels"} \cup Limits ELSE {"GoNoModels"}

\* Mutant: the next unused element is left out.
LastConstrained(c, mc) == IF IsRelation(c) THEN 1 ELSE IF P.opt.lnh /\ mc >= 0 THEN mc ELSE N - 1

LastValue(c, mc) ==
  CASE IsRelation(c) -> 1
    [] ~IsRelation(c) /\ P.opt.lnh -> IF mc + 1 < N - 1 THEN mc + 1 ELSE N - 1
    [] OTHER -> N - 1

BiggerOf(a, b) == IF a > b THEN a ELSE b

NewFrame(c, constrained) ==
  LET mc == BiggerOf(constrained, MaxIndex(c))
  IN  [cell |-> c, value |-> 0, last |-> LastValue(c, mc), mc |-> mc, stk |-> <<>>]

\* possible_model: its fatal error is a ground clause that is not true.
Found(s) == [size |-> s.n, cells |-> s.value]
AllTrue(s) == \A c \in DOMAIN s.clauses : s.subsumed[c]
ModelCode(count) ==
  IF P.opt.maxModels # -1 /\ count >= P.opt.maxModels THEN "MaxModels" ELSE "GoModels"

\* The frame whose assignment has been undone moves on, according to rc.
Advance(frame, code) ==
  CASE code = "GoNoModels" -> [frame EXCEPT !.value = @ + 1, !.stk = <<>>]
    [] code = "GoModels" /\ ~(P.opt.skolemsLast /\ frame.cell[1] \in Skolems) ->
         [frame EXCEPT !.value = @ + 1, !.stk = <<>>]
    [] OTHER -> [frame EXCEPT !.value = frame.last + 1, !.stk = <<>>]

\* Undo the assignments of all frames, the deepest first.
Unwind(s, fs) ==
  Along(LAMBDA u, f : Restore(u, f.stk), s, [i \in DOMAIN fs |-> fs[Len(fs) + 1 - i]])

Leave(code) ==
  /\ pc' = "sized" /\ rc' = code
  /\ m' = Settled(Unwind(m, frames)) /\ frames' = NoFrames

OutOfRange == MaxElement(P) >= N

(***************************************************************************)
(* mace4n up to the first selection.                                       *)
(***************************************************************************)
StartSize ==
  /\ pc = "next_size" /\ k =< Len(P.sizes)
  /\ UNCHANGED <<prob, k, request, saved, interrupted>>
  /\ resumed' = IF resumed = "again" THEN "again" ELSE "no"
  /\ base' = IF OutOfRange THEN NoMemory ELSE GenerateClauses(prob, N)
  /\ truth' = ModelsOf(P, N)
  /\ UNCHANGED <<frames, cell, models>>
  /\ \/ /\ OutOfRange
        /\ pc' = "sized" /\ rc' = "OutOfRange" /\ UNCHANGED m
     \/ /\ ~OutOfRange /\ ~base'.ok
        /\ pc' = "sized" /\ rc' = "GoNoModels"
        /\ m' = [base' EXCEPT !.fatal = @ \/ resumed \in {"next", "again"}]
     \/ /\ ~OutOfRange /\ base'.ok
        /\ pc' = "assigned" /\ rc' = "GoNoModels" /\ m' = Settled(base')

(***************************************************************************)
(* The loop of search_iterative and of search_iterative_resume.            *)
(***************************************************************************)
Depth == Len(frames)
Leaf  == frames[Depth]
LoopUnchanged == UNCHANGED <<prob, k, base, cell, resumed, request, saved, truth, interrupted>>

\* Mutant: the leaf is written with the value it will try, as if it had just been pushed.
TrailRestarted ==
  [i \in DOMAIN frames |-> [frames[i] EXCEPT !.stk = <<>>, !.value = IF i = Len(frames) THEN 0 ELSE @]]

Trail == [i \in DOMAIN frames |-> [frames[i] EXCEPT !.stk = <<>>]]
Written(size, trail, how) ==
  [size |-> size, trail |-> trail, models |-> Len(models), how |-> how]

\* A request is answered at the top of the loop.
WriteCheckpoint ==
  /\ pc = "top" /\ request
  /\ saved' = Written(k, Trail, "trail") /\ request' = FALSE
  /\ IF P.opt.checkpointExit THEN Leave("Checkpoint")
     ELSE pc' = "checked" /\ UNCHANGED <<m, frames, rc>>
  /\ UNCHANGED <<prob, k, base, cell, resumed, models, truth, interrupted>>

AfterCheckpoint == pc = "checked" \/ (pc = "top" /\ ~request)

LimitReached ==
  /\ AfterCheckpoint
  /\ \E limit \in CheckTimeMemory \ {"GoNoModels"} : Leave(limit)
  /\ LoopUnchanged /\ UNCHANGED models

\* The code the loop body sees: search_iterative_resume stores the result of
\* check_time_memory in rc at the top of every turn.
CodeInTurn == IF resumed = "trail" THEN "GoNoModels" ELSE rc

\* All values of the leaf have been tried: back to its parent.
Exhausted ==
  /\ AfterCheckpoint /\ Leaf.value > Leaf.last
  /\ IF Depth = 1
     THEN pc' = "sized" /\ rc' = CodeInTurn /\ frames' = NoFrames /\ UNCHANGED m
     ELSE /\ m' = Restore(m, frames[Depth - 1].stk)
          /\ frames' = Append(SubSeq(frames, 1, Depth - 2),
                              Advance(frames[Depth - 1], CodeInTurn))
          /\ pc' = "top" /\ rc' = CodeInTurn
  /\ LoopUnchanged /\ UNCHANGED models

\* assign_and_propagate on the next value of the leaf.
Assign ==
  /\ AfterCheckpoint /\ Leaf.value =< Leaf.last
  /\ m' = AssignAndPropagate(m, Leaf.cell, Leaf.value)
  /\ frames' = [frames EXCEPT ![Depth].stk = m'.log]
  /\ pc' = "assigned" /\ rc' = CodeInTurn
  /\ LoopUnchanged /\ UNCHANGED models

\* Mutant: stays at the refuted value.
ValueRefutedAgain ==
  /\ pc = "assigned" /\ ~m.ok
  /\ m' = Settled(m) /\ pc' = "top"
  /\ LoopUnchanged /\ UNCHANGED <<frames, rc, models>>

ValueRefuted ==
  /\ pc = "assigned" /\ ~m.ok
  /\ m' = Settled(m)
  /\ frames' = [frames EXCEPT ![Depth].value = @ + 1]
  /\ pc' = "top"
  /\ LoopUnchanged /\ UNCHANGED <<rc, models>>

NextMc == IF Depth = 0 THEN MaxElement(P) ELSE BiggerOf(Leaf.mc, Leaf.value)

Selected(choice) ==
  /\ cell' = choice.cell
  /\ m' = [Settled(m) EXCEPT !.fatal = @ \/ choice.fatal]
\* No limit is found exceeded, in the first turn or after an assignment.
Select ==
  /\ pc = "assigned" /\ m.ok
  /\ Selected(SelectCell(Settled(m), NextMc))
  /\ pc' = "selected" /\ rc' = "GoNoModels"
  /\ UNCHANGED <<prob, k, base, frames, resumed, models, request, saved, truth, interrupted>>

PushFrame ==
  /\ pc = "selected" /\ cell # Nil
  /\ frames' = Append(frames, NewFrame(cell, NextMc))
  /\ pc' = "top"
  /\ LoopUnchanged /\ UNCHANGED <<m, rc, models>>

\* All cells have values.
ModelFound ==
  /\ pc = "selected" /\ cell = Nil
  /\ models' = Append(models, Found(m))
  /\ rc' = ModelCode(Len(models'))
  /\ IF Depth = 0
     THEN /\ m' = [m EXCEPT !.fatal = @ \/ ~AllTrue(m)]
          /\ pc' = "sized" /\ UNCHANGED frames
     ELSE /\ m' = [Restore(m, Leaf.stk) EXCEPT !.fatal = @ \/ ~AllTrue(m)]
          /\ frames' = [frames EXCEPT ![Depth] = Advance(Leaf, rc')]
          /\ pc' = "top"
  /\ LoopUnchanged

\* A limit is found exceeded in the first turn or right after an assignment.
LimitAfterAssignment ==
  /\ pc = "assigned" /\ m.ok
  /\ \E limit \in CheckTimeMemory \ {"GoNoModels"} : Leave(limit)
  /\ LoopUnchanged /\ UNCHANGED models

(***************************************************************************)
(* mace4(): after each size.                                               *)
(***************************************************************************)
Continues(code) == code \in {"GoModels", "GoNoModels", "MaxDomainSeconds", "OutOfRange"}

NextSize ==
  /\ pc = "sized" /\ rc # "Checkpoint" /\ ~request
  /\ IF Continues(rc) /\ k < Len(P.sizes)
     THEN pc' = "next_size" /\ k' = k + 1 /\ rc' = "GoNoModels"
     ELSE pc' = "done" /\ UNCHANGED <<k, rc>>
  /\ m' = NoMemory
  /\ UNCHANGED <<prob, base, frames, cell, resumed, models, request, saved, truth, interrupted>>

\* Between sizes the next size is saved, or this one if there is no next.
CheckpointBetweenSizes ==
  /\ pc = "sized" /\ rc # "Checkpoint" /\ request
  /\ saved' = IF k < Len(P.sizes) THEN Written(k + 1, NoFrames, "next")
              ELSE Written(k, NoFrames, "again")
  /\ request' = FALSE
  /\ m' = NoMemory
  /\ CASE P.opt.checkpointExit -> pc' = "exited" /\ UNCHANGED <<k, rc>>
       [] ~P.opt.checkpointExit /\ Continues(rc) /\ k < Len(P.sizes) ->
            pc' = "next_size" /\ k' = k + 1 /\ rc' = "GoNoModels"
       [] OTHER -> pc' = "done" /\ UNCHANGED <<k, rc>>
  /\ UNCHANGED <<prob, base, frames, cell, resumed, models, truth, interrupted>>

CheckpointExit ==
  /\ pc = "sized" /\ rc = "Checkpoint"
  /\ pc' = "exited" /\ m' = NoMemory
  /\ UNCHANGED <<prob, k, base, frames, cell, rc, resumed, models, request, saved, truth, interrupted>>

(***************************************************************************)
(* mace4n_resume: the initial memory is rebuilt and the trail replayed.    *)
(***************************************************************************)
ReplayOne(s, f) == AssignAndPropagate(Settled(s), f.cell, f.value)
Replay(s, trail) == Along(ReplayOne, s, trail)

\* All frames but the last are replayed, each with the stack of its assignment.
ReplayFrame(r, f) ==
  LET s == ReplayOne(r.m, f) IN [m |-> s, frames |-> Append(r.frames, [f EXCEPT !.stk = s.log])]
ReplayTrail(s, trail) == Along(ReplayFrame, [m |-> s, frames |-> NoFrames], Front(trail))

\* An empty trail: the size is searched from its beginning (StartSize), except that
\* contradictory initial clauses are a fatal error.
Resume ==
  /\ pc = "exited" /\ saved # <<>>
  /\ k' = saved.size /\ models' = SubSeq(models, 1, saved.models) /\ request' = FALSE
  /\ resumed' = saved.how /\ rc' = "GoNoModels" /\ saved' = <<>>
  /\ UNCHANGED <<prob, cell, interrupted>>
  /\ \/ /\ saved.trail = NoFrames
        /\ pc' = "next_size" /\ m' = NoMemory /\ frames' = NoFrames /\ UNCHANGED sizeVars
     \/ /\ saved.trail # NoFrames
        /\ base' = GenerateClauses(prob, P.sizes[saved.size])
        /\ truth' = ModelsOf(P, P.sizes[saved.size])
        /\ \E r \in {ReplayTrail(base', saved.trail)} :
             /\ m' = [Settled(r.m) EXCEPT !.fatal = @ \/ ~r.m.ok \/ ~base'.ok]
             /\ frames' = Append(r.frames, saved.trail[Len(saved.trail)])
        /\ pc' = "top"

(***************************************************************************)
(* The environment.                                                        *)
(***************************************************************************)
Running == pc \notin {"exited", "done"}

Sigusr2 ==
  /\ P.opt.interrupts /\ ~interrupted /\ Running /\ ~request
  /\ request' = TRUE /\ interrupted' = TRUE
  /\ UNCHANGED <<prob, k, pc, m, base, frames, cell, rc, resumed, models, saved, truth>>

Killed ==
  /\ P.opt.interrupts /\ Running /\ saved # <<>>
  /\ pc' = "exited" /\ m' = NoMemory /\ frames' = NoFrames
  /\ UNCHANGED <<prob, k, base, cell, rc, resumed, models, request, saved, truth, interrupted>>

Step ==
  \/ StartSize
  \/ WriteCheckpoint \/ LimitReached \/ Exhausted
  \/ Assign \/ ValueRefuted \/ LimitAfterAssignment \/ Select \/ PushFrame \/ ModelFound
  \/ NextSize \/ CheckpointBetweenSizes \/ CheckpointExit

Next == Step \/ Resume \/ Sigusr2 \/ Killed

Spec == Init /\ [][Next]_vars
\* WF_vars(Step): a step is possible exactly while the process runs.
FairSpec == Spec /\ ([]<>~Running \/ []<><<Step>>_vars)

(***************************************************************************)
(* Properties.                                                             *)
(***************************************************************************)
InLoop == pc \in {"top", "checked"}

\* Whatever is reported is a model of the clauses, and no fatal_error of the search
\* ("bad model found", "no possible values", "atom link in use", "contradiction
\* during trail replay") is reached.
ModelsAreModels ==
  /\ pc = "sized" => \A i \in DOMAIN models : models[i].size = N => models[i].cells \in truth
  /\ m # NoMemory => ~m.fatal

\* No model is reported twice, not even by a process resumed from a checkpoint; except
\* that a checkpoint written after the last size repeats that size.
NoModelTwice ==
  resumed # "again" => \A i, j \in DOMAIN models : models[i] = models[j] => i = j

\* The same model up to a renaming of the elements the least number heuristic treats
\* alike and, with skolems_last, up to the values of Skolem functions.
Representative(I, J) ==
  LET cells == IF P.opt.skolemsLast THEN {c \in CellSet(P, N) : c[1] \notin Skolems}
               ELSE CellSet(P, N)
      renamings == IF P.opt.lnh THEN Renamings(P, N) ELSE {[d \in 0 .. N - 1 |-> d]}
  IN  \E r \in renamings : SameUpTo(r, cells, I, J)

\* When the search of a size ends by itself, with no limit on models, every model of
\* that size has been reported, up to that.
Exhaustive ==
  pc = "sized" /\ rc \in {"GoModels", "GoNoModels"} /\ P.opt.maxModels = -1 =>
    \A I \in truth :
      \E i \in DOMAIN models : models[i].size = N /\ Representative(I, models[i].cells)

\* mace4_one_size_exit_code.  The converse of ModelsSaid does not hold: rc may forget that
\* a model was found.
ExitCode ==
  CASE rc = "MaxModels" -> "MAX_MODELS_EXIT"
    [] rc = "GoModels"  -> "ALL_MODELS_EXIT"
    [] rc \in {"MaxTotalSeconds", "MaxDomainSeconds"} ->
         IF models = <<>> THEN "MAX_SEC_NO_EXIT" ELSE "MAX_SEC_YES_EXIT"
    [] rc = "MaxMegs"   -> IF models = <<>> THEN "MAX_MEGS_NO_EXIT" ELSE "MAX_MEGS_YES_EXIT"
    [] rc = "OutOfRange" -> "MACE_DOMAIN_OOR_EXIT"
    [] OTHER -> "EXHAUSTED_EXIT"
ModelsSaid ==
  pc = "sized" /\ ExitCode \in {"MAX_MODELS_EXIT", "ALL_MODELS_EXIT"} =>
    \E i \in DOMAIN models : models[i].size = N

\* The search reports every model of a size, and none twice, also when it is resumed, and
\* claims none where it reported none.
EachModelOnce == NoModelTwice /\ Exhaustive /\ ModelsSaid

\* The memory depends on the assignments in effect only: what refuted or abandoned
\* values did has been undone, and a resumed search is where it was.
BacktrackExact ==
  InLoop => m = Settled(Replay(Settled(base), Front(Trail)))

Places(s) == {p \in DOMAIN s.arg : \A i \in 2 .. Len(p) : s.arg[SubSeq(p, 1, i)] = Open}
\* The list of occurrences of an open cell holds every place where its eterm stands.
OccurrencesExact ==
  InLoop =>
    \A c \in {d \in DOMAIN m.value : m.value[d] = Open} :
      LET list == Chain(m, m.occ[c]) IN
      /\ ToSet(list) = {p \in Places(m) : IsEterm(m, p) /\ CellAt(m, p) = c}
      /\ Len(list) = Cardinality(ToSet(list))

LitIndexes(s, c) == DOMAIN s.clauses[c]
Indexed(s, lit) == \E key \in DOMAIN s.near : s.near[key] # Nil /\ lit \in ToSet(Chain(s, s.near[key]))
Tells(s, s1, lit) ==
  ~s1.ok \/ s1.value # s.value \/ s1.possible # s.possible \/ (s1.near # s.near /\ ~Indexed(s, lit))
UsableUnit(s, c) ==
  /\ ~s.subsumed[c] /\ s.active[c] < 2
  /\ s.active[c] = 1 => Tells(s, ProcessUnit(s, <<c, OpenLit(s, c)>>), <<c, OpenLit(s, c)>>)
\* Propagation reaches its end: outside clauses already true no term in place has a
\* value, counters, flags and lists of occurrences agree with the literals, and no clause
\* is a unit that still tells something: a value, a value crossed off, or an entry of the
\* index for negative propagation.
NormalForm ==
  /\ OccurrencesExact
  /\ InLoop =>
    /\ \A p \in Places(m) : Evaluable(m, p) => AtLiteral(p) /\ m.subsumed[p[1]]
    /\ \A c \in DOMAIN m.clauses :
         /\ m.subsumed[c] <=> \E i \in LitIndexes(m, c) : m.arg[<<c, i>>] = 1
         /\ m.active[c] = Cardinality({i \in LitIndexes(m, c) : m.arg[<<c, i>>] # 0})
         /\ ~UsableUnit(m, c)

\* Assignments and eliminations derived below the decisions follow from them: no model
\* that agrees with the decisions is lost.
EliminationsSound ==
  InLoop =>
    \A I \in truth :
      (\A i \in 1 .. Depth - 1 : I[frames[i].cell] = frames[i].value) =>
        \A c \in DOMAIN I : I[c] \in m.possible[c] /\ m.value[c] \in {Open, I[c]}

\* A started or resumed process ends.
Termination == []<>(pc \in {"done", "exited"})
==============================================================================
