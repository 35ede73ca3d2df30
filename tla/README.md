# TLA+ models of Prover9 and Mace4

Specifications, model-checking configurations and machine-checked proofs for
the parts of Prover9/Mace4 (LADR) whose correctness depends on the order in
which things happen.  They are of two kinds.  Some things happen *between*
processes: the two `-cores` schedulers, which race child processes and answer
signals, and the checkpoints of a search, which can be cut short at any step.
Others happen inside one long sequence of calls that has to leave several
structures in step: the lists and indexes of the given-clause search, the trees
and heaps that choose the given clause, the queue of inferences put off until later, the
contexts and trails of the inference rules, the passes that turn formulas into
clauses, with the names they make up, and the tables, counters and stack of changes of mace4's model search.

    tlc -config cores_safety.cfg MCCores.tla      # model-check one run
    tlapm CoresSchedulerProofs.tla                # check the proofs

`PROJECT.json` lists the components, the runs and their properties, the source
lines every definition stands for, the hazards, the mutants and the theorems.

## 1. Inventory

The program is a library (`src/ladr`), two main programs (`src/provers.src`,
`src/mace4.src`) and small filters (`src/apps.src`).  There are no threads; the
concurrency is between processes, and between a program and its signals.

| component | state | operations | what is hard | what makes it correct |
|---|---|---|---|---|
| **prover9 `-cores` scheduler** (`prover9.c`) | slots, suspended pool, `Child_pids`, best exit code, status guard and armed death line; per child its process state, output buffer and progress hint in shared memory | fork, poll (`waitpid`), pool, eject, resume, kill, answer; signal handler; child start, suspend, exit | signals between any two steps; children that end in any order; `fork` failures; a child that never ends | every child has one owner, no child outlives the parent, one status line, exhaustion and proofs are reported, the parent ends |
| **mace4 `-cores` scheduler** (`sizesched.c`, exit path in `msearch.c`) | `kids[]`, next size, best size, overflow floor, prepared output, publication flags | launch, poll, retain a model, supersede, clean up, publish, exit; two handlers | the same, and `int` wrap-around of sizes | the smallest model wins, GaveUp is deliberate, a kill never loses a model |
| **given-clause search** (`search.c`) | Usable, Sos, Limbo, Disabled; demodulators, literal, back-demodulation and clashable indexes; epochs of passive clauses | `cl_process`, `limbo_process`, back operations, two search loops | long sequences of moves; clauses retired while others wait; stale passive clauses | lists and indexes agree; active clauses are interreduced; an empty Sos means saturation |
| **given-clause selection** (`giv_select.c`, `avltree.c`) | for each rule a balanced tree of passive clauses, or a heap of records that may be stale; the turns of the high and the low rules; occurrence counts, `Sos_size` | insert, remove, select, `sos_limit` and displacement, compaction, bulk insertion and restored turns after a restart | membership is evaluated again when a clause is removed; a stale record leaves a heap only as its root; quotients of counts that can be 0; turns restored by name | every clause is in exactly the trees its rules ask for; no rule starves; what is displaced is last in some order |
| **collective inference frontier** (`search.c`) | a queue of descriptors with cursors, a priority heap of some of them, credits and counts of turns; which clauses were active when | queue the inferences of a given clause, take a turn, probe, retire a clause, resume | conclusions are made again in each turn, from clauses that may be gone; two orders and two kinds of inferences share a cursor; the cache of candidates is full | no inference lost, made twice or made with a clause of another time; no descriptor starves |
| **checkpoint and resume** (`search.c`, handler in `provers.c`) | the directories on disk and their files, a circular buffer of automatic checkpoints, the request flag | write, rename, rotate, request, resume | a kill or a failed call between any two steps; leftovers of earlier attempts; one name for two states | a directory without `.tmp` is complete, rotation keeps the newest and nothing but them, a request is answered |
| single-process signals (`provers.c`) | `No_kill`, `Pending_kill`, checkpoint request | handlers | reentrancy | one status line, no lost request |
| forking search (`search.c`) | a child per remaining strategy | fork, wait | | the child's result is the parent's |
| **mace4 model search** (`msearch.c`, `ground.c`, `propagate.c`, `negprop.c`, `negpropindex.c`, `estack.c`, `select.c`) | ground clauses with rewritten arguments, cell tables, lists threaded through the terms, the negative propagation index, the stack of changes, the search stack | ground, assign, propagate both ways, index, undo, select, checkpoint, resume | undoing exactly what was done, in lists that run through shared terms; a code that later steps overwrite; replaying a trail | a model satisfies the ground clauses, no model is missed or repeated, backtracking restores the memory, the terms are normal forms |
| **inference rules and unification** (`resolve.c`, `clash.c`, `paramod.c`, `unify.c`, `mindex.c`) | contexts with bindings and multipliers, a free list of contexts, trails, the clash list and its stack of positions | unify and undo, retrieve the next mate, mate a literal, apply, paramodulate | backtracking through nested retrievals, a deadline in the middle of it, contexts recycled while bindings to them may be left | the conclusions are exactly the instances by most general unifiers; every binding is undone |
| **clausification and problem reduction** (`cnf.c`, `formula.c`, `clausify.c`, `top_input.c`, `foffer.c`) | Skolem numbers, definitions so far, the clause limit, the forms kept for the printed proof, the subproblems left | take a formula, normal form, rename, Skolemize, distribute, define, make clauses; reduce, search a subproblem | names are made up in three passes with a list of names each; a formula is given up in the middle; parts are proved for the whole | the clauses have the models of the input, the printed steps hold, the subproblems are the denial |
| slab allocator (`memory.c`), ancestor and clause stores (`clause_store.c`, `compress.c`), cold passive store | free lists, slabs, spill files, id tables | get, free, spill, activate | reuse of freed memory, restart offsets | no block is handed out twice, a stored clause comes back |
| other indexes, matching, terms, orderings, parsing, options, printing, filters | recursive data | pure functions | | mathematical; no shared state |

How they interact: formulas become clauses before a search begins, and
`fof-prover9` first splits the problem and searches its parts one after another.
`prover9` runs one search per process; with `-cores` the
parent never searches, it forks children that each run the given-clause search
and communicate by exit code, by a shared-memory output buffer and by stopping
themselves.  `mace4 -cores` does the same with pipes and one domain size per
child; without `-cores` it searches one size after another.  Inside a search of
prover9, `get_given_clause2` chooses the given clause, `make_inferences` calls
`given_infer`, whose rules call `cl_process` for every conclusion (or, with the collective
frontier, are queued, and called in turns of `collective_expand_one_batch`), `cl_process` puts kept clauses on Limbo and into the indexes, and
`limbo_process` does the back operations, which call `cl_process` again.

## 2. Plan

| order | module | abstract specification | state |
|---|---|---|---|
| 1 | `CoresScheduler` | `RaceContract` | modelled, checked, proved |
| 2 | `SizeScheduler` | `RaceContract` | modelled, checked, proved |
| 3 | `GivenClause` | | modelled, checked, proved |
| 4 | `Checkpoint`: write, rename, rotation, crash, load | | modelled, checked, proved |
| 5 | `ModelSearch` on `Propagation` on `GroundClauses` | the models of the clauses, by enumeration of all tables | modelled, checked |
| 6 | `Inference` on `Unification` | `InferenceContract` | modelled, checked |
| 7 | `GivenSelection` on `AvlTree` | `SelectionContract` | modelled, checked; contract proved |
| 8 | `CollectiveFrontier` | `CollectiveContract` | modelled, checked, proved |
| 9 | `Clausification` on `NormalForms` on `Formulas` | what a formula means in an interpretation | modelled, checked |
| 10 | `SlabAllocator`, `AncestorStore` | function-valued memory | planned |

An abstract specification of
`Checkpoint`, a set of whole checkpoints that grows and loses its oldest, is worth
stating too.  `MC`*name*
gives a module its small instances.

## 3. The modules

### RaceContract

What a reader of standard output may rely on when several searches race: at
most one status line, and a success only if some search succeeded.  Its three
actions are a search succeeding, the answer, and the end.  Both schedulers
implement it, by TLC on small instances and by proof on all: the mapping reads `answers` off standard output,
`over` off the program counter and `succeeded` off the exit codes.

### CoresScheduler (`src/provers.src/prover9.c`)

One parent and one process per strategy.  `pc` names the place in
`cores_poll_loop` or `cores_search` where the parent is; there is a value for
every place at which a signal makes a difference, and steps the code performs
with the signals blocked (`PublishWinner`, `Fork`) are single actions.  A child
is named by its position in `order[]`, since each position is forked once.

* `Fork`, `Track`, `ForkFails`, `Resume`, `NothingToRun`: the filling of a slot,
  in phase 1 (next strategy) and phase 2 (`pick_best_suspended`).
* `LoopTop`, `PollNothing`, `PollStopped`, `PollEnded`, `PollProof`, `LoopEnd`:
  one round of polling, including ejection under a memory budget.
* `DisarmDeath`, `RearmDeath`, `PublishWinner`, `Relay`, `ClaimNoProof`,
  `EmitNoProof`: the answer.
* `ParentDeath`: `parent_death_handler`, at any moment.
* `ChildStarts`, `ChildProgress`, `ChildSuspends`, `ChildExits`,
  `ChildCrashes`; `Expire` is the wall clock passing the backstop deadline.

A search is its exit code and the number of given clauses it reports.  The
output a child captured is represented by whose output a buffer holds.

### SizeScheduler (`src/mace4.src/sizesched.c`, `msearch.c`)

A child is named by its domain size.  `Arm` to `SayStatus` are the steps of
`mace4_parallel` and `mace4_exit`; `ParentDeath` is the handler of SIGTERM and
SIGXCPU, `Alarm` that of SIGALRM and SIGINT.  Addition of sizes wraps at
`MaxInt` as the build's `int` does.  The run is in TPTP mode, and
`Satisfiable` stands for `CounterSatisfiable` as well.

### GivenClause (`src/provers.src/search.c`)

Kept clauses are numbers (their ids in order of keeping) with a body.  What
bodies do to each other -- subsumption, one rewriting step, unit deletion,
inference, factoring -- is given by constants, so the model holds for every
clause language, while everything the program decides itself is an action:

* `Call`, `Simplify`, `Refute`, `Drop`, `RefuteByConflict`, `Keep` are
  `cl_process`.  A clause to be processed waits in `hand`; nothing else moves
  until `hand` is empty, because `cl_process` is a call.
* `Factor`, `BackSubsume`, `Redo`, `StartBackUnitDeletion`, `MoveToUsable`,
  `MoveToSos`, `StoreCold`, `Displace`, `LimboEmpty` are `limbo_process` on the
  head of Limbo.  `Disable` is `disable_clause`, with its case distinction on
  the list the clause is on.  Limbo is a set, since its head is its smallest id.
* `SelectGiven` is the Otter loop; `Refresh` and `Activate` are the DISCOUNT
  loop, in which a kept clause stays out of the indexes until it is selected
  and is then brought up to date if its epoch is old.  `Exhaust` ends the loop.
* `used` holds the clauses that were kept with a proof (`atom_conflict` sets
  `c->used`) when `max_proofs` lets the search go on: `Refresh` does not discard
  such a passive as subsumed (`Discarded`).  Parents of kept clauses are used as
  well, but they are active, and nothing else asks.  In `cl_process_delete` no
  clause is used yet: `safe_unit_conflict`, off by default, would put unit
  conflict before those tests and is left out.

The given clause is *any* clause of Sos, and `sos_limit` displaces *any*
clause: both are decided by `giv_select.c`, whose choices are thereby all
included; `GivenSelection` says which choice is made.

Left out of this module: hints, actions and `desc_to_be_disabled`, ancestor
subsumption, the CAC redundancy test, `max_given` and
input demodulators; selection and the collective frontier are modelled apart.  Hyper- and UR-resolution are
represented by their conclusions from two parents, and the partners of
paramodulation are those of resolution;
`Inference` has the rules themselves.  `max_kept` is kept as the bound that
ends a search that would not end.

### Checkpoint (`src/provers.src/search.c`, `provers.c`)

One search process at a time, the directories it writes, and the processes that
resume from them.  The state of a search is its `turn`, the iterations of the
main loop behind it, and `given`, the number of given clauses, which names the
directory; a file is the turn whose state was written in it, so that "all files
of one moment" is a statement about `holds`.

* `PeriodicDue`, `NotDue`, `CheckRequest`, `CheckpointExit`, `AfterPeriodic`,
  `ClearRequest`, `Iterate`, `SearchEnds`, `EndsInIteration` are the top of the
  main loop of `search`, in its order: first the period, then the request.
* `SyncFails` to `CannotRename` are `write_checkpoint`.  Every early return goes
  back to the caller, which is not told (`Return`).  `WriteFile` opens and writes
  one file; "lists" stands for all files whose `fopen` failure is passed over.
* `RecordInRoom`, `BeginRotation`, `RemoveFile`, `EndRotation` are
  `record_auto_checkpoint` and `remove_checkpoint_dir`, which unlinks the files
  in any order.
* `SigUsr1`, `SigUsr2` are `prover_sig_handler` and can come at any step; the
  guard `in_handler` is set once and for all, so the second signal ends the
  process.  `Killed` is any other end from outside.  `Resume` is `-r`.

A period may be over at any iteration: wall-clock time is not modelled, except
that the periodic check is made once in each.  Left out: what the files hold,
`checkpoint_verify`, short writes in the files that are passed over, a failing
`unlink`, and directories of other processes once a search has been resumed
from one (their names contain another process id and are not looked at).

### GroundClauses, Propagation, ModelSearch (`src/mace4.src`)

`GroundClauses` says what is searched for: problems, cells, ground instances,
and what it is for a table to be a model, with no reference to the search.

`Propagation` is the memory of a search as a record `m` and the operators on
it.  A place is a clause, a literal and a path into its atom; `arg` is what
`t->args[i]` was replaced by, `link` is `u.vp`, by which a term is on the
occurrence list of its cell and on a list of the negative propagation index.
Every write the code logs in the Estack (`update_and_push`) is an `Update`,
which logs the old value; the Mstate (`jobs`, `ok`) is not logged.

`ModelSearch` is one process: `StartSize`, `Assign`, `ValueRefuted`, `Select`,
`PushFrame`, `ModelFound`, `Exhausted`, `NextSize` are the turns of the loops
of `mace4` and `search_iterative`; `Sigusr2`, `LimitReached` and `Killed` may
come in any turn; `WriteCheckpoint` stores the trail, and `Resume` replays it
as `search_iterative_resume` does.  A periodic checkpoint behaves as a request
without `checkpoint_exit`.  `truth`, the models of the size by enumeration, is
not in the code; the properties compare with it.

Worth knowing: with `selection_order=linear` and `skolems_last` cells are
divided by number at `First_skolem_cell`; an atom of a relation is linked a
second time by `index_it`; a resumed search whose trail is empty and whose
clauses are contradictory is a fatal error.

### Unification, Inference, InferenceContract (`src/ladr`)

`Unification` has terms, contexts with their multipliers and free list, trails,
`unify`, `occur_check` and `apply`.  `Inference` runs a sequence of clauses:
when clause *g* is given, the clauses 1..*g* are in Usable and in the index.  A
step is one retrieval of a mate, one turn of the loop of `clash_recurse`
(`FirstPlain`, `NextClashMate`, `ReflexiveMate`, `PopFrame` ...), or one
inference of a rule without a clash.  The deadline of `clash_recurse`, looked at
every 10,000 turns, may pass at any turn (`TimeOut`).  Which literals are
maximal or selected, and how an equality is oriented, are part of the problem.

`InferenceContract` states the rules again without contexts, indexes or a
stack, by Robinson unification of renamed copies, and compares the two.
Conclusions are compared up to the names of variables, those of paramodulation
up to the order and orientation of their literals too.  With default flags
`check_top` skips an overlap at the top of an older equation with a variable
side into a newer one, and no other step makes it: the contract says so in
`OnVariableTop`.

### SelectionContract, AvlTree, GivenSelection (`src/provers.src/giv_select.c`)

`SelectionContract` knows only classes of clauses and turns: the rule whose
turn it is gives the first clause of its class.  `GivenSelection` has the trees
(`AvlTree`), the heaps of records of the dense store with stale entries,
occurrence counts and turns, as a record `q`.

* `Arrive` is `cl_process` with `sos_keep2`; `FromLimbo` is the move of the first
  clause of Limbo with `sos_displace2` and `insert_into_sos2` (or
  `dense_insert_passive`, which compacts); `Disable` is `remove_from_sos2` from
  outside; `Select` is `get_given_clause2` with `next_selector`; `Restart` is
  `bulk_insert_into_sos2` and the restored turns.
* The estimates of `sos_limit` are exact fractions where the code has doubles; a
  denominator of 0 is a NaN, of which no comparison holds.  Sums of parts wrap.
* A rule is a property or its negation; conjunctions and disjunctions of them
  are left out.  `since`, which counts turns, is not in the code.

### CollectiveContract, CollectiveFrontier (`src/provers.src/search.c`)

With `search_loop=collective` the inferences of a given clause with the active
clauses are not made when it is activated.  `CollectiveContract` says what must
come of it: the conclusions it yields with the clauses that are active at that
moment are owed from then on, and are drawn later, each once, at most
`collective_candidate_chunk` at a time.

`CollectiveFrontier` has the mechanism: a queue of descriptors, one for each
given clause, which hold an epoch and a cursor, and no conclusion.  A turn makes
the conclusions of a unit (a hyper rule, or one partner of paramodulation) again,
skips those drawn before, and draws a few.

* `Turn` is `collective_expand_one_batch` called by `make_inferences`:
  `collective_choose_batch_for_turn` (`Chosen`), the unit (`HyperWork`,
  `ParaWork`), the chunk in generator order or by weight (`PrefixChunk`,
  `PromisingChunk`), and `collective_finish_batch_turn`, which edits the heap.
* `Activate` advances the epoch, notes the activation, queues the descriptor and
  may put it first as a hint probe; `NotActivated` is the same for a given clause
  that does not reach Usable; `Refresh` is `discount_refresh_selected`.
* `Resume` reads the checkpoint of the same state, which holds all but the heap.
* Every check of the code that ends in `fatal_error` is there (`fatal`).

What two clauses yield is data: a sequence of weights for each rule.  The hash of
a sequence is modelled as the sequence, so collisions are left out.
`cl_process` keeps any number of the conclusions it is given, with `limbo_process`
in the same step; which clauses retire is any small set.  The mapping to the
contract reads `owed` off epochs, cursors and thresholds alone (`Pending`,
`Drawn`).

### Formulas, NormalForms, Clausification (`src/ladr`, `src/provers.src/foffer.c`)

Formulas are trees of nodes, and every pass of `formula.c` and `cnf.c` is a
function of the tree (`Formulas`, `NormalForms`), where the code walks it with a
stack and changes it in place.  A pass that is left by `longjmp` returns `Limit`,
and one that reads memory it does not own returns `Crash`.  Names are names: a
bound variable is a rigid symbol until the universal quantifiers go, `GenNewSymbol`
and `NextSkolem` make names up as the code does, and nothing in the model renames
what the code does not rename.

`Clausification` takes a problem through them, one pass a step:

* `TakeClause`, `TakeFormula` are the loops of `process_input_formulas` and
  `process_goal_formulas`; `NegationNormalForm`, `Skolemize`, `MakeMatrix` are
  `clausify_prepare_cap`, which keeps two forms for the printed proof
  (`captured`); `MakeClauses` is the end of `clausify_formula_cap`, and
  `StartSearch` puts the denial behind the assumptions.
* `Reduce`, `StartSubproblem` and `Search` are `foffer`, with `miniscope`.  What is
  reduced is `DenialNnf`, the denial after `nnf2` with disjunctions preferred: the
  comment at `foffer.c`:141 says that pass is for the sizes only, but it changes the
  formula that `reduce_problem` gets, so the subproblems depend on that branch of `nnf2`
  (`IffForm`, `NotIffForm`).
* The search is external: it may prove what it is given if that has no model of
  two elements, and may fail on anything.

`Value` and `Truth` say what formulas mean; they are not in the code, and the
properties compare with them.  Left out: hints and demodulators given as formulas,
several goals (their denials are clausified one by one), the call limit and
the timeouts (which end as the clause limit does), attributes and printing.

## 4. What the runs show

| run | instance | result |
|---|---|---|
| `cores_safety` | 2 slots, 3 strategies, four exit codes, ejection, fork failures, a signal at any point | ownership of children, no survivors, complete and correctly ranked answers, `RaceContract`, termination |
| `cores_breadth` | 2 slots, 3 strategies, progress hints, no deadline | every strategy is tried although `auto_default` is never suspended, a proof found is answered |
| `cores_wrong_buffer` | the same | *violation* of `WinnerIsPublished` |
| `size_safety` | 2 cores, sizes 2, 4, 6, 8 of which 8 overflows, no `end_size` so that the next size wraps around, failing forks, a signal at any point, a timer | no orphans, the smallest model is published and none is forgotten, a kill keeps the model, `RaceContract`, termination |
| `given_search` | 10 option settings over 94 inputs of a language of 14 clauses with `max_proofs` 1, and over 2 inputs with `max_proofs` 4 | lists and indexes agree, Limbo is ordered and active clauses are interreduced, unit conflicts are found, an empty Sos is saturation, the search ends |
| `checkpoint_keep` | 3 iterations, 2 checkpoints kept, 1 resumption, 1 failing call, kills and signals at any step, three search loops, with and without `checkpoint_exit` | a directory without `.tmp` is whole, rotation deletes exactly the oldest periodic checkpoints (`search_loop=otter`, nothing fails), exit code 107 and an answered request mean a checkpoint of that turn |
| `model_search` | 14 problems, sizes 2 to 4, every propagation rule, selection order and measure, limits, requests, kills, resumptions | reported models are models, each once, none is missed up to renaming, an exit code for models means models; backtracking restores the memory; terms are normal forms, occurrence lists are exact, values crossed off are refuted; termination |
| `inference_rules` | 14 problems of 2 to 8 clauses, all rules, with and without the deadline | the conclusions are those of the contract and bindings most general unifiers, contexts are clean and recycled, nothing gets stuck |
| `given_selection` | 6 settings: default rules, limits with hints, dense, compressed, high rules with a random one | trees, heaps and counts agree with the rules, no rule starves, the contract is implemented, the worst clause is displaced |
| `collective_frontier` | 7 searches of up to 4 clauses: paramodulation alone and with hyperresolution, both orders of drawing, chunks of 1 and 2, the scheduler with intervals 1 to 3, probes, small caches, clauses no selector takes, a resumption at any point | the contract is implemented, no descriptor starves, heap and least keys are exact, the internal checks fail in two situations only |
| `clausify` | 35 problems with quantifiers bound twice or crossing, equivalences, equalities and nested conjunctions, by `prover9` and `fof-prover9`, with and without definitions and a limit of 2 clauses | each pass keeps the meaning in every interpretation of two elements, the recorded proof holds, the subproblems left are the denial |
| `clausify_capture` | a variable called `x0` | *violation* of `ProvedMeansTheorem` |

Deadlock checking is off, except for the checkpoints and the inference rules (where
an ended process is a stuttering step), because these programs end; `Termination`, where it is checked, also excludes any other state without a
successor.  `clausify`, `given_selection` and `collective_frontier` are safety runs: clausification is a fixed sequence of passes, what ends a search is in
`GivenClause`, and that no descriptor starves is stated as a measure that every
turn of another descriptor lowers (`NoStarvation`), which bounds the wait and needs no
fairness.

**Bounds and why they suffice.**  Two slots are the smallest number in which a
child can be resumed in another slot than the one it was forked in and in which
one slot can starve; three strategies are needed for a pool entry to compete
with an unlaunched strategy.  `MaxGiven` bounds only the progress hint, and is 0
where the hint is not read.  `MaxInt` 9 is just large enough to be reached by
the increment after size 8.  Four sizes with two cores make a smaller size end
after a larger one, with a third still to launch.  The clause language has one
equation, a unit clause that subsumes others, a factorable clause, clauses that
become units, tautologies or each other by rewriting and unit deletion, and a
denial: every branch of `cl_process` and `limbo_process` is taken.
`SosLimit = 2` and `KeepFactor = 3` make both displacement and refusal happen;
`MaxKept = 12` is reached only by searches that would requeue forever.
Three iterations make four periodic checkpoints, so that a buffer of two is
full, wraps around and deletes twice; one resumption lets the files of one
process be read by another; one failure at a time is what a full or read-only
disk does to one call, and the theorem covers any number.  `Over`, an ended
process that nobody resumes, is a stuttering step, so deadlock stays checked.

A table of size 2 to 4 has cells with several values left, so that assignment,
elimination and both near rules fire, and searches of depth three and more;
one interruption (a request or a kill) in each run of the interrupted problems
can come in any turn, and every trail is replayed by some resumption.
`MaxVars = 3` is the largest number of variables of a clause of the problems;
`MaxMultipliers = 6` is more than a clash of three mates has contexts, and
running out of them would be a fatal error, which `ContextsAreClean` excludes.
Four to six clauses in Sos make trees that need both double rotations,
`MinRecords = 3` and `MinInactive = 1` (in the code 1024 and 256) make
compactions happen with three records, and limits of 3 and 4 are reached by
clauses of every class; `MaxInt = 1023` exceeds every estimate.

Four clauses give three descriptors at once, so that one is overtaken while two
wait, a descriptor leaves the heap from a place other than the root, and a clause
retires after a descriptor was made and before its conclusions are drawn; units
of up to four conclusions with chunks of one and two are left half done and taken
up again.  One of the searches has a heap of four.

Two elements tell all quantifier prefixes of the problems apart, and `MeaningKept` is
stronger than equal satisfiability: it is stated for each interpretation, and one
element more would not change what a pass does.  A threshold of 1 defines every
conjunction below a disjunction; a limit of 2 clauses is exceeded in `cnf`, in
`cnf_def` and in `miniscope`.  No problem is so large that reduction is given up
(`TooLarge`), which ends as an exceeded limit does.

**Fairness.**  Each program is sequential, so weak fairness of its next step
says that the operating system runs it; `ModelSearch` and
`SizeScheduler` need nothing else but a timer or the end of the children.  In
the first it is stated as "the process has stopped, or it takes infinitely
many steps", which is the same, as a step is possible exactly until then.
`ClockFairness` and `WF(Alarm)` say that time passes, which the code relies on
(`alarm`, `time`).  `SliceFairness` says that a running child is stopped by its
own timer or ends; it is not assumed of `auto_default`, which has no timer.

**Mutants.**  Before some definitions stands a second one, named for what is
wrong with it and called a mutant in its comment: a plausible slip (a dropped guard, a forgotten removal, an off-by-one).  Put in
place of the original it makes TLC refute the property it is listed with, which
shows that the property says something about that definition.

## 5. What is proved

`CoresSchedulerProofs`, for every number of slots and strategies, every set of
exit codes and with or without signals, ejection and failing forks:

* `TypeCorrect` (`TypeOK`), `Ownership` (`OneOwner`), `LeavesNoSurvivors`
  (`NoSurvivors`: none outlives a parent that ended, and one that was killed is
  outlived only by a child forked an instant before), `SingleStatus`
  (`AtMostOneStatus`), `DrainedMeansDone` (`DrainedIsComplete`), and
  `ImplementsRace` (`KeepsRaceContract`).
* Assumptions: `ConstantsAssumption`, in particular `Phase1Limit >= NSlots`,
  which the parent establishes before the loop.
* The inductive invariant is `TypeOK /\ StatusInv /\ OwnInv /\ SearchInv`.  `OneOwner` alone
  is not inductive: that a newly forked strategy is not in a slot or in the pool
  needs `UnbornInv` (no strategy from `next` on has been forked), and that a slot
  may be overwritten needs `RefillInv` and `FillInv` (the current slot is empty
  while it is being filled).  `NoSurvivors` follows because every step that ends the
  loop kills what the tables hold and, by ownership, the tables hold every
  child.  `StatusInv` ties the guard to the places where the answer is written.
* `SearchInv` adds what has become of the strategies: an exit code is there once
  a child is a zombie (`CodeInv`), a child that is gone has left its code in
  `bestCode` (`DoneInv`), and `Theorem` is armed or answered only after a proof
  (`WordInv`).  The refinement follows from it and `StatusInv`: every step of the
  scheduler is a success, an answer, the end or a stutter of the race.

`SizeSchedulerProofs`, for any range and increment of sizes, any number of cores,
timers, signals and failing forks, from `ConstantsAssumption`:

* `TypeCorrect`, `LeavesNoOrphans` (`NoOrphans`), `PublishesSmallest`
  (`SmallestModel`), `KeepsModel` (`KillKeepsModel`), `ImplementsRace`
  (`KeepsRaceContract`).
* `SmallestModel` needs that no size is skipped although sizes are launched, end
  and are killed in any order: `LaunchInv` says that `next` has passed exactly the
  sizes that were launched, all of them on the grid of `start` and `increment`,
  `CodeInv` what a code says of a size, and `Searched` that below the retained
  size every child that is gone ended without a model, or was killed for a size
  that overflows.  `OutInv` and `DeathInv` say, for each place of the parent, what
  has been written and what a signal would write.

`GivenClauseProofs`, for every clause language (any bodies, any subsumption,
rewriting, deletion and inference relations), any inputs, both loops, any limits:

* `TypeCorrect` (`TypeOK`); `ClausesHaveOneHome`: every clause is on exactly one
  of the four lists; `IndexesInStep` (`IndexesFollowLists`): every index holds
  exactly the clauses its list calls for; `RetiredStaysGone` (`RetiredIsGone`);
  `KeepsInterreduced` (`Interreduced`); `ConflictsAreProofs` (`ConflictIsProof`).
* Assumptions: those of the module.  `BodyAssumption` says that only units
  delete literals and that the relations are relations on bodies;
  `LiteralAssumption` that being complementary is symmetric, that a unit which
  falls to unit deletion is complementary to what deletes it, and that the empty
  clause has nothing to rewrite or delete.  No law relates subsumption and
  rewriting, and neither is assumed to be transitive.  `IndexesInStep` and
  `RetiredStaysGone` also assume `InputsUnrestricted`: no clause of the *input* Usable list is a
  restricted denial.  That hypothesis is needed: such a clause is indexed for
  clashing and never taken out again (section 6).
* The inductive invariant adds to the index rules that the head of Limbo stays
  there, is active, and is not among the clauses to redo while its back
  operations run (`HeadInv`); otherwise a DISCOUNT clause could reach Sos while
  it is indexed.  It holds because `back_demod` looks only at clauses outside
  Limbo and because what a unit shortens is not a unit.  `ListInv` keeps
  restricted denials out of Sos and input clauses out of Limbo, and `GivenInv`
  says that in DISCOUNT the only selected clause in Limbo is the one being
  activated, so that `MoveToUsable` need not index it for clashing: `LimboEmpty`
  does.
* `ReduceInv` is the invariant behind `Interreduced`.  Between two given clauses
  active clauses do reduce each other: `Pending` says that one that does is still
  in Limbo, `LimboIsOrdered` that it does not reduce those behind it there, so that
  what it reduces is where back subsumption, `back_demod` and
  `back_unit_deletion` look, and `HeadDone` follows the head through its three
  back operations: what it still reduces is in `olds`.  For DISCOUNT, `ColdInv`
  says that a passive whose stamp is the current epoch is reduced by no active
  clause: this is what makes it right not to refresh it.
* Stating it for every `max_proofs` showed that `Interreduced` was too strong: if
  the search goes on after a proof, two complementary units both stay, since
  neither deletes a *unit* in back unit deletion; and in DISCOUNT a clause that
  was kept with a proof is given although it is subsumed.  The property excepts both;
  as long as there is no proof, `ConflictIsProof` says there are none.
* `ConflictInv`, for the latter: in DISCOUNT a pair of complementary units has the
  clause being activated in it, or its empty resolvent is on the way to
  `cl_process`.  For this `ConflictsResolve` is a hypothesis of the theorem: some
  inference rule that is switched on resolves two complementary units.  In
  Otter it is not used, since `Keep` looks the clause up.

`CheckpointProofs`, for any `checkpoint_keep`, any number of iterations,
processes and failing calls:

* `TypeCorrect` (`TypeOK`, which says that the buffer holds exactly
  `Auto_ckpt_count` names from `Auto_ckpt_head` on) and `CheckpointsAreWhole`
  (`WholeOrHidden`), from `BoundsAssumption` alone.
* The inductive invariant adds `FillInv`: while `write_checkpoint` runs, its
  `.tmp` directory exists, holds files of this turn only, and holds every
  mandatory file that comes before the next one.  It holds at the start because
  `mkdir` succeeds only if nothing was left there.  `RotationInv` says that the
  directory whose files are being unlinked is the oldest of a full buffer, and
  `GivenBehind` that no directory is named by more given clauses than its files
  have turns, which types a resumed search.  The buffer is treated by lemmas on
  wrapping slots: different distances from the head are different slots
  (`SlotsDiffer`), every slot is at some distance (`SlotsCover`), and the slot
  after a full buffer less its oldest is the oldest's (`SlotReused`).

The second half of `CheckpointProofs`, on top of that, for the same constants:

* `ExitsWritten` (`ExitMeansWritten`), `RequestsAnswered` (`RequestNotLost`),
  `RotatesExactly` (`RotationExact`).
* The inductive invariant `JInv` was checked by TLC with `checkpoint_keep` 1 and 2
  before it was proved.  `ExitInv` says that a process which exits after its first
  checkpoint has no other directory, so that the rename cannot meet one;
  `TurnInv` that in the Otter loop the number of given clauses names the turn,
  and `OtterInv` that a directory or a name of this turn is not there before its
  checkpoint is made: this is what fails in the other loops (section 6).  `BoundInv`, which holds in all loops and whatever
  failed, has every periodic directory on disk named in the buffer, or about to
  be, which bounds their number; `NewestInv` says slot by slot which names the
  buffer holds, oldest first, and that their directories are on disk.

`SelectionContractProofs`, for any lists of rules with positive parts, any
classes and orders, and whatever clauses come and go:

* `FairTurns` (`FairShare`): while a rule has a clause to give, every other rule
  of its list has at most its part of turns before that rule has one.
* `FairShare` is not inductive: the count of a rule in mid-turn has to be tied
  to `turn`, and a new turn has to start from 0.  The invariant adds
  `OnlyWaiting` (only rules with a clause wait), `CurrentServed` (the current rule
  waits for nobody), `TurnsCounted` (since any rule had a turn, the current one
  has had at most `count`), and `InBetween`: in going round, the rules served
  since *r* had a turn lie between *r* and the current one.  Lemma `FreshTurn`
  then says that a rule that comes to its turn has had none since *r* had one, for
  every *r* that waits.
* With `SelectsAsPromised`, which TLC checks, it carries over to
  `GivenSelection`, whose `FairShare` is that of the contract.

`CollectiveContractProofs`, for any clauses, conclusions, yields and chunks:

* `DrawnOnce`: what was drawn is not owed again, and is yielded by its given
  clause; `DropsNothing`: what is owed stays so until it is drawn.
* `OnceEach` is not inductive: that a clause to be given owes and has drawn
  nothing needs that every conclusion owed or drawn is of a clause in `past`, and
  that a yield holds conclusions of its given clause only.
* With `ImplementsContract` below, both carry over to `CollectiveFrontier`.

`CollectiveFrontierProofs`, for any searches (rules, yields, caches, chunks, orders
of drawing, probes, schedulers) and any number of clauses:

* `ImplementsContract` (`KeepsFrontierContract`): every step of the frontier is a
  step of `CollectiveContract` or changes nothing of it.  A turn draws some of the
  conclusions that are owed and takes just these away (`TurnEnds`), or fails and
  draws nothing (`TurnFails`); a given clause adds its yield with the clauses that
  are active then (`ActivateDoes`), or none (`NotActivatedDoes`); a refresh and a
  resumption leave it alone.
* `Invariant`: the inductive invariant `IInv` is `Typed`, `Recorded` (the history
  names each activated clause once, the initial ones first, and the active clauses
  are those in it that were not deactivated), `Fresh` (a clause that waits is not in
  the history), `Queued` (each descriptor has something to do, and points at its
  clause in the history) and `heap \in HeapOf(queue)`.  The contract's step is not
  provable without them: that a clause is given once needs `Fresh`; that its
  descriptor stands for its partners needs the ids of the history to be distinct
  and `clashable` to say what it should; that conclusions of two units, or of two
  descriptors, are never the same needs `Queued`; and that a descriptor in the middle
  of a unit knows how far it is (`Resting`) is what makes a turn draw each once.
* What a descriptor stands for is `Owes(...) \ Drawn(b)`, a function of the history
  and of `deactivated`.  Lemma `OwesLater`: activations and deactivations after the
  epoch of a descriptor do not change it; `OwesAll`: a new descriptor stands for all
  its clause yields; `WorkExact`: a unit of work draws conclusions it stood for, at
  most the budget, and stands for the others afterwards.
* The recursive functions of the module (the scan of a unit, the sifts of the heap,
  the heap that a resumption rebuilds) are iterations of one step.  Their values are
  reached by an induction of this module's own: `NatLess` is well founded, so a set
  of numbers that holds 0 and every successor is all of `Nat` (`Induction`), an
  iteration exists (`IterationExists`), and what its step keeps holds of its end.
  So `ScanExact` says that the bounded buffer holds the least keys above the last one
  drawn, in order, and that `least` is the least key that left it.
* Assumption: `SearchesAssumption`, the ranges of the options (the interval of fair
  turns is at least 1, `search.c:1184`) and of the yields.

`CollectiveOrderProofs`, on top of it, for the same constants:

* `FailsOnlyThen` (`FatalOnlyThen`), `PriorityIsExact` (`PriorityExact`),
  `NobodyStarves` (`NoStarvation`).
* `PInv` says of each descriptor that it is `Placed`.  `Midway`: if it is in the middle of
  a unit, its hash is of that unit, a prefix of it or, in order of weight, the whole; of
  which unit, depends on its rules and its cursor, and is not the one a turn takes it for
  when a probe stopped at a partner of paramodulation.  That unit is made again in each turn from the history and
  from who was active at the descriptor's epoch, and `PlacedOn` shows that activations
  and retirements after that epoch leave it as it was: so the replay meets the hash, and
  the exception is the fatal error that `FatalOnlyThen` allows.  `Keyed`: the next key of
  a partial descriptor is the least one above the last that it drew, and the number
  drawn is the number not above it; without it the replay cannot be shown to count
  right.  `ProbeAhead`: only the first descriptor is a probe, and then there is no
  credit.  `Fair`: `sinceFair` is below the interval, which also makes a checkpoint
  that the search writes one that it can read.
* `QInv` says that the heap holds the partial descriptors, in order.  A turn takes its
  descriptor out of the heap before its key changes and puts it in after: lemmas
  `RaisedOrders` and `LoweredOrders` follow the one place where the order may be
  broken, up towards the root or down towards a leaf.  That rotating the queue, or putting a
  descriptor at its head, leaves the heap in order is `SameOrder`: the order depends on
  the keys alone, and `PInv` gives each descriptor of the heap its key.
* `NobodyStarves` needs no more than `PInv`.  `AheadIs` counts the descriptors ahead;
  a turn of another descriptor takes one from them, or is a priority turn and uses up
  one of `interval - 1`, or is a probe, which pays with the credit (`WaitsLess`); an
  activation puts a descriptor behind, or a probe before and spends the credit
  (`EnqueuedWaits`).

Model-checked only: liveness (the prover has no ENABLED), the refinement of
`SelectionContract`, and `Saturated`, which rests on laws
between the clause relations (what is subsumed stays so when both are rewritten)
that a model with any relations does not have.  Terms and trees are
recursive, so the prover reaches neither
`Unification`, `Inference`, `AvlTree` and `GivenSelection` nor `Propagation`
and `Clausification`, whose properties are about what recursion over terms and
formulas computes.

## 6. Disagreements met

The "findings" of `PROJECT.json` quote the code and what it disagrees with.
Two have a run that ends in a counterexample:

1. `WinnerIsPublished`: a child keeps writing to the buffer of the slot it was
   forked in; after a resume in another slot the parent relays the wrong buffer.
2. `ProvedMeansTheorem`: a variable that is bound again is renamed to the first of
   `x0`, `x1`, ... that was not met before, wherever else that name is bound or, with
   `prolog_style_variables` or in TPTP syntax, free; what it captures is lost, and
   problems with models are reported as theorems.

The others were met while the code was read for its model, most of them confirmed by
running the program, and the properties are stated so as to leave them room:

* `-cores`: the status guard is claimed before the line is written
  (`prover9.c:901`); the progress since the last resume is always zero when the
  score is computed (`prover9.c:1109`).
* The search: with `search_loop=discount` and `restrict_denials` a passive unit
  and a contradicting restricted denial both reach Usable and the search fails;
  the inputs `R(a)` and `-R(a)` show it (`search.c:5137`).  An input restricted
  denial in Usable stays in the clashable index after it is disabled
  (`search.c:4306`).
* Checkpoints: with `search_loop=discount` or the collective frontier two
  iterations can have the same number of given clauses and so the same directory
  name; the second checkpoint cannot be renamed, is recorded all the same, and
  rotation then deletes the first (`search.c:11045`; `NewestKept` fails).  This is
  why `RotationExact`, `ExitMeansWritten` and `RequestNotLost` speak of
  `search_loop=otter`.
* Clausification: `distribute` takes a disjunction of one formula for a binary one
  and reads a literal's missing kids (`cnf.c:697`; the state `crashed` of the run
  `clausify`); `fof-prover9` turns off the check that Skolem symbols are new, so an
  input with a constant `c1` and an existential formula can be "proved"
  (`foffer.c:206`; no problem of the run has such a symbol).
* mace4: `search_iterative` overwrites the code that says a model was found whenever
  a later subtree has to be searched, so a search with models can end as exhausted
  (`msearch.c:1008`; `ModelsSaid` is the direction that holds); a resumed search forgets that it reached `max_models`
  (`msearch.c:1138`); a checkpoint between sizes after the last one makes the
  last size be searched again (`msearch.c:1604`).
* Inference: at its deadline `clash_recurse` leaves bindings and contexts as they
  are (`clash.c:396`; `ContextsAreClean` excludes an expired clash by name);
  answers of a factor or of a resolvent with x=x are instantiated after the
  substitution is undone (`resolve.c:486`, `760`); negative hyperresolution does
  not flip its given satellite (`resolve.c:205`).
* Selection: when every clause of Sos is high the estimate of `sos_limit` is 0/0
  and every new clause that matches no hint is deleted (`giv_select.c:1011`); the
  sum of parts overflows unguarded (`giv_select.c:429`);
  with `passive_store=compressed` a clause is inserted into the selectors with its
  literals gone and removed with its literals restored, so that a rule about
  literals gives another answer and the removal is a fatal error
  (`search.c:5583`; the settings of `given_selection` have no such rule);
  `rule_contains_semantics` does not look under a negation
  (`clause_eval.c:397`); the mark `subsumer`, on which a rule can depend, is not
  saved in a checkpoint (`search.c:9579`).
* Collective frontier: a hint probe may leave a partner of paramodulation half
  done, whose cursor the hyper rule then takes for its own, which is a fatal error
  (`search.c:6197`); a cache full of clauses that no rule selects is another
  (`search.c:6554`; `FatalOnlyThen` says that there is no third); a
  conclusion drawn after its parent retired loses the answers of that parent
  (`search.c:4207`); priority turns restore the credit for a probe too
  (`search.c:928`).

Smaller ones, stated by the way a property is written: a signal between `fork`
and `track_child` spares the new child (`DeathSparesOnlyNewborn`);
`DisarmDeath` leaves a moment without an armed line; if every `fork` fails the
parent answers Timeout, not falling through to an ordinary run; `mace4_exit`
sets its guard before it prints (excluded by name in `KillKeepsModel`); mace4
answers GaveUp when no child could be forked at all, where a comment says it
will try later.  About checkpoints, `Checkpoint-Format-Spec.txt` says that the
handler "simply sets a volatile sig_atomic_t flag" (791), where the second signal
of a process ends it (`SigUsr`); that a stale `.tmp` directory is removed (768),
where only an empty one is (`CanMake`); that the flag is checked after
`make_inferences` and before `limbo_process` (781), where it is checked at the top
of the loop; and that the minimum of `checkpoint_minutes` is 15 (820), where it is
1.

## 7. What is not modelled, and why

Listed with its reason in `PROJECT.json`.  Parsing, printing, options,
justifications and the filters, the largest part of the lines,
are input and output or recursive data without shared state: a model of
them would restate them.  Preprocessing (predicate elimination, actions, hints)
and the ranking of strategies choose among what the models leave open.

Of the components that are modelled in part:

* inference: `check_instances`, AC
  unification and its backtracking, basic paramodulation, matching and variants,
  `production` mode, the fixed stacks of 500 and 1000 frames;
* clausification: formulas that are hints or demodulators, several goals, limits of
  time, attributes, printing;
* indexes: those that only filter candidates (FPA, discrimination trees), and the
  limits on the number of candidates;
* mace4: built-in arithmetic, the front end, printing;
* collective frontier: `para_restr_beg`, `para_restr_end` and `para_lit_limit`, older
  formats of checkpoints, the pages and tables that hold the history, colliding
  hashes, attributes;
* selection: compound rules, the cold store's spill file;
* the search: hints, CAC redundancy, `Simplifier_epoch` reaching `UINT_MAX`, after
  which no passive clause is refreshed.

The remaining components of section 1 are planned.
