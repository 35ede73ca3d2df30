---------------------------- MODULE RaceContract ----------------------------
(***************************************************************************)
(* What a scheduler that races several searches promises to whoever reads  *)
(* its standard output: at most one status line is ever written, and a     *)
(* line that claims success is written only if some search succeeded.      *)
(* The -cores schedulers of prover9 (CoresScheduler) and of mace4          *)
(* (SizeScheduler) implement it.                                           *)
(***************************************************************************)
EXTENDS Sequences

CONSTANTS
  Words,      \* the status words a run may print
  Successes   \* those that claim a proof or a model

VARIABLES
  succeeded,  \* has some search found a proof or a model?
  answers,    \* the status lines on standard output
  over        \* has the scheduler process ended?

vars == <<succeeded, answers, over>>

Init == succeeded = FALSE /\ answers = <<>> /\ over = FALSE

\* A search succeeds; it may be one that outlives the scheduler.
Succeed == ~succeeded /\ succeeded' = TRUE /\ UNCHANGED <<answers, over>>

\* The scheduler writes its status line, and may end in the same step.
Answer(w) ==
  /\ ~over /\ answers = <<>>
  /\ w \in Successes => succeeded
  /\ answers' = <<w>>
  /\ over' \in BOOLEAN
  /\ UNCHANGED succeeded

Finish == ~over /\ over' = TRUE /\ UNCHANGED <<succeeded, answers>>

Next == Succeed \/ Finish \/ \E w \in Words : Answer(w)

Spec == Init /\ [][Next]_vars
=============================================================================
