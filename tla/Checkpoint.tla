----------------------------- MODULE Checkpoint -----------------------------
(***************************************************************************)
(* Checkpoints of a prover9 search: when the main loop writes one, how     *)
(* write_checkpoint builds the directory, how automatic checkpoints are    *)
(* rotated, what the SIGUSR1 and SIGUSR2 handler does meanwhile, and the   *)
(* resumption of an ended search from a directory.                         *)
(*                                                                         *)
(* The state of the search is its turn, the number of iterations of the    *)
(* main loop behind it, and Stats.given: an iteration of the Otter loop    *)
(* selects one given clause, one of the DISCOUNT loop may discard the      *)
(* clause it selected, and one with the collective frontier may expand a   *)
(* batch instead, so that two turns can have one number of given clauses.  *)
(* A file is the turn whose state was written in it.                       *)
(***************************************************************************)
EXTENDS Integers, Sequences, FiniteSets

CONSTANTS
    Keep,       \* checkpoint_keep
    MaxTurn,    \* bound on the turns of a search
    MaxPid,     \* bound on the processes: one search and its resumptions
    MaxFaults   \* bound on the files and directories that cannot be created

ASSUME BoundsAssumption ==
    /\ Keep \in Nat \ {0}
    /\ MaxTurn \in Nat
    /\ MaxPid \in Nat \ {0}
    /\ MaxFaults \in Nat

Turn == 0 .. MaxTurn
Pid == 1 .. MaxPid

(***************************************************************************)
(* The files in the order they are written. "frontier" is                  *)
(* collective_frontier.bin, "data" is clause_data.txt, and "lists" stands  *)
(* for the clause lists, the symbols, the indexes and the other files      *)
(* whose fopen failure write_checkpoint passes over.                       *)
(***************************************************************************)
File == {"metadata", "frontier", "data", "lists"}

(***************************************************************************)
(* prover9_<pid>_ckpt_<given>, and the same with .tmp.                     *)
(***************************************************************************)
Directory == Pid \X Turn \X {"final", "tmp"}

Pc == {"loop", "auto", "mkdir", "fill", "record", "rotate", "recorded",
       "ask", "answered", "work"}

VARIABLES
    loop,       \* search_loop, inference_frontier
    exits,      \* checkpoint_exit
    pid,        \* getpid()
    turn,       \* the iterations the state of the search has behind it
    given,      \* Stats.given
    status,     \* "running", or how the last process ended
    inHandler,  \* in_handler of prover_sig_handler
    requested,  \* Checkpoint_requested
    pc,         \* where the main loop is
    automatic,  \* the checkpoint being written is a periodic one
    file,       \* the file to write next, or "rename"
    slots,      \* Auto_ckpt_dirs, by the number of given clauses; -1 is NULL
    head,       \* Auto_ckpt_head
    count,      \* Auto_ckpt_count
    dirs,       \* the directories that exist
    holds,      \* their files: <<directory, file, turn>>
    faults,     \* the failures so far
    autos,      \* history: the periodic checkpoints finished by this process
    asked,      \* history: the directories finished for a SIGUSR2
    condemned   \* history: the directories rotation has begun to delete

search == <<turn, given>>
process == <<loop, exits, pid>>
signals == <<inHandler, requested>>
ring == <<slots, head, count>>
disk == <<dirs, holds>>
history == <<autos, asked, condemned>>
vars == <<search, process, status, signals, pc, automatic, file, ring, disk,
          faults, history>>

Final == <<pid, given, "final">>
Tmp == <<pid, given, "tmp">>

Following(f) ==
    CASE f = "metadata" -> IF loop = "collective" THEN "frontier" ELSE "data"
      [] f = "frontier" -> "data"
      [] f = "data"     -> "lists"
      [] f = "lists"    -> "rename"

Contents(d) == {h \in holds : h[1] = d}
Has(d, f) == \E t \in Turn : <<d, f, t>> \in holds

(***************************************************************************)
(* The files a checkpoint of this search cannot be without: metadata.txt   *)
(* and clause_data.txt, and the frontier when there is one.                *)
(***************************************************************************)
Mandatory == IF loop = "collective" THEN {"metadata", "frontier", "data"}
                                    ELSE {"metadata", "data"}

Init ==
    /\ loop \in {"otter", "discount", "collective"}
    /\ exits \in BOOLEAN
    /\ pid = 1
    /\ turn = 0 /\ given = 0
    /\ status = "running"
    /\ inHandler = FALSE /\ requested = FALSE
    /\ pc = "loop" /\ automatic = FALSE /\ file = "rename"
    /\ slots = [i \in 0 .. Keep - 1 |-> -1] /\ head = 0 /\ count = 0
    /\ dirs = {} /\ holds = {}
    /\ faults = 0
    /\ autos = << >> /\ asked = {} /\ condemned = {}

Running == status = "running"

(***************************************************************************)
(* The memory of a process that has not begun to search.                   *)
(***************************************************************************)
memory == <<search, signals, pc, automatic, file, ring, autos>>

Fresh ==
    /\ turn' = 0 /\ given' = 0
    /\ inHandler' = FALSE /\ requested' = FALSE
    /\ pc' = "loop" /\ automatic' = FALSE /\ file' = "rename"
    /\ slots' = [i \in 0 .. Keep - 1 |-> -1] /\ head' = 0 /\ count' = 0
    /\ autos' = << >>

\* The process ends: its memory is lost and its directories stay.
End(how) ==
    /\ status' = how
    /\ Fresh
    /\ UNCHANGED <<process, disk, asked, condemned>>

-----------------------------------------------------------------------------
(***************************************************************************)
(* The main loop.                                                          *)
(***************************************************************************)
At(here) == Running /\ pc = here
Goto(there) == pc' = there

\* Nothing is left to infer, or a limit of the search is reached.
SearchEnds == At("loop") /\ End("other") /\ UNCHANGED faults

\* checkpoint_minutes have passed, or have not.
PeriodicDue ==
    /\ At("loop")
    /\ Goto("mkdir") /\ automatic' = TRUE
    /\ UNCHANGED <<search, process, status, signals, file, ring, disk, faults,
                   history>>

NotDue ==
    /\ At("loop")
    /\ Goto("ask")
    /\ UNCHANGED <<search, process, status, signals, automatic, file, ring,
                   disk, faults, history>>

\* Bug: the request is cleared when it is seen.
CheckRequestClears ==
    /\ At("ask")
    /\ requested' = FALSE
    /\ IF requested THEN Goto("mkdir") /\ automatic' = FALSE
                    ELSE Goto("work") /\ UNCHANGED automatic
    /\ UNCHANGED <<search, process, status, inHandler, file, ring, disk, faults,
                   history>>

CheckRequest ==
    /\ At("ask")
    /\ IF requested THEN Goto("mkdir") /\ automatic' = FALSE
                    ELSE Goto("work") /\ UNCHANGED automatic
    /\ UNCHANGED <<search, process, status, signals, file, ring, disk, faults,
                   history>>

\* Bug: it exits before it writes.
CheckpointExitEarly ==
    /\ Running /\ pc \in {"mkdir", "recorded", "answered"} /\ exits
    /\ End("checkpoint")
    /\ UNCHANGED faults

\* done_with_search(CHECKPOINT_EXIT).
CheckpointExit ==
    /\ Running /\ pc \in {"recorded", "answered"} /\ exits
    /\ End("checkpoint")
    /\ UNCHANGED faults

AfterPeriodic ==
    /\ At("recorded") /\ ~exits
    /\ Goto("ask")
    /\ UNCHANGED <<search, process, status, signals, automatic, file, ring,
                   disk, faults, history>>

ClearRequest ==
    /\ At("answered") /\ ~exits
    /\ requested' = FALSE
    /\ Goto("work")
    /\ UNCHANGED <<search, process, status, inHandler, automatic, file, ring,
                   disk, faults, history>>

\* An iteration that selects a given clause, and one that does not.
Repeats == loop # "otter"

Iterate ==
    /\ At("work") /\ turn < MaxTurn
    /\ turn' = turn + 1
    /\ \/ given' = given + 1
       \/ Repeats /\ given' = given
    /\ Goto("loop")
    /\ UNCHANGED <<process, status, signals, automatic, file, ring, disk,
                   faults, history>>

\* A proof or a limit ends the search in the middle of an iteration.
EndsInIteration == At("work") /\ End("other") /\ UNCHANGED faults

-----------------------------------------------------------------------------
(***************************************************************************)
(* write_checkpoint.                                                       *)
(***************************************************************************)
Fault == faults < MaxFaults /\ faults' = faults + 1

\* To the caller, which is not told whether a directory was written.
Return == Goto(IF automatic THEN "record" ELSE "answered")

Abandon ==
    /\ Return
    /\ UNCHANGED <<search, process, status, signals, automatic, file, ring,
                   disk, history>>

\* The ancestor store or the passive store cannot be synchronized.
SyncFails == At("mkdir") /\ Fault /\ End("fatal")

\* Bug: the result of mkdir is not looked at.
CanMakeAnyway == TRUE

\* rmdir removes a stale directory only when it is empty.
CanMake == Tmp \notin dirs \/ Contents(Tmp) = {}

MakeDirectory ==
    /\ At("mkdir") /\ CanMake
    /\ dirs' = dirs \union {Tmp}
    /\ Goto("fill") /\ file' = "metadata"
    /\ UNCHANGED <<search, process, status, signals, automatic, ring, holds,
                   faults, history>>

CannotMake ==
    /\ At("mkdir") /\ ~CanMake
    /\ Abandon
    /\ UNCHANGED faults

MakeFails ==
    /\ At("mkdir") /\ CanMake /\ Fault
    /\ dirs' = dirs \ {Tmp}
    /\ Return
    /\ UNCHANGED <<search, process, status, signals, automatic, file, ring,
                   holds, history>>

WriteFile ==
    /\ At("fill") /\ file \in File
    /\ holds' = holds \union {<<Tmp, file, turn>>}
    /\ file' = Following(file)
    /\ UNCHANGED <<search, process, status, signals, pc, automatic, ring, dirs,
                   faults, history>>

\* Without metadata.txt or clause_data.txt it gives up, without the frontier
\* it is a fatal error, and the other files are left out.
WriteFails ==
    /\ At("fill") /\ file \in File /\ Fault
    /\ \/ file \in {"metadata", "data"} /\ Abandon
       \/ file = "frontier" /\ End("fatal")
       \/ /\ file = "lists" /\ file' = "rename"
          /\ UNCHANGED <<search, process, status, signals, pc, automatic, ring,
                         disk, history>>

\* rename replaces an empty directory and no other.
CanRename == Contents(Final) = {}

Rename ==
    /\ At("fill") /\ file = "rename" /\ CanRename
    /\ dirs' = (dirs \ {Tmp}) \union {Final}
    /\ holds' = (holds \ Contents(Tmp))
                  \union {<<Final, h[2], h[3]>> : h \in Contents(Tmp)}
    /\ Return
    /\ IF automatic
       THEN autos' = Append(autos, given) /\ UNCHANGED asked
       ELSE asked' = asked \union {Final} /\ UNCHANGED autos
    /\ condemned' = condemned \ {Final}
    /\ UNCHANGED <<search, process, status, signals, automatic, file, ring,
                   faults>>

CannotRename ==
    /\ At("fill") /\ file = "rename"
    /\ \/ ~CanRename /\ UNCHANGED faults
       \/ Fault
    /\ Abandon

-----------------------------------------------------------------------------
(***************************************************************************)
(* record_auto_checkpoint: a circular buffer of Keep names. The buffer is  *)
(* allocated at the first call; checkpoint_keep does not change.           *)
(***************************************************************************)

Full == count = Keep

\* Bug: the newest goes instead of the oldest.
VictimNewest == <<pid, slots[(head + count - 1) % Keep], "final">>

Victim == <<pid, slots[head], "final">>

\* The slot after the c names that begin at slot h.
NextSlot(h, c) == (h + c) % Keep

Enter(kept, h, c) ==
    /\ slots' = [kept EXCEPT ![NextSlot(h, c)] = given]
    /\ head' = h
    /\ count' = c + 1
    /\ Goto("recorded")
    /\ UNCHANGED <<search, process, status, signals, automatic, file, faults,
                   history>>

RecordInRoom ==
    /\ At("record") /\ ~Full
    /\ Enter(slots, head, count)
    /\ UNCHANGED disk

\* remove_checkpoint_dir unlinks one file after another, in no given order.
BeginRotation ==
    /\ At("record") /\ Full
    /\ Goto("rotate")
    /\ condemned' = condemned \union {Victim}
    /\ UNCHANGED <<search, process, status, signals, automatic, file, ring,
                   disk, faults, autos, asked>>

RemoveFile ==
    /\ At("rotate")
    /\ \E h \in Contents(Victim) : holds' = holds \ {h}
    /\ UNCHANGED <<search, process, status, signals, pc, automatic, file, ring,
                   dirs, faults, history>>

EndRotation ==
    /\ At("rotate") /\ Contents(Victim) = {}
    /\ dirs' = dirs \ {Victim} /\ UNCHANGED holds
    /\ Enter([slots EXCEPT ![head] = -1], (head + 1) % Keep, count - 1)

-----------------------------------------------------------------------------
(***************************************************************************)
(* Signals, the end of the process from outside, and resumption.           *)
(***************************************************************************)

\* in_handler is set by the first signal and by nothing reset: the second ends
\* the process.
SigUsr(requests) ==
    /\ Running
    /\ IF inHandler
       THEN End("handler")
       ELSE /\ inHandler' = TRUE
            /\ requested' = (requested \/ requests)
            /\ UNCHANGED <<search, process, status, pc, automatic, file, ring,
                           disk, history>>
    /\ UNCHANGED faults

SigUsr1 == SigUsr(FALSE)
SigUsr2 == SigUsr(TRUE)

\* SIGKILL, SIGINT, the alarm of max_seconds, a crash.
Killed == Running /\ End("killed") /\ UNCHANGED faults

(***************************************************************************)
(* prover9 -r d: load_checkpoint_into_loop restores the turn d was written *)
(* at and goes straight to make_inferences. Of the files that may have     *)
(* been passed over, a clause list that is not there is read as empty,     *)
(* saved_input.txt is needed when there is no other input, and with a      *)
(* frontier the clauses of the activation history are needed.              *)
(***************************************************************************)
Loadable(d) ==
    /\ \A f \in Mandatory : Has(d, f)
    /\ loop = "collective" /\ d[2] > 0 => Has(d, "lists")

Load(d) ==
    /\ status' = "running"
    /\ turn' \in {t \in Turn : <<d, "metadata", t>> \in holds} /\ given' = d[2]
    /\ Goto("work")
    /\ UNCHANGED <<signals, automatic, file, ring, autos>>

\* Of the directories of earlier processes only d is looked at again, since a
\* process writes and deletes names with its own pid: the others leave the
\* model here.
Resume ==
    /\ ~Running /\ pid < MaxPid
    /\ pid' = pid + 1
    /\ \E d \in dirs :
          /\ d[3] = "final"
          /\ \/ Loadable(d) /\ Load(d)
             \/ ~(Loadable(d) /\ Has(d, "lists"))
                  /\ status' = "fatal" /\ UNCHANGED memory
          /\ dirs' = {d} /\ holds' = Contents(d)
          /\ asked' = asked \intersect {d}
          /\ condemned' = condemned \intersect {d}
    /\ UNCHANGED <<loop, exits, faults>>

\* The process that ended stays ended when nobody resumes it.
Over == ~Running /\ UNCHANGED vars

Loop ==
    \/ SearchEnds \/ PeriodicDue \/ NotDue \/ CheckRequest
    \/ CheckpointExit \/ AfterPeriodic \/ ClearRequest \/ Iterate \/ EndsInIteration

WriteCheckpoint ==
    \/ SyncFails \/ MakeDirectory \/ CannotMake \/ MakeFails
    \/ WriteFile \/ WriteFails \/ Rename \/ CannotRename

RecordAutoCheckpoint ==
    \/ RecordInRoom \/ BeginRotation \/ RemoveFile \/ EndRotation

MainThread == Loop \/ WriteCheckpoint \/ RecordAutoCheckpoint

Next == MainThread \/ SigUsr1 \/ SigUsr2 \/ Killed \/ Resume \/ Over

Spec == Init /\ [][Next]_vars

-----------------------------------------------------------------------------
(***************************************************************************)
(* Properties.                                                             *)
(***************************************************************************)

\* The circular buffer holds count names from head on and NULL elsewhere.
RingOK ==
    \A i \in 0 .. Keep - 1 : slots[NextSlot(head, i)] # -1 <=> i < count

\* The variables have their types, no more given clauses have been selected
\* than turns taken, and the circular buffer of automatic checkpoints has no
\* hole and no leftover, as record_auto_checkpoint assumes when it reads the
\* oldest name.
TypeOK ==
    /\ RingOK
    /\ loop \in {"otter", "discount", "collective"} /\ exits \in BOOLEAN
    /\ pid \in Pid /\ turn \in Turn /\ given \in 0 .. turn
    /\ status \in {"running", "checkpoint", "handler", "killed", "fatal",
                   "other"}
    /\ inHandler \in BOOLEAN /\ requested \in BOOLEAN
    /\ pc \in Pc /\ automatic \in BOOLEAN /\ file \in File \union {"rename"}
    /\ slots \in [0 .. Keep - 1 -> Turn \union {-1}]
    /\ head \in 0 .. Keep - 1 /\ count \in 0 .. Keep
    /\ dirs \subseteq Directory /\ holds \subseteq dirs \X File \X Turn
    /\ faults \in 0 .. MaxFaults
    /\ autos \in Seq(Turn)
    /\ asked \subseteq Directory /\ condemned \subseteq Directory

\* A reader of a directory without .tmp finds metadata.txt, clause_data.txt and
\* the frontier in it, all of one moment of the search, unless rotation has
\* begun to delete it: whatever step of write_checkpoint fails or is cut short,
\* and whatever an earlier attempt left behind.
WholeOrHidden ==
    \A d \in dirs \ condemned :
       d[3] = "final" => \E t \in Turn :
          /\ \A f \in Mandatory : <<d, f, t>> \in holds
          /\ \A h \in Contents(d) : h[3] = t

\* Once rotation is over at most checkpoint_keep of the periodic checkpoints
\* of a process are on disk, whatever failed.
Finished(g) == \E i \in 1 .. Len(autos) : autos[i] = g
PeriodicDirs == {d \in dirs : d[1] = pid /\ d[3] = "final" /\ Finished(d[2])}
AutoBounded == At("ask") => Cardinality(PeriodicDirs) <= Keep

\* The last checkpoint_keep periodic checkpoints are on disk.
Latest == {autos[i] : i \in {j \in 1 .. Len(autos) : j > Len(autos) - Keep}}
NewestKept ==
    At("ask") => \A g \in Latest : <<pid, g, "final">> \in dirs \ condemned

\* Rotation keeps what it should, no more and no less: at most checkpoint_keep of the
\* periodic checkpoints, and, when every turn of the search has its own number of
\* given clauses and nothing failed, the newest ones and every directory that
\* SIGUSR2 asked for.
RotationExact ==
    /\ AutoBounded
    /\ loop = "otter" /\ faults = 0 => NewestKept /\ asked \intersect condemned = {}

\* A directory of this turn is on disk.
Answered == Final \in dirs \ condemned /\ \E h \in holds : h[1] = Final /\ h[3] = turn

\* Exit code 107 means that a checkpoint of the last turn of the search is on
\* disk, if nothing failed, in every search loop: the process has written no
\* other of the same name.
ExitMeansWritten ==
    [][Running /\ status' = "checkpoint" /\ faults = 0 => Answered]_vars

\* A SIGUSR2 that the handler accepted is not forgotten before a directory of
\* that turn is on disk, whether the request or the period wrote it, when
\* every turn has its own number of given clauses and nothing failed.
RequestNotLost ==
    [][requested /\ ~requested' /\ status' = "running"
         /\ loop = "otter" /\ faults = 0 => Answered]_vars
=============================================================================
