-------------------------- MODULE CheckpointProofs --------------------------
(***************************************************************************)
(* Theorems about checkpoints, for any checkpoint_keep, any length of the  *)
(* search, any number of resumptions and any number of failures.           *)
(***************************************************************************)
EXTENDS Checkpoint, FiniteSetTheorems, TLAPS

ProcessTypes ==
    /\ loop \in {"otter", "discount", "collective"} /\ exits \in BOOLEAN
    /\ pid \in Pid /\ turn \in Turn /\ given \in 0 .. turn
    /\ status \in {"running", "checkpoint", "handler", "killed", "fatal",
                   "other"}
    /\ inHandler \in BOOLEAN /\ requested \in BOOLEAN

LoopTypes ==
    /\ pc \in Pc /\ automatic \in BOOLEAN /\ file \in File \union {"rename"}

RingTypes ==
    /\ slots \in [0 .. Keep - 1 -> Turn \union {-1}]
    /\ head \in 0 .. Keep - 1 /\ count \in 0 .. Keep

DiskTypes ==
    /\ dirs \subseteq Directory /\ holds \subseteq dirs \X File \X Turn
    /\ asked \subseteq Directory /\ condemned \subseteq Directory

HistoryTypes == faults \in 0 .. MaxFaults /\ autos \in Seq(Turn)

(***************************************************************************)
(* The name of a directory never has more given clauses than its files     *)
(* have turns behind them.                                                 *)
(***************************************************************************)
GivenBehind == \A h \in holds : h[1][2] <= h[3]

\* A process that has ended is nowhere in the loop.
EndedIsIdle == ~Running => pc = "loop"

\* The directory being deleted is the oldest of a full buffer.
RotationInv == pc = "rotate" => count = Keep /\ Victim \in condemned

(***************************************************************************)
(* The directory being filled holds files of this turn only, and all the   *)
(* mandatory ones that come before the next.                               *)
(***************************************************************************)
FillInv ==
    pc = "fill" =>
       /\ Tmp \in dirs
       /\ \A h \in holds : h[1] = Tmp => h[3] = turn
       /\ file # "metadata" => <<Tmp, "metadata", turn>> \in holds
       /\ file \in {"lists", "rename"} => <<Tmp, "data", turn>> \in holds
       /\ loop = "collective" /\ file \in {"data", "lists", "rename"}
            => <<Tmp, "frontier", turn>> \in holds

(***************************************************************************)
(* The inductive invariant.                                                *)
(***************************************************************************)
TypeInv == ProcessTypes /\ LoopTypes /\ RingTypes /\ DiskTypes /\ HistoryTypes
PlaceInv == GivenBehind /\ EndedIsIdle /\ RotationInv
IInv == TypeInv /\ RingOK /\ PlaceInv /\ FillInv /\ WholeOrHidden

-----------------------------------------------------------------------------
(* The slots of the circular buffer.                                       *)

\* A slot counted from the head is found by wrapping around once.
LEMMA Wrap ==
  ASSUME NEW h \in 0 .. Keep - 1, NEW c \in 0 .. Keep
  PROVE  NextSlot(h, c) = IF h + c < Keep THEN h + c ELSE h + c - Keep
<1>1. \A a \in 0 .. Keep - 1 : a % Keep = a BY BoundsAssumption, SMT
<1>2. \A a \in 0 .. Keep - 1 : (a + Keep) % Keep = a BY BoundsAssumption, SMT
<1>3. CASE h + c < Keep BY <1>1, <1>3, BoundsAssumption DEF NextSlot
<1>4. CASE h + c >= Keep
  <2>1. h + c - Keep \in 0 .. Keep - 1 BY <1>4, BoundsAssumption
  <2>2. ((h + c - Keep) + Keep) % Keep = h + c - Keep BY <1>2, <2>1
  <2>3. (h + c - Keep) + Keep = h + c BY BoundsAssumption
  <2> QED BY <1>4, <2>2, <2>3, BoundsAssumption DEF NextSlot
<1> QED BY <1>3, <1>4, BoundsAssumption

LEMMA SlotType ==
  ASSUME NEW h \in 0 .. Keep - 1, NEW c \in 0 .. Keep
  PROVE  NextSlot(h, c) \in 0 .. Keep - 1
BY Wrap, BoundsAssumption

\* Different distances from the head are different slots.
LEMMA SlotsDiffer ==
  ASSUME NEW h \in 0 .. Keep - 1,
         NEW i \in 0 .. Keep - 1, NEW j \in 0 .. Keep - 1, i # j
  PROVE  NextSlot(h, i) # NextSlot(h, j)
<1>1. i \in 0 .. Keep /\ j \in 0 .. Keep BY BoundsAssumption
<1>2. NextSlot(h, i) = IF h + i < Keep THEN h + i ELSE h + i - Keep BY <1>1, Wrap
<1>3. NextSlot(h, j) = IF h + j < Keep THEN h + j ELSE h + j - Keep BY <1>1, Wrap
<1> QED BY <1>2, <1>3, BoundsAssumption

\* Every slot is at some distance from the head.
LEMMA SlotsCover ==
  ASSUME NEW h \in 0 .. Keep - 1, NEW s \in 0 .. Keep - 1
  PROVE  \E i \in 0 .. Keep - 1 : NextSlot(h, i) = s
<1> DEFINE i == IF s >= h THEN s - h ELSE s - h + Keep
<1>1. i \in 0 .. Keep - 1 BY BoundsAssumption
<1>2. i \in 0 .. Keep BY <1>1, BoundsAssumption
<1>3. NextSlot(h, i) = IF h + i < Keep THEN h + i ELSE h + i - Keep BY <1>2, Wrap
<1>4. NextSlot(h, i) = s BY <1>3, BoundsAssumption
<1> QED BY <1>1, <1>4

\* The slot after the last of a full buffer, less its oldest name, is the
\* one that name was in.
LEMMA SlotReused ==
  ASSUME NEW h \in 0 .. Keep - 1
  PROVE  /\ (h + 1) % Keep \in 0 .. Keep - 1
         /\ NextSlot((h + 1) % Keep, Keep - 1) = h
<1>1. 1 \in 0 .. Keep /\ Keep - 1 \in 0 .. Keep BY BoundsAssumption
<1>2. (h + 1) % Keep = IF h + 1 < Keep THEN h + 1 ELSE h + 1 - Keep
  BY <1>1, Wrap DEF NextSlot
<1>3. (h + 1) % Keep \in 0 .. Keep - 1 BY <1>2, BoundsAssumption
<1>4. NextSlot((h + 1) % Keep, Keep - 1)
        = IF ((h + 1) % Keep) + (Keep - 1) < Keep
          THEN ((h + 1) % Keep) + (Keep - 1)
          ELSE ((h + 1) % Keep) + (Keep - 1) - Keep
  BY <1>1, <1>3, Wrap
<1> QED BY <1>2, <1>3, <1>4, BoundsAssumption

\* A freshly allocated buffer.
LEMMA EmptyRing ==
  ASSUME NEW s, s = [i \in 0 .. Keep - 1 |-> -1]
  PROVE  /\ s \in [0 .. Keep - 1 -> Turn \union {-1}]
         /\ 0 \in 0 .. Keep - 1 /\ 0 \in 0 .. Keep
         /\ \A i \in 0 .. Keep - 1 : s[NextSlot(0, i)] # -1 <=> i < 0
<1>1. 0 \in 0 .. Keep - 1 /\ 0 \in 0 .. Keep BY BoundsAssumption
<1>2. ASSUME NEW i \in 0 .. Keep - 1 PROVE s[NextSlot(0, i)] = -1 /\ ~(i < 0)
  <2>1. i \in 0 .. Keep BY BoundsAssumption
  <2>2. NextSlot(0, i) \in 0 .. Keep - 1 BY <1>1, <2>1, SlotType
  <2> QED BY <2>2
<1>3. s \in [0 .. Keep - 1 -> Turn \union {-1}] OBVIOUS
<1> QED BY <1>1, <1>2, <1>3

LEMMA FollowingFile ==
  /\ Following("metadata") = IF loop = "collective" THEN "frontier" ELSE "data"
  /\ Following("frontier") = "data"
  /\ Following("data") = "lists"
  /\ Following("lists") = "rename"
BY Zenon DEF Following

-----------------------------------------------------------------------------
(* The invariant holds initially, and a step preserves it.                 *)

LEMMA InitIInv == Init => IInv
<1> SUFFICES ASSUME Init PROVE IInv OBVIOUS
<1>1. pid \in Pid /\ turn \in Turn /\ given \in 0 .. turn
  BY BoundsAssumption DEF Init, Pid, Turn
<1>2. ProcessTypes BY <1>1 DEF Init, ProcessTypes
<1>3. LoopTypes BY DEF Init, LoopTypes, Pc
<1>4. RingTypes /\ RingOK BY EmptyRing DEF Init, RingTypes, RingOK
<1>5. DiskTypes BY DEF Init, DiskTypes
<1>6. HistoryTypes BY BoundsAssumption DEF Init, HistoryTypes
<1>7. PlaceInv /\ FillInv
  BY DEF Init, PlaceInv, GivenBehind, EndedIsIdle, RotationInv, FillInv
<1>8. WholeOrHidden BY DEF Init, WholeOrHidden
<1> QED BY <1>2, <1>3, <1>4, <1>5, <1>6, <1>7, <1>8 DEF IInv, TypeInv

\* WholeOrHidden, file by file.
LEMMA Whole ==
  ASSUME NEW d
  PROVE  (\E t \in Turn : /\ \A f \in Mandatory : <<d, f, t>> \in holds
                          /\ \A h \in Contents(d) : h[3] = t)
     <=> (\E t \in Turn : /\ \A f \in Mandatory : <<d, f, t>> \in holds
                          /\ \A h \in holds : h[1] = d => h[3] = t)
BY DEF Contents

\* Directories, files and the loop are as they were.
LEMMA WholeUnchanged ==
  ASSUME WholeOrHidden, UNCHANGED <<loop, dirs, holds, condemned>>
  PROVE  WholeOrHidden'
BY DEF WholeOrHidden, Mandatory, Contents

\* The names write_checkpoint builds.
LEMMA Names ==
  ASSUME IInv
  PROVE  given \in Turn /\ Final \in Directory /\ Tmp \in Directory
<1>1. pid \in Pid /\ turn \in Turn /\ given \in 0 .. turn
  BY DEF IInv, TypeInv, ProcessTypes
<1>2. given \in Turn BY <1>1, BoundsAssumption DEF Turn
<1> QED BY <1>1, <1>2 DEF Final, Tmp, Directory

\* The process ends.
LEMMA Ending ==
  ASSUME IInv, NEW how \in {"checkpoint", "handler", "killed", "fatal", "other"},
         End(how), faults' \in 0 .. MaxFaults
  PROVE  IInv'
<1> USE DEF IInv, TypeInv, End, Fresh, process, disk
<1>1. turn' \in Turn /\ given' \in 0 .. turn' BY BoundsAssumption DEF Turn
<1>2. ProcessTypes' BY <1>1 DEF ProcessTypes
<1>3. LoopTypes' BY DEF LoopTypes, Pc
<1>4. RingTypes' /\ RingOK' BY EmptyRing DEF RingTypes, RingOK, NextSlot
<1>5. DiskTypes' BY DEF DiskTypes
<1>6. HistoryTypes' BY DEF HistoryTypes
<1>7. PlaceInv' /\ FillInv'
  BY DEF PlaceInv, GivenBehind, EndedIsIdle, RotationInv, FillInv
<1>8. WholeOrHidden' BY WholeUnchanged
<1> QED BY <1>2, <1>3, <1>4, <1>5, <1>6, <1>7, <1>8

\* The main loop moves on without touching the disk or the buffer.
LEMMA Moving ==
  ASSUME IInv, Running,
         UNCHANGED <<search, process, status, ring, disk, history>>,
         inHandler' \in BOOLEAN, requested' \in BOOLEAN,
         pc' \in Pc \ {"fill", "rotate"}, automatic' \in BOOLEAN,
         file' \in File \union {"rename"}, faults' \in 0 .. MaxFaults
  PROVE  IInv'
<1> USE DEF IInv, TypeInv, search, process, ring, disk, history
<1>1. ProcessTypes' BY DEF ProcessTypes
<1>2. LoopTypes' BY DEF LoopTypes
<1>3. RingTypes' /\ RingOK' BY DEF RingTypes, RingOK, NextSlot
<1>4. DiskTypes' /\ HistoryTypes' BY DEF DiskTypes, HistoryTypes
<1>5. PlaceInv' /\ FillInv'
  BY DEF PlaceInv, GivenBehind, EndedIsIdle, RotationInv, FillInv, Running
<1>6. WholeOrHidden' BY WholeUnchanged
<1> QED BY <1>1, <1>2, <1>3, <1>4, <1>5, <1>6

\* write_checkpoint: the temporary directory and its files.
LEMMA MakeDirectoryStep == IInv /\ MakeDirectory => IInv'
<1> SUFFICES ASSUME IInv, MakeDirectory PROVE IInv' OBVIOUS
<1> USE DEF IInv, TypeInv, MakeDirectory, At, Goto, search, process, signals,
            ring, history
<1>1. ProcessTypes' BY DEF ProcessTypes
<1>2. LoopTypes' BY DEF LoopTypes, Pc, File
<1>3. RingTypes' /\ RingOK' BY DEF RingTypes, RingOK, NextSlot
<1>4. HistoryTypes' BY DEF HistoryTypes
<1>5. Tmp \in Directory BY Names
<1>6. DiskTypes' BY <1>5 DEF DiskTypes
<1>7. PlaceInv'
  BY DEF PlaceInv, GivenBehind, EndedIsIdle, RotationInv, Running
<1>8. \A h \in holds : h[1] # Tmp BY DEF CanMake, Contents, DiskTypes
<1>9. FillInv' BY <1>8 DEF FillInv, Tmp
<1>10. WholeOrHidden'
  BY DEF WholeOrHidden, Mandatory, Contents, Tmp
<1> QED BY <1>1, <1>2, <1>3, <1>4, <1>6, <1>7, <1>9, <1>10

LEMMA MakeFailsStep == IInv /\ MakeFails => IInv'
<1> SUFFICES ASSUME IInv, MakeFails PROVE IInv' OBVIOUS
<1> USE DEF IInv, TypeInv, MakeFails, At, Goto, Return, search, process,
            signals, ring, history
<1>1. ProcessTypes' BY DEF ProcessTypes
<1>2. LoopTypes' BY DEF LoopTypes, Pc
<1>3. RingTypes' /\ RingOK' BY DEF RingTypes, RingOK, NextSlot
<1>4. HistoryTypes' BY BoundsAssumption DEF HistoryTypes, Fault
<1>5. \A h \in holds : h[1] # Tmp BY DEF CanMake, Contents, DiskTypes
<1>6. DiskTypes' BY <1>5 DEF DiskTypes
<1>7. PlaceInv' /\ FillInv'
  BY DEF PlaceInv, GivenBehind, EndedIsIdle, RotationInv, FillInv, Running
<1>8. WholeOrHidden' BY DEF WholeOrHidden, Mandatory, Contents
<1> QED BY <1>1, <1>2, <1>3, <1>4, <1>6, <1>7, <1>8

LEMMA WriteFileStep == IInv /\ WriteFile => IInv'
<1> SUFFICES ASSUME IInv, WriteFile PROVE IInv' OBVIOUS
<1> USE DEF IInv, TypeInv, WriteFile, At, search, process, signals, ring,
            history
<1>1. ProcessTypes' BY DEF ProcessTypes
<1>2. LoopTypes' BY FollowingFile DEF LoopTypes, File
<1>3. RingTypes' /\ RingOK' BY DEF RingTypes, RingOK, NextSlot
<1>4. HistoryTypes' BY DEF HistoryTypes
<1>5. Tmp \in dirs /\ turn \in Turn /\ given <= turn
  BY DEF FillInv, ProcessTypes, Turn
<1>6. DiskTypes' BY <1>5 DEF DiskTypes
<1>7. PlaceInv'
  BY <1>5 DEF PlaceInv, GivenBehind, EndedIsIdle, RotationInv, Running, Tmp
<1>8. FillInv'
  <2>1. Tmp' = Tmp BY DEF Tmp
  <2>2. \A h \in holds' : h[1] = Tmp => h[3] = turn BY DEF FillInv
  <2>3. <<Tmp, file, turn>> \in holds' /\ holds \subseteq holds' OBVIOUS
  <2>4. file' # "metadata" => <<Tmp, "metadata", turn>> \in holds'
    BY <2>3 DEF FillInv
  <2>5. file' \in {"lists", "rename"} => <<Tmp, "data", turn>> \in holds'
    BY <2>3, FollowingFile DEF FillInv, File
  <2>6. loop = "collective" /\ file' \in {"data", "lists", "rename"}
          => <<Tmp, "frontier", turn>> \in holds'
    BY <2>3, FollowingFile DEF FillInv, File
  <2> QED BY <1>5, <2>1, <2>2, <2>4, <2>5, <2>6 DEF FillInv
<1>9. WholeOrHidden'
  BY DEF WholeOrHidden, Mandatory, Contents, Tmp
<1> QED BY <1>1, <1>2, <1>3, <1>4, <1>6, <1>7, <1>8, <1>9

\* write_checkpoint publishes the directory it filled.
LEMMA RenameStep == IInv /\ Rename => IInv'
<1> SUFFICES ASSUME IInv, Rename PROVE IInv' OBVIOUS
<1> USE DEF IInv, TypeInv, Rename, At, Goto, Return, search, process, signals,
            ring
<1> DEFINE moved == {<<Final, h[2], h[3]>> : h \in Contents(Tmp)}
<1>1. ProcessTypes' BY DEF ProcessTypes
<1>2. LoopTypes' BY DEF LoopTypes, Pc
<1>3. RingTypes' /\ RingOK' BY DEF RingTypes, RingOK, NextSlot
<1>4. given \in Turn /\ Final \in Directory BY Names
<1>5. HistoryTypes' BY <1>4 DEF HistoryTypes
<1>6. Final # Tmp BY DEF Final, Tmp
<1>7. \A h \in holds : h \in dirs \X File \X Turn BY DEF DiskTypes
<1>8. \A h \in Contents(Tmp) : h \in holds /\ h[1] = Tmp /\ h[3] = turn
  BY DEF Contents, FillInv
<1>9. \A h \in holds' : \/ h \in holds /\ h[1] # Tmp
                        \/ h \in moved
  BY DEF Contents
<1>10. \A h \in moved : h[1] = Final /\ h[2] \in File /\ h[3] = turn
                          /\ h = <<Final, h[2], turn>>
  BY <1>7, <1>8
<1>11. DiskTypes'
  <2>1. dirs' \subseteq Directory BY <1>4 DEF DiskTypes
  <2>2. ASSUME NEW h \in holds' PROVE h \in dirs' \X File \X Turn
    <3>1. CASE h \in holds /\ h[1] # Tmp BY <1>7, <3>1
    <3>2. CASE h \in moved BY <1>10, <3>2 DEF ProcessTypes
    <3> QED BY <1>9, <3>1, <3>2
  <2>3. asked' \subseteq Directory /\ condemned' \subseteq Directory
    BY <1>4 DEF DiskTypes
  <2> QED BY <2>1, <2>2, <2>3 DEF DiskTypes
<1>12. PlaceInv'
  <2>1. given <= turn BY DEF ProcessTypes
  <2>2. Final[2] = given BY DEF Final
  <2>3. ASSUME NEW h \in holds' PROVE h[1][2] <= h[3]
    <3>1. CASE h \in holds BY <3>1 DEF PlaceInv, GivenBehind
    <3>2. CASE h \in moved BY <1>10, <2>1, <2>2, <3>2
    <3> QED BY <1>9, <3>1, <3>2
  <2>4. GivenBehind' BY <2>3 DEF GivenBehind
  <2> QED BY <2>4 DEF PlaceInv, EndedIsIdle, RotationInv, Running
<1>13. FillInv' BY DEF FillInv
<1>14. ASSUME NEW d \in dirs' \ condemned', d[3] = "final"
       PROVE  \E t \in Turn : /\ \A f \in Mandatory : <<d, f, t>> \in holds'
                              /\ \A h \in holds' : h[1] = d => h[3] = t
  <2>1. d # Tmp BY <1>14 DEF Tmp
  <2>2. CASE d = Final
    <3>1. \A h \in holds : h[1] # Final BY DEF CanRename, Contents
    <3>2. \A h \in holds' : h[1] = Final => h[3] = turn BY <1>9, <1>10, <3>1
    <3>3. \A f \in Mandatory : <<Tmp, f, turn>> \in holds
      BY DEF FillInv, Mandatory
    <3>4. ASSUME NEW f \in Mandatory PROVE <<Final, f, turn>> \in holds'
      <4>1. <<Tmp, f, turn>> \in Contents(Tmp) BY <3>3 DEF Contents
      <4>2. <<Final, f, turn>> \in moved BY <4>1
      <4> QED BY <4>2
    <3> QED BY <2>2, <3>2, <3>4 DEF ProcessTypes
  <2>3. CASE d # Final
    <3>1. d \in dirs \ condemned BY <2>3
    <3>2. PICK t \in Turn : /\ \A f \in Mandatory : <<d, f, t>> \in holds
                            /\ \A h \in holds : h[1] = d => h[3] = t
      BY <1>14, <3>1, Whole DEF WholeOrHidden
    <3>3. \A f \in Mandatory : <<d, f, t>> \in holds'
      BY <2>1, <3>2 DEF Contents
    <3>4. \A h \in holds' : h[1] = d => h[3] = t BY <1>9, <1>10, <2>3, <3>2
    <3> QED BY <3>3, <3>4
  <2> QED BY <2>2, <2>3
<1>15. WholeOrHidden'
  BY <1>14 DEF WholeOrHidden, Mandatory, Contents
<1> QED BY <1>1, <1>2, <1>3, <1>5, <1>11, <1>12, <1>13, <1>15

\* A failed fopen gives the checkpoint up, the process up, or the file up.
LEMMA WriteFailsStep == IInv /\ WriteFails => IInv'
<1> SUFFICES ASSUME IInv, WriteFails PROVE IInv' OBVIOUS
<1>1. Running /\ pc = "fill" /\ faults' \in 0 .. MaxFaults
  BY BoundsAssumption DEF WriteFails, At, Fault, IInv, TypeInv, HistoryTypes
<1>2. CASE file \in {"metadata", "data"} /\ Abandon
  BY <1>1, <1>2, Moving DEF Abandon, Return, Goto, Pc, signals, IInv, TypeInv,
                            ProcessTypes, LoopTypes
<1>3. CASE file = "frontier" /\ End("fatal")
  BY <1>1, <1>3, Ending
<1>4. CASE /\ file = "lists" /\ file' = "rename"
           /\ UNCHANGED <<search, process, status, signals, pc, automatic,
                          ring, disk, history>>
  <2> USE <1>4 DEF IInv, TypeInv, search, process, signals, ring, disk, history
  <2>1. ProcessTypes' BY DEF ProcessTypes
  <2>2. LoopTypes' BY DEF LoopTypes
  <2>3. RingTypes' /\ RingOK' BY DEF RingTypes, RingOK, NextSlot
  <2>4. DiskTypes' /\ HistoryTypes' BY <1>1 DEF DiskTypes, HistoryTypes
  <2>5. PlaceInv'
    BY <1>1 DEF PlaceInv, GivenBehind, EndedIsIdle, RotationInv, Running
  <2>6. FillInv' BY <1>1 DEF FillInv, Tmp
  <2>7. WholeOrHidden' BY WholeUnchanged
  <2> QED BY <2>1, <2>2, <2>3, <2>4, <2>5, <2>6, <2>7
<1> QED BY <1>2, <1>3, <1>4 DEF WriteFails

-----------------------------------------------------------------------------
(* The circular buffer of automatic checkpoints.                           *)

\* Writing a name after the last of the c that are there.
LEMMA EnterRing ==
  ASSUME NEW kept \in [0 .. Keep - 1 -> Turn \union {-1}],
         NEW h \in 0 .. Keep - 1, NEW c \in 0 .. Keep - 1,
         \A i \in 0 .. Keep - 1 : kept[NextSlot(h, i)] # -1 <=> i < c,
         given \in Turn, Enter(kept, h, c)
  PROVE  RingTypes' /\ RingOK'
<1>1. c \in 0 .. Keep /\ c + 1 \in 0 .. Keep BY BoundsAssumption
<1>2. NextSlot(h, c) \in 0 .. Keep - 1 BY <1>1, SlotType
<1>3. slots' = [kept EXCEPT ![NextSlot(h, c)] = given] /\ head' = h
        /\ count' = c + 1
  BY DEF Enter
<1>4. RingTypes' BY <1>1, <1>2, <1>3 DEF RingTypes
<1>5. ASSUME NEW i \in 0 .. Keep - 1
      PROVE  slots'[NextSlot(h, i)] # -1 <=> i < c + 1
  <2>0. i \in 0 .. Keep BY BoundsAssumption
  <2>1. NextSlot(h, i) \in 0 .. Keep - 1 BY <2>0, SlotType
  <2>2. CASE i = c
    <3>1. slots'[NextSlot(h, i)] = given BY <1>2, <1>3, <2>2
    <3>2. given # -1 BY BoundsAssumption DEF Turn
    <3> QED BY <2>2, <3>1, <3>2
  <2>3. CASE i # c
    <3>1. NextSlot(h, i) # NextSlot(h, c) BY <2>3, SlotsDiffer
    <3>2. slots'[NextSlot(h, i)] = kept[NextSlot(h, i)]
      BY <1>3, <2>1, <3>1
    <3> QED BY <2>3, <3>2
  <2> QED BY <2>2, <2>3
<1>6. RingOK' BY <1>3, <1>5 DEF RingOK, NextSlot
<1> QED BY <1>4, <1>6

\* The first name of a full buffer taken out, Keep - 1 follow.
LEMMA OldestLeft ==
  ASSUME RingTypes, RingOK, count = Keep
  PROVE  /\ (head + 1) % Keep \in 0 .. Keep - 1
         /\ [slots EXCEPT ![head] = -1]
              \in [0 .. Keep - 1 -> Turn \union {-1}]
         /\ \A i \in 0 .. Keep - 1 :
               [slots EXCEPT ![head] = -1][NextSlot((head + 1) % Keep, i)] # -1
                 <=> i < Keep - 1
<1> DEFINE kept == [slots EXCEPT ![head] = -1]
<1>1. head \in 0 .. Keep - 1 /\ slots \in [0 .. Keep - 1 -> Turn \union {-1}]
  BY DEF RingTypes
<1>2. PICK next \in 0 .. Keep - 1 : next = (head + 1) % Keep
                                    /\ NextSlot(next, Keep - 1) = head
  BY <1>1, SlotReused
<1>3. kept \in [0 .. Keep - 1 -> Turn \union {-1}] BY <1>1
<1>4. kept[head] = -1 BY <1>1
<1>5. Keep - 1 \in 0 .. Keep - 1 BY BoundsAssumption
<1>6. ASSUME NEW i \in 0 .. Keep - 1
      PROVE  kept[NextSlot(next, i)] # -1 <=> i < Keep - 1
  <2>0. i \in 0 .. Keep BY BoundsAssumption
  <2>1. NextSlot(next, i) \in 0 .. Keep - 1 BY <2>0, SlotType
  <2>2. CASE i = Keep - 1 BY <1>2, <1>4, <2>2, BoundsAssumption
  <2>3. CASE i # Keep - 1
    <3>1. NextSlot(next, i) # head BY <1>2, <1>5, <2>3, SlotsDiffer
    <3>2. kept[NextSlot(next, i)] = slots[NextSlot(next, i)]
      BY <1>1, <2>1, <3>1
    <3>3. PICK j \in 0 .. Keep - 1 : NextSlot(head, j) = NextSlot(next, i)
      BY <1>1, <2>1, SlotsCover
    <3>4. slots[NextSlot(head, j)] # -1 BY BoundsAssumption DEF RingOK
    <3>5. i < Keep - 1 BY <2>3, BoundsAssumption
    <3> QED BY <3>2, <3>3, <3>4, <3>5
  <2> QED BY <2>2, <2>3
<1> QED BY <1>2, <1>3, <1>6

\* record_auto_checkpoint writes the name into the buffer.
LEMMA RecordStep == IInv /\ RecordInRoom => IInv'
<1> SUFFICES ASSUME IInv, RecordInRoom PROVE IInv' OBVIOUS
<1> USE DEF IInv, TypeInv, RecordInRoom, At, search, process, signals, disk,
            history
<1>1. given \in Turn BY Names
<1>2. RingTypes' /\ RingOK'
  <2>1. Enter(slots, head, count) OBVIOUS
  <2>2. count \in 0 .. Keep - 1 BY BoundsAssumption DEF RingTypes, Full
  <2>3. \A i \in 0 .. Keep - 1 : slots[NextSlot(head, i)] # -1 <=> i < count
    BY DEF RingOK
  <2> QED BY <1>1, <2>1, <2>2, <2>3, EnterRing DEF RingTypes
<1> USE DEF Enter, Goto
<1>3. ProcessTypes' BY DEF ProcessTypes
<1>4. LoopTypes' BY DEF LoopTypes, Pc
<1>5. DiskTypes' /\ HistoryTypes' BY DEF DiskTypes, HistoryTypes
<1>6. PlaceInv' /\ FillInv'
  BY DEF PlaceInv, GivenBehind, EndedIsIdle, RotationInv, FillInv, Running
<1>7. WholeOrHidden' BY WholeUnchanged
<1> QED BY <1>2, <1>3, <1>4, <1>5, <1>6, <1>7

\* The directory to delete, which is the oldest name in the buffer.
LEMMA VictimType ==
  ASSUME IInv, count = Keep
  PROVE  Victim \in Directory
<1>1. head \in 0 .. Keep - 1 /\ slots \in [0 .. Keep - 1 -> Turn \union {-1}]
  BY DEF IInv, TypeInv, RingTypes
<1>2. NextSlot(head, 0) = head BY <1>1, Wrap, BoundsAssumption
<1>3. slots[NextSlot(head, 0)] # -1 BY BoundsAssumption DEF IInv, RingOK
<1>4. slots[head] \in Turn BY <1>1, <1>2, <1>3
<1> QED BY <1>4 DEF Victim, Directory, IInv, TypeInv, ProcessTypes

\* remove_checkpoint_dir.
LEMMA BeginRotationStep == IInv /\ BeginRotation => IInv'
<1> SUFFICES ASSUME IInv, BeginRotation PROVE IInv' OBVIOUS
<1> USE DEF IInv, TypeInv, BeginRotation, At, Goto, Full, search, process,
            signals, ring, disk
<1>1. ProcessTypes' BY DEF ProcessTypes
<1>2. LoopTypes' BY DEF LoopTypes, Pc
<1>3. RingTypes' /\ RingOK' BY DEF RingTypes, RingOK, NextSlot
<1>4. Victim \in Directory BY VictimType
<1>5. DiskTypes' BY <1>4 DEF DiskTypes
<1>6. HistoryTypes' BY DEF HistoryTypes
<1>7. PlaceInv' /\ FillInv'
  BY DEF PlaceInv, GivenBehind, EndedIsIdle, RotationInv, FillInv, Running,
         Victim
<1>8. WholeOrHidden' BY DEF WholeOrHidden, Mandatory, Contents
<1> QED BY <1>1, <1>2, <1>3, <1>5, <1>6, <1>7, <1>8

LEMMA RemoveFileStep == IInv /\ RemoveFile => IInv'
<1> SUFFICES ASSUME IInv, RemoveFile PROVE IInv' OBVIOUS
<1> USE DEF IInv, TypeInv, RemoveFile, At, search, process, signals, ring,
            history
<1>1. ProcessTypes' BY DEF ProcessTypes
<1>2. LoopTypes' BY DEF LoopTypes
<1>3. RingTypes' /\ RingOK' BY DEF RingTypes, RingOK, NextSlot
<1>4. holds' \subseteq holds /\ \A h \in holds : h[1] # Victim => h \in holds'
  BY DEF Contents
<1>5. DiskTypes' /\ HistoryTypes' BY <1>4 DEF DiskTypes, HistoryTypes
<1>6. PlaceInv' /\ FillInv'
  BY <1>4 DEF PlaceInv, GivenBehind, EndedIsIdle, RotationInv, FillInv,
              Running, Victim
<1>7. Victim \in condemned BY DEF PlaceInv, RotationInv
<1>8. WholeOrHidden'
  BY <1>4, <1>7 DEF WholeOrHidden, Mandatory, Contents
<1> QED BY <1>1, <1>2, <1>3, <1>5, <1>6, <1>8

LEMMA EndRotationStep == IInv /\ EndRotation => IInv'
<1> SUFFICES ASSUME IInv, EndRotation PROVE IInv' OBVIOUS
<1> USE DEF IInv, TypeInv, EndRotation, At, search, process, signals, history
<1>1. given \in Turn BY Names
<1>2. count = Keep BY DEF PlaceInv, RotationInv
<1>3. RingTypes' /\ RingOK'
  <2>1. PICK kept, next :
           kept = [slots EXCEPT ![head] = -1] /\ next = (head + 1) % Keep
    OBVIOUS
  <2>2. Enter(kept, next, Keep - 1) BY <1>2, <2>1
  <2>3. /\ next \in 0 .. Keep - 1
        /\ kept \in [0 .. Keep - 1 -> Turn \union {-1}]
        /\ \A i \in 0 .. Keep - 1 :
              kept[NextSlot(next, i)] # -1 <=> i < Keep - 1
    BY <1>2, <2>1, OldestLeft
  <2>4. Keep - 1 \in 0 .. Keep - 1 BY BoundsAssumption
  <2> QED BY <1>1, <2>2, <2>3, <2>4, EnterRing
<1> USE DEF Enter, Goto
<1>4. ProcessTypes' BY DEF ProcessTypes
<1>5. LoopTypes' BY DEF LoopTypes, Pc
<1>6. \A h \in holds : h[1] # Victim BY DEF Contents
<1>7. DiskTypes' /\ HistoryTypes' BY <1>6 DEF DiskTypes, HistoryTypes
<1>8. PlaceInv' /\ FillInv'
  BY DEF PlaceInv, GivenBehind, EndedIsIdle, RotationInv, FillInv, Running
<1>9. WholeOrHidden' BY DEF WholeOrHidden, Mandatory, Contents
<1> QED BY <1>3, <1>4, <1>5, <1>7, <1>8, <1>9

-----------------------------------------------------------------------------
(* The main loop, signals and resumption.                                  *)

LEMMA IterateStep == IInv /\ Iterate => IInv'
<1> SUFFICES ASSUME IInv, Iterate PROVE IInv' OBVIOUS
<1> USE DEF IInv, TypeInv, Iterate, At, Goto, process, signals, ring, disk,
            history
<1>1. turn \in Turn /\ given \in 0 .. turn BY DEF ProcessTypes
<1>2. turn' \in Turn /\ given' \in 0 .. turn'
  BY <1>1, BoundsAssumption DEF Turn
<1>3. ProcessTypes' BY <1>2 DEF ProcessTypes
<1>4. LoopTypes' BY DEF LoopTypes, Pc
<1>5. RingTypes' /\ RingOK' BY DEF RingTypes, RingOK, NextSlot
<1>6. DiskTypes' /\ HistoryTypes' BY DEF DiskTypes, HistoryTypes
<1>7. PlaceInv' /\ FillInv'
  BY DEF PlaceInv, GivenBehind, EndedIsIdle, RotationInv, FillInv
<1>8. WholeOrHidden' BY WholeUnchanged
<1> QED BY <1>3, <1>4, <1>5, <1>6, <1>7, <1>8

\* The main loop only changes its place, the request and the kind of the
\* checkpoint it is about to write.
LEMMA QuietStep ==
  IInv /\ (PeriodicDue \/ NotDue \/ CheckRequest \/ AfterPeriodic
           \/ ClearRequest \/ CannotMake \/ CannotRename) => IInv'
<1> SUFFICES ASSUME IInv, PeriodicDue \/ NotDue \/ CheckRequest
                          \/ AfterPeriodic \/ ClearRequest \/ CannotMake
                          \/ CannotRename
             PROVE  IInv'
  OBVIOUS
<1> USE DEF At, Goto, Pc, signals, history
<1>1. /\ inHandler \in BOOLEAN /\ requested \in BOOLEAN
      /\ automatic \in BOOLEAN /\ file \in File \union {"rename"}
      /\ faults \in 0 .. MaxFaults
  BY DEF IInv, TypeInv, ProcessTypes, LoopTypes, HistoryTypes
<1>2. CASE PeriodicDue BY <1>1, <1>2, Moving DEF PeriodicDue
<1>3. CASE NotDue BY <1>1, <1>3, Moving DEF NotDue
<1>4. CASE CheckRequest BY <1>1, <1>4, Moving DEF CheckRequest
<1>5. CASE AfterPeriodic BY <1>1, <1>5, Moving DEF AfterPeriodic
<1>6. CASE ClearRequest BY <1>1, <1>6, Moving DEF ClearRequest
<1>7. CASE CannotMake
  BY <1>1, <1>7, Moving DEF CannotMake, Abandon, Return
<1>8. CASE CannotRename
  <2>1. faults' \in 0 .. MaxFaults
    BY <1>1, <1>8, BoundsAssumption DEF CannotRename, Fault
  <2> QED BY <1>1, <1>8, <2>1, Moving DEF CannotRename, Abandon, Return
<1> QED BY <1>2, <1>3, <1>4, <1>5, <1>6, <1>7, <1>8

\* The process ends by itself or from outside.
LEMMA EndStep ==
  IInv /\ (SearchEnds \/ EndsInIteration \/ CheckpointExit \/ SyncFails
           \/ Killed) => IInv'
<1> SUFFICES ASSUME IInv, SearchEnds \/ EndsInIteration \/ CheckpointExit
                          \/ SyncFails \/ Killed
             PROVE  IInv'
  OBVIOUS
<1>1. faults \in 0 .. MaxFaults BY DEF IInv, TypeInv, HistoryTypes
<1>2. CASE SearchEnds BY <1>1, <1>2, Ending DEF SearchEnds
<1>3. CASE EndsInIteration BY <1>1, <1>3, Ending DEF EndsInIteration
<1>4. CASE CheckpointExit BY <1>1, <1>4, Ending DEF CheckpointExit
<1>5. CASE SyncFails
  <2>1. faults' \in 0 .. MaxFaults
    BY <1>1, <1>5, BoundsAssumption DEF SyncFails, Fault
  <2> QED BY <1>5, <2>1, Ending DEF SyncFails
<1>6. CASE Killed BY <1>1, <1>6, Ending DEF Killed
<1> QED BY <1>2, <1>3, <1>4, <1>5, <1>6

\* prover_sig_handler, which may run at any place of the main loop.
LEMMA SignalStep == IInv /\ (SigUsr1 \/ SigUsr2) => IInv'
<1> SUFFICES ASSUME IInv, NEW requests \in BOOLEAN, SigUsr(requests)
             PROVE  IInv'
  BY DEF SigUsr1, SigUsr2
<1>1. CASE inHandler
  BY <1>1, Ending DEF SigUsr, IInv, TypeInv, HistoryTypes
<1>2. CASE ~inHandler
  <2> USE <1>2 DEF SigUsr, IInv, TypeInv, search, process, ring, disk, history
  <2>1. ProcessTypes' BY DEF ProcessTypes
  <2>2. LoopTypes' BY DEF LoopTypes
  <2>3. RingTypes' /\ RingOK' BY DEF RingTypes, RingOK, NextSlot
  <2>4. DiskTypes' /\ HistoryTypes' BY DEF DiskTypes, HistoryTypes
  <2>5. PlaceInv'
    BY DEF PlaceInv, GivenBehind, EndedIsIdle, RotationInv, Running, Victim
  <2>6. FillInv' BY DEF FillInv, Tmp
  <2>7. WholeOrHidden' BY WholeUnchanged
  <2> QED BY <2>1, <2>2, <2>3, <2>4, <2>5, <2>6, <2>7
<1> QED BY <1>1, <1>2

\* A new process, with the memory of a directory or with none.
LEMMA ResumeStep == IInv /\ Resume => IInv'
<1> SUFFICES ASSUME IInv, Resume PROVE IInv' OBVIOUS
<1> USE DEF IInv, TypeInv, search, signals, ring
<1>1. pid' \in Pid /\ ~Running /\ pc = "loop" /\ loop' = loop
        /\ UNCHANGED <<exits, faults, inHandler, requested, automatic, file,
                       slots, head, count, autos>>
  BY BoundsAssumption
     DEF Resume, Load, memory, ProcessTypes, PlaceInv, EndedIsIdle, Pid
<1>2. PICK d \in dirs :
        /\ \/ Load(d)
           \/ status' = "fatal" /\ UNCHANGED memory
        /\ dirs' = {d} /\ holds' = Contents(d)
        /\ asked' = asked \intersect {d}
        /\ condemned' = condemned \intersect {d}
  BY DEF Resume
<1>3. d \in Directory /\ d[2] \in Turn BY <1>2 DEF DiskTypes, Directory
<1>4. /\ turn' \in Turn /\ given' \in 0 .. turn'
      /\ status' \in {"running", "fatal"}
      /\ pc' \in {"loop", "work"} /\ (status' # "running" => pc' = "loop")
  <2>1. CASE Load(d)
    <3>1. turn' \in Turn /\ given' = d[2] /\ status' = "running" /\ pc' = "work"
            /\ <<d, "metadata", turn'>> \in holds
      BY <2>1 DEF Load, Goto
    <3>2. d[2] <= turn' BY <3>1 DEF PlaceInv, GivenBehind
    <3> QED BY <1>3, <3>1, <3>2 DEF Turn
  <2>2. CASE status' = "fatal" /\ UNCHANGED memory
    BY <1>1, <2>2 DEF memory, ProcessTypes
  <2> QED BY <1>2, <2>1, <2>2
<1>5. ProcessTypes' BY <1>1, <1>4 DEF ProcessTypes
<1>6. LoopTypes' BY <1>1, <1>4 DEF LoopTypes, Pc
<1>7. RingTypes' /\ RingOK' BY <1>1 DEF RingTypes, RingOK, NextSlot
<1>8. HistoryTypes' BY <1>1 DEF HistoryTypes
<1>9. \A h : h \in holds' <=> h \in holds /\ h[1] = d
  BY <1>2 DEF Contents
<1>10. DiskTypes'
  <2>1. dirs' \subseteq Directory /\ asked' \subseteq Directory
          /\ condemned' \subseteq Directory
    BY <1>2, <1>3 DEF DiskTypes
  <2>2. ASSUME NEW h \in holds' PROVE h \in dirs' \X File \X Turn
    BY <1>2, <1>9, <2>2 DEF DiskTypes
  <2> QED BY <2>1, <2>2 DEF DiskTypes
<1>11. PlaceInv'
  <2>1. GivenBehind' BY <1>9 DEF PlaceInv, GivenBehind
  <2> QED BY <1>4, <2>1 DEF PlaceInv, EndedIsIdle, RotationInv, Running
<1>12. FillInv' BY <1>4 DEF FillInv
<1>13. WholeOrHidden'
  <2>1. Mandatory' = Mandatory BY <1>1 DEF Mandatory
  <2>2. ASSUME d \notin condemned, d[3] = "final"
        PROVE  \E t \in Turn : /\ \A f \in Mandatory : <<d, f, t>> \in holds'
                               /\ \A h \in holds' : h[1] = d => h[3] = t
    BY <1>9, <2>2, Whole DEF WholeOrHidden
  <2> QED BY <1>2, <2>1, <2>2 DEF WholeOrHidden, Contents
<1> QED BY <1>5, <1>6, <1>7, <1>8, <1>10, <1>11, <1>12, <1>13

LEMMA StutterStep == IInv /\ UNCHANGED vars => IInv'
<1> SUFFICES ASSUME IInv, UNCHANGED vars PROVE IInv' OBVIOUS
<1> USE DEF IInv, TypeInv, vars, search, process, signals, ring, disk, history
<1>1. ProcessTypes' BY DEF ProcessTypes
<1>2. LoopTypes' BY DEF LoopTypes
<1>3. RingTypes' /\ RingOK' BY DEF RingTypes, RingOK, NextSlot
<1>4. DiskTypes' /\ HistoryTypes' BY DEF DiskTypes, HistoryTypes
<1>5. PlaceInv'
  BY DEF PlaceInv, GivenBehind, EndedIsIdle, RotationInv, Running, Victim
<1>6. FillInv' BY DEF FillInv, Tmp
<1>7. WholeOrHidden' BY WholeUnchanged
<1> QED BY <1>1, <1>2, <1>3, <1>4, <1>5, <1>6, <1>7

LEMMA NextIInv == IInv /\ [Next]_vars => IInv'
<1> SUFFICES ASSUME IInv, [Next]_vars PROVE IInv' OBVIOUS
<1>1. CASE Loop BY <1>1, QuietStep, EndStep, IterateStep DEF Loop
<1>2. CASE WriteCheckpoint
  BY <1>2, EndStep, QuietStep, MakeDirectoryStep, MakeFailsStep, WriteFileStep,
     WriteFailsStep, RenameStep
     DEF WriteCheckpoint
<1>3. CASE RecordAutoCheckpoint
  BY <1>3, RecordStep, BeginRotationStep, RemoveFileStep, EndRotationStep
     DEF RecordAutoCheckpoint
<1>4. CASE SigUsr1 \/ SigUsr2 BY <1>4, SignalStep
<1>5. CASE Killed BY <1>5, EndStep
<1>6. CASE Resume BY <1>6, ResumeStep
<1>7. CASE Over \/ UNCHANGED vars BY <1>7, StutterStep DEF Over
<1> QED BY <1>1, <1>2, <1>3, <1>4, <1>5, <1>6, <1>7 DEF Next, MainThread

\* The inductive invariant of a search and its resumptions.
LEMMA Invariant == Spec => []IInv
<1> QED BY InitIInv, NextIInv, PTL DEF Spec

-----------------------------------------------------------------------------
(* Theorems.                                                               *)

\* Every reachable state is well typed, and the circular buffer of automatic
\* checkpoints holds exactly Auto_ckpt_count names from Auto_ckpt_head on: the
\* oldest name record_auto_checkpoint reads is never NULL.
THEOREM TypeCorrect == Spec => []TypeOK
<1>1. IInv => TypeOK
  BY DEF IInv, TypeInv, TypeOK, ProcessTypes, LoopTypes, RingTypes, DiskTypes,
         HistoryTypes
<1> QED BY <1>1, Invariant, PTL

\* Whatever fails or is killed between two steps of write_checkpoint, and
\* whatever earlier attempts left, a directory that has lost its .tmp has every
\* file a resumption cannot do without, all of one turn, until rotation begins
\* to delete it.
THEOREM CheckpointsAreWhole == Spec => []WholeOrHidden
<1>1. IInv => WholeOrHidden BY DEF IInv
<1> QED BY <1>1, Invariant, PTL

-----------------------------------------------------------------------------
(***************************************************************************)
(* What checkpoints are for: an exit or a request that was promised a      *)
(* directory has one, and rotation deletes what it should. These rest on   *)
(* the invariant above.                                                    *)
(***************************************************************************)

(***************************************************************************)
(* A directory is named after the process that wrote it, which is this one *)
(* or an earlier one, and a process that has ended has lost its memory.    *)
(***************************************************************************)
PidInv == \A d \in dirs \union asked \union condemned : d[1] <= pid

EndedInv ==
    ~Running => /\ slots = [i \in 0 .. Keep - 1 |-> -1] /\ head = 0 /\ count = 0
                /\ autos = << >> /\ requested = FALSE

(***************************************************************************)
(* A process that exits after a checkpoint has written no other.           *)
(***************************************************************************)
Written == Final \in dirs /\ \E h \in holds : h[1] = Final /\ h[3] = turn

ExitPlaces ==
    /\ pc # "recorded" => count = 0
    /\ pc # "rotate"
    /\ pc \in {"loop", "ask", "work", "mkdir"} => \A d \in dirs : d[1] # pid
    /\ pc = "fill" => \A d \in dirs : d[1] = pid => d = Tmp
    /\ pc \in {"record", "recorded", "answered"} /\ faults = 0 => Written

ExitInv == exits => condemned = {} /\ (Running => ExitPlaces)

(***************************************************************************)
(* In the Otter loop every turn has its own number of given clauses. When  *)
(* nothing has failed, no directory and no name in the buffer is of this   *)
(* turn until its periodic checkpoint is written or recorded.              *)
(***************************************************************************)
Untouched == pc = "loop" \/ (automatic /\ pc \in {"mkdir", "fill"})
Unrecorded == Untouched \/ pc \in {"record", "rotate"}

Sound == loop = "otter" /\ faults = 0 /\ Running

TurnInv ==
    loop = "otter" => given = turn /\ \A h \in holds : h[1][2] = h[3]

OwnDirs ==
    \A d \in dirs : d[1] = pid =>
       /\ d[2] <= turn
       /\ d[3] = "tmp" /\ d[2] = turn => pc \in {"fill", "answered", "work"}
       /\ d[3] = "final" /\ d[2] = turn => ~Untouched

OwnNames ==
    /\ \A i \in 0 .. Keep - 1 : slots[i] <= turn /\ (Unrecorded => slots[i] < turn)
    /\ \A d \in condemned : d[1] = pid => d[2] < turn

Found == pc \in {"record", "rotate", "recorded", "answered"} => Final \in dirs

OtterInv == Sound => OwnDirs /\ OwnNames /\ Found

(***************************************************************************)
(* The periodic checkpoints on disk are in the buffer, or about to be, in  *)
(* every loop and whatever failed.                                         *)
(***************************************************************************)
Named(g) == \E i \in 0 .. Keep - 1 : slots[i] = g
Recording == pc \in {"record", "rotate"}

BoundInv ==
    /\ \A i \in 1 .. Len(autos) : autos[i] <= given
    /\ \A d \in PeriodicDirs : Named(d[2]) \/ (Recording /\ d[2] = given)
    /\ Finished(given) => Named(given) \/ Recording

(***************************************************************************)
(* The buffer holds the last periodic checkpoints, oldest first, and they  *)
(* are on disk.                                                            *)
(***************************************************************************)
Recorded == IF Recording THEN Len(autos) - 1 ELSE Len(autos)

Newest ==
    /\ Recording => Len(autos) > 0 /\ autos[Len(autos)] = given
    /\ count = IF Recorded < Keep THEN Recorded ELSE Keep
    /\ \A i \in 0 .. count - 1 :
          slots[NextSlot(head, i)] = autos[Recorded - count + 1 + i]

Rising ==
    /\ \A i, j \in 1 .. Len(autos) : i < j => autos[i] < autos[j]
    /\ \A i \in 1 .. Len(autos) :
          autos[i] <= turn /\ (Untouched => autos[i] < turn)

OnDisk ==
    \A i \in 1 .. Len(autos) :
       /\ i > Recorded - count
       /\ pc = "rotate" => i > Recorded - count + 1
       => <<pid, autos[i], "final">> \in dirs \ condemned

AskedInv ==
    \A d \in asked : d[1] = pid =>
       ~Finished(d[2]) /\ d[2] <= turn /\ (Untouched => d[2] < turn)

NewestInv ==
    /\ loop = "otter" /\ faults = 0 => asked \intersect condemned = {}
    /\ Sound => Newest /\ Rising /\ OnDisk /\ AskedInv

JInv == PidInv /\ EndedInv /\ ExitInv /\ TurnInv /\ OtterInv /\ BoundInv /\ NewestInv

-----------------------------------------------------------------------------
(* The kinds of steps.                                                     *)

\* The main loop, or the handler, moves on without touching the disk, the
\* buffer or the turn.
GivesUp ==
    \/ faults' # 0
    \/ pc = "mkdir" /\ Tmp \in dirs
    \/ pc = "fill" /\ file = "rename" /\ Contents(Final) # {}

Moves ==
    \/ UNCHANGED <<pc, automatic>>
    \/ pc = "loop" /\ pc' = "mkdir" /\ automatic' = TRUE
    \/ pc = "loop" /\ pc' = "ask"
    \/ pc = "ask" /\ pc' = "mkdir" /\ automatic' = FALSE
    \/ pc = "ask" /\ pc' = "work"
    \/ pc = "recorded" /\ pc' = "ask" /\ ~exits
    \/ pc = "answered" /\ pc' = "work" /\ ~exits
    \/ /\ pc \in {"mkdir", "fill"} /\ GivesUp
       /\ pc' = IF automatic THEN "record" ELSE "answered"
       /\ automatic' = automatic

Quiet ==
    /\ UNCHANGED <<search, process, status, ring, disk, history>>
    /\ faults' = 0 => faults = 0
    /\ Running \/ requested' = requested
    /\ Moves

Ends ==
    /\ Running /\ ~Running' /\ Fresh
    /\ UNCHANGED <<process, disk, asked, condemned>>
    /\ faults' = 0 => faults = 0

\* Every step is quiet, ends the process, or does one of these.
LEMMA Kinds ==
  ASSUME IInv, [Next]_vars
  PROVE  \/ Quiet \/ Ends \/ Iterate \/ MakeDirectory \/ MakeFails \/ WriteFile
         \/ Rename \/ RecordInRoom \/ BeginRotation \/ RemoveFile
         \/ EndRotation \/ Resume
<1>1. faults \in Nat BY DEF IInv, TypeInv, HistoryTypes
<1>2. ASSUME NEW how, how # "running", Running, End(how),
             faults' = 0 => faults = 0
      PROVE  Ends
  BY <1>2 DEF End, Ends, Running
<1>3. CASE PeriodicDue \/ NotDue \/ CheckRequest \/ AfterPeriodic \/ ClearRequest
  <2> USE DEF At, Goto, Quiet, Moves, history, ring, disk, signals
  <2>1. CASE PeriodicDue BY <2>1 DEF PeriodicDue
  <2>2. CASE NotDue BY <2>2 DEF NotDue
  <2>3. CASE CheckRequest BY <2>3 DEF CheckRequest
  <2>4. CASE AfterPeriodic BY <2>4 DEF AfterPeriodic
  <2>5. CASE ClearRequest BY <2>5 DEF ClearRequest
  <2> QED BY <1>3, <2>1, <2>2, <2>3, <2>4, <2>5
<1>4. CASE CannotMake \/ CannotRename \/ WriteFails
  <2> USE DEF At, Goto, Quiet, Moves, Return, Abandon, GivesUp, Fault, history,
              ring, disk, signals
  <2>1. CASE CannotMake BY <2>1 DEF CannotMake, CanMake
  <2>2. CASE CannotRename BY <1>1, <2>2 DEF CannotRename, CanRename
  <2>3. CASE WriteFails
    <3>1. Running /\ pc = "fill" /\ faults' # 0 /\ (faults' = 0 => faults = 0)
      BY <1>1, <2>3 DEF WriteFails
    <3>2. CASE End("fatal") BY <1>2, <3>1, <3>2
    <3>3. CASE file \in {"metadata", "data"} /\ Abandon BY <3>1, <3>3
    <3>4. CASE /\ file = "lists" /\ file' = "rename"
               /\ UNCHANGED <<search, process, status, signals, pc, automatic,
                              ring, disk, history>>
      BY <3>1, <3>4
    <3> QED BY <2>3, <3>2, <3>3, <3>4 DEF WriteFails
  <2> QED BY <1>4, <2>1, <2>2, <2>3
<1>5. CASE SearchEnds \/ CheckpointExit \/ EndsInIteration \/ SyncFails \/ Killed
  BY <1>1, <1>2, <1>5
     DEF Fault, SearchEnds, CheckpointExit, EndsInIteration, SyncFails, Killed, At
<1>6. CASE SigUsr1 \/ SigUsr2
  <2>1. PICK requests : SigUsr(requests) BY <1>6 DEF SigUsr1, SigUsr2
  <2>2. CASE inHandler BY <1>2, <2>1, <2>2 DEF SigUsr
  <2>3. CASE ~inHandler BY <2>1, <2>3 DEF SigUsr, Quiet, Moves, history
  <2> QED BY <2>2, <2>3
<1>7. CASE Over \/ UNCHANGED vars
  BY <1>7 DEF Over, vars, Quiet, Moves, history, signals
<1> QED
  BY <1>3, <1>4, <1>5, <1>6, <1>7
     DEF Next, MainThread, Loop, WriteCheckpoint, RecordAutoCheckpoint

\* The variables, one by one.
LEMMA QuietKeeps ==
  ASSUME Quiet
  PROVE  /\ UNCHANGED <<loop, exits, pid, turn, given, status, slots, head,
                        count, dirs, holds, autos, asked, condemned>>
         /\ UNCHANGED <<Final, Tmp, Running>>
BY DEF Quiet, search, process, ring, disk, history, Final, Tmp, Running

\* A resumed process has its own pid and the memory of an ended one.
LEMMA Resuming ==
  ASSUME IInv, PidInv, EndedInv, Resume
  PROVE  /\ ~Running /\ pid' = pid + 1 /\ pid \in Int
         /\ UNCHANGED <<loop, exits, faults, slots, head, count, autos, requested>>
         /\ dirs' \subseteq dirs /\ holds' \subseteq holds
         /\ asked' \subseteq asked /\ condemned' \subseteq condemned
         /\ \A d \in dirs' \union asked' \union condemned' :
               d[1] # pid' /\ d[1] <= pid'
         /\ Running' => pc' = "work"
<1>1. pid \in Int /\ \A d \in Directory : d[1] \in Int
  BY DEF IInv, TypeInv, ProcessTypes, Pid, Directory
<1>2. /\ dirs' \subseteq dirs /\ holds' \subseteq holds
      /\ asked' \subseteq asked /\ condemned' \subseteq condemned
  BY DEF Resume, Contents
<1>3. \A d \in dirs' \union asked' \union condemned' :
         d[1] # pid' /\ d[1] <= pid'
  BY <1>1, <1>2 DEF PidInv, Resume, IInv, TypeInv, DiskTypes
<1>4. UNCHANGED <<loop, exits, faults, slots, head, count, autos, requested>>
        /\ (Running' => pc' = "work")
  BY DEF Resume, Load, memory, ring, signals, Goto, Running
<1> QED BY <1>1, <1>2, <1>3, <1>4 DEF Resume

\* What the other steps do to the process and the variables of the disk.
LEMMA Same ==
  ASSUME IInv, \/ Iterate \/ MakeDirectory \/ MakeFails \/ WriteFile \/ Rename
               \/ RecordInRoom \/ BeginRotation \/ RemoveFile \/ EndRotation
  PROVE  /\ Running /\ Running'
         /\ UNCHANGED <<loop, exits, pid, status>> /\ (faults' = 0 => faults = 0)
         /\ UNCHANGED automatic
<1>1. faults \in Nat BY DEF IInv, TypeInv, HistoryTypes
<1> QED
  BY <1>1 DEF Iterate, MakeDirectory, MakeFails, WriteFile, Rename, RecordInRoom,
         BeginRotation, RemoveFile, EndRotation, Enter, Fault, At, Running, process

LEMMA SamePlace ==
  ASSUME \/ MakeDirectory \/ MakeFails \/ WriteFile \/ Rename \/ RecordInRoom
         \/ BeginRotation \/ RemoveFile \/ EndRotation
  PROVE  UNCHANGED <<turn, given, Final, Tmp>>
BY DEF MakeDirectory, MakeFails, WriteFile, Rename, RecordInRoom, BeginRotation,
       RemoveFile, EndRotation, Enter, search, process, Final, Tmp

LEMMA SameRing ==
  ASSUME \/ Iterate \/ MakeDirectory \/ MakeFails \/ WriteFile \/ Rename
         \/ BeginRotation \/ RemoveFile
  PROVE  UNCHANGED <<slots, head, count>>
BY DEF Iterate, MakeDirectory, MakeFails, WriteFile, Rename, BeginRotation,
       RemoveFile, ring

LEMMA SameHistory ==
  ASSUME \/ Iterate \/ MakeDirectory \/ MakeFails \/ WriteFile \/ RecordInRoom
         \/ RemoveFile \/ EndRotation
  PROVE  UNCHANGED <<autos, asked, condemned>>
BY DEF Iterate, MakeDirectory, MakeFails, WriteFile, RecordInRoom, RemoveFile,
       EndRotation, Enter, history

-----------------------------------------------------------------------------
(* Processes.                                                              *)

LEMMA PidNext ==
  ASSUME IInv, PidInv, EndedInv, [Next]_vars
  PROVE  PidInv' /\ EndedInv'
<1>1. CASE Quiet
  BY <1>1, QuietKeeps DEF PidInv, EndedInv, Quiet
<1>2. CASE Ends
  BY <1>2 DEF PidInv, EndedInv, Ends, Fresh, process, disk
<1>3. CASE Resume
  <2>1. PidInv' BY <1>3, Resuming DEF PidInv
  <2>2. EndedInv' BY <1>3, Resuming DEF EndedInv
  <2> QED BY <2>1, <2>2
<1>4. CASE \/ Iterate \/ MakeDirectory \/ MakeFails \/ WriteFile \/ Rename
           \/ RecordInRoom \/ BeginRotation \/ RemoveFile \/ EndRotation
  <2>1. EndedInv' BY <1>4, Same DEF EndedInv
  <2>2. Final[1] = pid /\ Tmp[1] = pid /\ Victim[1] = pid /\ pid <= pid
    BY DEF Final, Tmp, Victim, IInv, TypeInv, ProcessTypes, Pid
  <2>3. /\ dirs' \subseteq dirs \union {Tmp, Final}
        /\ asked' \subseteq asked \union {Final}
        /\ condemned' \subseteq condemned \union {Victim}
    <3>1. CASE Iterate BY <3>1 DEF Iterate, disk, history
    <3>2. CASE \/ MakeDirectory \/ MakeFails \/ WriteFile \/ RecordInRoom
               \/ RemoveFile \/ EndRotation
      <4>1. dirs' \subseteq dirs \union {Tmp}
        BY <3>2 DEF MakeDirectory, MakeFails, WriteFile, RecordInRoom,
                    RemoveFile, EndRotation, disk
      <4> QED BY <3>2, <4>1, SameHistory
    <3>3. CASE Rename BY <3>3 DEF Rename
    <3>4. CASE BeginRotation BY <3>4 DEF BeginRotation, disk
    <3> QED BY <1>4, <3>1, <3>2, <3>3, <3>4
  <2>4. PidInv' BY <1>4, <2>2, <2>3, Same DEF PidInv
  <2> QED BY <2>1, <2>4
<1> QED BY <1>1, <1>2, <1>3, <1>4, Kinds

\* In the Otter loop a number of given clauses is a turn.
LEMMA TurnNext ==
  ASSUME IInv, PidInv, EndedInv, TurnInv, [Next]_vars
  PROVE  TurnInv'
<1> SUFFICES ASSUME loop' = "otter"
             PROVE  given' = turn' /\ \A h \in holds' : h[1][2] = h[3]
  BY DEF TurnInv
<1>1. CASE Quiet BY <1>1, QuietKeeps DEF TurnInv
<1>2. CASE Ends BY <1>2 DEF TurnInv, Ends, Fresh, process, disk
<1>3. CASE Resume
  <2>1. loop = "otter" BY <1>3, Resuming
  <2>2. given = turn /\ \A h \in holds' : h \in holds /\ h[1][2] = h[3]
    BY <1>3, <2>1, Resuming DEF TurnInv
  <2>3. given' = turn'
    <3>1. CASE \E d \in dirs : Load(d)
      <4>1. PICK d \in dirs : Load(d) BY <3>1
      <4>2. <<d, "metadata", turn'>> \in holds /\ given' = d[2]
        BY <4>1 DEF Load
      <4> QED BY <2>1, <4>2 DEF TurnInv
    <3>2. CASE UNCHANGED memory BY <2>2, <3>2 DEF memory, search
    <3> QED BY <1>3, <3>1, <3>2 DEF Resume
  <2> QED BY <2>2, <2>3
<1>4. CASE Iterate
  <2>1. loop = "otter" BY <1>4, Same
  <2> QED BY <1>4, <2>1 DEF TurnInv, Iterate, Repeats, disk
<1>5. CASE \/ MakeDirectory \/ MakeFails \/ RecordInRoom \/ BeginRotation
           \/ RemoveFile \/ EndRotation
  <2>1. holds' \subseteq holds
    BY <1>5 DEF MakeDirectory, MakeFails, RecordInRoom, BeginRotation,
                RemoveFile, EndRotation, disk
  <2> QED BY <1>5, <2>1, Same, SamePlace DEF TurnInv
<1>6. CASE WriteFile
  BY <1>6, Same, SamePlace DEF TurnInv, WriteFile, Tmp
<1>7. CASE Rename
  <2>1. given = turn /\ \A h \in holds : h[1][2] = h[3]
    BY <1>7, Same DEF TurnInv
  <2>2. \A h \in Contents(Tmp) : h[3] = turn
    BY <1>7 DEF Contents, IInv, FillInv, Rename, At
  <2>3. \A h \in holds' : h \in holds \/ (h[1] = Final /\ h[3] = turn)
    BY <1>7, <2>2 DEF Rename
  <2>4. Final[2] = given BY DEF Final
  <2> QED BY <1>7, <2>1, <2>3, <2>4, SamePlace
<1> QED BY <1>1, <1>2, <1>3, <1>4, <1>5, <1>6, <1>7, Kinds

-----------------------------------------------------------------------------
(* The exit after a checkpoint.                                            *)

\* A directory that is renamed holds metadata.txt of this turn.
LEMMA RenameWrites ==
  ASSUME IInv, Rename
  PROVE  Written' /\ Final' \notin condemned'
<1>1. <<Tmp, "metadata", turn>> \in Contents(Tmp)
  BY DEF Rename, At, IInv, FillInv, Contents
<1>2. <<Final, "metadata", turn>> \in holds' BY <1>1 DEF Rename
<1>3. Final \in dirs' /\ Final \notin condemned' BY DEF Rename
<1> QED BY <1>2, <1>3, SamePlace DEF Written

LEMMA ExitNext ==
  ASSUME IInv, PidInv, EndedInv, ExitInv, [Next]_vars
  PROVE  ExitInv'
<1> SUFFICES ASSUME exits'
             PROVE  condemned' = {} /\ (Running' => ExitPlaces')
  BY DEF ExitInv
<1>0. holds \subseteq dirs \X File \X Turn BY DEF IInv, TypeInv, DiskTypes
<1>1. CASE Quiet
  <2> USE <1>1, QuietKeeps DEF ExitInv, ExitPlaces
  <2>1. Written' = Written BY DEF Written
  <2>2. condemned' = {} OBVIOUS
  <2>3. ASSUME Running', pc \in {"mkdir", "fill"}, GivesUp PROVE faults' # 0
    <3>1. CASE pc = "mkdir" BY <2>3, <3>1 DEF GivesUp, Tmp
    <3>2. CASE pc = "fill"
      <4>1. Final \notin dirs BY <2>3, <3>2 DEF Final, Tmp
      <4>2. Contents(Final) = {} BY <1>0, <4>1 DEF Contents
      <4> QED BY <2>3, <3>2, <4>2 DEF GivesUp
    <3> QED BY <2>3, <3>1, <3>2
  <2>4. faults' = 0 => faults = 0 BY DEF Quiet
  <2>5. ASSUME Running PROVE ExitPlaces'
    <3> USE <2>5 DEF ExitPlaces
    <3>1. exits /\ ExitPlaces BY DEF ExitInv
    <3>2. CASE UNCHANGED <<pc, automatic>> BY <2>1, <2>4, <3>1, <3>2
    <3>3. CASE pc \in {"mkdir", "fill"} /\ pc' # pc
      BY <2>3, <3>1, <3>3 DEF Quiet, Moves
    <3>4. CASE pc \notin {"mkdir", "fill"} /\ pc' # pc
      BY <3>1, <3>4 DEF Quiet, Moves
    <3> QED BY <3>2, <3>3, <3>4 DEF Quiet, Moves
  <2> QED BY <2>2, <2>5
<1>2. CASE Ends BY <1>2 DEF ExitInv, ExitPlaces, Ends, process
<1>3. CASE Resume
  BY <1>3, Resuming DEF ExitInv, ExitPlaces, EndedInv
<1>4. CASE Iterate
  BY <1>4, Same, SameRing, SameHistory
     DEF ExitInv, ExitPlaces, Iterate, At, Goto, disk
<1>5. CASE MakeDirectory
  BY <1>5, Same, SamePlace, SameRing, SameHistory
     DEF ExitInv, ExitPlaces, MakeDirectory, At, Goto, Tmp
<1>6. CASE MakeFails
  <2>1. faults' # 0
    BY <1>6 DEF MakeFails, Fault, IInv, TypeInv, HistoryTypes
  <2> QED BY <1>6, <2>1, Same, SameRing, SameHistory
     DEF ExitInv, ExitPlaces, MakeFails, At, Return, Goto
<1>7. CASE WriteFile
  BY <1>7, Same, SamePlace, SameRing, SameHistory DEF ExitInv, ExitPlaces, WriteFile, At
<1>8. CASE Rename
  <2>1. condemned' = {} BY <1>8, Same DEF ExitInv, ExitPlaces, Rename
  <2>2. pc' \in {"record", "answered"} /\ pc = "fill"
    BY <1>8 DEF Rename, At, Return, Goto
  <2> QED BY <1>8, <2>1, <2>2, Same, SameRing, RenameWrites DEF ExitInv, ExitPlaces
<1>9. CASE RecordInRoom
  <2>1. Written' = Written
    BY <1>9, SamePlace DEF Written, RecordInRoom, disk
  <2> QED BY <1>9, <2>1, Same, SameHistory
     DEF ExitInv, ExitPlaces, RecordInRoom, Enter, At, Goto
<1>10. CASE BeginRotation \/ RemoveFile \/ EndRotation
  <2>1. count = Keep
    BY <1>10 DEF BeginRotation, RemoveFile, EndRotation, Full, At, IInv,
                 PlaceInv, RotationInv
  <2>2. pc \in {"record", "rotate"} /\ Running
    BY <1>10 DEF BeginRotation, RemoveFile, EndRotation, At
  <2>3. FALSE BY <1>10, <2>1, <2>2, Same, BoundsAssumption DEF ExitInv, ExitPlaces
  <2> QED BY <2>3
<1> QED BY <1>1, <1>2, <1>3, <1>4, <1>5, <1>6, <1>7, <1>8, <1>9, <1>10, Kinds

-----------------------------------------------------------------------------
(* The Otter loop: what is of this turn.                                   *)

\* The numbers.
LEMMA Numbers ==
  ASSUME IInv
  PROVE  /\ turn \in Nat /\ given \in Nat /\ pid \in Int
         /\ \A i \in 0 .. Keep - 1 : slots[i] \in Int
         /\ \A d \in dirs \union asked \union condemned :
               /\ d[1] \in Int /\ d[2] \in Int
               /\ d = <<d[1], d[2], d[3]>> /\ d[3] \in {"final", "tmp"}
  <1>1. \A d \in Directory : /\ d[1] \in Int /\ d[2] \in Int
                             /\ d = <<d[1], d[2], d[3]>> /\ d[3] \in {"final", "tmp"}
    BY DEF Directory, Pid, Turn
  <1>2. turn \in Nat /\ given \in Nat /\ pid \in Int
    BY DEF IInv, TypeInv, ProcessTypes, Turn, Pid
  <1>3. \A i \in 0 .. Keep - 1 : slots[i] \in Int
    BY DEF IInv, TypeInv, RingTypes, Turn
  <1> QED BY <1>1, <1>2, <1>3 DEF IInv, TypeInv, DiskTypes

\* What write_checkpoint finds in its way.
LEMMA InTheWay ==
  ASSUME IInv, Sound, TurnInv, OtterInv, GivesUp, faults' = 0
  PROVE  pc = "fill" /\ ~automatic /\ Final \in dirs
<1>1. faults = 0 /\ given = turn BY DEF Sound, TurnInv
<1>2. Tmp \in dirs => pc # "mkdir"
  BY <1>1 DEF OtterInv, OwnDirs, Tmp
<1>3. holds \subseteq dirs \X File \X Turn BY DEF IInv, TypeInv, DiskTypes
<1>4. Contents(Final) # {} => Final \in dirs BY <1>3 DEF Contents
<1>5. Final \in dirs => ~Untouched BY <1>1 DEF OtterInv, OwnDirs, Final
<1> QED BY <1>1, <1>2, <1>4, <1>5 DEF GivesUp, Untouched

LEMMA OtterNext ==
  ASSUME IInv, PidInv, EndedInv, TurnInv, OtterInv, [Next]_vars
  PROVE  OtterInv'
<1> SUFFICES ASSUME Sound' PROVE OwnDirs' /\ OwnNames' /\ Found' BY DEF OtterInv
<1>0. loop' = "otter" /\ faults' = 0 /\ Running' BY DEF Sound
<1>1. CASE Quiet
  <2>1. Sound BY <1>0, <1>1, QuietKeeps DEF Sound, Quiet
  <2>2. OwnDirs /\ OwnNames /\ Found BY <2>1 DEF OtterInv
  <2>3. CASE UNCHANGED <<pc, automatic>>
    BY <1>1, <2>2, <2>3, QuietKeeps
       DEF OwnDirs, OwnNames, Found, Untouched, Unrecorded
  <2>4. CASE pc \in {"loop", "ask", "recorded", "answered"} /\ pc' # pc
    <3> USE <1>1, <2>2, <2>4, QuietKeeps DEF Quiet, Moves, Untouched, Unrecorded
    <3>1. OwnDirs' BY Numbers DEF OwnDirs
    <3>2. OwnNames' BY DEF OwnNames
    <3>3. Found' BY DEF Found
    <3> QED BY <3>1, <3>2, <3>3
  <2>5. CASE /\ pc \in {"mkdir", "fill"} /\ GivesUp
             /\ pc' = IF automatic THEN "record" ELSE "answered"
    <3>1. pc = "fill" /\ pc' = "answered" /\ Final \in dirs
      BY <1>0, <2>1, <2>5, InTheWay
    <3> USE <1>1, <2>2, <3>1, QuietKeeps DEF Untouched, Unrecorded
    <3>2. OwnDirs' BY DEF OwnDirs
    <3>3. OwnNames' BY DEF OwnNames
    <3>4. Found' BY DEF Found
    <3> QED BY <3>2, <3>3, <3>4
  <2> QED BY <1>1, <2>3, <2>4, <2>5 DEF Quiet, Moves
<1>2. CASE Ends BY <1>0, <1>2 DEF Ends
<1>3. CASE Resume
  <2>1. pc' = "work" /\ turn' \in Nat /\ \A i \in 0 .. Keep - 1 : slots'[i] = -1
    <3>1. turn' \in Nat
      <4>1. CASE \E d \in dirs : Load(d) BY <4>1 DEF Load, Turn
      <4>2. CASE UNCHANGED memory BY <4>2, Numbers DEF memory, search
      <4> QED BY <1>3, <4>1, <4>2 DEF Resume
    <3> QED BY <1>0, <1>3, <3>1, Resuming DEF EndedInv
  <2>2. OwnDirs' BY <1>3, Resuming DEF OwnDirs
  <2>3. OwnNames'
    BY <1>3, <2>1, Resuming DEF OwnNames, Unrecorded, Untouched
  <2>4. Found' BY <2>1 DEF Found
  <2> QED BY <2>2, <2>3, <2>4
<1>4. CASE \/ Iterate \/ MakeDirectory \/ MakeFails \/ WriteFile \/ Rename
           \/ RecordInRoom \/ BeginRotation \/ RemoveFile \/ EndRotation
  <2>1. Sound /\ UNCHANGED <<pid, automatic>>
    BY <1>0, <1>4, Same DEF Sound
  <2>2. OwnDirs /\ OwnNames /\ Found BY <2>1 DEF OtterInv
  <2>3. given = turn BY <2>1 DEF Sound, TurnInv
  <2>4. CASE Iterate
    <3>1. /\ turn' = turn + 1 /\ pc' = "loop" /\ pc = "work"
          /\ UNCHANGED <<dirs, condemned, slots>>
      BY <2>4 DEF Iterate, At, Goto, disk, ring, history
    <3>2. OwnDirs' BY <2>1, <2>2, <3>1, Numbers DEF OwnDirs
    <3>3. OwnNames' BY <2>1, <2>2, <3>1, Numbers DEF OwnNames
    <3>4. Found' BY <3>1 DEF Found
    <3> QED BY <3>2, <3>3, <3>4
  <2>5. CASE MakeDirectory
    <3>1. /\ dirs' = dirs \union {Tmp} /\ pc' = "fill" /\ pc = "mkdir"
          /\ UNCHANGED <<turn, slots, condemned>>
      BY <2>5, SamePlace, SameRing, SameHistory DEF MakeDirectory, At, Goto
    <3>2. Tmp[2] = turn /\ Tmp[3] = "tmp" BY <2>3 DEF Tmp
    <3>3. Untouched' = Untouched /\ Unrecorded' = Unrecorded
      BY <2>1, <3>1 DEF Untouched, Unrecorded
    <3>4. OwnDirs' BY <2>1, <2>2, <3>1, <3>2, <3>3, Numbers DEF OwnDirs
    <3>5. OwnNames' BY <2>1, <2>2, <3>1, <3>3 DEF OwnNames
    <3>6. Found' BY <3>1 DEF Found
    <3> QED BY <3>4, <3>5, <3>6
  <2>6. CASE MakeFails
    BY <1>0, <2>6 DEF MakeFails, Fault, IInv, TypeInv, HistoryTypes
  <2>7. CASE WriteFile \/ RemoveFile
    <3>1. UNCHANGED <<turn, pc, dirs, slots, condemned, Final>>
      BY <2>7, SamePlace, SameRing, SameHistory DEF WriteFile, RemoveFile
    <3> QED BY <2>1, <2>2, <3>1
       DEF OwnDirs, OwnNames, Found, Untouched, Unrecorded
  <2>8. CASE Rename
    <3>1. /\ dirs' = (dirs \ {Tmp}) \union {Final} /\ pc = "fill"
          /\ pc' = IF automatic THEN "record" ELSE "answered"
          /\ UNCHANGED <<turn, slots, Final>> /\ condemned' \subseteq condemned
      BY <2>8, SamePlace, SameRing DEF Rename, At, Goto, Return
    <3>2. OwnDirs'
      <4>1. ASSUME NEW d \in dirs', d[1] = pid
            PROVE  d[2] <= turn /\ (d[3] = "tmp" /\ d[2] = turn => FALSE)
        <5>1. CASE d = Final BY <2>3, <5>1, Numbers DEF Final
        <5>2. CASE d \in dirs /\ d # Tmp
          BY <2>2, <2>3, <4>1, <5>2, Numbers DEF OwnDirs, Tmp
        <5> QED BY <3>1, <5>1, <5>2
      <4> QED BY <2>1, <3>1, <4>1 DEF OwnDirs, Untouched
    <3>3. OwnNames'
      BY <2>1, <2>2, <3>1 DEF OwnNames, Unrecorded, Untouched
    <3>4. Found' BY <3>1 DEF Found
    <3> QED BY <3>2, <3>3, <3>4
  <2>9. CASE RecordInRoom \/ EndRotation
    <3>1. /\ UNCHANGED <<turn, Final, condemned>>
          /\ pc' = "recorded" /\ pc \in {"record", "rotate"}
      BY <2>9, SamePlace, SameHistory
         DEF RecordInRoom, EndRotation, Enter, Goto, At
    <3>2. \A i \in 0 .. Keep - 1 : slots'[i] \in {slots[i], -1, given}
      BY <2>9 DEF RecordInRoom, EndRotation, Enter, IInv, TypeInv, RingTypes
    <3>3. dirs' \subseteq dirs /\ Final \in dirs'
      <4>1. CASE RecordInRoom
        BY <2>2, <3>1, <4>1 DEF RecordInRoom, disk, Found
      <4>2. CASE EndRotation
        <5>1. slots[head] < turn
          BY <2>2, <3>1 DEF OwnNames, Unrecorded, IInv, TypeInv, RingTypes
        <5>2. Final # Victim
          BY <2>3, <5>1, Numbers DEF Final, Victim
        <5> QED BY <2>2, <3>1, <4>2, <5>2 DEF EndRotation, Found
      <4> QED BY <2>9, <4>1, <4>2
    <3>4. OwnDirs' BY <2>1, <2>2, <3>1, <3>3 DEF OwnDirs, Untouched
    <3>5. OwnNames'
      BY <2>1, <2>2, <2>3, <3>1, <3>2, Numbers DEF OwnNames, Unrecorded, Untouched
    <3>6. Found' BY <3>1, <3>3 DEF Found
    <3> QED BY <3>4, <3>5, <3>6
  <2>10. CASE BeginRotation
    <3>1. /\ UNCHANGED <<turn, Final, slots, dirs>> /\ pc = "record"
          /\ pc' = "rotate" /\ condemned' = condemned \union {Victim}
      BY <2>10, SamePlace, SameRing DEF BeginRotation, disk, At, Goto
    <3>2. Victim[2] < turn
      BY <2>2, <3>1 DEF OwnNames, Unrecorded, IInv, TypeInv, RingTypes, Victim
    <3>3. OwnDirs' BY <2>1, <2>2, <3>1 DEF OwnDirs, Untouched
    <3>4. OwnNames'
      BY <2>1, <2>2, <3>1, <3>2 DEF OwnNames, Unrecorded, Untouched
    <3>5. Found' BY <2>2, <3>1 DEF Found
    <3> QED BY <3>3, <3>4, <3>5
  <2> QED BY <1>4, <2>4, <2>5, <2>6, <2>7, <2>8, <2>9, <2>10
<1> QED BY <1>1, <1>2, <1>3, <1>4, Kinds

-----------------------------------------------------------------------------
(* The buffer.                                                             *)

\* A checkpoint is recorded: in the next free slot, or in the slot of the
\* oldest name, which is then the last.
LEMMA Entering ==
  ASSUME IInv, RecordInRoom \/ EndRotation
  PROVE  LET next == IF RecordInRoom THEN NextSlot(head, count) ELSE head IN
         /\ next \in 0 .. Keep - 1 /\ slots'[next] = given
         /\ \A s \in 0 .. Keep - 1 : s # next => slots'[s] = slots[s]
         /\ RecordInRoom => /\ slots[next] = -1 /\ count < Keep
                            /\ count' = count + 1 /\ head' = head
         /\ ~RecordInRoom => /\ count = Keep /\ count' = Keep
                             /\ head' = (head + 1) % Keep
<1>1. /\ slots \in [0 .. Keep - 1 -> Turn \union {-1}]
      /\ head \in 0 .. Keep - 1 /\ count \in 0 .. Keep
  BY DEF IInv, TypeInv, RingTypes
<1>2. CASE RecordInRoom
  <2>1. count \in 0 .. Keep - 1 /\ count < Keep
    BY <1>1, <1>2, BoundsAssumption DEF RecordInRoom, Full
  <2>2. slots' = [slots EXCEPT ![NextSlot(head, count)] = given]
          /\ count' = count + 1 /\ head' = head
    BY <1>2 DEF RecordInRoom, Enter
  <2>3. NextSlot(head, count) \in 0 .. Keep - 1 BY <1>1, SlotType
  <2>4. slots[NextSlot(head, count)] = -1
    <3>1. slots[NextSlot(head, count)] # -1 <=> count < count
      BY <2>1 DEF IInv, RingOK
    <3> QED BY <1>1, <3>1
  <2> QED BY <1>1, <1>2, <2>1, <2>2, <2>3, <2>4
<1>3. CASE EndRotation /\ ~RecordInRoom
  <2>1. count = Keep
    BY <1>3 DEF EndRotation, At, IInv, PlaceInv, RotationInv
  <2>2. NextSlot((head + 1) % Keep, count - 1) = head
    BY <1>1, <2>1, SlotReused
  <2>0. /\ slots' = [[slots EXCEPT ![head] = -1]
                         EXCEPT ![NextSlot((head + 1) % Keep, count - 1)] = given]
        /\ count' = (count - 1) + 1 /\ head' = (head + 1) % Keep
    BY <1>3 DEF EndRotation, Enter
  <2>3. slots' = [[slots EXCEPT ![head] = -1] EXCEPT ![head] = given]
    BY <2>0, <2>2, Zenon
  <2>4. count' = Keep BY <2>0, <2>1, BoundsAssumption
  <2> QED BY <1>1, <1>3, <2>0, <2>1, <2>3, <2>4
<1> QED BY <1>2, <1>3

\* The slots counted from the next head.
LEMMA SlotsShift ==
  ASSUME NEW h \in 0 .. Keep - 1, NEW i \in 0 .. Keep - 2
  PROVE  NextSlot((h + 1) % Keep, i) = NextSlot(h, i + 1)
<1>1. 1 \in 0 .. Keep /\ i \in 0 .. Keep /\ i + 1 \in 0 .. Keep
  BY BoundsAssumption
<1>2. (h + 1) % Keep = IF h + 1 < Keep THEN h + 1 ELSE h + 1 - Keep
  BY <1>1, Wrap DEF NextSlot
<1>3. (h + 1) % Keep \in 0 .. Keep - 1 BY <1>2, BoundsAssumption
<1> DEFINE n == (h + 1) % Keep
<1>4. NextSlot(n, i) = IF n + i < Keep THEN n + i ELSE n + i - Keep
  BY <1>1, <1>3, Wrap
<1>5. NextSlot(h, i + 1)
        = IF h + (i + 1) < Keep THEN h + (i + 1) ELSE h + (i + 1) - Keep
  BY <1>1, Wrap
<1> QED BY <1>2, <1>4, <1>5, BoundsAssumption

\* A history one longer.
LEMMA Appending ==
  ASSUME IInv, autos' = Append(autos, given)
  PROVE  /\ autos \in Seq(Turn) /\ autos' \in Seq(Turn)
         /\ Len(autos) \in Nat /\ Len(autos') = Len(autos) + 1
         /\ autos'[Len(autos) + 1] = given
         /\ \A i \in 1 .. Len(autos) : autos'[i] = autos[i]
<1>1. autos \in Seq(Turn) /\ given \in Turn
  BY Names DEF IInv, TypeInv, HistoryTypes
<1> QED BY <1>1

-----------------------------------------------------------------------------
(* The periodic checkpoints on disk are in the buffer.                     *)

LEMMA BoundNext ==
  ASSUME IInv, PidInv, EndedInv, BoundInv, [Next]_vars
  PROVE  BoundInv'
<1> USE DEF PeriodicDirs, Finished, Named, Recording
<1>0. /\ autos \in Seq(Turn) /\ Len(autos) \in Nat /\ given \in Nat
      /\ \A i \in 1 .. Len(autos) : autos[i] \in Nat
  <2>1. autos \in Seq(Turn) BY DEF IInv, TypeInv, HistoryTypes
  <2>2. \A t \in Turn : t \in Nat BY DEF Turn
  <2> QED BY <2>1, <2>2, Numbers
<1>1. CASE Quiet
  <2>1. Recording => Recording' BY <1>1 DEF Quiet, Moves
  <2> QED BY <1>1, <2>1, QuietKeeps DEF BoundInv
<1>2. CASE Ends BY <1>2 DEF BoundInv, Ends, Fresh
<1>3. CASE Resume
  <2>1. autos' = << >> BY <1>3, Resuming DEF EndedInv
  <2> QED BY <2>1 DEF BoundInv
<1>4. CASE Iterate
  <2>1. /\ UNCHANGED <<pid, dirs, autos, slots>> /\ pc = "work" /\ pc' = "loop"
        /\ given' \in {given, given + 1}
    BY <1>4 DEF Iterate, At, Goto, process, disk, ring, history
  <2>2. ~Finished(given + 1) BY <1>0 DEF BoundInv
  <2> QED BY <1>0, <2>1, <2>2 DEF BoundInv
<1>5. CASE MakeDirectory \/ MakeFails \/ WriteFile \/ RemoveFile \/ BeginRotation
  <2>1. /\ UNCHANGED <<pid, given, autos, slots>>
        /\ \A d \in dirs' : d[3] = "final" => d \in dirs
        /\ Recording => Recording'
    BY <1>5, Same, SamePlace, SameRing
       DEF MakeDirectory, MakeFails, WriteFile, RemoveFile, BeginRotation, At,
           Goto, Return, Tmp, history, disk
  <2> QED BY <2>1 DEF BoundInv
<1>6. CASE Rename
  <2>1. /\ UNCHANGED <<pid, given, slots>> /\ pc = "fill"
        /\ dirs' = (dirs \ {Tmp}) \union {Final} /\ Final[2] = given
        /\ pc' = IF automatic THEN "record" ELSE "answered"
    BY <1>6, Same, SamePlace, SameRing
       DEF Rename, At, Goto, Return, Final
  <2>2. CASE automatic
    <3>1. autos' = Append(autos, given) BY <1>6, <2>2 DEF Rename
    <3>2. \A i \in 1 .. Len(autos') : autos'[i] <= given'
      BY <1>0, <2>1, <3>1, Appending DEF BoundInv
    <3>3. \A g : Finished(g)' => Finished(g) \/ g = given
      BY <3>1, Appending
    <3> QED BY <2>1, <2>2, <3>2, <3>3 DEF BoundInv
  <2>3. CASE ~automatic
    <3>1. autos' = autos BY <1>6, <2>3 DEF Rename
    <3> QED BY <2>1, <2>3, <3>1 DEF BoundInv
  <2> QED BY <2>2, <2>3
<1>7. CASE RecordInRoom \/ EndRotation
  <2> DEFINE next == IF RecordInRoom THEN NextSlot(head, count) ELSE head
  <2>1. /\ next \in 0 .. Keep - 1 /\ slots'[next] = given
        /\ \A s \in 0 .. Keep - 1 : s # next => slots'[s] = slots[s]
        /\ RecordInRoom => slots[next] = -1
    BY <1>7, Entering
  <2>2. UNCHANGED <<pid, given, autos>>
    BY <1>7, Same, SamePlace, SameHistory
  <2>3. Named(given)' BY <2>1, <2>2
  <2>4. ASSUME NEW d \in dirs', d[1] = pid, d[3] = "final", Finished(d[2])
        PROVE  Named(d[2])'
    <3>1. d \in dirs /\ (EndRotation => d # Victim)
      BY <1>7 DEF RecordInRoom, EndRotation, disk
    <3>2. Named(d[2]) \/ d[2] = given BY <2>4, <3>1 DEF BoundInv
    <3>3. CASE Named(d[2])
      <4>1. PICK s \in 0 .. Keep - 1 : slots[s] = d[2] BY <3>3
      <4>2. s # next
        <5>1. d = <<d[1], d[2], d[3]>> /\ d[2] # -1
          BY <3>1 DEF IInv, TypeInv, DiskTypes, Directory, Turn
        <5>2. CASE RecordInRoom BY <2>1, <4>1, <5>1, <5>2
        <5>3. CASE EndRotation /\ ~RecordInRoom
          BY <2>4, <3>1, <4>1, <5>1, <5>3 DEF Victim
        <5> QED BY <1>7, <5>2, <5>3
      <4> QED BY <2>1, <4>1, <4>2
    <3> QED BY <2>2, <2>3, <3>2, <3>3
  <2> QED BY <2>2, <2>3, <2>4 DEF BoundInv
<1> QED BY <1>1, <1>2, <1>3, <1>4, <1>5, <1>6, <1>7, Kinds

-----------------------------------------------------------------------------
(* The newest periodic checkpoints and the requested ones.                 *)

Kept == Newest /\ Rising /\ OnDisk /\ AskedInv

\* The history and the buffer, in numbers.
LEMMA Lengths ==
  ASSUME IInv
  PROVE  /\ Len(autos) \in Nat /\ count \in 0 .. Keep /\ head \in 0 .. Keep - 1
         /\ \A i \in 1 .. Len(autos) : autos[i] \in Nat
         /\ Recorded \in Int /\ Recorded <= Len(autos)
<1>1. autos \in Seq(Turn) BY DEF IInv, TypeInv, HistoryTypes
<1>2. \A t \in Turn : t \in Nat BY DEF Turn
<1>3. Len(autos) \in Nat /\ \A i \in 1 .. Len(autos) : autos[i] \in Nat
  BY <1>1, <1>2
<1>4. Recorded \in Int /\ Recorded <= Len(autos) BY <1>3 DEF Recorded
<1> QED BY <1>3, <1>4 DEF IInv, TypeInv, RingTypes

\* The oldest name of a full buffer is that of a periodic checkpoint, and the
\* later ones have other names.
LEMMA Oldest ==
  ASSUME IInv, Kept, count = Keep, Recording
  PROVE  /\ Finished(slots[head])
         /\ \A i \in 1 .. Len(autos) :
               i > Recorded - count + 1 => autos[i] # slots[head]
<1>1. NextSlot(head, 0) = head BY Lengths, Wrap, BoundsAssumption
<1>2. slots[head] = autos[Recorded - count + 1]
  <2>1. 0 \in 0 .. count - 1 BY BoundsAssumption
  <2>2. slots[NextSlot(head, 0)] = autos[Recorded - count + 1 + 0]
    BY <2>1 DEF Kept, Newest
  <2>3. Recorded - count + 1 + 0 = Recorded - count + 1
    BY Lengths, BoundsAssumption
  <2> QED BY <1>1, <2>2, <2>3
<1>3. Recorded - count + 1 \in 1 .. Len(autos)
  BY Lengths, BoundsAssumption DEF Kept, Newest
<1> QED BY <1>2, <1>3, Lengths DEF Kept, Rising, Finished

\* The last of them is the only one that can be of this turn.
LEMMA Last ==
  ASSUME IInv, Sound, TurnInv, Kept, Finished(given), ~Recording
  PROVE  Final \in dirs \ condemned
<1>1. PICK i \in 1 .. Len(autos) : autos[i] = given BY DEF Finished
<1>2. given = turn BY DEF Sound, TurnInv
<1>3. Len(autos) \in 1 .. Len(autos) BY Lengths
<1>4. i = Len(autos)
  <2>1. autos[Len(autos)] <= turn BY <1>3 DEF Kept, Rising
  <2>2. i < Len(autos) => autos[i] < autos[Len(autos)]
    BY <1>3 DEF Kept, Rising
  <2> QED BY <1>1, <1>2, <1>3, <2>1, <2>2, Lengths
<1>5. pc # "rotate" /\ Recorded = Len(autos) BY DEF Recording, Recorded
<1>6. i > Recorded - count
  BY <1>3, <1>4, <1>5, Lengths, BoundsAssumption DEF Kept, Newest
<1> QED BY <1>1, <1>5, <1>6 DEF Kept, OnDisk, Final

\* A directory with files in the way of a rename.
LEMMA Blocked ==
  ASSUME IInv, Final \in dirs \ condemned
  PROVE  Contents(Final) # {}
<1>1. Final[3] = "final" BY DEF Final
<1>2. PICK t \in Turn : \A f \in Mandatory : <<Final, f, t>> \in holds
  BY <1>1 DEF IInv, WholeOrHidden
<1>3. "metadata" \in Mandatory BY DEF Mandatory
<1>4. <<Final, "metadata", t>> \in Contents(Final) BY <1>2, <1>3 DEF Contents
<1> QED BY <1>4

\* Steps that do not touch the buffer or the histories and take no directory
\* with its final name away.
LEMMA KeptAsIs ==
  ASSUME Kept, UNCHANGED <<pid, turn, given, slots, head, count, autos, asked>>,
         condemned' \subseteq condemned,
         \A d \in dirs : d[3] = "final" => d \in dirs',
         Recording' = Recording, pc = "rotate" => pc' = "rotate",
         Untouched' => Untouched
  PROVE  Kept'
<1> USE DEF Kept
<1>1. Recorded' = Recorded BY DEF Recorded
<1>2. Newest' BY <1>1 DEF Newest
<1>3. Rising' BY DEF Rising
<1>4. AskedInv' BY DEF AskedInv, Finished
<1>5. OnDisk'
  <2> SUFFICES ASSUME NEW i \in 1 .. Len(autos), i > Recorded - count,
                      pc' = "rotate" => i > Recorded - count + 1
               PROVE  <<pid, autos[i], "final">> \in dirs' \ condemned'
    BY <1>1 DEF OnDisk
  <2>1. pc = "rotate" => i > Recorded - count + 1 OBVIOUS
  <2>2. <<pid, autos[i], "final">> \in dirs \ condemned BY <2>1 DEF OnDisk
  <2> QED BY <2>2
<1> QED BY <1>2, <1>3, <1>4, <1>5

LEMMA RenameKeeps ==
  ASSUME IInv, Sound, TurnInv, OtterInv, Kept, Rename
  PROVE  Kept'
<1>1. /\ UNCHANGED <<pid, turn, given, slots, head, count, Final, automatic>>
      /\ pc = "fill" /\ pc' = IF automatic THEN "record" ELSE "answered"
      /\ dirs' = (dirs \ {Tmp}) \union {Final} /\ condemned' = condemned \ {Final}
  BY Same, SamePlace, SameRing DEF Rename, At, Goto, Return
<1>2. given = turn /\ turn \in Nat BY Numbers DEF Sound, TurnInv
<1>3. ~Recording /\ ~Untouched' /\ (automatic => Untouched)
  BY <1>1 DEF Recording, Untouched
<1>4. \A d \in dirs \ condemned : d[3] = "final" => d \in dirs' \ condemned'
  BY <1>1 DEF Tmp
<1> USE DEF Kept
<1>5. CASE automatic
  <2>1. autos' = Append(autos, given) /\ asked' = asked
    BY <1>5 DEF Rename
  <2>2. /\ Len(autos') = Len(autos) + 1 /\ autos'[Len(autos) + 1] = given
        /\ \A i \in 1 .. Len(autos) : autos'[i] = autos[i]
    BY <2>1, Appending
  <2>3. Recording' BY <1>1, <1>5 DEF Recording
  <2>4. Recorded' = Len(autos) /\ Recorded = Len(autos)
    BY <1>3, <2>2, <2>3, Lengths DEF Recorded
  <2>5. \A i \in 1 .. Len(autos) : autos[i] < turn
    BY <1>3, <1>5 DEF Rising
  <2>6. \A i \in 1 .. Len(autos') :
           \/ i \in 1 .. Len(autos) /\ autos'[i] = autos[i] /\ autos'[i] < turn
           \/ i = Len(autos) + 1 /\ autos'[i] = turn
    BY <1>2, <2>2, <2>5, Lengths
  <2>7. Newest'
    <3>1. Len(autos') > 0 /\ autos'[Len(autos')] = given' BY <1>1, <2>2, Lengths
    <3>2. count' = IF Recorded' < Keep THEN Recorded' ELSE Keep
      BY <1>1, <2>4 DEF Newest
    <3>3. ASSUME NEW i \in 0 .. count' - 1
          PROVE  slots'[NextSlot(head', i)] = autos'[Recorded' - count' + 1 + i]
      <4>1. slots[NextSlot(head, i)] = autos[Recorded - count + 1 + i]
        BY <1>1 DEF Newest
      <4>2. Recorded - count + 1 + i \in 1 .. Len(autos)
        BY <1>1, <2>4, Lengths, BoundsAssumption DEF Newest
      <4>3. autos'[Recorded - count + 1 + i] = autos[Recorded - count + 1 + i]
        BY <2>2, <4>2
      <4> QED BY <1>1, <2>4, <4>1, <4>3
    <3> QED BY <3>1, <3>2, <3>3 DEF Newest
  <2>8. Rising'
    <3>1. ASSUME NEW i \in 1 .. Len(autos'), NEW j \in 1 .. Len(autos'), i < j
          PROVE  autos'[i] < autos'[j]
      <4>1. i \in 1 .. Len(autos) BY <2>2, <3>1, Lengths
      <4>2. CASE j \in 1 .. Len(autos) BY <2>2, <3>1, <4>1, <4>2 DEF Rising
      <4>3. CASE j = Len(autos) + 1 BY <1>2, <2>2, <2>5, <4>1, <4>3
      <4> QED BY <2>6, <4>2, <4>3
    <3>2. \A i \in 1 .. Len(autos') : autos'[i] <= turn'
      BY <1>1, <1>2, <2>6, Lengths
    <3> QED BY <1>3, <3>1, <3>2 DEF Rising
  <2>9. OnDisk'
    <3> SUFFICES ASSUME NEW i \in 1 .. Len(autos'), i > Recorded' - count'
                 PROVE  <<pid, autos'[i], "final">> \in dirs' \ condemned'
      BY <1>1 DEF OnDisk
    <3>1. CASE i \in 1 .. Len(autos)
      <4>1. <<pid, autos[i], "final">> \in dirs \ condemned
        BY <1>1, <2>4, <3>1 DEF OnDisk
      <4>2. <<pid, autos[i], "final">>[3] = "final" OBVIOUS
      <4> QED BY <1>4, <2>2, <3>1, <4>1, <4>2
    <3>2. CASE i = Len(autos) + 1
      BY <1>1, <2>2, <3>2 DEF Final
    <3> QED BY <2>6, <3>1, <3>2
  <2>10. AskedInv'
    <3> SUFFICES ASSUME NEW d \in asked, d[1] = pid
                 PROVE  ~Finished(d[2])' /\ d[2] <= turn
      BY <1>1, <1>3, <2>1 DEF AskedInv, Finished
    <3>1. ~Finished(d[2]) /\ d[2] < turn /\ d[2] <= turn
      BY <1>3, <1>5 DEF AskedInv
    <3>2. d[2] \in Int BY Numbers
    <3>3. d[2] # turn BY <1>2, <3>1, <3>2
    <3>4. ASSUME NEW i \in 1 .. Len(autos') PROVE autos'[i] # d[2]
      BY <2>6, <3>1, <3>3, <3>4, <2>2 DEF Finished
    <3> QED BY <3>1, <3>4 DEF Finished
  <2> QED BY <2>7, <2>8, <2>9, <2>10
<1>6. CASE ~automatic
  <2>1. autos' = autos /\ asked' = asked \union {Final}
    BY <1>6 DEF Rename
  <2>2. ~Recording' BY <1>1, <1>6 DEF Recording
  <2>3. Recorded' = Recorded BY <1>3, <2>1, <2>2 DEF Recorded
  <2>4. Newest' BY <1>1, <1>3, <2>1, <2>2, <2>3 DEF Newest
  <2>5. Rising' BY <1>1, <1>3, <2>1 DEF Rising
  <2>6. OnDisk'
    <3> SUFFICES ASSUME NEW i \in 1 .. Len(autos), i > Recorded - count
                 PROVE  <<pid, autos[i], "final">> \in dirs' \ condemned'
      BY <1>1, <2>1, <2>3 DEF OnDisk
    <3>1. <<pid, autos[i], "final">> \in dirs \ condemned BY <1>1 DEF OnDisk
    <3>2. <<pid, autos[i], "final">>[3] = "final" OBVIOUS
    <3> QED BY <1>4, <3>1, <3>2
  <2>7. AskedInv'
    <3> SUFFICES ASSUME NEW d \in asked \union {Final}, d[1] = pid
                 PROVE  ~Finished(d[2]) /\ d[2] <= turn
      BY <1>1, <1>3, <2>1 DEF AskedInv, Finished
    <3>1. CASE d \in asked BY <3>1 DEF AskedInv
    <3>2. CASE d = Final
      <4>1. d[2] = given BY <3>2 DEF Final
      <4>2. Contents(Final) = {} BY DEF Rename, CanRename
      <4>3. ~Finished(given) BY <1>3, <4>2, Last, Blocked
      <4> QED BY <1>2, <4>1, <4>3
    <3> QED BY <3>1, <3>2
  <2> QED BY <2>4, <2>5, <2>6, <2>7
<1> QED BY <1>5, <1>6

LEMMA RecordKeeps ==
  ASSUME IInv, Kept, RecordInRoom
  PROVE  Kept'
<1>1. /\ UNCHANGED <<pid, turn, given, autos, asked, condemned, dirs, automatic>>
      /\ pc = "record" /\ pc' = "recorded" /\ head' = head
      /\ count' = count + 1 /\ count < Keep
      /\ NextSlot(head, count) \in 0 .. Keep - 1
      /\ slots'[NextSlot(head, count)] = given
      /\ \A s \in 0 .. Keep - 1 :
            s # NextSlot(head, count) => slots'[s] = slots[s]
  BY Same, SamePlace, SameHistory, Entering
     DEF RecordInRoom, Enter, At, Goto, disk
<1>2. /\ Recorded = Len(autos) - 1 /\ Recorded' = Len(autos)
      /\ ~Recording' /\ ~Untouched'
  BY <1>1 DEF Recorded, Recording, Untouched
<1> USE DEF Kept
<1>3. count = Recorded /\ Len(autos) > 0 /\ autos[Len(autos)] = given
  BY <1>1, <1>2, Lengths, BoundsAssumption DEF Newest, Recording
<1>4. ASSUME NEW i \in 0 .. count' - 1
      PROVE  slots'[NextSlot(head', i)] = autos'[Recorded' - count' + 1 + i]
  <2>1. count \in 0 .. Keep - 1 /\ i \in 0 .. Keep - 1 /\ i \in 0 .. Keep
    BY <1>1, Lengths, BoundsAssumption
  <2>2. CASE i = count
    <3>1. Recorded' - count' + 1 + i = Len(autos)
      BY <1>1, <1>2, <1>3, <2>2, Lengths, BoundsAssumption
    <3> QED BY <1>1, <1>3, <2>2, <3>1
  <2>3. CASE i # count
    <3>1. NextSlot(head, i) # NextSlot(head, count)
            /\ NextSlot(head, i) \in 0 .. Keep - 1
      BY <2>1, <2>3, Lengths, SlotsDiffer, SlotType
    <3>2. i \in 0 .. count - 1 BY <1>1, <2>1, <2>3
    <3>3. slots[NextSlot(head, i)] = autos[Recorded - count + 1 + i]
      BY <3>2 DEF Newest
    <3>4. Recorded - count + 1 + i = Recorded' - count' + 1 + i
      BY <1>1, <1>2, <2>1, Lengths
    <3> QED BY <1>1, <3>1, <3>3, <3>4
  <2> QED BY <2>2, <2>3
<1>5. Newest'
  <2>1. count' = IF Recorded' < Keep THEN Recorded' ELSE Keep
    BY <1>1, <1>2, <1>3, Lengths, BoundsAssumption
  <2> QED BY <1>2, <1>4, <2>1 DEF Newest
<1>6. Rising' BY <1>1, <1>2 DEF Rising
<1>7. OnDisk'
  <2>1. Recorded' - count' = Recorded - count BY <1>1, <1>2, Lengths
  <2> QED BY <1>1, <2>1 DEF OnDisk
<1>8. AskedInv' BY <1>1, <1>2 DEF AskedInv, Finished
<1> QED BY <1>5, <1>6, <1>7, <1>8

\* The oldest periodic checkpoint is condemned, and no other that counts.
LEMMA BeginRotationKeeps ==
  ASSUME IInv, Kept, BeginRotation
  PROVE  Kept' /\ Victim \notin asked
<1>1. /\ UNCHANGED <<pid, turn, given, slots, head, count, autos, asked, dirs,
                     automatic>>
      /\ pc = "record" /\ pc' = "rotate" /\ count = Keep
      /\ condemned' = condemned \union {Victim}
  BY Same, SamePlace, SameRing DEF BeginRotation, At, Goto, Full, disk
<1>2. /\ Recorded' = Recorded /\ Recording /\ Recording'
      /\ ~Untouched'
  BY <1>1 DEF Recorded, Recording, Untouched
<1>3. /\ Finished(slots[head])
      /\ \A i \in 1 .. Len(autos) :
            i > Recorded - count + 1 => autos[i] # slots[head]
  BY <1>1, <1>2, Oldest
<1> USE DEF Kept
<1>4. Newest' BY <1>1, <1>2 DEF Newest
<1>5. Rising' BY <1>1, <1>2 DEF Rising
<1>6. OnDisk'
  <2> SUFFICES ASSUME NEW i \in 1 .. Len(autos), i > Recorded - count,
                      i > Recorded - count + 1
               PROVE  <<pid, autos[i], "final">> \in dirs' \ condemned'
    BY <1>1, <1>2 DEF OnDisk
  <2>1. <<pid, autos[i], "final">> \in dirs \ condemned BY <1>1 DEF OnDisk
  <2>2. <<pid, autos[i], "final">> # Victim BY <1>3 DEF Victim
  <2> QED BY <1>1, <2>1, <2>2
<1>7. AskedInv' BY <1>1, <1>2 DEF AskedInv, Finished
<1>8. Victim \notin asked BY <1>3 DEF AskedInv, Victim
<1> QED BY <1>4, <1>5, <1>6, <1>7, <1>8

LEMMA EndRotationKeeps ==
  ASSUME IInv, Kept, EndRotation
  PROVE  Kept'
<1>1. pc = "rotate" /\ pc' = "recorded" /\ dirs' = dirs \ {Victim}
  BY DEF EndRotation, Enter, At, Goto
<1>2. UNCHANGED <<pid, turn, given, autos, asked, condemned, automatic>>
  BY Same, SamePlace, SameHistory
<1>3. ~RecordInRoom BY <1>1 DEF RecordInRoom, At
<1>4. /\ head' = (head + 1) % Keep /\ count = Keep /\ count' = Keep
      /\ slots'[head] = given
      /\ \A s \in 0 .. Keep - 1 : s # head => slots'[s] = slots[s]
  BY <1>3, Entering
<1>5. /\ Recorded = Len(autos) - 1 /\ Recorded' = Len(autos)
      /\ ~Recording' /\ ~Untouched' /\ Recording
  BY <1>1, <1>2 DEF Recorded, Recording, Untouched
<1> USE DEF Kept
<1>6. Len(autos) > 0 /\ autos[Len(autos)] = given /\ Recorded >= Keep
  BY <1>4, <1>5, Lengths, BoundsAssumption DEF Newest
<1>7. ASSUME NEW i \in 0 .. count' - 1
      PROVE  slots'[NextSlot(head', i)] = autos'[Recorded' - count' + 1 + i]
  <2>1. CASE i = Keep - 1
    <3>1. NextSlot((head + 1) % Keep, Keep - 1) = head BY Lengths, SlotReused
    <3>2. Recorded' - count' + 1 + i = Len(autos)
      BY <1>4, <1>5, <2>1, Lengths, BoundsAssumption
    <3> QED BY <1>2, <1>4, <1>6, <2>1, <3>1, <3>2
  <2>2. CASE i # Keep - 1
    <3>1. /\ i \in 0 .. Keep - 2 /\ i + 1 \in 0 .. Keep - 1
          /\ 0 \in 0 .. Keep - 1 /\ i + 1 \in 0 .. Keep
      BY <1>4, <2>2, BoundsAssumption
    <3>2. NextSlot(head', i) = NextSlot(head, i + 1)
      BY <1>4, <3>1, Lengths, SlotsShift
    <3>3. NextSlot(head, i + 1) # NextSlot(head, 0)
      BY <3>1, Lengths, SlotsDiffer, BoundsAssumption
    <3>4. NextSlot(head, 0) = head BY Lengths, Wrap, BoundsAssumption
    <3>5. NextSlot(head, i + 1) \in 0 .. Keep - 1
      BY <3>1, Lengths, SlotType
    <3>6. slots[NextSlot(head, i + 1)] = autos[Recorded - count + 1 + (i + 1)]
      BY <1>4, <3>1 DEF Newest
    <3>7. Recorded - count + 1 + (i + 1) = Recorded' - count' + 1 + i
      BY <1>4, <1>5, <3>1, Lengths, BoundsAssumption
    <3> QED BY <1>2, <1>4, <3>2, <3>3, <3>4, <3>5, <3>6, <3>7
  <2> QED BY <2>1, <2>2
<1>8. Newest'
  <2>1. count' = IF Recorded' < Keep THEN Recorded' ELSE Keep
    BY <1>4, <1>5, <1>6, Lengths, BoundsAssumption
  <2> QED BY <1>5, <1>7, <2>1 DEF Newest
<1>9. Rising' BY <1>2, <1>5 DEF Rising
<1>10. OnDisk'
  <2> SUFFICES ASSUME NEW i \in 1 .. Len(autos), i > Recorded' - count'
               PROVE  <<pid, autos[i], "final">> \in dirs' \ condemned'
    BY <1>1, <1>2 DEF OnDisk
  <2>1. i > Recorded - count /\ i > Recorded - count + 1
    BY <1>4, <1>5, Lengths, BoundsAssumption
  <2>2. <<pid, autos[i], "final">> \in dirs \ condemned BY <2>1 DEF OnDisk
  <2>3. Victim \in condemned BY <1>1 DEF IInv, PlaceInv, RotationInv
  <2> QED BY <1>1, <1>2, <2>2, <2>3
<1>11. AskedInv' BY <1>2, <1>5 DEF AskedInv, Finished
<1> QED BY <1>8, <1>9, <1>10, <1>11

LEMMA NewestNext ==
  ASSUME IInv, PidInv, EndedInv, TurnInv, OtterInv, NewestInv, [Next]_vars
  PROVE  NewestInv'
<1> USE DEF NewestInv
<1>1. CASE Quiet
  <2>1. loop' = loop /\ (faults' = 0 => faults = 0) /\ asked' = asked
          /\ condemned' = condemned /\ (Sound' => Sound)
    BY <1>1, QuietKeeps DEF Quiet, Sound
  <2>2. ASSUME Sound' PROVE Kept'
    <3>1. Kept BY <2>1, <2>2 DEF Kept
    <3>2. Sound /\ faults' = 0 BY <2>1, <2>2 DEF Sound
    <3>3. ~(pc \in {"mkdir", "fill"} /\ GivesUp /\ automatic)
      BY <3>2, InTheWay
    <3>4. Recording' = Recording /\ (pc = "rotate" => pc' = "rotate")
            /\ (Untouched' => Untouched)
      BY <1>1, <3>3 DEF Quiet, Moves, Recording, Untouched
    <3> QED BY <1>1, <3>1, <3>4, QuietKeeps, KeptAsIs
  <2> QED BY <2>1, <2>2 DEF Kept
<1>2. CASE Ends
  <2>1. UNCHANGED <<loop, asked, condemned>> /\ ~Running'
    BY <1>2 DEF Ends, process
  <2>2. faults' = 0 => faults = 0 BY <1>2 DEF Ends
  <2> QED BY <2>1, <2>2 DEF Sound
<1>3. CASE Resume
  <2>1. loop' = loop /\ faults' = faults /\ asked' \subseteq asked
          /\ condemned' \subseteq condemned
    BY <1>3, Resuming
  <2>2. ASSUME Sound' PROVE Kept'
    <3>1. autos' = << >> /\ count' = 0 /\ pc' = "work"
      BY <1>3, <2>2, Resuming DEF EndedInv, Sound
    <3>2. Newest'
      <4>1. Recorded' = 0 /\ ~Recording' BY <3>1 DEF Recorded, Recording
      <4> QED BY <3>1, <4>1, BoundsAssumption DEF Newest
    <3>3. Rising' /\ OnDisk' BY <3>1 DEF Rising, OnDisk
    <3>4. AskedInv' BY <1>3, Resuming DEF AskedInv
    <3> QED BY <3>2, <3>3, <3>4 DEF Kept
  <2> QED BY <2>1, <2>2 DEF Kept
<1>4. CASE \/ Iterate \/ MakeDirectory \/ MakeFails \/ WriteFile \/ Rename
           \/ RecordInRoom \/ BeginRotation \/ RemoveFile \/ EndRotation
  <2> SUFFICES ASSUME loop' = "otter", faults' = 0
               PROVE  asked' \intersect condemned' = {} /\ Kept'
    BY <1>4, Same DEF Kept, Sound
  <2>1. Sound /\ Kept /\ asked \intersect condemned = {}
    BY <1>4, Same DEF Sound, Kept
  <2>2. UNCHANGED <<pid, automatic>> BY <1>4, Same
  <2>3. CASE Iterate
    <3>1. /\ turn' = turn + 1 /\ pc' = "loop" /\ pc = "work"
          /\ UNCHANGED <<dirs, condemned, asked, slots, head, count, autos>>
      BY <2>3 DEF Iterate, At, Goto, disk, ring, history
    <3>2. Recorded' = Recorded /\ ~Recording' /\ ~Recording
      BY <3>1 DEF Recorded, Recording
    <3>3. Newest' BY <2>1, <3>1, <3>2 DEF Kept, Newest
    <3>4. Rising' BY <2>1, <3>1, Lengths, Numbers DEF Kept, Rising
    <3>5. OnDisk' BY <2>1, <2>2, <3>1, <3>2 DEF Kept, OnDisk
    <3>6. AskedInv'
      BY <2>1, <2>2, <3>1, Numbers DEF Kept, AskedInv, Finished
    <3> QED BY <2>1, <3>1, <3>3, <3>4, <3>5, <3>6 DEF Kept
  <2>4. CASE MakeDirectory \/ WriteFile \/ RemoveFile
    <3>1. /\ UNCHANGED <<turn, given, slots, head, count, autos, asked, condemned>>
          /\ \A d \in dirs : d \in dirs'
      BY <2>4, SamePlace, SameRing, SameHistory
         DEF MakeDirectory, WriteFile, RemoveFile
    <3>2. Recording' = Recording /\ (pc = "rotate" => pc' = "rotate")
            /\ (Untouched' => Untouched)
      BY <2>2, <2>4 DEF MakeDirectory, WriteFile, RemoveFile, At, Goto,
                        Recording, Untouched
    <3> QED BY <2>1, <2>2, <3>1, <3>2, KeptAsIs
  <2>5. CASE MakeFails
    BY <2>5 DEF MakeFails, Fault, IInv, TypeInv, HistoryTypes
  <2>6. CASE Rename
    <3>1. asked' \intersect condemned' = {} BY <2>1, <2>6 DEF Rename
    <3> QED BY <2>1, <2>6, <3>1, RenameKeeps
  <2>7. CASE RecordInRoom
    BY <2>1, <2>7, RecordKeeps, SameHistory
  <2>8. CASE BeginRotation
    <3>1. asked' = asked /\ condemned' = condemned \union {Victim}
      BY <2>8 DEF BeginRotation
    <3> QED BY <2>1, <2>8, <3>1, BeginRotationKeeps
  <2>9. CASE EndRotation
    BY <2>1, <2>9, EndRotationKeeps, SameHistory
  <2> QED BY <1>4, <2>3, <2>4, <2>5, <2>6, <2>7, <2>8, <2>9
<1> QED BY <1>1, <1>2, <1>3, <1>4, Kinds

-----------------------------------------------------------------------------
(* Theorems.                                                               *)

LEMMA InitJInv == Init => JInv
<1> SUFFICES ASSUME Init PROVE JInv OBVIOUS
<1> USE DEF Init
<1>1. PidInv /\ EndedInv /\ TurnInv /\ ExitInv
  BY DEF PidInv, EndedInv, TurnInv, ExitInv, ExitPlaces, Running
<1>2. \A i \in 0 .. Keep - 1 : slots[i] = -1 OBVIOUS
<1>3. OtterInv
  BY <1>2 DEF OtterInv, OwnDirs, OwnNames, Found, Unrecorded, Untouched
<1>4. BoundInv BY DEF BoundInv, PeriodicDirs, Finished
<1>5. NewestInv
  <2>1. Recorded = 0 /\ ~Recording BY DEF Recorded, Recording
  <2>2. Newest BY <2>1, BoundsAssumption DEF Newest
  <2>3. Rising /\ OnDisk /\ AskedInv BY DEF Rising, OnDisk, AskedInv
  <2> QED BY <2>2, <2>3 DEF NewestInv
<1> QED BY <1>1, <1>3, <1>4, <1>5 DEF JInv

LEMMA NextJInv == IInv /\ JInv /\ [Next]_vars => JInv'
BY PidNext, ExitNext, TurnNext, OtterNext, BoundNext, NewestNext DEF JInv

LEMMA History == Spec => []JInv
<1> QED BY InitJInv, NextJInv, Invariant, PTL DEF Spec

\* A directory of a turn of the Otter loop holds the files of that turn.
LEMMA FoundIsWritten ==
  ASSUME IInv, TurnInv, loop = "otter", Final \in dirs \ condemned
  PROVE  Answered
<1>1. PICK h : h \in Contents(Final) BY Blocked
<1>2. h \in holds /\ h[1] = Final BY <1>1 DEF Contents
<1>3. h[3] = turn BY <1>2 DEF TurnInv, Final
<1> QED BY <1>2, <1>3 DEF Answered

\* The exit code of a checkpoint, 107, is only given when, if nothing failed, a
\* directory of the last turn of the search is on disk and not about to be
\* deleted: in every search loop, in the first process and in a resumed one.
THEOREM ExitsWritten == Spec => ExitMeansWritten
<1>1. ASSUME IInv, JInv, [Next]_vars, Running, status' = "checkpoint", faults = 0
      PROVE  Answered
  <2>1. exits /\ pc \in {"recorded", "answered"}
    <3>1. Ends
      <4>1. ~Quiet BY <1>1 DEF Quiet, Running
      <4>2. ~Resume BY <1>1 DEF Resume
      <4>3. ~(\/ Iterate \/ MakeDirectory \/ MakeFails \/ WriteFile \/ Rename
              \/ RecordInRoom \/ BeginRotation \/ RemoveFile \/ EndRotation)
        BY <1>1, Same DEF Running
      <4> QED BY <1>1, <4>1, <4>2, <4>3, Kinds
    <3>2. \A how : End(how) => how = "checkpoint" BY <1>1 DEF End
    <3>3. CheckpointExit
      <4>1. ~SigUsr1 /\ ~SigUsr2
        <5>1. ASSUME NEW requests, SigUsr(requests) PROVE FALSE
          BY <1>1, <3>2, <5>1 DEF SigUsr, Running
        <5> QED BY <5>1 DEF SigUsr1, SigUsr2
      <4>2. ~SearchEnds /\ ~EndsInIteration /\ ~Killed /\ ~SyncFails
        BY <3>2 DEF SearchEnds, EndsInIteration, Killed, SyncFails
      <4>3. ~WriteFails
        BY <1>1, <3>2 DEF WriteFails, Abandon, Running
      <4>4. ~(\/ PeriodicDue \/ NotDue \/ CheckRequest \/ AfterPeriodic
              \/ ClearRequest \/ Iterate)
        BY <1>1 DEF PeriodicDue, NotDue, CheckRequest, AfterPeriodic,
                    ClearRequest, Iterate, Running
      <4>5. ~(\/ MakeDirectory \/ CannotMake \/ MakeFails \/ WriteFile \/ Rename
              \/ CannotRename)
        BY <1>1 DEF MakeDirectory, CannotMake, MakeFails, WriteFile, Rename,
                    CannotRename, Abandon, Running
      <4>6. ~RecordAutoCheckpoint
        BY <1>1 DEF RecordAutoCheckpoint, RecordInRoom, BeginRotation,
                    RemoveFile, EndRotation, Enter, Running
      <4>7. ~Resume /\ ~Over /\ ~UNCHANGED vars
        BY <1>1 DEF Resume, Over, vars, Running
      <4> QED
        BY <1>1, <4>1, <4>2, <4>3, <4>4, <4>5, <4>6, <4>7
           DEF Next, MainThread, Loop, WriteCheckpoint
    <3> QED BY <3>3 DEF CheckpointExit
  <2>2. Written /\ condemned = {}
    BY <1>1, <2>1 DEF JInv, ExitInv, ExitPlaces
  <2> QED BY <2>2 DEF Written, Answered
<1> QED BY <1>1, Invariant, History, PTL DEF Spec, ExitMeansWritten

\* A request the handler accepted is cleared by a running search only when a
\* directory of that turn is on disk, written for the request or for the period:
\* in the Otter loop, if nothing failed.
THEOREM RequestsAnswered == Spec => RequestNotLost
<1>1. ASSUME IInv, JInv, [Next]_vars, requested, ~requested',
             status' = "running", loop = "otter", faults = 0
      PROVE  Answered
  <2>1. Running BY <1>1 DEF JInv, EndedInv
  <2>2. pc = "answered"
    <3>1. ClearRequest
      <4>1. ~SearchEnds /\ ~EndsInIteration /\ ~Killed /\ ~SyncFails
              /\ ~CheckpointExit
        BY <1>1 DEF SearchEnds, EndsInIteration, Killed, SyncFails,
                    CheckpointExit, End
      <4>2. ~SigUsr1 /\ ~SigUsr2 BY <1>1 DEF SigUsr1, SigUsr2, SigUsr, End
      <4>3. ~WriteFails BY <1>1 DEF WriteFails, Abandon, End, signals
      <4>4. ~(PeriodicDue \/ NotDue \/ CheckRequest \/ AfterPeriodic \/ Iterate)
        BY <1>1 DEF PeriodicDue, NotDue, CheckRequest, AfterPeriodic, Iterate,
                    signals
      <4>5. ~(\/ MakeDirectory \/ CannotMake \/ MakeFails \/ WriteFile \/ Rename
              \/ CannotRename)
        BY <1>1 DEF MakeDirectory, CannotMake, MakeFails, WriteFile, Rename,
                    CannotRename, Abandon, signals
      <4>6. ~RecordAutoCheckpoint
        BY <1>1 DEF RecordAutoCheckpoint, RecordInRoom, BeginRotation,
                    RemoveFile, EndRotation, Enter, signals
      <4>7. ~Resume /\ ~Over /\ ~UNCHANGED vars
        BY <1>1, <2>1 DEF Resume, Over, vars, signals
      <4> QED
        BY <1>1, <4>1, <4>2, <4>3, <4>4, <4>5, <4>6, <4>7
           DEF Next, MainThread, Loop, WriteCheckpoint
    <3> QED BY <3>1 DEF ClearRequest, At
  <2>3. Sound /\ given = turn BY <1>1, <2>1 DEF Sound, JInv, TurnInv
  <2>4. Final \in dirs \ condemned
    <3>1. Final \in dirs BY <1>1, <2>2, <2>3 DEF JInv, OtterInv, Found
    <3>2. Final \notin condemned
      BY <1>1, <2>3, Numbers DEF JInv, OtterInv, OwnNames, Final
    <3> QED BY <3>1, <3>2
  <2> QED BY <1>1, <2>4, FoundIsWritten DEF JInv
<1> QED BY <1>1, Invariant, History, PTL DEF Spec, RequestNotLost

\* However rotation, requests, failures and repeated numbers of given clauses
\* follow each other, at most checkpoint_keep periodic checkpoints of a process
\* are on disk when a rotation is over; and in the Otter loop, if nothing
\* failed, the last checkpoint_keep of them are there, and no directory that
\* was asked for is deleted.
THEOREM RotatesExactly == Spec => []RotationExact
<1>1. ASSUME IInv, JInv, At("ask") PROVE Cardinality(PeriodicDirs) <= Keep
  <2> DEFINE Name(i) == <<pid, slots[i], "final">>
             Names1 == {Name(i) : i \in 0 .. Keep - 1}
             name == [i \in 0 .. Keep - 1 |-> Name(i)]
  <2>1. PeriodicDirs \subseteq Names1
    <3> SUFFICES ASSUME NEW d \in PeriodicDirs PROVE d \in Names1 OBVIOUS
    <3>1. d \in dirs /\ d[1] = pid /\ d[3] = "final" BY DEF PeriodicDirs
    <3>2. d = <<pid, d[2], "final">> BY <1>1, <3>1, Numbers
    <3>3. Named(d[2]) BY <1>1 DEF JInv, BoundInv, At, Recording
    <3> QED BY <3>2, <3>3 DEF Named
  <2>2. IsFiniteSet(0 .. Keep - 1) /\ Cardinality(0 .. Keep - 1) = Keep
    BY FS_Interval, BoundsAssumption
  <2>3. name \in Surjection(0 .. Keep - 1, Names1) BY DEF Surjection
  <2>4. IsFiniteSet(Names1) /\ Cardinality(Names1) <= Keep
    BY <2>2, <2>3, FS_Surjection
  <2>5. Cardinality(PeriodicDirs) <= Cardinality(Names1) /\ IsFiniteSet(PeriodicDirs)
    BY <2>1, <2>4, FS_Subset
  <2>6. Cardinality(Names1) \in Nat /\ Cardinality(PeriodicDirs) \in Nat
    BY <2>4, <2>5, FS_CardinalityType
  <2> QED BY <2>4, <2>5, <2>6, BoundsAssumption
<1>2. ASSUME IInv, JInv, loop = "otter", faults = 0
      PROVE  NewestKept /\ asked \intersect condemned = {}
  <2>1. asked \intersect condemned = {} BY <1>2 DEF JInv, NewestInv
  <2>2. ASSUME At("ask"), NEW i \in 1 .. Len(autos), i > Len(autos) - Keep
        PROVE  <<pid, autos[i], "final">> \in dirs \ condemned
    <3>1. Sound /\ pc = "ask" BY <1>2, <2>2 DEF Sound, At
    <3>2. Newest /\ OnDisk BY <1>2, <3>1 DEF JInv, NewestInv
    <3>3. Recorded = Len(autos) BY <3>1 DEF Recorded, Recording
    <3>4. i > Recorded - count
      BY <1>2, <2>2, <3>2, <3>3, Lengths, BoundsAssumption DEF Newest
    <3> QED BY <3>1, <3>2, <3>4 DEF OnDisk
  <2> QED BY <2>1, <2>2 DEF NewestKept, Latest
<1>3. IInv /\ JInv => RotationExact
  BY <1>1, <1>2 DEF RotationExact, AutoBounded
<1> QED BY <1>3, Invariant, History, PTL
=============================================================================
