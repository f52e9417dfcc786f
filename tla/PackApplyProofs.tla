-------------------------- MODULE PackApplyProofs ---------------------------
(***************************************************************************)
(* Proofs about PackApply.                                                 *)
(***************************************************************************)
EXTENDS PackApply, TLAPS

-----------------------------------------------------------------------------
(* The inductive invariant: which trees are whole while the process and    *)
(* the watchdog are where they are.                                        *)

\* Phases of the process in which the live tree was not touched yet, and in
\* which the snapshot is complete.
Untouched == {"loop", "snapshot", "unpack"}
Replacing == {"copy", "check", "restore", "applied", "stopping"}

\* On Linux the tree that is not being written is the code that runs.
LinuxTrees ==
    Linux =>
        /\ pc # "stage"
        /\ dog = "wait" => pc = "stopping"
        /\ ~unsure /\ pc \in Untouched => live = running
        /\ ~unsure /\ pc \in Replacing \cup {"unpack"} => snapshot = running

\* On Windows the process runs from the live tree; the snapshot is what runs,
\* unless a watchdog of an earlier update took it away.
WindowsTrees ==
    Windows =>
        /\ pc \notin {"copy", "check", "restore"}
        /\ pc # "off" => live = running
        /\ pc \in {"unpack", "stage", "applied", "stopping"} =>
              snapshot = running \/ (unsure /\ snapshot = Absent)

\* A script that waits or works has stopped the process, and finds the package
\* that was staged for it.
DogTrees ==
    /\ dog = "wait" => pc \in {"stopping", "off"}
    /\ dog \in {"swap", "move", "start", "undo", "back", "again"} => pc = "off"
    /\ dog = "keep" => pc \in {"loop", "snapshot", "unpack", "stage", "applied"}
    /\ dog = "keep" /\ pc # "loop" => unsure
    /\ Windows /\ pc \in {"applied", "stopping"} => staged \in Versions
    /\ Windows /\ dog \in {"wait", "swap", "move"} => staged \in Versions
    /\ Windows /\ dog \in {"wait", "swap", "move", "start", "undo", "back"} =>
          snapshot = running \/ (unsure /\ snapshot = Absent)
    /\ dog = "back" => snapshot = running
    /\ dog = "again" => live = running

\* The code that runs, or ran last, is code that starts.
RunningStarts == Starts(running)

\* Where nothing runs, a tree is left that starts.
LeftToStart == pc = "off" /\ ~unsure => Starts(live) \/ Starts(snapshot)

PackInv == TypeOK /\ LinuxTrees /\ WindowsTrees /\ DogTrees /\ RunningStarts /\ LeftToStart
-----------------------------------------------------------------------------
(* The invariant holds initially, and every step keeps it.                 *)

LEMMA PackInit == Init => PackInv
  <1> SUFFICES ASSUME Init PROVE PackInv
    OBVIOUS
  <1>1. 0 \in Versions /\ Starts(0)
    <2>1. setting.dead \subseteq 1 .. MaxPacks
      BY SettingsAssumption DEF Init
    <2> QED BY <2>1, TreesAssumption DEF Starts, Versions
  <1>2. Absent \in Trees /\ 0 \in Trees
    BY <1>1 DEF Trees
  <1>3. TypeOK
    BY <1>1, <1>2 DEF Init, TypeOK, Control, Watch
  <1> QED BY <1>1, <1>3
          DEF Init, PackInv, LinuxTrees, WindowsTrees, DogTrees, RunningStarts, LeftToStart, Replacing

\* Steps of apply_pack.
LEMMA ApplyKeeps == PackInv /\ ApplyNext => PackInv'
  <1> SUFFICES ASSUME PackInv, ApplyNext PROVE PackInv'
    OBVIOUS
  <1> USE TreesAssumption, SettingsAssumption
      DEF PackInv, TypeOK, Trees, Control, Watch, Versions, Linux, Windows, Starts, Applying,
          LinuxTrees, WindowsTrees, DogTrees, RunningStarts, LeftToStart, Untouched, Replacing,
          trees, Goto, Step
  <1>1. CASE Begin
    <2>1. unsure \in BOOLEAN /\ unsure' \in BOOLEAN /\ (unsure' <=> unsure \/ dog # "none")
      BY <1>1 DEF Begin
    <2>2. /\ pc = "loop" /\ pc' = "snapshot" /\ live # Absent /\ pack' \in Versions
          /\ snapshot' = Torn /\ UNCHANGED <<setting, running, live, staged, dog>>
      BY <1>1 DEF Begin
    <2> QED BY <2>1, <2>2
  <1>2. CASE Snapshot
    BY <1>2 DEF Snapshot
  <1>3. CASE SnapshotFails
    BY <1>3 DEF SnapshotFails
  <1>4. CASE Unpack
    BY <1>4 DEF Unpack
  <1>5. CASE UnpackFails
    BY <1>5 DEF UnpackFails, Discard
  <1>6. CASE Copy
    BY <1>6 DEF Copy
  <1>7. CASE CopyFails
    BY <1>7 DEF CopyFails, Discard
  <1>8. CASE CheckOk
    BY <1>8 DEF CheckOk
  <1>9. CASE CheckFails
    BY <1>9 DEF CheckFails
  <1>10. CASE Restore
    BY <1>10 DEF Restore, MoveBack
  <1>11. CASE Stage
    BY <1>11 DEF Stage
  <1>12. CASE StageFails
    BY <1>12 DEF StageFails, Discard
  <1> QED BY <1>1, <1>2, <1>3, <1>4, <1>5, <1>6, <1>7, <1>8, <1>9, <1>10, <1>11, <1>12 DEF ApplyNext

\* Steps of the process as a whole, and crashes.
LEMMA ProcessKeeps == PackInv /\ ProcessNext => PackInv'
  <1> SUFFICES ASSUME PackInv, ProcessNext PROVE PackInv'
    OBVIOUS
  <1> USE TreesAssumption, SettingsAssumption
      DEF PackInv, TypeOK, Trees, Control, Watch, Versions, Linux, Windows, Starts, Applying,
          LinuxTrees, WindowsTrees, DogTrees, RunningStarts, LeftToStart, Untouched, Replacing,
          trees, Goto, Step
  <1>1. CASE AckFails
    BY <1>1 DEF AckFails
  <1>2. CASE ScheduleRestart
    BY <1>2 DEF ScheduleRestart
  <1>3. CASE Exit
    BY <1>3 DEF Exit
  <1>4. CASE Crash
    BY <1>4 DEF Crash
  <1>5. CASE Start
    BY <1>5 DEF Start, Run
  <1> QED BY <1>1, <1>2, <1>3, <1>4, <1>5 DEF ProcessNext

\* Steps of the watchdog on Windows.
LEMMA DogKeeps == PackInv /\ DogNext => PackInv'
  <1> SUFFICES ASSUME PackInv, DogNext PROVE PackInv'
    OBVIOUS
  <1> USE TreesAssumption, SettingsAssumption
      DEF PackInv, TypeOK, Trees, Control, Watch, Versions, Linux, Windows, Starts, Applying,
          LinuxTrees, WindowsTrees, DogTrees, RunningStarts, LeftToStart, Untouched, Replacing,
          trees, Goto, Step
  <1>1. CASE StopTask
    BY <1>1 DEF StopTask
  <1>2. CASE RemoveLive
    BY <1>2 DEF RemoveLive
  <1>3. CASE MoveStaged
    BY <1>3 DEF MoveStaged
  <1>4. CASE StartTask
    BY <1>4 DEF StartTask, Run
  <1>5. CASE TaskDead
    BY <1>5 DEF TaskDead
  <1>6. CASE Keep
    BY <1>6 DEF Keep
  <1>7. CASE Undo
    BY <1>7 DEF Undo
  <1>8. CASE Back
    BY <1>8 DEF Back, MoveBack
  <1>9. CASE Again
    BY <1>9 DEF Again, Run
  <1> QED BY <1>1, <1>2, <1>3, <1>4, <1>5, <1>6, <1>7, <1>8, <1>9 DEF DogNext
LEMMA PackStep == PackInv /\ [Next]_vars => PackInv'
  <1>1. PackInv /\ UNCHANGED vars => PackInv'
    BY DEF vars, PackInv, TypeOK, LinuxTrees, WindowsTrees, DogTrees, RunningStarts, LeftToStart,
           Linux, Windows, Starts
  <1> QED BY <1>1, ApplyKeeps, ProcessKeeps, DogKeeps DEF Next

\* The trees, the process and the watchdog keep their invariant, on both
\* platforms, whatever packs do not start and whenever the machine crashes.
THEOREM PackCorrect == Spec => []PackInv
  <1> QED BY PackInit, PackStep, PTL DEF Spec

\* The trees and the two programs are well typed.
THEOREM PackTypeCorrect == Spec => []TypeOK
  <1>1. PackInv => TypeOK
    BY DEF PackInv
  <1> QED BY <1>1, PackCorrect, PTL

\* Wherever an update stops, a tree is left that starts.
THEOREM OneTreeAlwaysStarts == Spec => []OneTreeStarts
  <1>1. PackInv => OneTreeStarts
    <2> SUFFICES ASSUME PackInv, ~unsure PROVE Starts(live) \/ Starts(snapshot)
      BY DEF OneTreeStarts
    <2>1. CASE pc = "off"
      BY <2>1 DEF PackInv, LeftToStart
    <2>2. CASE pc # "off"
      <3>1. live = running \/ snapshot = running
        BY <2>2, SettingsAssumption
           DEF PackInv, TypeOK, LinuxTrees, WindowsTrees, Linux, Windows, Control, Applying, Untouched, Replacing
      <3> QED BY <3>1 DEF PackInv, RunningStarts
    <2> QED BY <2>1, <2>2
  <1> QED BY <1>1, PackCorrect, PTL

\* What the watchdog puts back is the code that ran when the update was made.
THEOREM WatchdogRestoresRunning == Spec => RestoredRan
  <1>1. PackInv /\ [Next]_vars => [Back => snapshot = running]_vars
    BY DEF PackInv, DogTrees, Back, Step
  <1> QED BY <1>1, PackCorrect, PTL DEF Spec, RestoredRan

\* The watchdog that swaps the trees finds a complete package to swap in: its
\* branch without one, which has no action, is dead.
THEOREM SwapFindsPackage == Spec => [](dog = "swap" => staged \in Versions)
  <1>1. PackInv => (dog = "swap" => staged \in Versions)
    <2> SUFFICES ASSUME PackInv, dog = "swap" PROVE staged \in Versions
      OBVIOUS
    <2>1. Windows
      BY SettingsAssumption DEF PackInv, TypeOK, Linux, Windows
    <2> QED BY <2>1 DEF PackInv, DogTrees
  <1> QED BY <1>1, PackCorrect, PTL
=============================================================================
