----------------------------- MODULE PackApply ------------------------------
(***************************************************************************)
(* How an agent replaces its own package: apply_pack in the running        *)
(* process, the watchdog script that schedule_restart leaves behind, and   *)
(* the service manager, on the trees labwatch_agent (live),                *)
(* labwatch_agent.next (staged) and labwatch_agent.prev (snapshot).        *)
(*                                                                         *)
(* On Linux the pack is copied over the live tree; the unit is restarted   *)
(* whenever its process ends (Restart=always), and the watchdog, which is  *)
(* in the unit's control group, is killed with it.  On Windows the pack is *)
(* staged; the watchdog outlives the process, swaps the trees, starts the  *)
(* task and watches it.  AgentUpdate has apply_pack as one step.           *)
(***************************************************************************)
EXTENDS Naturals

CONSTANTS
    MaxPacks,      \* bound: packs applied; pack 0 is the first installation
    Torn, Absent,  \* a tree that was partly written, and no tree
    Settings       \* platform, the packs whose code does not start, and whether crashes happen

Versions == 0 .. MaxPacks
ASSUME TreesAssumption == MaxPacks \in Nat /\ Torn # Absent /\ {Torn, Absent} \cap Versions = {}
ASSUME SettingsAssumption ==
    Settings \subseteq [platform : {"linux", "windows"}, dead : SUBSET (1 .. MaxPacks),
                        crashes : BOOLEAN]

VARIABLES
    setting,   \* never changes
    live, staged, snapshot,
    pc,        \* the agent's process
    running,   \* the code it runs
    pack,      \* the newest pack downloaded
    dog,       \* the watchdog
    unsure     \* history: since the last start, the live tree was written and the
               \* process went on, or an update began under the eyes of a watchdog

trees == <<live, staged, snapshot>>
vars  == <<setting, live, staged, snapshot, pc, running, pack, dog, unsure>>

-----------------------------------------------------------------------------
Trees    == Versions \cup {Torn, Absent}
Applying == {"snapshot", "unpack", "copy", "check", "restore", "stage"}
Control  == {"off", "loop", "applied", "stopping"} \cup Applying
Watch    == {"none", "wait", "swap", "move", "start", "keep", "undo", "back", "again"}

Linux   == setting.platform = "linux"
Windows == setting.platform = "windows"

\* A tree the service manager can start.
Starts(tree) == tree \in Versions \ setting.dead

TypeOK ==
    /\ setting \in Settings
    /\ live \in Trees /\ staged \in Trees /\ snapshot \in Trees
    /\ pc \in Control
    /\ running \in Versions /\ pack \in Versions
    /\ dog \in Watch
    /\ Linux => staged = Absent /\ dog \in {"none", "wait"}
    /\ unsure \in BOOLEAN

Init ==
    /\ setting \in Settings
    /\ live = 0 /\ staged = Absent /\ snapshot = Absent
    /\ pc = "loop" /\ running = 0
    /\ pack = 0
    /\ dog = "none"
    /\ unsure = FALSE

-----------------------------------------------------------------------------
(* apply_pack.                                                             *)

Goto(from, to) == pc = from /\ pc' = to /\ UNCHANGED <<setting, running>>

\* A command came and its pack was downloaded; the old snapshot is removed and
\* the live tree is being copied.
Begin ==
    /\ Goto("loop", "snapshot")
    /\ live # Absent
    /\ pack < MaxPacks /\ pack' = pack + 1
    /\ snapshot' = Torn
    /\ unsure' = (unsure \/ dog # "none")
    /\ UNCHANGED <<live, staged, dog>>

\* Mutant: files that could not be copied are left out of the snapshot.
Snapshot_Partial ==
    /\ Goto("snapshot", "unpack")
    /\ UNCHANGED <<trees, pack, dog, unsure>>

Snapshot ==
    /\ Goto("snapshot", "unpack")
    /\ snapshot' = live
    /\ UNCHANGED <<live, staged, pack, dog, unsure>>

\* _backup_current raised, before the try.
SnapshotFails ==
    /\ Goto("snapshot", "loop")
    /\ UNCHANGED <<trees, pack, dog, unsure>>

\* Mutant: the pack is staged on Linux too.
Unpack_Staged ==
    /\ Goto("unpack", "stage")
    /\ staged' = Torn
    /\ UNCHANGED <<live, snapshot, pack, dog, unsure>>

\* Extracted, checked, dependencies installed: the copy begins, over the live
\* tree or beside it.
Unpack ==
    /\ IF Linux THEN /\ Goto("unpack", "copy")
                     /\ live' = Torn /\ staged' = Absent
                ELSE /\ Goto("unpack", "stage")
                     /\ staged' = Torn /\ UNCHANGED live
    /\ UNCHANGED <<snapshot, pack, dog, unsure>>

\* The except clause before live_replaced is set.
Discard ==
    /\ staged' = Absent /\ snapshot' = Absent
    /\ UNCHANGED <<live, pack, dog>>

UnpackFails == Goto("unpack", "loop") /\ Discard /\ UNCHANGED unsure

\* _copy_tree over the live tree ends: live_replaced.
Copy ==
    /\ Goto("copy", "check")
    /\ live' = pack
    /\ UNCHANGED <<staged, snapshot, pack, dog, unsure>>

\* _copy_tree raises, with live_replaced still false.
CopyFails == Goto("copy", "loop") /\ Discard /\ unsure' = TRUE

CheckOk == Goto("check", "applied") /\ UNCHANGED <<trees, pack, dog, unsure>>

\* The new package has no version: _restore_backup removes it, and moves the
\* snapshot back.
CheckFails ==
    /\ Goto("check", "restore")
    /\ live' = Absent
    /\ UNCHANGED <<staged, snapshot, pack, dog, unsure>>

MoveBack ==
    /\ live' = snapshot /\ snapshot' = Absent
    /\ UNCHANGED staged

\* ... whole: nothing else touches the snapshot on Linux.
Restore ==
    /\ Goto("restore", "loop")
    /\ MoveBack
    /\ UNCHANGED <<pack, dog, unsure>>

Stage ==
    /\ Goto("stage", "applied")
    /\ staged' = pack
    /\ UNCHANGED <<live, snapshot, pack, dog, unsure>>

StageFails == Goto("stage", "loop") /\ Discard /\ UNCHANGED unsure

-----------------------------------------------------------------------------
(* _handle_commands and schedule_restart.                                  *)

\* The final "ok" could not be sent: an error is reported and the process goes on.
AckFails ==
    /\ Goto("applied", "loop")
    /\ unsure' = (unsure \/ Linux)
    /\ UNCHANGED <<trees, pack, dog>>

\* The watchdog is started, or that fails; the run loop ends.  An earlier one,
\* which looks every 5 s, ended while dependencies were installed.
ScheduleRestart ==
    /\ Goto("applied", "stopping")
    /\ dog = "none"
    /\ dog' \in {"none", "wait"}
    /\ UNCHANGED <<trees, pack, unsure>>

Exit ==
    /\ Goto("stopping", "off")
    /\ dog' = IF Linux THEN "none" ELSE dog
    /\ UNCHANGED <<trees, pack, unsure>>

\* The machine, or the process with all it started, ends at any point.
Crash ==
    /\ setting.crashes
    /\ pc # "off" \/ dog # "none"
    /\ pc' = "off" /\ dog' = "none"
    /\ UNCHANGED <<setting, trees, running, pack, unsure>>

Run == pc' = "loop" /\ running' = live /\ UNCHANGED <<setting, trees, pack>>

\* systemd, or the task at startup.
Start ==
    /\ pc = "off" /\ dog = "none"
    /\ Starts(live)
    /\ Run
    /\ unsure' = FALSE
    /\ UNCHANGED dog

-----------------------------------------------------------------------------
(* The watchdog on Windows.                                                *)

Step(from, to) == Windows /\ dog = from /\ dog' = to /\ UNCHANGED <<setting, pack, unsure>>

\* Stop-ScheduledTask, and the process is gone.
StopTask == Step("wait", "swap") /\ pc' = "off" /\ UNCHANGED <<trees, running>>

\* The watchdog is started after a package was staged and nothing removes that
\* package before, so the branch without one is dead.
RemoveLive ==
    /\ staged # Absent
    /\ Step("swap", "move")
    /\ live' = Absent
    /\ UNCHANGED <<staged, snapshot, pc, running>>

MoveStaged ==
    /\ Step("move", "start")
    /\ live' = staged /\ staged' = Absent
    /\ UNCHANGED <<snapshot, pc, running>>

\* Mutant: a task that was asked to start is taken for one that runs.
StartTask_Blind ==
    /\ dog = "start" /\ dog' = "keep"
    /\ IF Starts(live) THEN Run ELSE UNCHANGED <<setting, trees, pc, running, pack>>
    /\ unsure' = FALSE

\* The task starts, and is seen running.
StartTask ==
    /\ Starts(live)
    /\ dog = "start" /\ dog' = "keep"
    /\ Run
    /\ unsure' = FALSE

TaskDead == Step("start", "undo") /\ UNCHANGED <<trees, pc, running>>

\* The new package runs: its predecessor is removed.
Keep ==
    /\ Step("keep", "none")
    /\ snapshot' = Absent
    /\ UNCHANGED <<live, staged, pc, running>>

Undo ==
    /\ IF snapshot # Absent THEN Step("undo", "back") /\ live' = Absent
                            ELSE Step("undo", "none") /\ UNCHANGED live
    /\ UNCHANGED <<staged, snapshot, pc, running>>

Back == Step("back", "again") /\ MoveBack /\ UNCHANGED <<pc, running>>

\* Mutant: the package is put back, and the task is not started.
Again_Stopped ==
    /\ dog = "again" /\ dog' = "none"
    /\ UNCHANGED <<setting, trees, pc, running, pack, unsure>>

\* The task is started again; nobody looks at it any more.
Again ==
    /\ dog = "again" /\ dog' = "none"
    /\ IF Starts(live) THEN Run ELSE UNCHANGED <<setting, trees, pc, running, pack>>
    /\ UNCHANGED unsure

-----------------------------------------------------------------------------
ApplyNext ==
    \/ Begin \/ Snapshot \/ SnapshotFails \/ Unpack \/ UnpackFails \/ Copy \/ CopyFails
    \/ CheckOk \/ CheckFails \/ Restore \/ Stage \/ StageFails

ProcessNext == AckFails \/ ScheduleRestart \/ Exit \/ Crash \/ Start

DogNext ==
    \/ StopTask \/ RemoveLive \/ MoveStaged \/ StartTask \/ TaskDead
    \/ Keep \/ Undo \/ Back \/ Again

Next == ApplyNext \/ ProcessNext \/ DogNext

Spec == Init /\ [][Next]_vars

\* A script that is running goes on to its end: its loops are bounded.
FairSpec == Spec /\ WF_vars(DogNext)

-----------------------------------------------------------------------------
(* Safety.                                                                 *)

\* At whatever step of an update the machine stops, one of the three trees is a
\* package that starts: a pack never takes the place of the last such package
\* before it was started itself.  It is not so once a copy over the live tree
\* failed, once the process went on beside a package it did not start (its last
\* report was lost, self_update.py:187-194 and service.py:144-150), or once an
\* update began before the watchdog of the one before was done: see unsure.
OneTreeStarts == ~unsure => \E tree \in {live, staged, snapshot} : Starts(tree)

\* The watchdog puts back the package whose code was running when the update was
\* made, whole, whatever failed or was repeated in between (self_update.py:4,
\* "restores the previous tree").
RestoredRan == [][Back => snapshot = running]_vars

-----------------------------------------------------------------------------
(* Liveness.                                                               *)

\* Where nothing crashes, an agent on Windows that left its process to the
\* watchdog runs again, from the new package or from the old one.
WatchdogRestarts == (Windows /\ ~setting.crashes /\ ~unsure /\ dog = "wait") ~> pc = "loop"
=============================================================================
