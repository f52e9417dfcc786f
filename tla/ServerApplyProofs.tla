------------------------- MODULE ServerApplyProofs --------------------------
(***************************************************************************)
(* Proofs about ServerApply.                                               *)
(***************************************************************************)
EXTENDS ServerApply, TLAPS

-----------------------------------------------------------------------------
(* The inductive invariant, in parts that build on one another.            *)

\* Whatever is requested, spawned or run is an apply that was accepted.
TagsKnown ==
    /\ request <= applies
    /\ \A p \in Procs : proc[p].pc # "idle" => proc[p].tag \in 1 .. applies
    /\ \A r \in Runners : runner[r].pc # "off" => runner[r].tag \in 1 .. applies

\* A backend that is not installed runs nothing.
Backends ==
    /\ ~setting.unit => ~trigger /\ runner["unit"].pc = "off"
    /\ ~setting.docker => /\ runner["helper"].pc = "off"
                          /\ \A p \in Procs : proc[p].pc \in {"idle", "replace"}

\* With one backend: what the script has done so far is what is there, and
\* since an apply succeeded no script has touched the checkout.
Deployed ==
    OneBackend =>
        /\ \A r \in Runners : /\ runner[r].pc = "compose" => tree = runner[r].tag
                              /\ runner[r].pc \in {"clear", "finish"} =>
                                    tree = runner[r].tag /\ services = runner[r].tag
        /\ status.state = "ok" => /\ tree = status.tag /\ services = status.tag
                                  /\ \A r \in Runners : runner[r].pc \in {"off", "created", "begin"}

\* Without the unit and with turns: who spawns does so alone, for a queued
\* apply and while no helper runs; a helper that nobody reports about has
\* said so itself.
Turns ==
    ~setting.unit /\ ~setting.overlap =>
        /\ \A p, q \in Procs : p # q => proc[p].pc = "idle" \/ proc[q].pc = "idle"
        /\ \A p \in Procs : proc[p].pc \in Spawning => status.state = "queued" /\ ~Running("helper")
        /\ Running("helper") => \/ status.state = "running"
                                \/ status.state = "queued" /\ \E p \in Procs : proc[p].pc = "report"

\* Then what is about to be begun has not ended: the request of a queued apply,
\* and the apply that is being spawned.
TurnsOpen ==
    ~setting.unit /\ ~setting.overlap =>
        /\ status.state = "queued" /\ request # 0 => request \notin ended
        /\ \A p \in Procs : proc[p].pc \in Spawning => proc[p].tag \notin ended
        /\ ~rerun

\* The unit alone: a change of the request it has not acted on is about an apply
\* that has not ended, and not about the one it runs.
UnitOpen ==
    setting.unit /\ ~setting.docker =>
        /\ trigger /\ request # 0 => request \notin ended
        /\ trigger /\ request # 0 /\ runner["unit"].pc # "off" => request # runner["unit"].tag
        /\ ~rerun

ApplyInv == TypeOK /\ TagsKnown /\ Backends /\ Deployed /\ Turns /\ TurnsOpen /\ UnitOpen

-----------------------------------------------------------------------------
(* Every step keeps every part.                                            *)

\* What the operations on the files and on the runners do.
LEMMA RequestWritten ==
  ASSUME TypeOK, NEW tag, WriteRequest(tag)
  PROVE  request' = tag /\ trigger' \in BOOLEAN /\ (trigger' => setting.unit)
  BY ApplyAssumption DEF TypeOK, WriteRequest, AllSettings

\* A runner that is removed, from outside or by its own exit; the other stays.
LEMMA RunnerRemoved ==
  ASSUME TypeOK, NEW r \in Runners, runner' = [runner EXCEPT ![r] = Off]
  PROVE  /\ runner' \in [Runners -> [pc : Script \cup {"off", "created"}, tag : Tags, by : Procs]]
         /\ runner'[r] = Off
         /\ \A x \in Runners \ {r} : runner'[x] = runner[x]
  BY ApplyAssumption DEF TypeOK, Off, Tags, Procs

LEMMA Overruled ==
  ASSUME TypeOK, NEW force, Supersede(force)
  PROVE  /\ runner' \in [Runners -> [pc : Script \cup {"off", "created"}, tag : Tags, by : Procs]]
         /\ runner'["helper"] \in {Off, runner["helper"]}
         /\ runner'["unit"] = runner["unit"]
         /\ Stuck \/ (status.state \in Active /\ force) => runner'["helper"] = Off
  BY RunnerRemoved DEF Supersede, Kill, Runners, TypeOK

\* The updater either resolves a stuck apply, or spawns the queued one.
LEMMA PollCases ==
  ASSUME Poll
  PROVE  \/ /\ Stuck /\ ResolveStuck
            /\ UNCHANGED <<setting, tree, services>>
         \/ /\ status.state = "queued" /\ request # 0 /\ proc["updater"] = Idle
            /\ proc' = [proc EXCEPT !["updater"] = [pc |-> "replace", tag |-> request]]
            /\ UNCHANGED <<setting, status, request, runner, trigger, tree, services, applies, ended, rerun>>
  BY DEF Poll, ToSpawn, code, past

\* Types, and the tags that are known.
LEMMA TypeKeeps == TypeOK /\ TagsKnown /\ Next => (TypeOK /\ TagsKnown)'
  <1> SUFFICES ASSUME TypeOK, TagsKnown, Next PROVE (TypeOK /\ TagsKnown)'
    OBVIOUS
  <1> USE ApplyAssumption DEF TypeOK, TagsKnown, AllSettings, Off, Idle, Running,
      Tags, Active, States, Procs, Runners, Spawning, Script, NoHelperAge, QueuedAge, MaxAge
  <1>1. CASE ReadStatus
    <2>1. request' = 0 /\ trigger' \in BOOLEAN /\ (trigger' => setting.unit)
      BY <1>1, RequestWritten DEF ReadStatus, ResolveStuck
    <2>2. runner' = [runner EXCEPT !["helper"] = Off]
      BY <1>1 DEF ReadStatus, ResolveStuck, Kill
    <2>3. ended' = 1 .. applies /\ UNCHANGED <<setting, proc, applies, rerun, tree, services>>
      BY <1>1 DEF ReadStatus, ResolveStuck, code
    <2>4. status' \in [state : States, tag : Tags, age : 0 .. MaxAge]
      BY <1>1 DEF ReadStatus, ResolveStuck, WriteStatus
    <2> QED BY <2>1, <2>2, <2>3, <2>4, RunnerRemoved
  <1>2. CASE CancelApply
    <2>1. request' = 0 /\ trigger' \in BOOLEAN /\ (trigger' => setting.unit)
      BY <1>2, RequestWritten DEF CancelApply, CancelKill
    <2>2. runner' = [runner EXCEPT !["helper"] = Off]
      BY <1>2 DEF CancelApply, CancelKill, Kill
    <2>3. ended' = 1 .. applies /\ UNCHANGED <<setting, proc, applies, rerun, tree, services>>
      BY <1>2 DEF CancelApply, CancelKill, code
    <2>4. status' \in [state : States, tag : Tags, age : 0 .. MaxAge]
      BY <1>2 DEF CancelApply, CancelKill, WriteStatus
    <2> QED BY <2>1, <2>2, <2>3, <2>4, RunnerRemoved
  <1>3. CASE HostReset
    <2>1. request' = 0 /\ trigger' \in BOOLEAN /\ (trigger' => setting.unit)
      BY <1>3, RequestWritten DEF HostReset
    <2>2. runner' = [runner EXCEPT !["helper"] = Off]
      BY <1>3 DEF HostReset, Kill
    <2>3. ended' = 1 .. applies /\ UNCHANGED <<setting, proc, applies, rerun, tree, services>>
      BY <1>3 DEF HostReset, code
    <2>4. status' \in [state : States, tag : Tags, age : 0 .. MaxAge]
      BY <1>3 DEF HostReset, WriteStatus
    <2> QED BY <2>1, <2>2, <2>3, <2>4, RunnerRemoved
  <1>4. ASSUME NEW force \in BOOLEAN, StartApply(force) PROVE (TypeOK /\ TagsKnown)'
    <2>1. request' = applies + 1 /\ trigger' \in BOOLEAN /\ (trigger' => setting.unit)
      BY <1>4, RequestWritten DEF StartApply
    <2>2. applies' = applies + 1 /\ applies' \in Tags
      BY <1>4 DEF StartApply
    <2>3. /\ ended' = 1 .. applies /\ UNCHANGED <<setting, rerun, tree, services>>
          /\ status' = [state |-> "queued", tag |-> applies + 1, age |-> 0]
          /\ proc' = [proc EXCEPT !["api"] = [pc |-> "replace", tag |-> applies + 1]]
      BY <1>4 DEF StartApply, WriteStatus, code
    <2>4. /\ runner' \in [Runners -> [pc : Script \cup {"off", "created"}, tag : Tags, by : Procs]]
          /\ \A r \in Runners : runner'[r] \in {Off, runner[r]}
      BY <1>4, Overruled DEF StartApply
    <2>5. TypeOK'
      BY <2>1, <2>2, <2>3, <2>4
    <2>6. TagsKnown'
      BY <2>1, <2>2, <2>3, <2>4
    <2> QED BY <2>5, <2>6
  <1>5. CASE Poll
    <2>1. CASE ResolveStuck
      <3>1. request' = 0 /\ trigger' \in BOOLEAN /\ (trigger' => setting.unit)
        BY <2>1, RequestWritten DEF ResolveStuck
      <3>2. runner' = [runner EXCEPT !["helper"] = Off]
        BY <2>1 DEF ResolveStuck, Kill
      <3>3. /\ ended' = 1 .. applies /\ UNCHANGED <<setting, proc, applies, rerun, tree, services>>
            /\ status' = [state |-> "error", tag |-> status.tag, age |-> 0]
        BY <1>5, <2>1 DEF Poll, ResolveStuck, WriteStatus, code
      <3> QED BY <3>1, <3>2, <3>3, RunnerRemoved
    <2>2. CASE ~ResolveStuck
      <3>1. /\ request # 0 /\ proc' = [proc EXCEPT !["updater"] = [pc |-> "replace", tag |-> request]]
            /\ UNCHANGED <<setting, status, request, runner, trigger, tree, services, applies, ended, rerun>>
        BY <1>5, <2>2 DEF Poll, code, past
      <3> QED BY <3>1
    <2> QED BY <2>1, <2>2
  <1>6. ASSUME NEW p \in Procs, Replace(p) PROVE (TypeOK /\ TagsKnown)'
    BY <1>6 DEF Replace, Kill, code, past
  <1>7. ASSUME NEW p \in Procs, Create(p) PROVE (TypeOK /\ TagsKnown)'
    BY <1>7 DEF Create, code, past
  <1>8. ASSUME NEW p \in Procs, StartHelper(p) PROVE (TypeOK /\ TagsKnown)'
    BY <1>8 DEF StartHelper, Begins, code
  <1>9. ASSUME NEW p \in Procs, Report(p) PROVE (TypeOK /\ TagsKnown)'
    BY <1>9 DEF Report, WriteStatus, code, past
  <1>10. ASSUME NEW p \in Procs, SpawnFails(p) PROVE (TypeOK /\ TagsKnown)'
    BY <1>10 DEF SpawnFails, WriteStatus, code, past
  <1>11. ASSUME NEW p \in Procs, Crash(p) PROVE (TypeOK /\ TagsKnown)'
    BY <1>11 DEF Crash, code, past
  <1>12. CASE UnitStarts
    <2>1. trigger' = FALSE /\ UNCHANGED <<setting, status, request, proc, tree, services, applies, ended>>
      BY <1>12 DEF UnitStarts, code
    <2>2. rerun' \in BOOLEAN
      BY <1>12 DEF UnitStarts, Begins
    <2>3. CASE request = 0
      <3>1. UNCHANGED runner
        BY <1>12, <2>3 DEF UnitStarts
      <3> QED BY <2>1, <2>2, <3>1
    <2>4. CASE request # 0
      <3>1. runner' = [runner EXCEPT !["unit"] = [pc |-> "begin", tag |-> request, by |-> "api"]]
        BY <1>12, <2>4 DEF UnitStarts
      <3>2. request \in 1 .. applies
        BY <2>4
      <3>3. runner' \in [Runners -> [pc : Script \cup {"off", "created"}, tag : Tags, by : Procs]]
        BY <3>1
      <3>4. \A r \in Runners : runner'[r].pc # "off" => runner'[r].tag \in 1 .. applies
        BY <3>1, <3>2
      <3> QED BY <2>1, <2>2, <3>3, <3>4
    <2> QED BY <2>3, <2>4
  <1>13. ASSUME NEW r \in Runners, Begin(r) PROVE (TypeOK /\ TagsKnown)'
    BY <1>13 DEF Begin, At, Says, Goes, WriteStatus, code, past
  <1>14. ASSUME NEW r \in Runners, Fetch(r) PROVE (TypeOK /\ TagsKnown)'
    BY <1>14 DEF Fetch, At, Says, Goes, WriteStatus, past
  <1>15. ASSUME NEW r \in Runners, Checkout(r) PROVE (TypeOK /\ TagsKnown)'
    BY <1>15 DEF Checkout, At, Says, Goes, WriteStatus, past
  <1>16. ASSUME NEW r \in Runners, Compose(r) PROVE (TypeOK /\ TagsKnown)'
    BY <1>16 DEF Compose, At, Says, Goes, WriteStatus, ComposeResults, past
  <1>17. ASSUME NEW r \in Runners, ClearRequest(r) PROVE (TypeOK /\ TagsKnown)'
    <2>1. request' = 0 /\ trigger' \in BOOLEAN /\ (trigger' => setting.unit)
      BY <1>17, RequestWritten DEF ClearRequest
    <2> QED BY <1>17, <2>1 DEF ClearRequest, At, Goes, code, past
  <1>18. ASSUME NEW r \in Runners, Finish(r) PROVE (TypeOK /\ TagsKnown)'
    <2>1. runner[r].tag \in 1 .. applies
      BY <1>18 DEF Finish, At
    <2>2. runner' = [runner EXCEPT ![r] = Off]
      BY <1>18 DEF Finish, Exits
    <2>3. /\ status' = [state |-> "ok", tag |-> runner[r].tag, age |-> 0]
          /\ ended' = ended \cup {runner[r].tag}
          /\ UNCHANGED <<setting, request, proc, trigger, tree, services, applies, rerun>>
      BY <1>18 DEF Finish, Says, WriteStatus, code
    <2>4. ended' \subseteq 1 .. applies'
      BY <2>1, <2>3
    <2> QED BY <2>1, <2>2, <2>3, <2>4, RunnerRemoved
  <1>19. ASSUME NEW r \in Runners, Fails(r) PROVE (TypeOK /\ TagsKnown)'
    <2>1. runner[r].tag \in 1 .. applies
      BY <1>19 DEF Fails, At
    <2>2. runner' = [runner EXCEPT ![r] = Off]
      BY <1>19 DEF Fails, Exits
    <2>3. /\ status' = [state |-> "error", tag |-> runner[r].tag, age |-> 0]
          /\ ended' = ended \cup {runner[r].tag}
          /\ UNCHANGED <<setting, request, proc, trigger, tree, services, applies, rerun>>
      BY <1>19 DEF Fails, Says, WriteStatus, code
    <2>4. ended' \subseteq 1 .. applies'
      BY <2>1, <2>3
    <2> QED BY <2>1, <2>2, <2>3, <2>4, RunnerRemoved
  <1>20. ASSUME NEW r \in Runners, Dies(r) PROVE (TypeOK /\ TagsKnown)'
    BY <1>20 DEF Dies, Exits, code, past
  <1>21. CASE StatusAges
    BY <1>21 DEF StatusAges, code, past
  <1> QED BY <1>1, <1>2, <1>3, <1>4, <1>5, <1>6, <1>7, <1>8, <1>9, <1>10, <1>11, <1>12, <1>13, <1>14, <1>15, <1>16, <1>17, <1>18, <1>19, <1>20, <1>21
         DEF Next, AdminNext, ProcNext, RunnerNext

\* Nothing runs where its backend is not installed.
LEMMA BackendsKeep == TypeOK /\ Backends /\ Next => Backends'
  <1> SUFFICES ASSUME TypeOK, Backends, Next PROVE Backends'
    OBVIOUS
  <1> USE ApplyAssumption DEF Backends, TypeOK, AllSettings, Procs, Runners, Spawning, Script, Off, Idle, Running
  <1>1. CASE ReadStatus
    BY <1>1 DEF ReadStatus, ResolveStuck, Kill, WriteRequest, WriteStatus, code
  <1>2. CASE CancelApply
    BY <1>2 DEF CancelApply, CancelKill, Kill, WriteRequest, WriteStatus, code
  <1>3. CASE HostReset
    BY <1>3 DEF HostReset, Kill, WriteRequest, WriteStatus, code
  <1>4. ASSUME NEW force \in BOOLEAN, StartApply(force) PROVE Backends'
    <2>1. /\ applies' = applies + 1 /\ request' = applies + 1 /\ ended' = 1 .. applies
          /\ status' = [state |-> "queued", tag |-> applies + 1, age |-> 0]
          /\ proc' = [proc EXCEPT !["api"] = [pc |-> "replace", tag |-> applies + 1]]
          /\ UNCHANGED <<setting, tree, services, rerun>>
          /\ status.state \in Active => Stuck \/ force
      BY <1>4 DEF StartApply, WriteRequest, WriteStatus, code, Active
    <2>2. /\ runner'["helper"] \in {Off, runner["helper"]}
          /\ runner'["unit"] = runner["unit"]
          /\ Stuck \/ (status.state \in Active /\ force) => runner'["helper"] = Off
      BY <1>4, Overruled DEF StartApply
    <2>3. trigger' \in BOOLEAN /\ (trigger' => setting.unit)
      BY <1>4, RequestWritten DEF StartApply
    <2> QED BY <1>4, <2>1, <2>2, <2>3
  <1>5. CASE Poll
    <2>1. CASE ResolveStuck /\ UNCHANGED <<setting, tree, services>>
      BY <1>5, <2>1 DEF ResolveStuck, Kill, WriteRequest, WriteStatus
    <2>2. CASE ~(ResolveStuck /\ UNCHANGED <<setting, tree, services>>)
      BY <1>5, <2>2, PollCases
    <2> QED BY <2>1, <2>2
  <1>6. ASSUME NEW p \in Procs, Replace(p) PROVE Backends'
    BY <1>6 DEF Replace, Kill, code, past
  <1>7. ASSUME NEW p \in Procs, Create(p) PROVE Backends'
    BY <1>7 DEF Create, code, past
  <1>8. ASSUME NEW p \in Procs, StartHelper(p) PROVE Backends'
    BY <1>8 DEF StartHelper, Begins, code
  <1>9. ASSUME NEW p \in Procs, Report(p) PROVE Backends'
    BY <1>9 DEF Report, WriteStatus, code, past
  <1>10. ASSUME NEW p \in Procs, SpawnFails(p) PROVE Backends'
    BY <1>10 DEF SpawnFails, WriteStatus, code, past
  <1>11. ASSUME NEW p \in Procs, Crash(p) PROVE Backends'
    BY <1>11 DEF Crash, code, past
  <1>12. CASE UnitStarts
    BY <1>12 DEF UnitStarts, Begins, code
  <1>13. ASSUME NEW r \in Runners, Begin(r) PROVE Backends'
    BY <1>13 DEF Begin, At, Says, Goes, WriteStatus, code, past
  <1>14. ASSUME NEW r \in Runners, Fetch(r) PROVE Backends'
    BY <1>14 DEF Fetch, At, Says, Goes, WriteStatus, past
  <1>15. ASSUME NEW r \in Runners, Checkout(r) PROVE Backends'
    BY <1>15 DEF Checkout, At, Says, Goes, WriteStatus, past
  <1>16. ASSUME NEW r \in Runners, Compose(r) PROVE Backends'
    BY <1>16 DEF Compose, At, Says, Goes, WriteStatus, ComposeResults, past
  <1>17. ASSUME NEW r \in Runners, ClearRequest(r) PROVE Backends'
    BY <1>17 DEF ClearRequest, At, Goes, WriteRequest, code, past
  <1>18. ASSUME NEW r \in Runners, Finish(r) PROVE Backends'
    BY <1>18 DEF Finish, At, Says, Exits, WriteStatus, code
  <1>19. ASSUME NEW r \in Runners, Fails(r) PROVE Backends'
    BY <1>19 DEF Fails, Says, Exits, WriteStatus, code
  <1>20. ASSUME NEW r \in Runners, Dies(r) PROVE Backends'
    BY <1>20 DEF Dies, Exits, code, past
  <1>21. CASE StatusAges
    BY <1>21 DEF StatusAges, code, past
  <1> QED BY <1>1, <1>2, <1>3, <1>4, <1>5, <1>6, <1>7, <1>8, <1>9, <1>10, <1>11, <1>12, <1>13, <1>14, <1>15, <1>16, <1>17, <1>18, <1>19, <1>20, <1>21
         DEF Next, AdminNext, ProcNext, RunnerNext

\* With one backend a single script works on the checkout.
LEMMA DeployedKeeps == TypeOK /\ TagsKnown /\ Backends /\ Deployed /\ Next => Deployed'
  <1> SUFFICES ASSUME TypeOK, TagsKnown, Backends, Deployed, Next PROVE Deployed'
    OBVIOUS
  <1> USE ApplyAssumption DEF Deployed, OneBackend, Backends, Tags, States, Active, TypeOK, AllSettings, Procs, Runners, Spawning, Script, Off, Idle, Running
  <1>1. CASE ReadStatus
    BY <1>1 DEF ReadStatus, ResolveStuck, Kill, WriteRequest, WriteStatus, code
  <1>2. CASE CancelApply
    BY <1>2 DEF CancelApply, CancelKill, Kill, WriteRequest, WriteStatus, code
  <1>3. CASE HostReset
    BY <1>3 DEF HostReset, Kill, WriteRequest, WriteStatus, code
  <1>4. ASSUME NEW force \in BOOLEAN, StartApply(force) PROVE Deployed'
    <2>1. /\ applies' = applies + 1 /\ request' = applies + 1 /\ ended' = 1 .. applies
          /\ status' = [state |-> "queued", tag |-> applies + 1, age |-> 0]
          /\ proc' = [proc EXCEPT !["api"] = [pc |-> "replace", tag |-> applies + 1]]
          /\ UNCHANGED <<setting, tree, services, rerun>>
          /\ status.state \in Active => Stuck \/ force
      BY <1>4 DEF StartApply, WriteRequest, WriteStatus, code, Active
    <2>2. /\ runner'["helper"] \in {Off, runner["helper"]}
          /\ runner'["unit"] = runner["unit"]
          /\ Stuck \/ (status.state \in Active /\ force) => runner'["helper"] = Off
      BY <1>4, Overruled DEF StartApply
    <2>3. trigger' \in BOOLEAN /\ (trigger' => setting.unit)
      BY <1>4, RequestWritten DEF StartApply
    <2> QED BY <1>4, <2>1, <2>2, <2>3
  <1>5. CASE Poll
    <2>1. CASE ResolveStuck /\ UNCHANGED <<setting, tree, services>>
      BY <1>5, <2>1 DEF ResolveStuck, Kill, WriteRequest, WriteStatus
    <2>2. CASE ~(ResolveStuck /\ UNCHANGED <<setting, tree, services>>)
      BY <1>5, <2>2, PollCases
    <2> QED BY <2>1, <2>2
  <1>6. ASSUME NEW p \in Procs, Replace(p) PROVE Deployed'
    BY <1>6 DEF Replace, Kill, code, past
  <1>7. ASSUME NEW p \in Procs, Create(p) PROVE Deployed'
    BY <1>7 DEF Create, code, past
  <1>8. ASSUME NEW p \in Procs, StartHelper(p) PROVE Deployed'
    BY <1>8 DEF StartHelper, Begins, code
  <1>9. ASSUME NEW p \in Procs, Report(p) PROVE Deployed'
    BY <1>9 DEF Report, WriteStatus, code, past
  <1>10. ASSUME NEW p \in Procs, SpawnFails(p) PROVE Deployed'
    BY <1>10 DEF SpawnFails, WriteStatus, code, past
  <1>11. ASSUME NEW p \in Procs, Crash(p) PROVE Deployed'
    BY <1>11 DEF Crash, code, past
  <1>12. CASE UnitStarts
    BY <1>12 DEF UnitStarts, Begins, code
  <1>13. ASSUME NEW r \in Runners, Begin(r) PROVE Deployed'
    BY <1>13 DEF Begin, At, Says, Goes, WriteStatus, code, past
  <1>14. ASSUME NEW r \in Runners, Fetch(r) PROVE Deployed'
    BY <1>14 DEF Fetch, At, Says, Goes, WriteStatus, past
  <1>15. ASSUME NEW r \in Runners, Checkout(r) PROVE Deployed'
    BY <1>15 DEF Checkout, At, Says, Goes, WriteStatus, past
  <1>16. ASSUME NEW r \in Runners, Compose(r) PROVE Deployed'
    BY <1>16 DEF Compose, At, Says, Goes, WriteStatus, ComposeResults, past
  <1>17. ASSUME NEW r \in Runners, ClearRequest(r) PROVE Deployed'
    BY <1>17 DEF ClearRequest, At, Goes, WriteRequest, code, past
  <1>18. ASSUME NEW r \in Runners, Finish(r) PROVE Deployed'
    BY <1>18 DEF Finish, At, Says, Exits, WriteStatus, code
  <1>19. ASSUME NEW r \in Runners, Fails(r) PROVE Deployed'
    BY <1>19 DEF Fails, Says, Exits, WriteStatus, code
  <1>20. ASSUME NEW r \in Runners, Dies(r) PROVE Deployed'
    BY <1>20 DEF Dies, Exits, code, past
  <1>21. CASE StatusAges
    BY <1>21 DEF StatusAges, code, past
  <1> QED BY <1>1, <1>2, <1>3, <1>4, <1>5, <1>6, <1>7, <1>8, <1>9, <1>10, <1>11, <1>12, <1>13, <1>14, <1>15, <1>16, <1>17, <1>18, <1>19, <1>20, <1>21
         DEF Next, AdminNext, ProcNext, RunnerNext

\* With turns, who spawns or runs the helper is alone.
LEMMA TurnsKeep == TypeOK /\ Backends /\ Turns /\ Next => Turns'
  <1> SUFFICES ASSUME TypeOK, Backends, Turns, Next PROVE Turns'
    OBVIOUS
  <1> USE ApplyAssumption DEF Turns, Backends, States, Active, TypeOK, AllSettings, Procs, Runners, Spawning, Script, Off, Idle, Running
  <1>1. CASE Calm /\ ReadStatus
    BY <1>1 DEF ReadStatus, ResolveStuck, Kill, WriteRequest, WriteStatus, Calm, code
  <1>2. CASE Calm /\ CancelApply
    BY <1>2 DEF CancelApply, CancelKill, Kill, WriteRequest, WriteStatus, Calm, code
  <1>3. CASE Calm /\ HostReset
    BY <1>3 DEF HostReset, Kill, WriteRequest, WriteStatus, Calm, code
  <1>4. ASSUME NEW force \in BOOLEAN, Calm, StartApply(force) PROVE Turns'
    <2>1. /\ applies' = applies + 1 /\ request' = applies + 1 /\ ended' = 1 .. applies
          /\ status' = [state |-> "queued", tag |-> applies + 1, age |-> 0]
          /\ proc' = [proc EXCEPT !["api"] = [pc |-> "replace", tag |-> applies + 1]]
          /\ UNCHANGED <<setting, tree, services, rerun>>
          /\ status.state \in Active => Stuck \/ force
      BY <1>4 DEF StartApply, WriteRequest, WriteStatus, code, Active
    <2>2. /\ runner'["helper"] \in {Off, runner["helper"]}
          /\ runner'["unit"] = runner["unit"]
          /\ Stuck \/ (status.state \in Active /\ force) => runner'["helper"] = Off
      BY <1>4, Overruled DEF StartApply
    <2>3. trigger' \in BOOLEAN /\ (trigger' => setting.unit)
      BY <1>4, RequestWritten DEF StartApply
    <2> QED BY <1>4, <2>1, <2>2, <2>3 DEF Calm
  <1>5. CASE Calm /\ Poll
    <2>1. CASE ResolveStuck /\ UNCHANGED <<setting, tree, services>>
      BY <1>5, <2>1 DEF ResolveStuck, Kill, WriteRequest, WriteStatus, Calm
    <2>2. CASE ~(ResolveStuck /\ UNCHANGED <<setting, tree, services>>)
      BY <1>5, <2>2, PollCases DEF Calm
    <2> QED BY <2>1, <2>2
  <1>6. ASSUME NEW p \in Procs, Replace(p) PROVE Turns'
    BY <1>6 DEF Replace, Kill, code, past
  <1>7. ASSUME NEW p \in Procs, Create(p) PROVE Turns'
    BY <1>7 DEF Create, code, past
  <1>8. ASSUME NEW p \in Procs, StartHelper(p) PROVE Turns'
    BY <1>8 DEF StartHelper, Begins, code
  <1>9. ASSUME NEW p \in Procs, Report(p) PROVE Turns'
    BY <1>9 DEF Report, WriteStatus, code, past
  <1>10. ASSUME NEW p \in Procs, SpawnFails(p) PROVE Turns'
    BY <1>10 DEF SpawnFails, WriteStatus, code, past
  <1>11. ASSUME NEW p \in Procs, Crash(p) PROVE Turns'
    BY <1>11 DEF Crash, code, past
  <1>12. CASE UnitStarts
    BY <1>12 DEF UnitStarts, Begins, code
  <1>13. ASSUME NEW r \in Runners, Begin(r) PROVE Turns'
    BY <1>13 DEF Begin, At, Says, Goes, WriteStatus, code, past
  <1>14. ASSUME NEW r \in Runners, Fetch(r) PROVE Turns'
    BY <1>14 DEF Fetch, At, Says, Goes, WriteStatus, past
  <1>15. ASSUME NEW r \in Runners, Checkout(r) PROVE Turns'
    BY <1>15 DEF Checkout, At, Says, Goes, WriteStatus, past
  <1>16. ASSUME NEW r \in Runners, Compose(r) PROVE Turns'
    BY <1>16 DEF Compose, At, Says, Goes, WriteStatus, ComposeResults, past
  <1>17. ASSUME NEW r \in Runners, ClearRequest(r) PROVE Turns'
    BY <1>17 DEF ClearRequest, At, Goes, WriteRequest, code, past
  <1>18. ASSUME NEW r \in Runners, Finish(r) PROVE Turns'
    BY <1>18 DEF Finish, At, Says, Exits, WriteStatus, code
  <1>19. ASSUME NEW r \in Runners, Fails(r) PROVE Turns'
    BY <1>19 DEF Fails, Says, Exits, WriteStatus, code
  <1>20. ASSUME NEW r \in Runners, Dies(r) PROVE Turns'
    BY <1>20 DEF Dies, Exits, code, past
  <1>21. CASE StatusAges
    BY <1>21 DEF StatusAges, code, past
  <1> QED BY <1>1, <1>2, <1>3, <1>4, <1>5, <1>6, <1>7, <1>8, <1>9, <1>10, <1>11, <1>12, <1>13, <1>14, <1>15, <1>16, <1>17, <1>18, <1>19, <1>20, <1>21
         DEF Next, AdminNext, ProcNext, RunnerNext

\* With turns, no apply that ended is queued or spawned.
LEMMA TurnsOpenKeeps == TypeOK /\ TagsKnown /\ Backends /\ Turns /\ TurnsOpen /\ Next => TurnsOpen'
  <1> SUFFICES ASSUME TypeOK, TagsKnown, Backends, Turns, TurnsOpen, Next PROVE TurnsOpen'
    OBVIOUS
  <1> USE ApplyAssumption DEF TurnsOpen, Turns, TagsKnown, Tags, Backends, States, Active, TypeOK, AllSettings, Procs, Runners, Spawning, Script, Off, Idle, Running
  <1>1. CASE Calm /\ ReadStatus
    BY <1>1 DEF ReadStatus, ResolveStuck, Kill, WriteRequest, WriteStatus, Calm, code
  <1>2. CASE Calm /\ CancelApply
    BY <1>2 DEF CancelApply, CancelKill, Kill, WriteRequest, WriteStatus, Calm, code
  <1>3. CASE Calm /\ HostReset
    BY <1>3 DEF HostReset, Kill, WriteRequest, WriteStatus, Calm, code
  <1>4. ASSUME NEW force \in BOOLEAN, Calm, StartApply(force) PROVE TurnsOpen'
    <2>1. /\ applies' = applies + 1 /\ request' = applies + 1 /\ ended' = 1 .. applies
          /\ status' = [state |-> "queued", tag |-> applies + 1, age |-> 0]
          /\ proc' = [proc EXCEPT !["api"] = [pc |-> "replace", tag |-> applies + 1]]
          /\ UNCHANGED <<setting, tree, services, rerun>>
          /\ status.state \in Active => Stuck \/ force
      BY <1>4 DEF StartApply, WriteRequest, WriteStatus, code, Active
    <2>2. /\ runner'["helper"] \in {Off, runner["helper"]}
          /\ runner'["unit"] = runner["unit"]
          /\ Stuck \/ (status.state \in Active /\ force) => runner'["helper"] = Off
      BY <1>4, Overruled DEF StartApply
    <2>3. trigger' \in BOOLEAN /\ (trigger' => setting.unit)
      BY <1>4, RequestWritten DEF StartApply
    <2> QED BY <1>4, <2>1, <2>2, <2>3 DEF Calm
  <1>5. CASE Calm /\ Poll
    <2>1. CASE ResolveStuck /\ UNCHANGED <<setting, tree, services>>
      BY <1>5, <2>1 DEF ResolveStuck, Kill, WriteRequest, WriteStatus, Calm
    <2>2. CASE ~(ResolveStuck /\ UNCHANGED <<setting, tree, services>>)
      BY <1>5, <2>2, PollCases DEF Calm
    <2> QED BY <2>1, <2>2
  <1>6. ASSUME NEW p \in Procs, Replace(p) PROVE TurnsOpen'
    BY <1>6 DEF Replace, Kill, code, past
  <1>7. ASSUME NEW p \in Procs, Create(p) PROVE TurnsOpen'
    BY <1>7 DEF Create, code, past
  <1>8. ASSUME NEW p \in Procs, StartHelper(p) PROVE TurnsOpen'
    BY <1>8 DEF StartHelper, Begins, code
  <1>9. ASSUME NEW p \in Procs, Report(p) PROVE TurnsOpen'
    BY <1>9 DEF Report, WriteStatus, code, past
  <1>10. ASSUME NEW p \in Procs, SpawnFails(p) PROVE TurnsOpen'
    BY <1>10 DEF SpawnFails, WriteStatus, code, past
  <1>11. ASSUME NEW p \in Procs, Crash(p) PROVE TurnsOpen'
    BY <1>11 DEF Crash, code, past
  <1>12. CASE UnitStarts
    BY <1>12 DEF UnitStarts, Begins, code
  <1>13. ASSUME NEW r \in Runners, Begin(r) PROVE TurnsOpen'
    BY <1>13 DEF Begin, At, Says, Goes, WriteStatus, code, past
  <1>14. ASSUME NEW r \in Runners, Fetch(r) PROVE TurnsOpen'
    BY <1>14 DEF Fetch, At, Says, Goes, WriteStatus, past
  <1>15. ASSUME NEW r \in Runners, Checkout(r) PROVE TurnsOpen'
    BY <1>15 DEF Checkout, At, Says, Goes, WriteStatus, past
  <1>16. ASSUME NEW r \in Runners, Compose(r) PROVE TurnsOpen'
    BY <1>16 DEF Compose, At, Says, Goes, WriteStatus, ComposeResults, past
  <1>17. ASSUME NEW r \in Runners, ClearRequest(r) PROVE TurnsOpen'
    BY <1>17 DEF ClearRequest, At, Goes, WriteRequest, code, past
  <1>18. ASSUME NEW r \in Runners, Finish(r) PROVE TurnsOpen'
    BY <1>18 DEF Finish, At, Says, Exits, WriteStatus, code
  <1>19. ASSUME NEW r \in Runners, Fails(r) PROVE TurnsOpen'
    BY <1>19 DEF Fails, Says, Exits, WriteStatus, code
  <1>20. ASSUME NEW r \in Runners, Dies(r) PROVE TurnsOpen'
    BY <1>20 DEF Dies, Exits, code, past
  <1>21. CASE StatusAges
    BY <1>21 DEF StatusAges, code, past
  <1> QED BY <1>1, <1>2, <1>3, <1>4, <1>5, <1>6, <1>7, <1>8, <1>9, <1>10, <1>11, <1>12, <1>13, <1>14, <1>15, <1>16, <1>17, <1>18, <1>19, <1>20, <1>21
         DEF Next, AdminNext, ProcNext, RunnerNext

\* The unit begins no apply that ended.
LEMMA UnitOpenKeeps == TypeOK /\ TagsKnown /\ Backends /\ UnitOpen /\ Next => UnitOpen'
  <1> SUFFICES ASSUME TypeOK, TagsKnown, Backends, UnitOpen, Next PROVE UnitOpen'
    OBVIOUS
  <1> USE ApplyAssumption DEF UnitOpen, TagsKnown, Tags, Backends, States, Active, TypeOK, AllSettings, Procs, Runners, Spawning, Script, Off, Idle, Running
  <1>1. CASE ReadStatus
    BY <1>1 DEF ReadStatus, ResolveStuck, Kill, WriteRequest, WriteStatus, code
  <1>2. CASE CancelApply
    BY <1>2 DEF CancelApply, CancelKill, Kill, WriteRequest, WriteStatus, code
  <1>3. CASE HostReset
    BY <1>3 DEF HostReset, Kill, WriteRequest, WriteStatus, code
  <1>4. ASSUME NEW force \in BOOLEAN, StartApply(force) PROVE UnitOpen'
    <2>1. /\ applies' = applies + 1 /\ request' = applies + 1 /\ ended' = 1 .. applies
          /\ status' = [state |-> "queued", tag |-> applies + 1, age |-> 0]
          /\ proc' = [proc EXCEPT !["api"] = [pc |-> "replace", tag |-> applies + 1]]
          /\ UNCHANGED <<setting, tree, services, rerun>>
          /\ status.state \in Active => Stuck \/ force
      BY <1>4 DEF StartApply, WriteRequest, WriteStatus, code, Active
    <2>2. /\ runner'["helper"] \in {Off, runner["helper"]}
          /\ runner'["unit"] = runner["unit"]
          /\ Stuck \/ (status.state \in Active /\ force) => runner'["helper"] = Off
      BY <1>4, Overruled DEF StartApply
    <2>3. trigger' \in BOOLEAN /\ (trigger' => setting.unit)
      BY <1>4, RequestWritten DEF StartApply
    <2> QED BY <1>4, <2>1, <2>2, <2>3
  <1>5. CASE Poll
    <2>1. CASE ResolveStuck /\ UNCHANGED <<setting, tree, services>>
      BY <1>5, <2>1 DEF ResolveStuck, Kill, WriteRequest, WriteStatus
    <2>2. CASE ~(ResolveStuck /\ UNCHANGED <<setting, tree, services>>)
      BY <1>5, <2>2, PollCases
    <2> QED BY <2>1, <2>2
  <1>6. ASSUME NEW p \in Procs, Replace(p) PROVE UnitOpen'
    BY <1>6 DEF Replace, Kill, code, past
  <1>7. ASSUME NEW p \in Procs, Create(p) PROVE UnitOpen'
    BY <1>7 DEF Create, code, past
  <1>8. ASSUME NEW p \in Procs, StartHelper(p) PROVE UnitOpen'
    BY <1>8 DEF StartHelper, Begins, code
  <1>9. ASSUME NEW p \in Procs, Report(p) PROVE UnitOpen'
    BY <1>9 DEF Report, WriteStatus, code, past
  <1>10. ASSUME NEW p \in Procs, SpawnFails(p) PROVE UnitOpen'
    BY <1>10 DEF SpawnFails, WriteStatus, code, past
  <1>11. ASSUME NEW p \in Procs, Crash(p) PROVE UnitOpen'
    BY <1>11 DEF Crash, code, past
  <1>12. CASE UnitStarts
    BY <1>12 DEF UnitStarts, Begins, code
  <1>13. ASSUME NEW r \in Runners, Begin(r) PROVE UnitOpen'
    BY <1>13 DEF Begin, At, Says, Goes, WriteStatus, code, past
  <1>14. ASSUME NEW r \in Runners, Fetch(r) PROVE UnitOpen'
    BY <1>14 DEF Fetch, At, Says, Goes, WriteStatus, past
  <1>15. ASSUME NEW r \in Runners, Checkout(r) PROVE UnitOpen'
    BY <1>15 DEF Checkout, At, Says, Goes, WriteStatus, past
  <1>16. ASSUME NEW r \in Runners, Compose(r) PROVE UnitOpen'
    BY <1>16 DEF Compose, At, Says, Goes, WriteStatus, ComposeResults, past
  <1>17. ASSUME NEW r \in Runners, ClearRequest(r) PROVE UnitOpen'
    BY <1>17 DEF ClearRequest, At, Goes, WriteRequest, code, past
  <1>18. ASSUME NEW r \in Runners, Finish(r) PROVE UnitOpen'
    BY <1>18 DEF Finish, At, Says, Exits, WriteStatus, code
  <1>19. ASSUME NEW r \in Runners, Fails(r) PROVE UnitOpen'
    BY <1>19 DEF Fails, Says, Exits, WriteStatus, code
  <1>20. ASSUME NEW r \in Runners, Dies(r) PROVE UnitOpen'
    BY <1>20 DEF Dies, Exits, code, past
  <1>21. CASE StatusAges
    BY <1>21 DEF StatusAges, code, past
  <1> QED BY <1>1, <1>2, <1>3, <1>4, <1>5, <1>6, <1>7, <1>8, <1>9, <1>10, <1>11, <1>12, <1>13, <1>14, <1>15, <1>16, <1>17, <1>18, <1>19, <1>20, <1>21
         DEF Next, AdminNext, ProcNext, RunnerNext

LEMMA ApplyInit == Init => ApplyInv
  <1> SUFFICES ASSUME Init PROVE ApplyInv
    OBVIOUS
  <1>1. TypeOK
    <2>1. 0 \in Tags /\ 0 \in 0 .. MaxAge
      BY ApplyAssumption DEF Tags, MaxAge
    <2>2. status \in [state : States, tag : Tags, age : 0 .. MaxAge]
      BY <2>1 DEF Init, States
    <2>3. proc \in [Procs -> [pc : Spawning \cup {"idle", "report"}, tag : Tags]]
      BY <2>1 DEF Init, Idle
    <2>4. runner \in [Runners -> [pc : Script \cup {"off", "created"}, tag : Tags, by : Procs]]
      BY <2>1 DEF Init, Off, Procs
    <2> QED BY <2>1, <2>2, <2>3, <2>4 DEF Init, TypeOK
  <1>2. TagsKnown /\ Backends /\ Deployed
    BY ApplyAssumption DEF Init, TagsKnown, Backends, Deployed, Runners, Procs, Idle, Off, AllSettings
  <1>3. Turns /\ TurnsOpen /\ UnitOpen
    BY DEF Init, Turns, TurnsOpen, UnitOpen, Running, Runners, Procs, Spawning, Script, Idle, Off
  <1> QED BY <1>1, <1>2, <1>3 DEF ApplyInv

LEMMA ApplyStep == ApplyInv /\ [Next]_vars => ApplyInv'
  <1>1. ApplyInv /\ Next => ApplyInv'
    BY TypeKeeps, BackendsKeep, DeployedKeeps, TurnsKeep, TurnsOpenKeeps, UnitOpenKeeps DEF ApplyInv
  <1>2. ApplyInv /\ UNCHANGED vars => ApplyInv'
    BY DEF vars, ApplyInv, TypeOK, TagsKnown, Backends, Deployed, OneBackend, Turns, TurnsOpen, UnitOpen, Running
  <1> QED BY <1>1, <1>2

-----------------------------------------------------------------------------
\* The files, the processes and the script keep their invariant, in every
\* deployment and whatever requests, crashes and failures meet.
THEOREM ApplyCorrect == Spec => []ApplyInv
  <1> QED BY ApplyInit, ApplyStep, PTL DEF Spec

\* The state of the server's update is well typed.
THEOREM ApplyTypeCorrect == Spec => []TypeOK
  <1>1. ApplyInv => TypeOK
    BY DEF ApplyInv
  <1> QED BY <1>1, ApplyCorrect, PTL

\* With one backend, a status of ok names the tag that is checked out and built.
THEOREM OkTellsTheTruth == Spec => []OkIsDeployed
  <1>1. ApplyInv => OkIsDeployed
    BY DEF ApplyInv, Deployed, OkIsDeployed
  <1> QED BY <1>1, ApplyCorrect, PTL

\* With turns and without the unit, a running helper keeps a second apply out.
THEOREM HelperLocks == Spec => []RunningLocks
  <1>1. ApplyInv => RunningLocks
    BY DEF ApplyInv, Turns, RunningLocks, Active
  <1> QED BY <1>1, ApplyCorrect, PTL

\* An apply that ended or was given up is never begun again, by the unit alone
\* or by helpers that are started in turns.
THEOREM NeverBegunAgain == Spec => []EndedStaysEnded
  <1>1. ApplyInv => EndedStaysEnded
    <2> SUFFICES ASSUME ApplyInv, OneBackend, setting.unit \/ ~setting.overlap PROVE ~rerun
      BY DEF EndedStaysEnded
    <2>1. CASE setting.unit
      BY <2>1 DEF ApplyInv, UnitOpen, OneBackend
    <2>2. CASE ~setting.unit
      BY <2>2 DEF ApplyInv, TurnsOpen
    <2> QED BY <2>1, <2>2
  <1> QED BY <1>1, ApplyCorrect, PTL
=============================================================================
