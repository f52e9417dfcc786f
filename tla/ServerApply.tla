----------------------------- MODULE ServerApply -----------------------------
(***************************************************************************)
(* Updating the server itself from the Admin pages.  The API records an    *)
(* apply in two files of the data directory, update-request.json and       *)
(* update-status.json, and starts the host script in a helper container    *)
(* through the Docker socket.  The updater service polls the request and   *)
(* starts the helper for an apply that is still queued; a systemd path     *)
(* unit, where it is installed, runs the same script when the request      *)
(* changes.  Whoever reads the status resets an apply that looks stuck.    *)
(*                                                                         *)
(* The two processes and the two runs of the script share only the files,  *)
(* the checkout and the container's name.  Requests of the API do not      *)
(* await and so do not overlap one another.  What a process does to the    *)
(* files before it starts the helper is one step; each call to Docker and  *)
(* each write after it is a step.  The slim image has neither git nor      *)
(* docker, so starting the script inside the container is left out.        *)
(***************************************************************************)
EXTENDS Naturals, FiniteSets

CONSTANTS
    MaxApplies, \* bound: applies accepted
    Settings    \* deployments considered

AllSettings == [docker  : BOOLEAN,  \* the Docker socket answers
                unit    : BOOLEAN,  \* the systemd path unit is installed
                overlap : BOOLEAN]  \* FALSE: API and updater take turns, uninterrupted
ASSUME ApplyAssumption == MaxApplies \in Nat /\ Settings \subseteq AllSettings

VARIABLES
    setting,   \* never changes
    status,    \* update-status.json: state, tag, and how old updated_at is
    request,   \* update-request.json: the apply's tag, 0 without the file
    proc,      \* the API and the updater: where they are in spawn_host_apply
    runner,    \* the script in the helper container and in the systemd unit
    trigger,   \* the path unit has seen the request change
    tree,      \* the tag checked out, 0 for no tag of these or a mixture
    services,  \* the tag the services were last built from, 0 likewise
    applies,   \* number of applies accepted; the k-th is for tag k
    ended,     \* history: applies that ended or were given up
    rerun      \* history: the script began an apply that had ended

vars == <<setting, status, request, proc, runner, trigger, tree, services, applies, ended, rerun>>
code == <<tree, services>>
past == <<applies, ended, rerun>>

-----------------------------------------------------------------------------
Tags     == 0 .. MaxApplies
Active   == {"queued", "running"}
States   == Active \cup {"idle", "ok", "error", "cancelled"}
Procs    == {"api", "updater"}
Runners  == {"helper", "unit"}
Spawning == {"replace", "create", "start"}
Script   == {"begin", "fetch", "checkout", "compose", "clear", "finish"}

\* Ages of the status: below 3 minutes, below 5, below 20, and beyond.
NoHelperAge == 1   \* STUCK_NO_HELPER_SEC
QueuedAge   == 2   \* STUCK_QUEUED_SEC
MaxAge      == 3   \* STUCK_MAX_AGE_SEC

TypeOK ==
    /\ setting \in Settings
    /\ status \in [state : States, tag : Tags, age : 0 .. MaxAge]
    /\ request \in Tags
    /\ proc \in [Procs -> [pc : Spawning \cup {"idle", "report"}, tag : Tags]]
    /\ runner \in [Runners -> [pc : Script \cup {"off", "created"}, tag : Tags, by : Procs]]
    /\ trigger \in BOOLEAN /\ (trigger => setting.unit)
    /\ tree \in Tags /\ services \in Tags /\ applies \in Tags
    /\ ended \subseteq 1 .. applies
    /\ rerun \in BOOLEAN

Off  == [pc |-> "off", tag |-> 0, by |-> "api"]
Idle == [pc |-> "idle", tag |-> 0]

Init ==
    /\ setting \in Settings
    /\ status = [state |-> "idle", tag |-> 0, age |-> 0]
    /\ request = 0
    /\ proc = [p \in Procs |-> Idle]
    /\ runner = [r \in Runners |-> Off]
    /\ trigger = FALSE
    /\ tree = 0 /\ services = 0
    /\ applies = 0 /\ ended = {} /\ rerun = FALSE

-----------------------------------------------------------------------------
(* The files and the helper container.                                     *)

Running(r) == runner[r].pc \in Script

\* write_status keeps the tag it finds unless it is given one.
WriteStatus(state, tag) == status' = [state |-> state, tag |-> tag, age |-> 0]

\* The path unit notices a change at once, or perhaps not while its service runs.
WriteRequest(tag) ==
    /\ request' = tag
    /\ trigger' \in IF runner["unit"] = Off THEN {setting.unit} ELSE {FALSE, setting.unit}

\* kill_apply_helper removes the container, whatever the script is doing in it.
Kill == runner' = [runner EXCEPT !["helper"] = Off]

\* Mutant: a status that nobody updates is trusted for ever.
Stuck_NoLimit ==
    \/ status.state = "queued" /\ status.age >= QueuedAge
    \/ status.state = "running" /\ setting.docker /\ ~Running("helper") /\ status.age >= NoHelperAge

\* detect_apply_stuck: without the socket nothing is known of the helper.
Stuck ==
    \/ status.state = "queued" /\ status.age >= QueuedAge
    \/ status.state \in Active /\ status.age >= MaxAge
    \/ status.state = "running" /\ setting.docker /\ ~Running("helper") /\ status.age >= NoHelperAge

\* resolve_stuck_apply
ResolveStuck ==
    /\ Kill
    /\ WriteRequest(0)
    /\ WriteStatus("error", status.tag)
    /\ ended' = 1 .. applies
    /\ UNCHANGED <<proc, applies, rerun>>

Calm == setting.overlap \/ \A p \in Procs : proc[p] = Idle

-----------------------------------------------------------------------------
(* Requests of administrators, served by the API.                          *)

\* read_status for the page.
ReadStatus == proc["api"] = Idle /\ Stuck /\ ResolveStuck /\ UNCHANGED <<setting, code>>

\* start_apply gives up an apply that is stuck, or active and overruled.
Supersede(force) == IF Stuck \/ (status.state \in Active /\ force) THEN Kill ELSE UNCHANGED runner

\* start_apply up to spawn_host_apply; an active apply is a conflict.
StartApply(force) ==
    /\ proc["api"] = Idle
    /\ applies < MaxApplies
    /\ status.state \notin Active \/ Stuck \/ force
    /\ Supersede(force)
    /\ applies' = applies + 1
    /\ WriteRequest(applies + 1)
    /\ WriteStatus("queued", applies + 1)
    /\ proc' = [proc EXCEPT !["api"] = [pc |-> "replace", tag |-> applies + 1]]
    /\ ended' = 1 .. applies
    /\ UNCHANGED <<setting, code, rerun>>

\* Mutant: cancelling leaves the helper running.
CancelKill_Never == UNCHANGED runner

CancelKill == Kill

\* cancel_apply, also of an apply that has ended.
CancelApply ==
    /\ proc["api"] = Idle
    /\ CancelKill
    /\ WriteRequest(0)
    /\ IF status.state = "idle" THEN WriteStatus("idle", 0) ELSE WriteStatus("cancelled", status.tag)
    /\ ended' = 1 .. applies
    /\ UNCHANGED <<setting, code, proc, applies, rerun>>

\* reset-update-status.sh, run on the host.
HostReset ==
    /\ Kill
    /\ WriteRequest(0)
    /\ WriteStatus("cancelled", 0)
    /\ ended' = 1 .. applies
    /\ UNCHANGED <<setting, code, proc, applies, rerun>>

-----------------------------------------------------------------------------
(* The updater service, and spawn_host_apply in either process.            *)

\* Mutant: every request found is started, whatever became of it.
ToSpawn_Any == ~Stuck

ToSpawn == status.state = "queued" /\ ~Stuck

\* watch_forever: reading the status may reset the apply.
Poll ==
    /\ proc["updater"] = Idle
    /\ request # 0
    /\ \/ Stuck /\ ResolveStuck
       \/ /\ ToSpawn
          /\ proc' = [proc EXCEPT !["updater"] = [pc |-> "replace", tag |-> request]]
          /\ UNCHANGED <<status, request, runner, trigger, past>>
    /\ UNCHANGED <<setting, code>>

\* A container of that name is removed.
Replace(p) ==
    /\ proc[p].pc = "replace" /\ setting.docker
    /\ Kill
    /\ proc' = [proc EXCEPT ![p].pc = "create"]
    /\ UNCHANGED <<setting, status, request, trigger, code, past>>

\* The name is free: a container is created.
Create(p) ==
    /\ proc[p].pc = "create"
    /\ runner["helper"] = Off
    /\ runner' = [runner EXCEPT !["helper"] = [pc |-> "created", tag |-> proc[p].tag, by |-> p]]
    /\ proc' = [proc EXCEPT ![p].pc = "start"]
    /\ UNCHANGED <<setting, status, request, trigger, code, past>>

\* A script begins: the history notes whether its apply had ended.
Begins(tag) == rerun' = (rerun \/ tag \in ended)

StartHelper(p) ==
    /\ proc[p].pc = "start"
    /\ runner["helper"].pc = "created" /\ runner["helper"].by = p
    /\ runner' = [runner EXCEPT !["helper"].pc = "begin"]
    /\ proc' = [proc EXCEPT ![p].pc = "report"]
    /\ Begins(proc[p].tag)
    /\ UNCHANGED <<setting, status, request, trigger, code, applies, ended>>

Report(p) ==
    /\ proc[p].pc = "report"
    /\ WriteStatus("running", status.tag)
    /\ proc' = [proc EXCEPT ![p] = Idle]
    /\ UNCHANGED <<setting, request, runner, trigger, code, past>>

\* No socket, a name taken, a container gone, or an error of Docker: the API
\* leaves the apply to the updater or to the systemd unit.
SpawnFails(p) ==
    /\ proc[p].pc \in Spawning
    /\ IF p = "api" THEN WriteStatus("queued", status.tag) ELSE UNCHANGED status
    /\ proc' = [proc EXCEPT ![p] = Idle]
    /\ UNCHANGED <<setting, request, runner, trigger, code, past>>

\* The process is killed; its service restarts it.
Crash(p) ==
    /\ proc[p] # Idle /\ setting.overlap
    /\ proc' = [proc EXCEPT ![p] = Idle]
    /\ UNCHANGED <<setting, status, request, runner, trigger, code, past>>

-----------------------------------------------------------------------------
(* apply-requested-update.sh: each step ends with its write of the status. *)

At(r, pc) == runner[r].pc = pc
Goes(r, pc) == runner' = [runner EXCEPT ![r].pc = pc]
Exits(r) == runner' = [runner EXCEPT ![r] = Off]

\* Mutant: the arguments are given in another order.
Says_Step(r, state) == WriteStatus(runner[r].pc, runner[r].tag)

Says(r, state) == WriteStatus(state, runner[r].tag)

\* The unit takes the tag from the request, and exits when there is none.
UnitStarts ==
    /\ trigger /\ runner["unit"] = Off
    /\ trigger' = FALSE
    /\ IF request = 0 THEN UNCHANGED <<runner, rerun>>
       ELSE /\ runner' = [runner EXCEPT !["unit"] = [pc |-> "begin", tag |-> request, by |-> "api"]]
            /\ Begins(request)
    /\ UNCHANGED <<setting, status, request, proc, code, applies, ended>>

Begin(r) ==
    /\ At(r, "begin") /\ Says(r, "running") /\ Goes(r, "fetch")
    /\ UNCHANGED <<setting, request, proc, trigger, code, past>>

\* The tag is fetched and found, and git begins to check it out.
Fetch(r) ==
    /\ At(r, "fetch") /\ Says(r, "running") /\ Goes(r, "checkout")
    /\ tree' = 0
    /\ UNCHANGED <<setting, request, proc, trigger, services, past>>

\* git has checked it out, and docker compose begins to build the services.
Checkout(r) ==
    /\ At(r, "checkout") /\ Says(r, "running") /\ Goes(r, "compose")
    /\ tree' = runner[r].tag /\ services' = 0
    /\ UNCHANGED <<setting, request, proc, trigger, past>>

\* Mutant: the result of docker compose is not looked at.
ComposeResults_Ignored == {tree, services}

\* The services that docker compose leaves when it succeeds.
ComposeResults == {tree}

\* The services are what is checked out; the API and the updater may be recreated.
Compose(r) ==
    /\ At(r, "compose") /\ Says(r, "running") /\ Goes(r, "clear")
    /\ services' \in ComposeResults
    /\ proc' \in {proc, [p \in Procs |-> Idle]}
    /\ UNCHANGED <<setting, request, trigger, tree, past>>

ClearRequest(r) ==
    /\ At(r, "clear") /\ Goes(r, "finish")
    /\ WriteRequest(0)
    /\ UNCHANGED <<setting, status, proc, code, past>>

Finish(r) ==
    /\ At(r, "finish") /\ Says(r, "ok") /\ Exits(r)
    /\ ended' = ended \cup {runner[r].tag}
    /\ UNCHANGED <<setting, request, proc, trigger, code, applies, rerun>>

\* Not a checkout, no network, an unknown tag, no docker, or a failed build.
Fails(r) ==
    /\ runner[r].pc \in {"fetch", "compose"} /\ Says(r, "error") /\ Exits(r)
    /\ ended' = ended \cup {runner[r].tag}
    /\ UNCHANGED <<setting, request, proc, trigger, code, applies, rerun>>

\* The script is missing, is killed, or stops at a command that failed.
Dies(r) ==
    /\ Running(r) /\ Exits(r)
    /\ UNCHANGED <<setting, status, request, proc, trigger, code, past>>

StatusAges ==
    /\ status.state \in Active /\ status.age < MaxAge
    /\ status' = [status EXCEPT !.age = @ + 1]
    /\ UNCHANGED <<setting, request, proc, runner, trigger, code, past>>

-----------------------------------------------------------------------------
AdminNext ==
    /\ Calm
    /\ ReadStatus \/ CancelApply \/ HostReset \/ \E force \in BOOLEAN : StartApply(force)

ProcNext(p) == Replace(p) \/ Create(p) \/ StartHelper(p) \/ Report(p) \/ SpawnFails(p) \/ Crash(p)

RunnerNext(r) ==
    \/ Begin(r) \/ Fetch(r) \/ Checkout(r) \/ Compose(r) \/ ClearRequest(r) \/ Finish(r)
    \/ Fails(r) \/ Dies(r)

Next ==
    \/ AdminNext
    \/ Calm /\ Poll
    \/ \E p \in Procs : ProcNext(p)
    \/ UnitStarts
    \/ \E r \in Runners : RunnerNext(r)
    \/ StatusAges

Spec == Init /\ [][Next]_vars

\* Time passes, both processes get on, and someone keeps looking at the page.
\* Nothing is asked of the script, of the unit or of Docker.
Fairness ==
    /\ WF_vars(StatusAges)
    /\ WF_vars(Calm /\ ReadStatus)
    /\ \A p \in Procs : WF_vars(ProcNext(p))

FairSpec == Spec /\ Fairness

-----------------------------------------------------------------------------
OneBackend == ~(setting.docker /\ setting.unit)

\* Where a single backend runs the script, a status of ok tells the truth:
\* the checkout and the services are at the tag it names, whatever was
\* cancelled, overruled, reset or started twice on the way.
OkIsDeployed ==
    OneBackend /\ status.state = "ok" => tree = status.tag /\ services = status.tag

\* When API and updater take turns, no helper runs the script unless the status
\* says an apply is queued or running, so that another one is refused.
RunningLocks ==
    ~setting.unit /\ ~setting.overlap /\ Running("helper") => status.state \in Active

\* With one backend, and API and updater taking turns, an apply that ended, was
\* cancelled, reset or overruled is never begun again.
EndedStaysEnded ==
    OneBackend /\ (setting.unit \/ ~setting.overlap) => ~rerun

\* Administrators are not permanently blocked: a status of queued or running
\* does not last, even when the script hangs or dies, in every deployment.
ActiveEnds == status.state \in Active ~> status.state \notin Active
=============================================================================
