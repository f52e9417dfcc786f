--------------------------- MODULE AlertLifecycle ---------------------------
(***************************************************************************)
(* Machine status, status events and alerts on the server.  They are       *)
(* written by the agents' requests (heartbeat, metrics, inventory), by the *)
(* reconcile loop that marks silent machines offline, and by operators.    *)
(*                                                                         *)
(* The database runs transactions at READ COMMITTED.  An agent's request   *)
(* is three steps: it loads the machine's row; its first UPDATE locks that *)
(* row and it reads events and alerts; it commits.  The reconcile loop     *)
(* loads the agents, then reads the machines, events and alerts, then      *)
(* commits.  An operator's request reads, then commits.  A commit writes   *)
(* only the columns that changed.                                          *)
(***************************************************************************)
EXTENDS Naturals, FiniteSets, Functions

CONSTANTS
    Machines,
    Ids,        \* rows for alerts
    AgentTxns,  \* sessions serving agents' requests
    Settings    \* what one behaviour considers: see Setting

Reconcile == "reconcile"

AllRequests == {"healthy", "unhealthy", "high", "low", "changed"}
AllOperations == {"acknowledge", "resolve", "delete", "clear", "events", "active"}

\* Kinds of agents' and of operators' requests; whether transactions overlap, or
\* begin when none is in progress; and a bound, the alerts remembered at a time.
Setting == [requests : SUBSET AllRequests, operations : SUBSET AllOperations,
            overlap : BOOLEAN, alerts : Nat]

ASSUME SettingsAssumption == Settings \subseteq Setting
ASSUME SessionsAssumption == AgentTxns \cap {Reconcile, "committed"} = {}
ASSUME MachinesAssumption == Machines # {}

VARIABLES
    setting,  \* never changes
    machine,  \* machine rows: status, and the has_open_alerts flag
    agent,    \* agent rows: age of the last heartbeat, and whether active
    alert,    \* alert rows
    events,   \* status events: the newest committed one, and those not committed yet
    req,      \* sessions of agents' requests
    rec,      \* the session of the reconcile loop
    op,       \* the session of an operator's request
    repeated  \* history: a status event repeated the one before it

rows == <<machine, agent, alert, events>>
vars == <<setting, machine, agent, alert, events, req, rec, op, repeated>>

-----------------------------------------------------------------------------
Status == {"NEVER_CONNECTED", "ONLINE", "OFFLINE", "AGENT_UNHEALTHY"}
Beats  == {"none", "fresh", "stale"}
Rules  == {"offline", "metric", "hardware"}
Open   == {"OPEN", "ACKNOWLEDGED"}
AlertStatus == Open \cup {"RESOLVED", "absent"}

Row   == [status : Status, flag : BOOLEAN]
Alert == [machine : Machines, rule : Rules, status : AlertStatus, revived : BOOLEAN]
Issue == [machine : Machines, rule : Rules]   \* what an alert is about

AnyMachine == CHOOSE m \in Machines : TRUE
NoAlert == [machine |-> AnyMachine, rule |-> "metric", status |-> "absent", revived |-> FALSE]
NewRow  == [status |-> "NEVER_CONNECTED", flag |-> FALSE]

\* What a session is about to write: machine rows, alerts to close and to open,
\* and the alerts its UPDATE and DELETE statements name.
NoPlan == [new |-> [m \in {} |-> NewRow], closes |-> {}, opens |-> {}, uses |-> {}]

IdleReq == [phase |-> "idle", m |-> AnyMachine, kind |-> "healthy", seen |-> NewRow, plan |-> NoPlan]
IdleRec == [phase |-> "idle", late |-> {}, never |-> {}, seen |-> [m \in {} |-> NewRow], plan |-> NoPlan]
IdleOp  == [phase |-> "idle", to |-> "absent", seen |-> [m \in {} |-> NewRow], plan |-> NoPlan]

\* The status event of each writer, and which was created before which.
Writers == AgentTxns \cup {Reconcile, "committed"}
Events  == [type : [Writers -> Status \cup {"none"}], before : SUBSET (Writers \X Writers)]
NoEvents == [type |-> [w \in Writers |-> "none"], before |-> {}]

Rows == UNION {[ms -> Row] : ms \in SUBSET Machines}   \* of some machines
Plan == [new : Rows, closes : SUBSET Ids, opens : SUBSET Issue, uses : SUBSET Ids]

TypeOK ==
    /\ setting \in Settings
    /\ machine \in [Machines -> Row]
    /\ agent \in [Machines -> [beat : Beats, active : BOOLEAN]]
    /\ alert \in [Ids -> Alert]
    /\ events \in [Machines -> Events]
    /\ req \in [AgentTxns -> [phase : {"idle", "loaded", "locked"}, m : Machines,
                             kind : AllRequests, seen : Row, plan : Plan]]
    /\ rec \in [phase : {"idle", "loaded", "queried"}, late : SUBSET Machines,
               never : SUBSET Machines, seen : Rows, plan : Plan]
    /\ op \in [phase : {"idle", "read"}, to : AlertStatus, seen : Rows, plan : Plan]
    /\ repeated \in BOOLEAN

Init ==
    /\ setting \in Settings
    /\ machine = [m \in Machines |-> NewRow]
    /\ agent = [m \in Machines |-> [beat |-> "none", active |-> TRUE]]
    /\ alert = [i \in Ids |-> NoAlert]
    /\ events = [m \in Machines |-> NoEvents]
    /\ req = [t \in AgentTxns |-> IdleReq]
    /\ rec = IdleRec
    /\ op = IdleOp
    /\ repeated = FALSE

-----------------------------------------------------------------------------
(* Alerts.                                                                 *)

IsOpen(i) == alert[i].status \in Open
About(i)  == [machine |-> alert[i].machine, rule |-> alert[i].rule]
OpenAbout(issue)  == {i \in Ids : IsOpen(i) /\ About(i) = issue}
OpenOn(m) == {i \in Ids : IsOpen(i) /\ alert[i].machine = m}

\* Mutant: a missing alert is opened without looking for one.
Raises_Always(issue) == {issue}

\* _open_or_update_alert opens an alert unless one is open.
Raises(issue) == IF OpenAbout(issue) = {} THEN {issue} ELSE {}

\* scalar_one_or_none raises when the query returns several rows.
Ambiguous(issue) == Cardinality(OpenAbout(issue)) > 1

Referenced == UNION {req[t].plan.uses : t \in AgentTxns} \cup rec.plan.uses \cup op.plan.uses

\* Rows for new alerts; a resolved alert may be forgotten.
FreeRows == {i \in Ids \ Referenced : ~IsOpen(i)}
Remembered == {i \in Ids : alert[i].status # "absent"}

Opened(issue) ==
    [machine |-> issue.machine, rule |-> issue.rule, status |-> "OPEN", revived |-> FALSE]

Moved(a, to) ==
    IF to = "absent" THEN NoAlert
    ELSE [a EXCEPT !.status = to,
                   !.revived = to = "ACKNOWLEDGED" /\ (@ \/ a.status = "RESOLVED")]

\* The alerts after a plan: some are moved to another status, others are created.
WriteAlerts(plan, to) ==
    \E at \in Injection(plan.opens, FreeRows) :
        /\ Cardinality(Remembered \cup Range(at)) <= setting.alerts
        /\ alert' = [i \in Ids |-> IF i \in Range(at) THEN Opened(CHOOSE o \in plan.opens : at[o] = i)
                                  ELSE IF i \in plan.closes THEN Moved(alert[i], to) ELSE alert[i]]

\* The UPDATE of a deleted row fails: the transaction cannot commit.
Intact(plan) == \A i \in plan.uses : alert[i].status # "absent"

-----------------------------------------------------------------------------
(* Machine rows.                                                           *)

Dirty(seen, new, now) == IF new = seen THEN now ELSE new

\* Only the columns a session changed are written.
WriteMachines(seen, new) ==
    machine' = [m \in Machines |->
        IF m \notin DOMAIN new THEN machine[m]
        ELSE [status |-> Dirty(seen[m].status, new[m].status, machine[m].status),
              flag   |-> Dirty(seen[m].flag,   new[m].flag,   machine[m].flag)]]

Changed(seen, new) == {m \in DOMAIN new : new[m] # seen[m]}

\* A machine row is locked from an agent request's first UPDATE to its end.
Locked(ms) == \E t \in AgentTxns : req[t].phase = "locked" /\ req[t].m \in ms

-----------------------------------------------------------------------------
(* Status events.                                                          *)

LastEvent(m) == events[m].type["committed"]

\* Mutant: every change of status is an event.
Emits_Always(m, from, to) == from # to

\* record_status_event: a change of status is an event unless the last event says it.
Emits(m, from, to) == from # to /\ LastEvent(m) # to

Written(e) == {w \in Writers : e.type[w] # "none"}

Without(e, by) ==
    [type |-> [e.type EXCEPT ![by] = "none"], before |-> {p \in e.before : by \notin {p[1], p[2]}}]

\* Events are ordered by created_at, taken before the commit makes them visible.
Reserve(ms, type, by) ==
    events' = [m \in Machines |->
        IF m \in ms THEN [type |-> [events[m].type EXCEPT ![by] = type],
                          before |-> events[m].before \cup (Written(events[m]) \X {by})]
        ELSE events[m]]

Forget(by) == events' = [m \in Machines |-> Without(events[m], by)]

\* The event becomes the newest of the committed ones, in place of the last.
Newest(e, by) ==
    LET name(w) == IF w = by THEN "committed" ELSE w IN
    [type   |-> [e.type EXCEPT !["committed"] = e.type[by], ![by] = "none"],
     before |-> {<<name(p[1]), name(p[2])>> : p \in Without(e, "committed").before}]

\* The event of a session becomes visible, if there is one; the committed one
\* may have been created after it.
Publish(by) ==
    /\ events' = [m \in Machines |->
          IF events[m].type[by] = "none" \/ <<by, "committed">> \in events[m].before
          THEN Without(events[m], by) ELSE Newest(events[m], by)]
    /\ repeated' = (repeated \/ \E m \in Machines : events[m].type[by] \in Status \cap {LastEvent(m)})

-----------------------------------------------------------------------------
(* Agents' requests.                                                       *)

Offline(m)  == [machine |-> m, rule |-> "offline"]
Metric(m)   == [machine |-> m, rule |-> "metric"]
Hardware(m) == [machine |-> m, rule |-> "hardware"]

\* get_current_agent, and the handler loads the machine: heartbeat ("healthy",
\* "unhealthy"), metrics above or below a rule's threshold ("high", "low"),
\* inventory with a change some rule is about ("changed"), or without ("healthy").
Load(t, m, kind) ==
    /\ req[t].phase = "idle"
    /\ agent[m].active
    /\ req' = [req EXCEPT ![t] = [phase |-> "loaded", m |-> m, kind |-> kind,
                                  seen |-> machine[m], plan |-> NoPlan]]
    /\ UNCHANGED <<setting, rows, rec, op, repeated>>

\* Mutant: the status is the agent's own word.
Target_Word(kind) == IF kind = "unhealthy" THEN "UNHEALTHY" ELSE "ONLINE"

Target(kind) == IF kind = "unhealthy" THEN "AGENT_UNHEALTHY" ELSE "ONLINE"

\* The alerts a request is about, whatever it finds.
Concern(kind, m) ==
    IF kind \in {"high", "low"} THEN {Metric(m)} ELSE IF kind = "changed" THEN {Hardware(m)} ELSE {}

\* Mutant: coming back online leaves the offline alert open.
Recovered_Never(m, from, kind) == {}

\* record_status_event: coming online resolves the offline alerts.
Recovered(m, from, kind) ==
    IF Target(kind) = "ONLINE" /\ Emits(m, from, "ONLINE") THEN OpenAbout(Offline(m)) ELSE {}

\* evaluate_metrics recomputes the flag; elsewhere it is only raised.
Flagged(m, kind, seen, closes, opens) ==
    IF kind \in {"high", "low"} THEN OpenOn(m) \ closes # {} \/ opens # {} ELSE seen.flag \/ opens # {}

\* apply_heartbeat, evaluate_hardware_events and evaluate_metrics, up to the commit.
PlanOf(t) ==
    LET m == req[t].m
        kind == req[t].kind
        seen == req[t].seen
        found  == UNION {OpenAbout(i) : i \in Concern(kind, m)}
        closes == Recovered(m, seen.status, kind) \cup (IF kind = "low" THEN found ELSE {})
        opens  == IF kind = "low" THEN {} ELSE UNION {Raises(i) : i \in Concern(kind, m)}
    IN  [new |-> [x \in {m} |-> [status |-> Target(kind), flag |-> Flagged(m, kind, seen, closes, opens)]],
         closes |-> closes, opens |-> opens, uses |-> closes \cup found]

\* The first UPDATE takes the machine's row; events and alerts are read under it.
Lock(t) ==
    LET m == req[t].m IN
    /\ req[t].phase = "loaded"
    /\ ~Locked({m})
    /\ ~\E i \in Concern(req[t].kind, m) : Ambiguous(i)
    /\ req' = [req EXCEPT ![t] = [@ EXCEPT !.phase = "locked", !.plan = PlanOf(t)]]
    /\ Reserve(IF Emits(m, req[t].seen.status, Target(req[t].kind)) THEN {m} ELSE {}, Target(req[t].kind), t)
    /\ UNCHANGED <<setting, machine, agent, alert, rec, op, repeated>>

Commit(t) ==
    LET m == req[t].m IN
    /\ req[t].phase = "locked"
    /\ Intact(req[t].plan)
    /\ WriteAlerts(req[t].plan, "RESOLVED")
    /\ WriteMachines([x \in {m} |-> req[t].seen], req[t].plan.new)
    /\ agent' = [agent EXCEPT ![m].beat = "fresh"]
    /\ Publish(t)
    /\ req' = [req EXCEPT ![t] = IdleReq]
    /\ UNCHANGED <<setting, rec, op>>

\* The handler raised (for one, a query found two alerts for a rule), or the
\* connection or the server failed: everything is rolled back.
Abort(t) ==
    /\ req[t].phase # "idle"
    /\ Forget(t)
    /\ req' = [req EXCEPT ![t] = IdleReq]
    /\ UNCHANGED <<setting, machine, agent, alert, rec, op, repeated>>

-----------------------------------------------------------------------------
(* The reconcile loop: one transaction for all machines.                   *)

ReconcileLoad ==
    /\ rec.phase = "idle"
    /\ rec' = [IdleRec EXCEPT !.phase = "loaded",
                  !.late  = {m \in Machines : agent[m].active /\ agent[m].beat = "stale"},
                  !.never = {m \in Machines : agent[m].active /\ agent[m].beat = "none"}]
    /\ UNCHANGED <<setting, rows, req, op, repeated>>

\* Mutant: the loop skips machines that already have an open offline alert.
Due_Unalerted == {m \in rec.late : machine[m].status # "OFFLINE" /\ OpenAbout(Offline(m)) = {}}

Due  == {m \in rec.late : machine[m].status # "OFFLINE"}
Told == {m \in Due : Emits(m, machine[m].status, "OFFLINE")}
LoopRaises == \E m \in Told : Ambiguous(Offline(m))

\* reconcile_machine_status after the agents were loaded, up to the commit; one
\* machine with two open offline alerts makes the query raise for all.
ReconcileQuery ==
    LET opens == UNION {Raises(Offline(m)) : m \in Told}
        new(m) == IF m \in Due
                  THEN [status |-> "OFFLINE", flag |-> machine[m].flag \/ Offline(m) \in opens]
                  ELSE [machine[m] EXCEPT !.status = "NEVER_CONNECTED"]
    IN  /\ rec.phase = "loaded"
        /\ ~LoopRaises
        /\ rec' = [rec EXCEPT !.phase = "queried", !.seen = machine,
                      !.plan = [new |-> [m \in Due \cup rec.never |-> new(m)], closes |-> {},
                                opens |-> opens, uses |-> UNION {OpenAbout(Offline(m)) : m \in Told}]]
        /\ Reserve(Told, "OFFLINE", Reconcile)
        /\ UNCHANGED <<setting, machine, agent, alert, req, op, repeated>>

ReconcileCommit ==
    /\ rec.phase = "queried"
    /\ Intact(rec.plan)
    /\ ~Locked(Changed(rec.seen, rec.plan.new))
    /\ WriteAlerts(rec.plan, "RESOLVED")
    /\ WriteMachines(rec.seen, rec.plan.new)
    /\ Publish(Reconcile)
    /\ rec' = IdleRec
    /\ UNCHANGED <<setting, agent, req, op>>

\* The loop logs the exception, rolls back and tries again after its interval.
ReconcileAbort ==
    /\ rec.phase # "idle"
    /\ Forget(Reconcile)
    /\ rec' = IdleRec
    /\ UNCHANGED <<setting, machine, agent, alert, req, op, repeated>>

-----------------------------------------------------------------------------
(* Operators and administrators.                                           *)

\* Mutant: the flag of the machine is left alone.
Remaining_Kept(m, gone, to) == machine[m].flag

\* _sync_open_alert_flag counts the open alerts the request leaves.
Remaining(m, gone, to) == OpenOn(m) \ gone # {} \/ (gone # {} /\ to \in Open)

\* What a request that moves these alerts to a status will write.
Operate(ids, ms, to) ==
    /\ op.phase = "idle"
    /\ op' = [phase |-> "read", to |-> to, seen |-> machine,
              plan |-> [new |-> [m \in ms |-> [machine[m] EXCEPT !.flag = Remaining(m, ids, to)]],
                        closes |-> {i \in ids : alert[i].status # to}, opens |-> {}, uses |-> ids]]
    /\ UNCHANGED <<setting, rows, req, rec, repeated>>

Exists(i) == alert[i].status # "absent"
Acknowledge(i) == Exists(i) /\ Operate({i}, {alert[i].machine}, "ACKNOWLEDGED")
Resolve(i)     == Exists(i) /\ Operate({i}, {alert[i].machine}, "RESOLVED")
Delete(i)      == Exists(i) /\ Operate({i}, {alert[i].machine}, "absent")

\* clear_alerts deletes all alerts, or those of one status.
Clear(wanted) == Operate({i \in Ids : alert[i].status \in wanted}, Machines, "absent")

OperatorCommit ==
    /\ op.phase = "read"
    /\ Intact(op.plan)
    /\ ~Locked(Changed(op.seen, op.plan.new))
    /\ WriteAlerts(op.plan, op.to)
    /\ WriteMachines(op.seen, op.plan.new)
    /\ op' = IdleOp
    /\ UNCHANGED <<setting, agent, events, req, rec, repeated>>

OperatorAbort ==
    /\ op.phase = "read"
    /\ op' = IdleOp
    /\ UNCHANGED <<setting, rows, req, rec, repeated>>

\* clear_machine_events and clear_machine_history delete the committed events.
ClearEvents(m) ==
    /\ events' = [events EXCEPT ![m] = Without(events[m], "committed")]
    /\ UNCHANGED <<setting, machine, agent, alert, req, rec, op, repeated>>

\* revoke_agent, and rotate_agent or approve_agent.
SetActive(m, active) ==
    /\ agent' = [agent EXCEPT ![m].active = active]
    /\ UNCHANGED <<setting, machine, alert, events, req, rec, op, repeated>>

\* offline_after_seconds pass without a heartbeat.
BeatAges(m) ==
    /\ agent[m].beat = "fresh"
    /\ agent' = [agent EXCEPT ![m].beat = "stale"]
    /\ UNCHANGED <<setting, machine, alert, events, req, rec, op, repeated>>

-----------------------------------------------------------------------------
Wanted == {{"OPEN"}, {"ACKNOWLEDGED"}, {"RESOLVED"}, {"OPEN", "ACKNOWLEDGED", "RESOLVED"}}

Calm ==
    \/ setting.overlap
    \/ rec.phase = "idle" /\ op.phase = "idle" /\ \A t \in AgentTxns : req[t].phase = "idle"

AgentNext ==
    \E t \in AgentTxns : \/ \E m \in Machines, kind \in setting.requests : Calm /\ Load(t, m, kind)
                         \/ Lock(t) \/ Commit(t) \/ Abort(t)

ReconcileNext == (Calm /\ ReconcileLoad) \/ ReconcileQuery \/ ReconcileCommit \/ ReconcileAbort

Does(operation) == operation \in setting.operations

OperatorNext ==
    \/ \E i \in Ids : \/ Does("acknowledge") /\ Calm /\ Acknowledge(i)
                      \/ Does("resolve") /\ Calm /\ Resolve(i)
                      \/ Does("delete") /\ Calm /\ Delete(i)
    \/ Does("clear") /\ \E wanted \in Wanted : Calm /\ Clear(wanted)
    \/ OperatorCommit
    \/ OperatorAbort
    \/ Does("events") /\ \E m \in Machines : ClearEvents(m)
    \/ Does("active") /\ \E m \in Machines : SetActive(m, ~agent[m].active)

Next == AgentNext \/ ReconcileNext \/ OperatorNext \/ \E m \in Machines : BeatAges(m)

Spec == Init /\ [][Next]_vars

\* The loop keeps running, every request ends, and from some point on the
\* loop's transaction fails only if a query raises or a row is gone.
Forced == (rec.phase = "loaded" /\ LoopRaises) \/ (rec.phase = "queried" /\ ~Intact(rec.plan))

Fairness ==
    /\ WF_vars(ReconcileLoad) /\ WF_vars(ReconcileQuery) /\ SF_vars(ReconcileCommit)
    /\ WF_vars(Forced /\ ReconcileAbort)
    /\ <>[][ReconcileAbort => Forced \/ ReconcileCommit]_vars
    /\ \A t \in AgentTxns : WF_vars(Commit(t) \/ Abort(t))
    /\ WF_vars(OperatorCommit \/ OperatorAbort)

FairSpec == Spec /\ Fairness

-----------------------------------------------------------------------------
(* Safety.                                                                 *)

\* A status event never repeats the one before it in created_at order, even
\* when requests and the loop overlap (record_status_event reads the last
\* event under the row lock, or in the only loop).
NoRepeatedEvents == ~repeated

\* However requests, loop and operators overlap, two open alerts for a machine
\* and a rule exist only after an operator acknowledged a resolved one.
OneOpenAlert ==
    \A i, j \in Ids : IsOpen(i) /\ IsOpen(j) /\ About(i) = About(j) /\ i # j
                        => alert[i].revived \/ alert[j].revived

\* When transactions do not overlap, a machine with an open alert is flagged.
FlagNeverHides == ~setting.overlap => \A m \in Machines : OpenOn(m) # {} => machine[m].flag

\* When transactions do not overlap, a machine that is online has no open
\* offline alert, unless an operator brought a resolved one back.
OnlineClearsOffline ==
    ~setting.overlap =>
        \A m \in Machines : machine[m].status = "ONLINE" =>
            \A i \in OpenAbout(Offline(m)) : alert[i].revived

-----------------------------------------------------------------------------
(* Liveness.                                                               *)

Silent(m) == agent[m].active /\ agent[m].beat = "stale"

\* A machine whose active agent stays silent is marked offline, unless some
\* machine has two open offline alerts.
OfflineDetected ==
    \A m \in Machines : Silent(m) ~> \/ machine[m].status = "OFFLINE" \/ ~Silent(m)
                                    \/ \E n \in Machines : Ambiguous(Offline(n))

\* The text of the rule "Machine offline": a machine whose active agent stays
\* silent is marked offline, whatever the other alerts are.
SilenceIsNoticed == \A m \in Machines : Silent(m) ~> machine[m].status = "OFFLINE" \/ ~Silent(m)
=============================================================================
