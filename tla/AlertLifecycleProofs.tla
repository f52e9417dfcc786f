------------------------ MODULE AlertLifecycleProofs ------------------------
(* Proofs about AlertLifecycle, for every value of its constants.          *)
EXTENDS AlertLifecycle, TLAPS

Sessions == AgentTxns \cup {Reconcile}

\* What an UPDATE may move an alert to.
Moves == {"ACKNOWLEDGED", "RESOLVED", "absent"}

\* Every open alert about the issue is one an operator brought back.
Settled(issue) == \A i \in OpenAbout(issue) : alert[i].revived

-----------------------------------------------------------------------------
(* The inductive invariant.                                                *)

\* An agent's session writes what it planned under the lock: only alerts its own
\* kind of request is about, and none that somebody else can have opened since.
AgentPlans ==
    \A t \in AgentTxns :
        /\ req[t].phase # "locked" => req[t].plan = NoPlan
        /\ req[t].plan.closes \subseteq req[t].plan.uses
        /\ \A o \in req[t].plan.opens : /\ o \in {Metric(req[t].m), Hardware(req[t].m)}
                                        /\ Settled(o)
        /\ req[t].phase = "locked" => /\ DOMAIN req[t].plan.new = {req[t].m}
                                      /\ req[t].plan.new[req[t].m].status = Target(req[t].kind)

\* A machine's row is locked by one session at a time.
RowLocks ==
    \A t, u \in AgentTxns :
        req[t].phase = "locked" /\ req[u].phase = "locked" /\ req[t].m = req[u].m => t = u

\* The loop closes nothing and opens offline alerts, which only it opens.
LoopPlan ==
    /\ rec.phase # "queried" => rec.plan = NoPlan
    /\ rec.phase = "queried" => rec.seen \in [Machines -> Row]
    /\ rec.plan.closes = {}
    /\ \A o \in rec.plan.opens : o.rule = "offline" /\ Settled(o)

\* An operator's request opens no alert and writes no status.
OperatorPlan ==
    /\ op.phase = "idle" => op.plan = NoPlan
    /\ op.to \in Moves
    /\ op.plan.opens = {}
    /\ op.plan.closes \subseteq op.plan.uses
    /\ \A m \in DOMAIN op.plan.new : op.plan.new[m].status = op.seen[m].status

\* An event that is not committed yet belongs to a session that holds the row, or
\* to the loop, and differs from the newest committed one.
PendingEvents ==
    \A m \in Machines : \A w \in Sessions :
        events[m].type[w] # "none" =>
            /\ events[m].type[w] # LastEvent(m)
            /\ w = Reconcile => events[m].type[w] = "OFFLINE" /\ rec.phase = "queried"
            /\ w # Reconcile => /\ req[w].phase = "locked" /\ req[w].m = m
                                /\ events[m].type[w] = Target(req[w].kind)

\* In turns: one session is busy, on rows that stand still.
Turns ==
    /\ \A t \in AgentTxns : req[t].phase # "idle" =>
          /\ \A u \in AgentTxns \ {t} : req[u].phase = "idle"
          /\ rec.phase = "idle"
          /\ op.phase = "idle"
          /\ req[t].seen = machine[req[t].m]
    /\ rec.phase # "idle" => op.phase = "idle"
    /\ rec.phase = "queried" => rec.seen = machine
    /\ op.phase = "read" => op.seen = machine
    /\ \A m \in Machines : \A p \in events[m].before : p[1] = "committed"

\* Whether a plan leaves an open alert on the machine, and whether it flags it then.
Leaves(plan, to, m) ==
    \/ \E i \in Ids : /\ alert[i].machine = m
                      /\ IF i \in plan.closes THEN to = "ACKNOWLEDGED" ELSE IsOpen(i)
    \/ \E o \in plan.opens : o.machine = m
Flags(plan, to) ==
    \A m \in Machines : Leaves(plan, to, m) =>
        IF m \in DOMAIN plan.new THEN plan.new[m].flag ELSE machine[m].flag

\* In turns: every plan flags the machines on which it leaves an open alert.
PlansFlag ==
    /\ \A t \in AgentTxns : Flags(req[t].plan, "RESOLVED")
    /\ Flags(rec.plan, "RESOLVED")
    /\ Flags(op.plan, op.to)

\* In turns: a machine that is online, or whose last event says so, has no open
\* offline alert but revived ones, and a plan that brings it online closes them;
\* the loop opens one only together with an OFFLINE event.
Recovery ==
    /\ \A m \in Machines :
          machine[m].status = "ONLINE" \/ LastEvent(m) = "ONLINE" => Settled(Offline(m))
    /\ \A t \in AgentTxns : req[t].phase = "locked" /\ Target(req[t].kind) = "ONLINE" =>
          \A i \in OpenAbout(Offline(req[t].m)) \ req[t].plan.closes : alert[i].revived
    /\ rec.phase = "queried" => \A m \in Machines :
          /\ m \in DOMAIN rec.plan.new => rec.plan.new[m].status # "ONLINE"
          /\ Offline(m) \in rec.plan.opens => /\ m \in DOMAIN rec.plan.new
                                              /\ events[m].type[Reconcile] = "OFFLINE"

InTurns == ~setting.overlap => Turns /\ PlansFlag /\ Recovery

AlertInv ==
    /\ TypeOK
    /\ AgentPlans
    /\ RowLocks
    /\ LoopPlan
    /\ OperatorPlan
    /\ PendingEvents
    /\ OneOpenAlert
    /\ NoRepeatedEvents
    /\ InTurns

-----------------------------------------------------------------------------
(* The operators of the model.                                             *)

LEMMA Names ==
    /\ Reconcile \notin AgentTxns /\ "committed" \notin Sessions
    /\ Sessions \subseteq Writers /\ "committed" \in Writers /\ Reconcile \in Sessions
    /\ AgentTxns \subseteq Sessions
BY SessionsAssumption DEF Sessions, Writers, Reconcile

LEMMA RowsType ==
    /\ \A f \in Rows : DOMAIN f \subseteq Machines /\ \A m \in DOMAIN f : f[m] \in Row
    /\ \A ms \in SUBSET Machines : \A f \in [ms -> Row] : f \in Rows
<1>1. ASSUME NEW f \in Rows PROVE DOMAIN f \subseteq Machines /\ \A m \in DOMAIN f : f[m] \in Row
  <2>1. PICK ms \in SUBSET Machines : f \in [ms -> Row]  BY DEF Rows
  <2> QED  BY <2>1
<1>2. ASSUME NEW ms \in SUBSET Machines, NEW f \in [ms -> Row] PROVE f \in Rows
  BY DEF Rows
<1> QED  BY <1>1, <1>2

LEMMA Blank ==
    /\ AnyMachine \in Machines
    /\ NewRow \in Row
    /\ NoAlert \in Alert
    /\ NoPlan \in Plan
    /\ NoEvents \in Events
<1>1. AnyMachine \in Machines  BY MachinesAssumption DEF AnyMachine
<1>2. NewRow \in Row  BY DEF NewRow, Row, Status
<1>3. NoAlert \in Alert  BY <1>1 DEF NoAlert, Alert, Rules, AlertStatus, Open
<1>4. NoPlan \in Plan
  <2>1. [m \in {} |-> NewRow] \in Rows  BY DEF Rows
  <2> QED  BY <2>1 DEF NoPlan, Plan
<1>5. NoEvents \in Events  BY DEF NoEvents, Events
<1> QED  BY <1>1, <1>2, <1>3, <1>4, <1>5

LEMMA TargetType == ASSUME NEW kind PROVE Target(kind) \in {"ONLINE", "AGENT_UNHEALTHY"}
BY DEF Target

\* A session's event is added.
LEMMA ReserveKeeps ==
    ASSUME events \in [Machines -> Events], NEW ms, NEW type \in Status, NEW by \in Sessions,
           Reserve(ms, type, by)
    PROVE  /\ events' \in [Machines -> Events]
           /\ \A m \in Machines : \A w \in Writers :
                 events'[m].type[w] = IF m \in ms /\ w = by THEN type ELSE events[m].type[w]
           /\ \A m \in Machines : \A p \in events'[m].before :
                 p \in events[m].before \/ (m \in ms /\ p[1] \in Written(events[m]))
<1> DEFINE E(m) == IF m \in ms THEN [type |-> [events[m].type EXCEPT ![by] = type],
                                     before |-> events[m].before \cup (Written(events[m]) \X {by})]
                   ELSE events[m]
<1>1. events' = [m \in Machines |-> E(m)]  BY DEF Reserve
<1>2. by \in Writers  BY Names
<1>3. ASSUME NEW m \in Machines
      PROVE  /\ E(m) \in Events
             /\ \A w \in Writers : E(m).type[w] = IF m \in ms /\ w = by THEN type ELSE events[m].type[w]
             /\ \A p \in E(m).before : p \in events[m].before \/ (m \in ms /\ p[1] \in Written(events[m]))
  <2>1. events[m] \in Events  OBVIOUS
  <2>2. events[m].type \in [Writers -> Status \cup {"none"}] /\ events[m].before \subseteq Writers \X Writers
    BY <2>1 DEF Events
  <2>3. Written(events[m]) \subseteq Writers  BY DEF Written
  <2>4. [events[m].type EXCEPT ![by] = type] \in [Writers -> Status \cup {"none"}]  BY <2>2
  <2>5. events[m].before \cup (Written(events[m]) \X {by}) \in SUBSET (Writers \X Writers)  BY <1>2, <2>2, <2>3
  <2>6. E(m) \in Events  BY <2>1, <2>4, <2>5 DEF Events
  <2>7. ASSUME NEW w \in Writers
        PROVE  E(m).type[w] = IF m \in ms /\ w = by THEN type ELSE events[m].type[w]
    BY <2>2, <2>7
  <2>8. ASSUME NEW p \in E(m).before PROVE p \in events[m].before \/ (m \in ms /\ p[1] \in Written(events[m]))
    BY <2>8
  <2> QED  BY <2>6, <2>7, <2>8
<1> QED  BY <1>1, <1>3

\* An event is taken out of the order.
LEMMA WithoutKeeps ==
    ASSUME NEW e \in Events, NEW by
    PROVE  /\ Without(e, by) \in Events
           /\ \A w \in Writers : Without(e, by).type[w] = IF w = by THEN "none" ELSE e.type[w]
           /\ Without(e, by).before \subseteq e.before
           /\ \A p \in Without(e, by).before : p[1] # by
<1>1. e.type \in [Writers -> Status \cup {"none"}] /\ e.before \subseteq Writers \X Writers  BY DEF Events
<1>2. [e.type EXCEPT ![by] = "none"] \in [Writers -> Status \cup {"none"}]  BY <1>1
<1>3. Without(e, by).type = [e.type EXCEPT ![by] = "none"]  BY DEF Without
<1>4. Without(e, by).before = {p \in e.before : by \notin {p[1], p[2]}}  BY DEF Without
<1>5. Without(e, by) \in Events  BY <1>1, <1>2 DEF Without, Events
<1>6. \A w \in Writers : Without(e, by).type[w] = IF w = by THEN "none" ELSE e.type[w]  BY <1>1, <1>3
<1> QED  BY <1>4, <1>5, <1>6

\* A session's event becomes the newest committed one.
LEMMA NewestKeeps ==
    ASSUME NEW e \in Events, NEW by \in Sessions
    PROVE  /\ Newest(e, by) \in Events
           /\ \A w \in Writers : Newest(e, by).type[w] =
                 IF w = "committed" THEN e.type[by] ELSE IF w = by THEN "none" ELSE e.type[w]
           /\ (\A p \in e.before : p[1] = "committed") => Newest(e, by).before = {}
<1> DEFINE name(w) == IF w = by THEN "committed" ELSE w
           rest == Without(e, "committed").before
<1>1. e.type \in [Writers -> Status \cup {"none"}]  BY DEF Events
<1>2. by \in Writers /\ "committed" \in Writers /\ by # "committed"  BY Names
<1>3. rest \subseteq Writers \X Writers  BY WithoutKeeps DEF Events
<1>4. Newest(e, by).type = [e.type EXCEPT !["committed"] = e.type[by], ![by] = "none"]  BY DEF Newest
<1>5. Newest(e, by).type \in [Writers -> Status \cup {"none"}]  BY <1>1, <1>2, <1>4
<1>6. Newest(e, by).before = {<<name(p[1]), name(p[2])>> : p \in rest}  BY DEF Newest
<1>7. \A w \in Writers : name(w) \in Writers  BY <1>2
<1>8. \A p \in rest : p[1] \in Writers /\ p[2] \in Writers  BY <1>3
<1>9. Newest(e, by).before \in SUBSET (Writers \X Writers)
  <2>1. ASSUME NEW p \in rest PROVE <<name(p[1]), name(p[2])>> \in Writers \X Writers
    <3>1. name(p[1]) \in Writers /\ name(p[2]) \in Writers  BY <1>7, <1>8
    <3> HIDE DEF name
    <3> QED  BY <3>1
  <2> HIDE DEF name, rest
  <2> QED  BY <1>6, <2>1
<1>10. Newest(e, by) \in Events
  <2>1. Newest(e, by) = [type |-> Newest(e, by).type, before |-> Newest(e, by).before]  BY DEF Newest
  <2> QED  BY <2>1, <1>5, <1>9 DEF Events
<1>11. \A w \in Writers : Newest(e, by).type[w] =
          IF w = "committed" THEN e.type[by] ELSE IF w = by THEN "none" ELSE e.type[w]
  BY <1>1, <1>2, <1>4
<1>12. ASSUME \A p \in e.before : p[1] = "committed" PROVE Newest(e, by).before = {}
  <2>1. rest = {}  BY <1>12, WithoutKeeps
  <2> HIDE DEF name, rest
  <2> QED  BY <1>6, <2>1
<1> QED  BY <1>10, <1>11, <1>12

LEMMA ForgetKeeps ==
    ASSUME events \in [Machines -> Events], NEW by \in Sessions, Forget(by)
    PROVE  /\ events' \in [Machines -> Events]
           /\ \A m \in Machines : \A w \in Writers :
                 events'[m].type[w] = IF w = by THEN "none" ELSE events[m].type[w]
           /\ \A m \in Machines : events'[m].before \subseteq events[m].before
<1>1. \A m \in Machines : events[m] \in Events  OBVIOUS
<1>2. events' = [m \in Machines |-> Without(events[m], by)]  BY DEF Forget
<1> QED  BY <1>1, <1>2, WithoutKeeps

LEMMA ClearKeeps ==
    ASSUME events \in [Machines -> Events], NEW x \in Machines, ClearEvents(x)
    PROVE  /\ events' \in [Machines -> Events]
           /\ \A m \in Machines : \A w \in Writers :
                 events'[m].type[w] = IF m = x /\ w = "committed" THEN "none" ELSE events[m].type[w]
           /\ \A m \in Machines : events'[m].before \subseteq events[m].before
<1>1. \A m \in Machines : events[m] \in Events  OBVIOUS
<1>2. events' = [events EXCEPT ![x] = Without(events[x], "committed")]  BY DEF ClearEvents
<1>3. \A m \in Machines : events'[m] = IF m = x THEN Without(events[x], "committed") ELSE events[m]  BY <1>2
<1>4. Without(events[x], "committed") \in Events  BY <1>1, WithoutKeeps
<1>5. events' \in [Machines -> Events]  BY <1>2, <1>4
<1>6. ASSUME NEW m \in Machines, NEW w \in Writers
      PROVE  events'[m].type[w] = IF m = x /\ w = "committed" THEN "none" ELSE events[m].type[w]
  BY <1>1, <1>3, WithoutKeeps
<1>7. ASSUME NEW m \in Machines PROVE events'[m].before \subseteq events[m].before
  BY <1>1, <1>3, WithoutKeeps
<1> QED  BY <1>5, <1>6, <1>7

\* What a commit does to the events: the session's own event is gone from the
\* pending ones, and is the newest or was written before the newest.
LEMMA PublishKeeps ==
    ASSUME events \in [Machines -> Events], NEW by \in Sessions, Publish(by)
    PROVE  /\ events' \in [Machines -> Events]
           /\ \A m \in Machines : \A w \in Sessions :
                 events'[m].type[w] = IF w = by THEN "none" ELSE events[m].type[w]
           /\ \A m \in Machines : LastEvent(m)' \in {LastEvent(m)} \cup ({events[m].type[by]} \ {"none"})
           /\ \A m \in Machines : (\A p \in events[m].before : p[1] = "committed") =>
                 /\ \A p \in events'[m].before : p[1] = "committed"
                 /\ events[m].type[by] # "none" => LastEvent(m)' = events[m].type[by]
<1> DEFINE late(m) == events[m].type[by] = "none" \/ <<by, "committed">> \in events[m].before
<1>1. \A m \in Machines : events[m] \in Events  OBVIOUS
<1>2. events' = [m \in Machines |-> IF late(m) THEN Without(events[m], by) ELSE Newest(events[m], by)]
  BY DEF Publish
<1>3. by # "committed" /\ "committed" \in Writers /\ Sessions \subseteq Writers /\ "committed" \notin Sessions
  BY Names
<1>4. ASSUME NEW m \in Machines
      PROVE  /\ events'[m] \in Events
             /\ \A w \in Sessions : events'[m].type[w] = IF w = by THEN "none" ELSE events[m].type[w]
             /\ LastEvent(m)' \in {LastEvent(m)} \cup ({events[m].type[by]} \ {"none"})
             /\ (\A p \in events[m].before : p[1] = "committed") =>
                   /\ \A p \in events'[m].before : p[1] = "committed"
                   /\ events[m].type[by] # "none" => LastEvent(m)' = events[m].type[by]
  <2>1. CASE late(m)
    <3>1. events'[m] = Without(events[m], by)  BY <1>2, <2>1
    <3>2. LastEvent(m)' = LastEvent(m)  BY <1>1, <1>3, <3>1, WithoutKeeps DEF LastEvent
    <3>3. ASSUME \A p \in events[m].before : p[1] = "committed"
          PROVE  events[m].type[by] = "none"
      <4>1. <<by, "committed">> \notin events[m].before  BY <3>3, <1>3
      <4> QED  BY <4>1, <2>1
    <3> QED  BY <1>1, <1>3, <3>1, <3>2, <3>3, WithoutKeeps
  <2>2. CASE ~late(m)
    <3>1. events'[m] = Newest(events[m], by)  BY <1>2, <2>2
    <3>2. LastEvent(m)' = events[m].type[by]  BY <1>1, <1>3, <3>1, NewestKeeps DEF LastEvent
    <3> QED  BY <1>1, <1>3, <2>2, <3>1, <3>2, NewestKeeps
  <2> QED  BY <2>1, <2>2
<1> QED  BY <1>2, <1>4

-----------------------------------------------------------------------------
(* What a commit does to the alerts.                                       *)

LEMMA OpenedType ==
    ASSUME NEW o \in Issue
    PROVE  Opened(o) \in Alert /\ Opened(o).machine = o.machine /\ Opened(o).rule = o.rule
BY DEF Opened, Alert, Issue, AlertStatus, Open

LEMMA MovedType ==
    ASSUME NEW a \in Alert, a.status # "absent", NEW to \in Moves
    PROVE  /\ Moved(a, to) \in Alert
           /\ Moved(a, to).status = to
           /\ to # "absent" => /\ Moved(a, to).machine = a.machine
                               /\ Moved(a, to).rule = a.rule
           /\ to = "ACKNOWLEDGED" => (Moved(a, to).revived <=> a.revived \/ a.status = "RESOLVED")
<1>1. CASE to = "absent"
  <2>1. Moved(a, to) = NoAlert  BY <1>1 DEF Moved
  <2>2. NoAlert.status = "absent"  BY DEF NoAlert
  <2> QED  BY <1>1, <2>1, <2>2, Blank
<1>2. CASE to # "absent"
  <2> DEFINE back == to = "ACKNOWLEDGED" /\ (a.revived \/ a.status = "RESOLVED")
  <2>1. Moved(a, to) = [a EXCEPT !.status = to, !.revived = back]  BY <1>2 DEF Moved
  <2>2. a = [machine |-> a.machine, rule |-> a.rule, status |-> a.status, revived |-> a.revived]
        /\ a.machine \in Machines /\ a.rule \in Rules /\ a.revived \in BOOLEAN
    BY DEF Alert
  <2>3. back \in BOOLEAN  OBVIOUS
  <2> HIDE DEF back
  <2>4. Moved(a, to) = [machine |-> a.machine, rule |-> a.rule, status |-> to, revived |-> back]
    BY <2>1, <2>2
  <2>5. to \in AlertStatus  BY DEF Moves, AlertStatus, Open
  <2>6. Moved(a, to) \in Alert  BY <2>2, <2>3, <2>4, <2>5 DEF Alert
  <2>7. Moved(a, to).revived <=> back  BY <2>4
  <2>8. to = "ACKNOWLEDGED" => (Moved(a, to).revived <=> a.revived \/ a.status = "RESOLVED")
    BY <2>7 DEF back
  <2> QED  BY <2>4, <2>6, <2>8
<1> QED  BY <1>1, <1>2

\* Each alert after a commit: opened for one issue of the plan, which no other
\* row is opened for; or moved, if the plan closes it; or as before.
LEMMA WriteKeeps ==
    ASSUME alert \in [Ids -> Alert], NEW plan, plan \in Plan, plan.closes \subseteq plan.uses,
           Intact(plan), NEW to \in Moves, WriteAlerts(plan, to)
    PROVE  /\ alert' \in [Ids -> Alert]
           /\ \E at \in [plan.opens -> Ids] : \A i \in Ids :
                 \/ \E o \in plan.opens : at[o] = i /\ alert'[i] = Opened(o)
                 \/ i \in plan.closes /\ alert'[i] = Moved(alert[i], to)
                 \/ i \notin plan.closes /\ alert'[i] = alert[i]
<1>1. PICK at \in Injection(plan.opens, FreeRows) :
          alert' = [i \in Ids |-> IF i \in Range(at) THEN Opened(CHOOSE o \in plan.opens : at[o] = i)
                                  ELSE IF i \in plan.closes THEN Moved(alert[i], to) ELSE alert[i]]
  BY DEF WriteAlerts
<1>2. at \in [plan.opens -> FreeRows]  BY <1>1 DEF Injection
<1>3. FreeRows \subseteq Ids  BY DEF FreeRows
<1>4. at \in [plan.opens -> Ids]  BY <1>2, <1>3
<1>5. plan.opens \subseteq Issue  BY DEF Plan
<1>6. ASSUME NEW i \in Ids
      PROVE  /\ alert'[i] \in Alert
             /\ \/ \E o \in plan.opens : at[o] = i /\ alert'[i] = Opened(o)
                \/ i \in plan.closes /\ alert'[i] = Moved(alert[i], to)
                \/ i \notin plan.closes /\ alert'[i] = alert[i]
  <2>1. CASE i \in Range(at)
    <3>1. \E o \in plan.opens : at[o] = i  BY <1>4, <2>1 DEF Range
    <3>2. PICK o \in plan.opens : o = CHOOSE x \in plan.opens : at[x] = i  BY <3>1
    <3>3. at[o] = i  BY <3>1, <3>2
    <3>4. alert'[i] = Opened(o)  BY <1>1, <2>1, <3>2
    <3>5. alert'[i] \in Alert  BY <1>5, <3>4, OpenedType
    <3> QED  BY <3>3, <3>4, <3>5
  <2>2. CASE i \notin Range(at) /\ i \in plan.closes
    <3>1. alert'[i] = Moved(alert[i], to)  BY <1>1, <2>2
    <3>2. alert[i] \in Alert /\ alert[i].status # "absent"  BY <2>2 DEF Intact
    <3>3. alert'[i] \in Alert  BY <3>1, <3>2, MovedType
    <3> QED  BY <2>2, <3>1, <3>3
  <2>3. CASE i \notin Range(at) /\ i \notin plan.closes
    <3>1. alert'[i] = alert[i]  BY <1>1, <2>3
    <3> QED  BY <2>3, <3>1
  <2> QED  BY <2>1, <2>2, <2>3
<1>7. alert' \in [Ids -> Alert]
  <2>1. alert' = [i \in Ids |-> alert'[i]]  BY <1>1
  <2> QED  BY <2>1, <1>6
<1> QED  BY <1>4, <1>6, <1>7

\* An alert that is open after a commit was opened by it, or was acknowledged by
\* it, or was open and is as before.
LEMMA OpenAfter ==
    ASSUME alert \in [Ids -> Alert], NEW plan, plan \in Plan, plan.closes \subseteq plan.uses,
           Intact(plan), NEW to \in Moves, WriteAlerts(plan, to)
    PROVE  \E at \in [plan.opens -> Ids] : \A i \in Ids : IsOpen(i)' =>
              \/ \E o \in plan.opens : /\ at[o] = i /\ About(i)' = o
                                       /\ alert'[i].machine = o.machine
              \/ /\ i \in plan.closes /\ to = "ACKNOWLEDGED"
                 /\ About(i)' = About(i) /\ alert'[i].machine = alert[i].machine
                 /\ alert'[i].revived <=> alert[i].revived \/ ~IsOpen(i)
              \/ /\ i \notin plan.closes /\ IsOpen(i)
                 /\ About(i)' = About(i) /\ alert'[i].machine = alert[i].machine
                 /\ alert'[i].revived <=> alert[i].revived
<1>1. PICK at \in [plan.opens -> Ids] : \A i \in Ids :
          \/ \E o \in plan.opens : at[o] = i /\ alert'[i] = Opened(o)
          \/ i \in plan.closes /\ alert'[i] = Moved(alert[i], to)
          \/ i \notin plan.closes /\ alert'[i] = alert[i]
  BY WriteKeeps
<1>2. ASSUME NEW i \in Ids, IsOpen(i)'
      PROVE  \/ \E o \in plan.opens : /\ at[o] = i /\ About(i)' = o
                                      /\ alert'[i].machine = o.machine
             \/ /\ i \in plan.closes /\ to = "ACKNOWLEDGED"
                /\ About(i)' = About(i) /\ alert'[i].machine = alert[i].machine
                /\ alert'[i].revived <=> alert[i].revived \/ ~IsOpen(i)
             \/ /\ i \notin plan.closes /\ IsOpen(i)
                /\ About(i)' = About(i) /\ alert'[i].machine = alert[i].machine
                /\ alert'[i].revived <=> alert[i].revived
  <2>1. CASE \E o \in plan.opens : at[o] = i /\ alert'[i] = Opened(o)
    <3>1. PICK o \in plan.opens : at[o] = i /\ alert'[i] = Opened(o)  BY <2>1
    <3>2. o \in Issue  BY DEF Plan
    <3>3. alert'[i].machine = o.machine /\ alert'[i].rule = o.rule  BY <3>1, <3>2, OpenedType
    <3>4. About(i)' = o  BY <3>2, <3>3 DEF About, Issue
    <3> QED  BY <3>1, <3>3, <3>4
  <2>2. CASE i \in plan.closes /\ alert'[i] = Moved(alert[i], to)
    <3>1. alert[i] \in Alert /\ alert[i].status # "absent"  BY <2>2 DEF Intact
    <3>2. alert'[i].status = to  BY <2>2, <3>1, MovedType
    <3>3. to = "ACKNOWLEDGED"  BY <1>2, <3>2 DEF IsOpen, Open, Moves
    <3>4. alert'[i].machine = alert[i].machine /\ alert'[i].rule = alert[i].rule
      BY <2>2, <3>1, <3>3, MovedType
    <3>5. alert'[i].revived <=> alert[i].revived \/ alert[i].status = "RESOLVED"
      BY <2>2, <3>1, <3>3, MovedType
    <3>6. IsOpen(i) <=> alert[i].status # "RESOLVED"
      BY <3>1 DEF IsOpen, Alert, AlertStatus, Open
    <3>7. About(i)' = About(i)  BY <3>4 DEF About
    <3> QED  BY <2>2, <3>3, <3>4, <3>5, <3>6, <3>7
  <2>3. CASE i \notin plan.closes /\ alert'[i] = alert[i]
    <3>1. IsOpen(i)  BY <1>2, <2>3 DEF IsOpen
    <3>2. About(i)' = About(i)  BY <2>3 DEF About
    <3> QED  BY <2>3, <3>1, <3>2
  <2> QED  BY <1>1, <2>1, <2>2, <2>3
<1> QED  BY <1>1, <1>2

\* A plan that opens alerts only where all open ones are revived keeps them apart.
LEMMA OneOpenKeeps ==
    ASSUME alert \in [Ids -> Alert], NEW plan, plan \in Plan, plan.closes \subseteq plan.uses,
           Intact(plan), NEW to \in Moves, WriteAlerts(plan, to),
           \A o \in plan.opens : Settled(o), OneOpenAlert
    PROVE  OneOpenAlert'
<1>1. PICK at \in [plan.opens -> Ids] : \A i \in Ids : IsOpen(i)' =>
          \/ \E o \in plan.opens : /\ at[o] = i /\ About(i)' = o
                                   /\ alert'[i].machine = o.machine
          \/ /\ i \in plan.closes /\ to = "ACKNOWLEDGED"
             /\ About(i)' = About(i) /\ alert'[i].machine = alert[i].machine
             /\ alert'[i].revived <=> alert[i].revived \/ ~IsOpen(i)
          \/ /\ i \notin plan.closes /\ IsOpen(i)
             /\ About(i)' = About(i) /\ alert'[i].machine = alert[i].machine
             /\ alert'[i].revived <=> alert[i].revived
  BY OpenAfter
<1>2. ASSUME NEW i \in Ids, IsOpen(i)', ~alert'[i].revived
      PROVE  \/ About(i)' \in plan.opens /\ at[About(i)'] = i
             \/ IsOpen(i) /\ About(i)' = About(i) /\ ~alert[i].revived
  BY <1>1, <1>2
<1>3. ASSUME NEW i \in Ids, NEW j \in Ids, IsOpen(i)', IsOpen(j)', About(i)' = About(j)', i # j,
             ~alert'[i].revived, ~alert'[j].revived
      PROVE  FALSE
  <2>1. CASE About(i)' \in plan.opens
    <3>1. ASSUME NEW k \in Ids, IsOpen(k), About(k) = About(i)', ~alert[k].revived PROVE FALSE
      BY <2>1, <3>1 DEF Settled, OpenAbout
    <3>2. at[About(i)'] = i  BY <1>2, <1>3, <3>1
    <3>3. at[About(j)'] = j  BY <1>2, <1>3, <3>1
    <3> QED  BY <1>3, <3>2, <3>3
  <2>2. CASE About(i)' \notin plan.opens
    <3>1. IsOpen(i) /\ About(i)' = About(i) /\ ~alert[i].revived  BY <1>2, <1>3, <2>2
    <3>2. IsOpen(j) /\ About(j)' = About(j) /\ ~alert[j].revived  BY <1>2, <1>3, <2>2
    <3> QED  BY <1>3, <3>1, <3>2 DEF OneOpenAlert
  <2> QED  BY <2>1, <2>2
<1> QED  BY <1>3 DEF OneOpenAlert

\* An issue that is settled stays so unless the commit opens an alert about it.
LEMMA SettledKeeps ==
    ASSUME alert \in [Ids -> Alert], NEW plan, plan \in Plan, plan.closes \subseteq plan.uses,
           Intact(plan), NEW to \in Moves, WriteAlerts(plan, to),
           NEW o, o \notin plan.opens, Settled(o)
    PROVE  Settled(o)'
<1>1. ASSUME NEW i \in Ids, IsOpen(i)', About(i)' = o PROVE alert'[i].revived
  <2>1. CASE /\ About(i)' = About(i)
             /\ alert'[i].revived <=> alert[i].revived \/ ~IsOpen(i)
    BY <1>1, <2>1 DEF Settled, OpenAbout
  <2>2. CASE /\ IsOpen(i)
             /\ About(i)' = About(i)
             /\ alert'[i].revived <=> alert[i].revived
    BY <1>1, <2>2 DEF Settled, OpenAbout
  <2> QED  BY <1>1, <2>1, <2>2, OpenAfter
<1> QED  BY <1>1 DEF Settled, OpenAbout

\* An issue is settled once all its open alerts that are not revived are closed.
LEMMA ClosedKeeps ==
    ASSUME alert \in [Ids -> Alert], NEW plan, plan \in Plan, plan.closes \subseteq plan.uses,
           Intact(plan), WriteAlerts(plan, "RESOLVED"),
           NEW o, o \notin plan.opens, \A i \in OpenAbout(o) \ plan.closes : alert[i].revived
    PROVE  Settled(o)'
<1>1. "RESOLVED" \in Moves  BY DEF Moves
<1>2. ASSUME NEW i \in Ids, IsOpen(i)', About(i)' = o PROVE alert'[i].revived
  <2>1. /\ i \notin plan.closes /\ IsOpen(i)
        /\ About(i)' = About(i)
        /\ alert'[i].revived <=> alert[i].revived
    BY <1>1, <1>2, OpenAfter
  <2> QED  BY <1>2, <2>1 DEF OpenAbout
<1> QED  BY <1>2 DEF Settled, OpenAbout

\* A plan that flags what it leaves open leaves no open alert without a flag.
LEMMA FlagsKeeps ==
    ASSUME alert \in [Ids -> Alert], NEW plan, plan \in Plan, plan.closes \subseteq plan.uses,
           Intact(plan), NEW to \in Moves, WriteAlerts(plan, to), Flags(plan, to),
           \A m \in Machines : machine'[m] = IF m \in DOMAIN plan.new THEN plan.new[m] ELSE machine[m]
    PROVE  \A any : Flags(NoPlan, any)'
<1>1. ASSUME NEW m \in Machines, NEW i \in Ids, alert'[i].machine = m, IsOpen(i)'
      PROVE  machine'[m].flag
  <2>1. Leaves(plan, to, m)
    <3>1. CASE \E o \in plan.opens : alert'[i].machine = o.machine  BY <1>1, <3>1 DEF Leaves
    <3>2. CASE i \in plan.closes /\ to = "ACKNOWLEDGED" /\ alert'[i].machine = alert[i].machine
      BY <1>1, <3>2 DEF Leaves
    <3>3. CASE i \notin plan.closes /\ IsOpen(i) /\ alert'[i].machine = alert[i].machine
      BY <1>1, <3>3 DEF Leaves
    <3> QED  BY <1>1, <3>1, <3>2, <3>3, OpenAfter
  <2>2. IF m \in DOMAIN plan.new THEN plan.new[m].flag ELSE machine[m].flag  BY <2>1 DEF Flags
  <2> QED  BY <2>2
<1> QED  BY <1>1 DEF Flags, Leaves, NoPlan

-----------------------------------------------------------------------------
(* What a commit does to the machines, and what the plans hold.            *)

LEMMA MachinesKeep ==
    ASSUME machine \in [Machines -> Row], NEW new \in Rows, NEW seen, WriteMachines(seen, new)
    PROVE  machine' \in [Machines -> Row]
<1> DEFINE M(m) == IF m \notin DOMAIN new THEN machine[m]
                   ELSE [status |-> Dirty(seen[m].status, new[m].status, machine[m].status),
                         flag   |-> Dirty(seen[m].flag,   new[m].flag,   machine[m].flag)]
<1>1. ASSUME NEW m \in Machines PROVE M(m) \in Row
  <2>1. machine[m] \in Row  OBVIOUS
  <2>2. ASSUME m \in DOMAIN new PROVE new[m] \in Row  BY <2>2, RowsType
  <2> QED  BY <2>1, <2>2 DEF Row, Dirty
<1>2. machine' = [m \in Machines |-> M(m)]  BY DEF WriteMachines
<1> QED  BY <1>1, <1>2

\* Rows nobody else has written are written as planned.
LEMMA RowsWritten ==
    ASSUME machine \in [Machines -> Row], NEW new \in Rows, NEW seen, WriteMachines(seen, new),
           \A m \in DOMAIN new : seen[m] = machine[m]
    PROVE  \A m \in Machines : machine'[m] = IF m \in DOMAIN new THEN new[m] ELSE machine[m]
<1>1. ASSUME NEW m \in Machines, m \in DOMAIN new PROVE machine'[m] = new[m]
  <2>1. machine'[m] = [status |-> Dirty(seen[m].status, new[m].status, machine[m].status),
                       flag   |-> Dirty(seen[m].flag,   new[m].flag,   machine[m].flag)]
    BY <1>1 DEF WriteMachines
  <2>2. seen[m] = machine[m]  BY <1>1
  <2>3. machine'[m] = [status |-> new[m].status, flag |-> new[m].flag]  BY <2>1, <2>2 DEF Dirty
  <2>4. new[m] \in Row  BY <1>1, RowsType
  <2> QED  BY <2>3, <2>4 DEF Row
<1>2. ASSUME NEW m \in Machines, m \notin DOMAIN new PROVE machine'[m] = machine[m]
  BY <1>2 DEF WriteMachines
<1> QED  BY <1>1, <1>2

LEMMA AlertsStay ==
    ASSUME UNCHANGED alert
    PROVE  /\ \A o : OpenAbout(o)' = OpenAbout(o)
           /\ \A o : Settled(o)' <=> Settled(o)
           /\ OneOpenAlert' <=> OneOpenAlert
<1>1. \A i \in Ids : (IsOpen(i)' <=> IsOpen(i)) /\ About(i)' = About(i)  BY DEF IsOpen, About
<1>2. ASSUME NEW o PROVE OpenAbout(o)' = OpenAbout(o)  BY <1>1 DEF OpenAbout
<1>3. ASSUME NEW o PROVE Settled(o)' <=> Settled(o)  BY <1>2 DEF Settled
<1>4. OneOpenAlert' <=> OneOpenAlert  BY <1>1 DEF OneOpenAlert
<1> QED  BY <1>2, <1>3, <1>4

LEMMA FlagsStay ==
    ASSUME UNCHANGED <<alert, machine>>
    PROVE  \A plan, to : Flags(plan, to)' <=> Flags(plan, to)
BY DEF Flags, Leaves, IsOpen

\* A session that holds no plan says: every machine with an open alert is flagged.
LEMMA NoPlanFlags ==
    ASSUME NEW to, Flags(NoPlan, to)
    PROVE  /\ \A any : Flags(NoPlan, any)
           /\ \A m \in Machines : OpenOn(m) # {} => machine[m].flag
BY DEF Flags, Leaves, NoPlan, OpenOn

LEMMA SettingType ==
    ASSUME TypeOK
    PROVE  setting.requests \subseteq AllRequests /\ setting.operations \subseteq AllOperations
           /\ setting.overlap \in BOOLEAN
BY SettingsAssumption DEF TypeOK, Setting

\* Nobody is busy when a session begins in turns.
LEMMA CalmTurns ==
    ASSUME Calm, ~setting.overlap
    PROVE  rec.phase = "idle" /\ op.phase = "idle" /\ \A t \in AgentTxns : req[t].phase = "idle"
BY DEF Calm

LEMMA ConcernType ==
    ASSUME NEW kind, NEW m \in Machines
    PROVE  /\ Concern(kind, m) \subseteq {Metric(m), Hardware(m)}
           /\ Concern(kind, m) \subseteq Issue
<1>1. Concern(kind, m) \subseteq {Metric(m), Hardware(m)}  BY DEF Concern
<1>2. Metric(m) \in Issue /\ Hardware(m) \in Issue  BY DEF Metric, Hardware, Issue, Rules
<1> QED  BY <1>1, <1>2

\* What an agent's session plans under the lock.
LEMMA PlanFacts ==
    ASSUME TypeOK, NEW t \in AgentTxns
    PROVE  /\ PlanOf(t) \in Plan
           /\ PlanOf(t).closes \subseteq PlanOf(t).uses
           /\ \A o \in PlanOf(t).opens : /\ o \in {Metric(req[t].m), Hardware(req[t].m)}
                                         /\ OpenAbout(o) = {}
           /\ DOMAIN PlanOf(t).new = {req[t].m}
           /\ PlanOf(t).new[req[t].m].status = Target(req[t].kind)
           /\ PlanOf(t).new[req[t].m].flag
                 = Flagged(req[t].m, req[t].kind, req[t].seen, PlanOf(t).closes, PlanOf(t).opens)
           /\ Recovered(req[t].m, req[t].seen.status, req[t].kind) \subseteq PlanOf(t).closes
<1> DEFINE m == req[t].m
           kind == req[t].kind
           seen == req[t].seen
           found  == UNION {OpenAbout(i) : i \in Concern(kind, m)}
           closes == Recovered(m, seen.status, kind) \cup (IF kind = "low" THEN found ELSE {})
           opens  == IF kind = "low" THEN {} ELSE UNION {Raises(i) : i \in Concern(kind, m)}
           flag   == Flagged(m, kind, seen, closes, opens)
           new    == [x \in {m} |-> [status |-> Target(kind), flag |-> flag]]
<1>1. PlanOf(t) = [new |-> new, closes |-> closes, opens |-> opens, uses |-> closes \cup found]
  BY DEF PlanOf
<1>2. m \in Machines /\ kind \in AllRequests /\ seen \in Row  BY DEF TypeOK
<1>3. flag \in BOOLEAN  BY <1>2 DEF Flagged, Row
<1>4. \A i \in Concern(kind, m) : OpenAbout(i) \subseteq Ids  BY DEF OpenAbout
<1>5. found \subseteq Ids  BY <1>4
<1>6. closes \subseteq Ids  BY <1>5 DEF Recovered, OpenAbout
<1>7. ASSUME NEW o \in opens PROVE o \in Concern(kind, m) /\ OpenAbout(o) = {}
  <2>1. PICK i \in Concern(kind, m) : o \in Raises(i)  OBVIOUS
  <2> QED  BY <2>1 DEF Raises
<1>8. opens \subseteq Issue  BY <1>2, <1>7, ConcernType
<1> HIDE DEF found, closes, opens, flag
<1>9. Target(kind) \in Status  BY TargetType DEF Status
<1>10. new \in [{m} -> Row]  BY <1>3, <1>9 DEF Row
<1>11. new \in Rows  BY <1>2, <1>10, RowsType
<1>12. new[m] = [status |-> Target(kind), flag |-> flag]  OBVIOUS
<1>13. PlanOf(t) \in Plan  BY <1>1, <1>5, <1>6, <1>8, <1>11 DEF Plan
<1>14. Recovered(m, seen.status, kind) \subseteq closes  BY DEF closes
<1>15. \A o \in opens : o \in {Metric(m), Hardware(m)}  BY <1>2, <1>7, ConcernType
<1>16. PlanOf(t).new = new /\ PlanOf(t).closes = closes /\ PlanOf(t).opens = opens
       /\ PlanOf(t).uses = closes \cup found
  BY <1>1
<1>17. flag = Flagged(m, kind, seen, closes, opens)  BY DEF flag
<1> HIDE DEF new
<1>18. DOMAIN new = {m}  BY <1>10
<1> QED  BY <1>7, <1>12, <1>13, <1>14, <1>15, <1>16, <1>17, <1>18

-----------------------------------------------------------------------------
(* Agents' requests keep the invariant.                                    *)

LEMMA LoadKeeps ==
    ASSUME AlertInv, NEW t \in AgentTxns, NEW m \in Machines, NEW kind \in setting.requests,
           Calm, Load(t, m, kind)
    PROVE  AlertInv'
<1> DEFINE r == [phase |-> "loaded", m |-> m, kind |-> kind, seen |-> machine[m], plan |-> NoPlan]
<1>1. TypeOK  BY DEF AlertInv
<1>2. /\ req' = [req EXCEPT ![t] = r]
      /\ req[t].phase = "idle"
      /\ setting' = setting /\ machine' = machine /\ agent' = agent /\ alert' = alert
      /\ events' = events /\ rec' = rec /\ op' = op /\ repeated' = repeated
  BY DEF Load, rows
<1>3. \A u \in AgentTxns : req'[u] = IF u = t THEN r ELSE req[u]  BY <1>1, <1>2 DEF TypeOK
<1>4. \A o : OpenAbout(o)' = OpenAbout(o) /\ (Settled(o)' <=> Settled(o))  BY <1>2, AlertsStay
<1>5. TypeOK'
  <2>1. kind \in AllRequests  BY <1>1, SettingType
  <2>2. r \in [phase : {"idle", "loaded", "locked"}, m : Machines, kind : AllRequests, seen : Row, plan : Plan]
    BY <1>1, <2>1, Blank DEF TypeOK
  <2> QED  BY <1>1, <1>2, <2>2 DEF TypeOK
<1>6. AgentPlans'
  <2>1. AgentPlans  BY DEF AlertInv
  <2>2. r.plan.closes = {} /\ r.plan.opens = {}  BY DEF NoPlan
  <2>3. ASSUME NEW u \in AgentTxns
        PROVE  /\ req'[u].phase # "locked" => req'[u].plan = NoPlan
               /\ req'[u].plan.closes \subseteq req'[u].plan.uses
               /\ \A o \in req'[u].plan.opens : /\ o \in {Metric(req'[u].m), Hardware(req'[u].m)}
                                                /\ Settled(o)'
               /\ req'[u].phase = "locked" => /\ DOMAIN req'[u].plan.new = {req'[u].m}
                                              /\ req'[u].plan.new[req'[u].m].status = Target(req'[u].kind)
    <3>1. CASE u = t  BY <1>3, <2>2, <3>1
    <3>2. CASE u # t  BY <1>3, <1>4, <2>1, <3>2 DEF AgentPlans
    <3> QED  BY <3>1, <3>2
  <2> QED  BY <2>3 DEF AgentPlans, Metric, Hardware, Target
<1>7. RowLocks'  BY <1>3 DEF AlertInv, RowLocks
<1>8. LoopPlan'  BY <1>2, <1>4 DEF AlertInv, LoopPlan
<1>9. OperatorPlan'  BY <1>2 DEF AlertInv, OperatorPlan
<1>10. PendingEvents'
  <2>1. PendingEvents  BY DEF AlertInv
  <2>2. \A x \in Machines : events[x].type[t] = "none"  BY <1>2, <2>1, Names DEF PendingEvents
  <2> QED  BY <1>2, <1>3, <2>1, <2>2, Names DEF PendingEvents, LastEvent, Sessions, Target
<1>11. OneOpenAlert' /\ NoRepeatedEvents'
  BY <1>2, AlertsStay DEF AlertInv, NoRepeatedEvents
<1>12. ASSUME ~setting'.overlap PROVE Turns' /\ PlansFlag' /\ Recovery'
  <2>1. Turns /\ PlansFlag /\ Recovery  BY <1>2, <1>12 DEF AlertInv, InTurns
  <2>2. rec.phase = "idle" /\ op.phase = "idle" /\ \A u \in AgentTxns : req[u].phase = "idle"
    BY <1>2, <1>12, CalmTurns
  <2>3. Turns'  BY <1>2, <1>3, <2>1, <2>2 DEF Turns
  <2>4. PlansFlag'
    <3>1. \A plan, to : Flags(plan, to)' <=> Flags(plan, to)  BY <1>2, FlagsStay
    <3>2. req[t].plan = NoPlan  BY <1>2 DEF AlertInv, AgentPlans
    <3>3. \A u \in AgentTxns : req'[u].plan = req[u].plan  BY <1>3, <3>2
    <3> QED  BY <1>2, <2>1, <3>1, <3>3 DEF PlansFlag
  <2>5. Recovery'  BY <1>2, <1>3, <1>4, <2>1 DEF Recovery, LastEvent, Target, Offline
  <2> QED  BY <2>3, <2>4, <2>5
<1> QED  BY <1>5, <1>6, <1>7, <1>8, <1>9, <1>10, <1>11, <1>12 DEF AlertInv, InTurns

LEMMA LockKeeps ==
    ASSUME AlertInv, NEW t \in AgentTxns, Lock(t)
    PROVE  AlertInv'
<1> DEFINE m == req[t].m
           kind == req[t].kind
           p == PlanOf(t)
           ms == IF Emits(m, req[t].seen.status, Target(kind)) THEN {m} ELSE {}
<1>1. TypeOK  BY DEF AlertInv
<1>2. /\ req' = [req EXCEPT ![t] = [req[t] EXCEPT !.phase = "locked", !.plan = p]]
      /\ req[t].phase = "loaded"
      /\ ~Locked({m})
      /\ Reserve(ms, Target(kind), t)
      /\ setting' = setting /\ machine' = machine /\ agent' = agent /\ alert' = alert
      /\ rec' = rec /\ op' = op /\ repeated' = repeated
  BY DEF Lock
<1>3. m \in Machines /\ kind \in AllRequests /\ req[t].seen \in Row  BY <1>1 DEF TypeOK
<1>4. /\ p \in Plan
      /\ p.closes \subseteq p.uses
      /\ \A o \in p.opens : /\ o \in {Metric(m), Hardware(m)}
                            /\ OpenAbout(o) = {}
      /\ DOMAIN p.new = {m}
      /\ p.new[m].status = Target(kind)
      /\ p.new[m].flag = Flagged(m, kind, req[t].seen, p.closes, p.opens)
      /\ Recovered(m, req[t].seen.status, kind) \subseteq p.closes
  BY <1>1, PlanFacts
<1> HIDE DEF p
<1>5. \A u \in AgentTxns : u # t => req'[u] = req[u]  BY <1>1, <1>2 DEF TypeOK
<1>6. /\ req'[t].phase = "locked" /\ req'[t].m = m /\ req'[t].kind = kind
      /\ req'[t].seen = req[t].seen /\ req'[t].plan = p
  BY <1>1, <1>2 DEF TypeOK
<1>7. \A o : OpenAbout(o)' = OpenAbout(o) /\ (Settled(o)' <=> Settled(o))  BY <1>2, AlertsStay
<1>8. events \in [Machines -> Events] /\ Target(kind) \in Status /\ t \in Sessions /\ t # Reconcile
  BY <1>1, TargetType, Names DEF TypeOK, Status
<1> HIDE DEF ms
<1>9. /\ events' \in [Machines -> Events]
      /\ \A x \in Machines : \A w \in Writers :
            events'[x].type[w] = IF x \in ms /\ w = t THEN Target(kind) ELSE events[x].type[w]
      /\ \A x \in Machines : \A q \in events'[x].before :
            q \in events[x].before \/ (x \in ms /\ q[1] \in Written(events[x]))
  BY <1>2, <1>8, ReserveKeeps
<1>10. \A x \in ms : x = m /\ LastEvent(m) # Target(kind)  BY DEF ms, Emits
<1>11. \A x \in Machines : LastEvent(x)' = LastEvent(x)  BY <1>9, Names DEF LastEvent
<1>12. PendingEvents  BY DEF AlertInv
<1>13. \A x \in Machines : events[x].type[t] = "none"  BY <1>2, <1>8, <1>12 DEF PendingEvents
<1>14. TypeOK'
  <2>1. req'[t] \in [phase : {"idle", "loaded", "locked"}, m : Machines, kind : AllRequests, seen : Row, plan : Plan]
    <3>1. req[t] \in [phase : {"idle", "loaded", "locked"}, m : Machines, kind : AllRequests, seen : Row, plan : Plan]
      BY <1>1 DEF TypeOK
    <3>2. req'[t] = [req[t] EXCEPT !.phase = "locked", !.plan = p]
      BY <1>1, <1>2 DEF TypeOK
    <3>3. p \in Plan
      BY <1>4
    <3> HIDE DEF m, kind
    <3> QED BY <3>1, <3>2, <3>3
  <2>2. req' \in [AgentTxns -> [phase : {"idle", "loaded", "locked"}, m : Machines, kind : AllRequests, seen : Row, plan : Plan]]
    <3>1. /\ req \in [AgentTxns -> [phase : {"idle", "loaded", "locked"}, m : Machines, kind : AllRequests, seen : Row, plan : Plan]]
          /\ req' = [req EXCEPT ![t] = req'[t]]
      BY <1>1, <1>2 DEF TypeOK
    <3> QED  BY <2>1, <3>1
  <2> QED  BY <1>1, <1>2, <1>9, <2>2 DEF TypeOK
<1>15. AgentPlans'
  <2>1. AgentPlans  BY DEF AlertInv
  <2>2. \A o \in p.opens : Settled(o)  BY <1>4 DEF Settled
  <2>3. ASSUME NEW u \in AgentTxns
        PROVE  /\ req'[u].phase # "locked" => req'[u].plan = NoPlan
               /\ req'[u].plan.closes \subseteq req'[u].plan.uses
               /\ \A o \in req'[u].plan.opens : /\ o \in {Metric(req'[u].m), Hardware(req'[u].m)}
                                                /\ Settled(o)'
               /\ req'[u].phase = "locked" => /\ DOMAIN req'[u].plan.new = {req'[u].m}
                                              /\ req'[u].plan.new[req'[u].m].status = Target(req'[u].kind)
    <3>1. CASE u = t  BY <1>4, <1>6, <1>7, <2>2, <3>1
    <3>2. CASE u # t  BY <1>5, <1>7, <2>1, <3>2 DEF AgentPlans
    <3> QED  BY <3>1, <3>2
  <2> QED  BY <2>3 DEF AgentPlans, Metric, Hardware, Target
<1>16. RowLocks'
  <2>1. RowLocks  BY DEF AlertInv
  <2>2. ASSUME NEW u \in AgentTxns, u # t, req'[u].phase = "locked" PROVE req'[u].m # m
    BY <1>2, <1>5, <2>2 DEF Locked
  <2> QED  BY <1>5, <1>6, <2>1, <2>2 DEF RowLocks
<1>17. LoopPlan'  BY <1>2, <1>7 DEF AlertInv, LoopPlan
<1>18. OperatorPlan'  BY <1>2 DEF AlertInv, OperatorPlan
<1>19. PendingEvents'
  <2>1. ASSUME NEW x \in Machines, NEW w \in Sessions, events'[x].type[w] # "none"
        PROVE  /\ events'[x].type[w] # LastEvent(x)'
               /\ w = Reconcile => events'[x].type[w] = "OFFLINE" /\ rec'.phase = "queried"
               /\ w # Reconcile => /\ req'[w].phase = "locked" /\ req'[w].m = x
                                   /\ events'[x].type[w] = Target(req'[w].kind)
    <3>1. CASE w = t
      <4>1. x \in ms  BY <1>9, <1>13, <2>1, <3>1, Names
      <4>2. events'[x].type[w] = Target(kind)  BY <1>9, <3>1, <4>1, Names
      <4> QED  BY <1>6, <1>8, <1>10, <1>11, <3>1, <4>1, <4>2
    <3>2. CASE w # t
      <4>1. events'[x].type[w] = events[x].type[w]  BY <1>9, <3>2, Names
      <4>2. w # Reconcile => w \in AgentTxns /\ req'[w] = req[w]  BY <1>5, <3>2 DEF Sessions
      <4> QED  BY <1>2, <1>11, <1>12, <2>1, <4>1, <4>2 DEF PendingEvents
    <3> QED  BY <3>1, <3>2
  <2> QED  BY <2>1 DEF PendingEvents, Target
<1>20. OneOpenAlert' /\ NoRepeatedEvents'
  BY <1>2, AlertsStay DEF AlertInv, NoRepeatedEvents
<1>21. ASSUME ~setting'.overlap PROVE Turns' /\ PlansFlag' /\ Recovery'
  <2>1. Turns /\ PlansFlag /\ Recovery  BY <1>2, <1>21 DEF AlertInv, InTurns
  <2>2. /\ \A u \in AgentTxns \ {t} : req[u].phase = "idle"
        /\ rec.phase = "idle" /\ op.phase = "idle"
        /\ req[t].seen = machine[m]
    BY <1>2, <2>1 DEF Turns
  <2>3. ASSUME NEW x \in Machines, NEW q \in events'[x].before PROVE q[1] = "committed"
    <3>1. CASE q \in events[x].before  BY <2>1, <3>1 DEF Turns
    <3>2. CASE q[1] \in Written(events[x])
      <4>1. q[1] \in Writers /\ events[x].type[q[1]] # "none"  BY <3>2 DEF Written
      <4>2. q[1] \in Sessions => FALSE
        BY <1>2, <1>12, <2>2, <4>1 DEF PendingEvents, Sessions
      <4> QED  BY <4>1, <4>2 DEF Writers, Sessions
    <3> QED  BY <1>9, <3>1, <3>2
  <2>4. Turns'
    <3>1. \A u \in AgentTxns : u # t => req'[u].phase = "idle"  BY <1>5, <2>2
    <3>2. Turns  BY <2>1
    <3> QED  BY <1>2, <1>6, <2>2, <2>3, <3>1 DEF Turns
  <2>5. PlansFlag'
    <3>1. \A plan, to : Flags(plan, to)' <=> Flags(plan, to)  BY <1>2, FlagsStay
    <3>2. Flags(NoPlan, "RESOLVED")
      <4>1. req[t].plan = NoPlan  BY <1>2 DEF AlertInv, AgentPlans
      <4> QED  BY <2>1, <4>1 DEF PlansFlag
    <3>3. ASSUME NEW x \in Machines, Leaves(p, "RESOLVED", x)
          PROVE  IF x \in DOMAIN p.new THEN p.new[x].flag ELSE machine[x].flag
      <4>1. (\E i \in OpenOn(x) : i \notin p.closes) \/ (x = m /\ p.opens # {})
        BY <1>4, <3>3 DEF Leaves, OpenOn, Metric, Hardware
      <4>2. OpenOn(x) # {} => machine[x].flag
        BY <3>2 DEF Flags, Leaves, NoPlan, OpenOn
      <4>3. CASE x = m
        <5>1. Flagged(m, kind, req[t].seen, p.closes, p.opens)  BY <2>2, <4>1, <4>2, <4>3 DEF Flagged
        <5> QED  BY <1>4, <4>3, <5>1
      <4>4. CASE x # m  BY <1>4, <4>1, <4>2, <4>4
      <4> QED  BY <4>3, <4>4
    <3>4. Flags(p, "RESOLVED")  BY <3>3 DEF Flags
    <3>5. \A u \in AgentTxns : Flags(req'[u].plan, "RESOLVED")
      BY <1>5, <1>6, <2>1, <3>4 DEF PlansFlag
    <3>6. \A u \in AgentTxns : Flags(req[u].plan, "RESOLVED")'  BY <1>2, <3>5 DEF Flags, Leaves, IsOpen
    <3> QED  BY <1>2, <2>1, <3>1, <3>6 DEF PlansFlag
  <2>6. Recovery'
    <3>1. ASSUME Target(kind) = "ONLINE"
          PROVE  \A i \in OpenAbout(Offline(m)) \ p.closes : alert[i].revived
      <4>1. CASE Emits(m, req[t].seen.status, "ONLINE")
        BY <1>4, <3>1, <4>1 DEF Recovered
      <4>2. CASE ~Emits(m, req[t].seen.status, "ONLINE")
        <5>1. machine[m].status = "ONLINE" \/ LastEvent(m) = "ONLINE"  BY <2>2, <4>2 DEF Emits
        <5>2. Settled(Offline(m))  BY <1>3, <2>1, <5>1 DEF Recovery
        <5> QED  BY <5>2 DEF Settled
      <4> QED  BY <4>1, <4>2
    <3>2. \A x \in Machines :
             machine'[x].status = "ONLINE" \/ LastEvent(x)' = "ONLINE" => Settled(Offline(x))'
      BY <1>2, <1>7, <1>11, <2>1 DEF Recovery, Offline
    <3>3. ASSUME NEW u \in AgentTxns, req'[u].phase = "locked", Target(req'[u].kind) = "ONLINE"
          PROVE  \A i \in OpenAbout(Offline(req'[u].m)) \ req'[u].plan.closes : alert[i].revived
      <4>1. u = t  BY <1>5, <2>2, <3>3
      <4> QED  BY <1>6, <3>1, <3>3, <4>1
    <3>4. \A u \in AgentTxns : (req[u].phase = "locked" /\ Target(req[u].kind) = "ONLINE" =>
             \A i \in OpenAbout(Offline(req[u].m)) \ req[u].plan.closes : alert[i].revived)'
      BY <1>2, <3>3 DEF OpenAbout, IsOpen, About, Offline, Target
    <3>5. rec'.phase # "queried"  BY <1>2, <2>2
    <3> QED  BY <3>2, <3>4, <3>5 DEF Recovery, Target, Offline
  <2> QED  BY <2>4, <2>5, <2>6
<1> QED  BY <1>14, <1>15, <1>16, <1>17, <1>18, <1>19, <1>20, <1>21 DEF AlertInv, InTurns

LEMMA AbortKeeps ==
    ASSUME AlertInv, NEW t \in AgentTxns, Abort(t)
    PROVE  AlertInv'
<1>1. TypeOK  BY DEF AlertInv
<1>2. /\ req' = [req EXCEPT ![t] = IdleReq]
      /\ req[t].phase # "idle"
      /\ Forget(t)
      /\ setting' = setting /\ machine' = machine /\ agent' = agent /\ alert' = alert
      /\ rec' = rec /\ op' = op /\ repeated' = repeated
  BY DEF Abort
<1>3. \A u \in AgentTxns : req'[u] = IF u = t THEN IdleReq ELSE req[u]  BY <1>1, <1>2 DEF TypeOK
<1>4. \A o : OpenAbout(o)' = OpenAbout(o) /\ (Settled(o)' <=> Settled(o))  BY <1>2, AlertsStay
<1>5. /\ events' \in [Machines -> Events]
      /\ \A x \in Machines : \A w \in Writers :
            events'[x].type[w] = IF w = t THEN "none" ELSE events[x].type[w]
      /\ \A x \in Machines : events'[x].before \subseteq events[x].before
  BY <1>1, <1>2, ForgetKeeps, Names DEF TypeOK
<1>6. \A x \in Machines : LastEvent(x)' = LastEvent(x)  BY <1>5, Names DEF LastEvent
<1>7. IdleReq.phase = "idle" /\ IdleReq.plan = NoPlan  BY DEF IdleReq
<1>8. TypeOK'
  <2>1. IdleReq \in [phase : {"idle", "loaded", "locked"}, m : Machines, kind : AllRequests, seen : Row, plan : Plan]
    BY Blank DEF IdleReq, AllRequests
  <2> QED  BY <1>1, <1>2, <1>5, <2>1 DEF TypeOK
<1>9. AgentPlans'
  <2>1. AgentPlans  BY DEF AlertInv
  <2>2. NoPlan.closes = {} /\ NoPlan.opens = {}  BY DEF NoPlan
  <2>3. ASSUME NEW u \in AgentTxns
        PROVE  /\ req'[u].phase # "locked" => req'[u].plan = NoPlan
               /\ req'[u].plan.closes \subseteq req'[u].plan.uses
               /\ \A o \in req'[u].plan.opens : /\ o \in {Metric(req'[u].m), Hardware(req'[u].m)}
                                                /\ Settled(o)'
               /\ req'[u].phase = "locked" => /\ DOMAIN req'[u].plan.new = {req'[u].m}
                                              /\ req'[u].plan.new[req'[u].m].status = Target(req'[u].kind)
    <3>1. CASE u = t  BY <1>3, <1>7, <2>2, <3>1
    <3>2. CASE u # t  BY <1>3, <1>4, <2>1, <3>2 DEF AgentPlans
    <3> QED  BY <3>1, <3>2
  <2> QED  BY <2>3 DEF AgentPlans, Metric, Hardware, Target
<1>10. RowLocks'  BY <1>3, <1>7 DEF AlertInv, RowLocks
<1>11. LoopPlan'  BY <1>2, <1>4 DEF AlertInv, LoopPlan
<1>12. OperatorPlan'  BY <1>2 DEF AlertInv, OperatorPlan
<1>13. PendingEvents'
  <2>1. PendingEvents  BY DEF AlertInv
  <2> QED  BY <1>2, <1>3, <1>5, <1>6, <2>1, Names DEF PendingEvents, Sessions, Target
<1>14. OneOpenAlert' /\ NoRepeatedEvents'
  BY <1>2, AlertsStay DEF AlertInv, NoRepeatedEvents
<1>15. ASSUME ~setting'.overlap PROVE Turns' /\ PlansFlag' /\ Recovery'
  <2>1. Turns /\ PlansFlag /\ Recovery  BY <1>2, <1>15 DEF AlertInv, InTurns
  <2>2. rec.phase = "idle" /\ op.phase = "idle" /\ \A u \in AgentTxns \ {t} : req[u].phase = "idle"
    BY <1>2, <2>1 DEF Turns
  <2>3. \A x \in Machines : \A q \in events'[x].before : q[1] = "committed"
    BY <1>5, <2>1 DEF Turns
  <2>4. Turns'  BY <1>2, <1>3, <1>7, <2>2, <2>3 DEF Turns
  <2>5. PlansFlag'
    <3>1. \A plan, to : Flags(plan, to)' <=> Flags(plan, to)  BY <1>2, FlagsStay
    <3>2. Flags(NoPlan, "RESOLVED")
      <4>1. rec.plan = NoPlan  BY <2>2 DEF AlertInv, LoopPlan
      <4> QED  BY <2>1, <4>1 DEF PlansFlag
    <3>3. \A u \in AgentTxns : Flags(req'[u].plan, "RESOLVED")  BY <1>3, <1>7, <2>1, <3>2 DEF PlansFlag
    <3>4. \A u \in AgentTxns : Flags(req[u].plan, "RESOLVED")'  BY <1>2, <3>3 DEF Flags, Leaves, IsOpen
    <3> QED  BY <1>2, <2>1, <3>1, <3>4 DEF PlansFlag
  <2>6. Recovery'
    <3>1. \A u \in AgentTxns : req'[u].phase # "locked"  BY <1>3, <1>7, <2>2
    <3> QED  BY <1>2, <1>4, <1>6, <2>1, <2>2, <3>1 DEF Recovery, Offline
  <2> QED  BY <2>4, <2>5, <2>6
<1> QED  BY <1>8, <1>9, <1>10, <1>11, <1>12, <1>13, <1>14, <1>15 DEF AlertInv, InTurns

LEMMA CommitKeeps ==
    ASSUME AlertInv, NEW t \in AgentTxns, Commit(t)
    PROVE  AlertInv'
<1> DEFINE m == req[t].m
           kind == req[t].kind
           p == req[t].plan
<1>1. TypeOK  BY DEF AlertInv
<1>2. /\ req' = [req EXCEPT ![t] = IdleReq]
      /\ req[t].phase = "locked"
      /\ Intact(p)
      /\ WriteAlerts(p, "RESOLVED")
      /\ WriteMachines([x \in {m} |-> req[t].seen], p.new)
      /\ agent' = [agent EXCEPT ![m].beat = "fresh"]
      /\ Publish(t)
      /\ setting' = setting /\ rec' = rec /\ op' = op
  BY DEF Commit
<1>3. /\ m \in Machines /\ p \in Plan /\ "RESOLVED" \in Moves
      /\ alert \in [Ids -> Alert] /\ machine \in [Machines -> Row] /\ events \in [Machines -> Events]
      /\ t \in Sessions /\ t # Reconcile
  BY <1>1, Names DEF TypeOK, Moves
<1>4. p.new \in Rows /\ p.opens \subseteq Issue  BY <1>3 DEF Plan
<1>5. /\ p.closes \subseteq p.uses
      /\ \A o \in p.opens : o \in {Metric(m), Hardware(m)} /\ Settled(o)
      /\ DOMAIN p.new = {m}
      /\ p.new[m].status = Target(kind)
  BY <1>2 DEF AlertInv, AgentPlans
<1>6. \A u \in AgentTxns : req'[u] = IF u = t THEN IdleReq ELSE req[u]  BY <1>1, <1>2 DEF TypeOK
<1>7. IdleReq.phase = "idle" /\ IdleReq.plan = NoPlan  BY DEF IdleReq
<1>8. /\ events' \in [Machines -> Events]
      /\ \A x \in Machines : \A w \in Sessions :
            events'[x].type[w] = IF w = t THEN "none" ELSE events[x].type[w]
      /\ \A x \in Machines : LastEvent(x)' \in {LastEvent(x)} \cup ({events[x].type[t]} \ {"none"})
      /\ \A x \in Machines : (\A q \in events[x].before : q[1] = "committed") =>
            \A q \in events'[x].before : q[1] = "committed"
  BY <1>2, <1>3, PublishKeeps
<1>9. PendingEvents  BY DEF AlertInv
<1>10. \A x \in Machines : events[x].type[t] # "none" =>
          x = m /\ events[x].type[t] = Target(kind) /\ events[x].type[t] # LastEvent(x)
  BY <1>3, <1>9 DEF PendingEvents
<1> HIDE DEF p
<1>11. ASSUME NEW o, o \notin p.opens, Settled(o) PROVE Settled(o)'
  BY <1>2, <1>3, <1>5, <1>11, SettledKeeps
<1>12. TypeOK'
  <2>1. IdleReq \in [phase : {"idle", "loaded", "locked"}, m : Machines, kind : AllRequests, seen : Row, plan : Plan]
    BY Blank DEF IdleReq, AllRequests
  <2>2. req' \in [AgentTxns -> [phase : {"idle", "loaded", "locked"}, m : Machines, kind : AllRequests, seen : Row, plan : Plan]]
    BY <1>1, <1>2, <2>1, SMTT(30) DEF TypeOK
  <2>3. alert' \in [Ids -> Alert]  BY <1>2, <1>3, <1>5, WriteKeeps
  <2>4. machine' \in [Machines -> Row]  BY <1>2, <1>3, <1>4, MachinesKeep
  <2>5. agent' \in [Machines -> [beat : Beats, active : BOOLEAN]]
    BY <1>1, <1>2, <1>3 DEF TypeOK, Beats
  <2>6. repeated' \in BOOLEAN  BY <1>1, <1>2 DEF Publish, TypeOK
  <2> QED  BY <1>1, <1>2, <1>8, <2>2, <2>3, <2>4, <2>5, <2>6 DEF TypeOK
<1>13. AgentPlans'
  <2>1. AgentPlans /\ RowLocks  BY DEF AlertInv
  <2>2. NoPlan.closes = {} /\ NoPlan.opens = {}  BY DEF NoPlan
  <2>3. ASSUME NEW u \in AgentTxns
        PROVE  /\ req'[u].phase # "locked" => req'[u].plan = NoPlan
               /\ req'[u].plan.closes \subseteq req'[u].plan.uses
               /\ \A o \in req'[u].plan.opens : /\ o \in {Metric(req'[u].m), Hardware(req'[u].m)}
                                                /\ Settled(o)'
               /\ req'[u].phase = "locked" => /\ DOMAIN req'[u].plan.new = {req'[u].m}
                                              /\ req'[u].plan.new[req'[u].m].status = Target(req'[u].kind)
    <3>1. CASE u = t  BY <1>6, <1>7, <2>2, <3>1
    <3>2. CASE u # t
      <4>1. req'[u] = req[u]  BY <1>6, <3>2
      <4>2. ASSUME NEW o \in req[u].plan.opens PROVE o \notin p.opens
        <5>1. req[u].phase = "locked"  BY <2>1, <2>2, <4>2 DEF AgentPlans
        <5>2. req[u].m # m  BY <1>2, <2>1, <3>2, <5>1 DEF RowLocks
        <5>3. o.machine = req[u].m  BY <2>1, <4>2 DEF AgentPlans, Metric, Hardware
        <5> QED  BY <1>5, <5>2, <5>3 DEF Metric, Hardware
      <4>3. \A o \in req[u].plan.opens : Settled(o)'  BY <1>11, <2>1, <4>2 DEF AgentPlans
      <4> QED  BY <2>1, <4>1, <4>3 DEF AgentPlans
    <3> QED  BY <3>1, <3>2
  <2> QED  BY <2>3 DEF AgentPlans, Metric, Hardware, Target
<1>14. RowLocks'  BY <1>6, <1>7 DEF AlertInv, RowLocks
<1>15. LoopPlan'
  <2>1. LoopPlan  BY DEF AlertInv
  <2>2. \A o \in rec.plan.opens : o \notin p.opens
    BY <1>5, <2>1 DEF LoopPlan, Metric, Hardware
  <2>3. \A o \in rec.plan.opens : Settled(o)'  BY <1>11, <2>1, <2>2 DEF LoopPlan
  <2> QED  BY <1>2, <2>1, <2>3 DEF LoopPlan
<1>16. OperatorPlan'  BY <1>2 DEF AlertInv, OperatorPlan
<1>17. PendingEvents'
  <2>1. ASSUME NEW x \in Machines, NEW w \in Sessions, events'[x].type[w] # "none"
        PROVE  /\ events'[x].type[w] # LastEvent(x)'
               /\ w = Reconcile => events'[x].type[w] = "OFFLINE" /\ rec'.phase = "queried"
               /\ w # Reconcile => /\ req'[w].phase = "locked" /\ req'[w].m = x
                                   /\ events'[x].type[w] = Target(req'[w].kind)
    <3>1. w # t /\ events'[x].type[w] = events[x].type[w]  BY <1>8, <2>1
    <3>2. w # Reconcile => w \in AgentTxns /\ req'[w] = req[w]  BY <1>6, <3>1 DEF Sessions
    <3>3. ASSUME LastEvent(x)' # LastEvent(x) PROVE events[x].type[w] # LastEvent(x)'
      <4>1. LastEvent(x)' = events[x].type[t] /\ events[x].type[t] # "none"  BY <1>8, <3>3
      <4>2. x = m /\ LastEvent(x)' = Target(kind)  BY <1>10, <4>1
      <4>3. CASE w = Reconcile
        <5>1. events[x].type[w] = "OFFLINE"  BY <1>9, <2>1, <3>1, <4>3 DEF PendingEvents
        <5> QED  BY <4>2, <5>1, TargetType
      <4>4. CASE w # Reconcile
        <5>1. req[w].phase = "locked" /\ req[w].m = x  BY <1>9, <2>1, <3>1, <4>4 DEF PendingEvents
        <5> QED  BY <1>2, <3>1, <3>2, <4>2, <4>4, <5>1 DEF AlertInv, RowLocks
      <4> QED  BY <4>3, <4>4
    <3> QED  BY <1>2, <1>9, <2>1, <3>1, <3>2, <3>3 DEF PendingEvents
  <2> QED  BY <2>1 DEF PendingEvents, Target
<1>18. OneOpenAlert'
  BY <1>2, <1>3, <1>5, OneOpenKeeps DEF AlertInv
<1>19. NoRepeatedEvents'
  <2>1. "none" \notin Status  BY DEF Status
  <2> QED  BY <1>2, <1>10, <2>1 DEF AlertInv, NoRepeatedEvents, Publish
<1>20. ASSUME ~setting'.overlap PROVE Turns' /\ PlansFlag' /\ Recovery'
  <2>1. Turns /\ PlansFlag /\ Recovery  BY <1>2, <1>20 DEF AlertInv, InTurns
  <2>2. /\ rec.phase = "idle" /\ op.phase = "idle" /\ \A u \in AgentTxns \ {t} : req[u].phase = "idle"
        /\ req[t].seen = machine[m]
    BY <1>2, <2>1 DEF Turns
  <2>3. \A x \in Machines : \A q \in events'[x].before : q[1] = "committed"
    BY <1>8, <2>1 DEF Turns
  <2>4. Turns'  BY <1>2, <1>6, <1>7, <2>2, <2>3 DEF Turns
  <2>5. \A x \in Machines : machine'[x] = IF x \in DOMAIN p.new THEN p.new[x] ELSE machine[x]
    <3>1. \A x \in DOMAIN p.new : [y \in {m} |-> req[t].seen][x] = machine[x]  BY <1>5, <2>2
    <3> QED  BY <1>2, <1>3, <1>4, <3>1, RowsWritten
  <2>6. PlansFlag'
    <3>1. Flags(p, "RESOLVED")  BY <2>1 DEF PlansFlag, p
    <3>2. \A any : Flags(NoPlan, any)'  BY <1>2, <1>3, <1>5, <2>5, <3>1, FlagsKeeps
    <3>3. rec'.plan = NoPlan /\ op'.plan = NoPlan  BY <1>2, <2>2 DEF AlertInv, LoopPlan, OperatorPlan
    <3>4. \A u \in AgentTxns : req'[u].plan = NoPlan
      BY <1>6, <1>7, <2>2 DEF AlertInv, AgentPlans
    <3> QED  BY <3>2, <3>3, <3>4 DEF PlansFlag, Flags, Leaves
  <2>7. Recovery'
    <3>1. \A x \in Machines : Offline(x) \notin p.opens  BY <1>5 DEF Metric, Hardware, Offline
    <3>2. ASSUME NEW x \in Machines, machine'[x].status = "ONLINE" \/ LastEvent(x)' = "ONLINE"
          PROVE  Settled(Offline(x))'
      <4>1. CASE x = m /\ Target(kind) = "ONLINE"
        <5>1. \A i \in OpenAbout(Offline(x)) \ p.closes : alert[i].revived
          BY <1>2, <2>1, <4>1 DEF Recovery, p
        <5> QED  BY <1>2, <1>3, <1>5, <3>1, <5>1, ClosedKeeps
      <4>2. CASE x = m /\ Target(kind) # "ONLINE"
        <5>1. machine'[x].status = Target(kind)  BY <1>5, <2>5, <4>2
        <5>2. LastEvent(x) = "ONLINE"  BY <1>8, <1>10, <3>2, <4>2, <5>1
        <5>3. Settled(Offline(x))  BY <2>1, <5>2 DEF Recovery
        <5> QED  BY <1>11, <3>1, <5>3
      <4>3. CASE x # m
        <5>1. machine'[x] = machine[x] /\ LastEvent(x)' = LastEvent(x)  BY <1>5, <1>8, <1>10, <2>5, <4>3
        <5>2. Settled(Offline(x))  BY <2>1, <3>2, <5>1 DEF Recovery
        <5> QED  BY <1>11, <3>1, <5>2
      <4> QED  BY <4>1, <4>2, <4>3
    <3>3. \A u \in AgentTxns : req'[u].phase # "locked"  BY <1>6, <1>7, <2>2
    <3> QED  BY <1>2, <2>2, <3>2, <3>3 DEF Recovery
  <2> QED  BY <2>4, <2>6, <2>7
<1> QED  BY <1>12, <1>13, <1>14, <1>15, <1>16, <1>17, <1>18, <1>19, <1>20 DEF AlertInv, InTurns

-----------------------------------------------------------------------------
(* The reconcile loop keeps the invariant.                                 *)

\* A step that leaves the agents' sessions and the alerts alone leaves what they
\* plan alone.
LEMMA AgentsStay ==
    ASSUME AlertInv, UNCHANGED <<req, alert>>
    PROVE  AgentPlans' /\ RowLocks' /\ OneOpenAlert'
<1>1. \A o : Settled(o)' <=> Settled(o)  BY AlertsStay
<1>2. AgentPlans'  BY <1>1 DEF AlertInv, AgentPlans, Metric, Hardware, Target
<1>3. RowLocks'  BY DEF AlertInv, RowLocks
<1>4. OneOpenAlert'  BY AlertsStay DEF AlertInv
<1> QED  BY <1>2, <1>3, <1>4

LEMMA ReconcileLoadKeeps ==
    ASSUME AlertInv, Calm, ReconcileLoad
    PROVE  AlertInv'
<1>1. TypeOK  BY DEF AlertInv
<1>2. /\ rec.phase = "idle"
      /\ setting' = setting /\ machine' = machine /\ agent' = agent /\ alert' = alert
      /\ events' = events /\ req' = req /\ op' = op /\ repeated' = repeated
  BY DEF ReconcileLoad, rows
<1> DEFINE late == {m \in Machines : agent[m].active /\ agent[m].beat = "stale"}
           never == {m \in Machines : agent[m].active /\ agent[m].beat = "none"}
<1>3. rec' = [phase |-> "loaded", late |-> late, never |-> never, seen |-> [m \in {} |-> NewRow], plan |-> NoPlan]
  BY DEF ReconcileLoad, IdleRec
<1>4. late \subseteq Machines /\ never \subseteq Machines  OBVIOUS
<1> HIDE DEF late, never
<1>5. \A o : OpenAbout(o)' = OpenAbout(o) /\ (Settled(o)' <=> Settled(o))  BY <1>2, AlertsStay
<1>6. TypeOK'
  <2>1. [m \in {} |-> NewRow] \in Rows  BY DEF Rows
  <2>2. rec' \in [phase : {"idle", "loaded", "queried"}, late : SUBSET Machines,
                  never : SUBSET Machines, seen : Rows, plan : Plan]
    BY <1>3, <1>4, <2>1, Blank
  <2> QED  BY <1>1, <1>2, <2>2 DEF TypeOK
<1>7. AgentPlans' /\ RowLocks' /\ OneOpenAlert'  BY <1>2, AgentsStay
<1>8. LoopPlan'  BY <1>3 DEF LoopPlan, NoPlan
<1>9. OperatorPlan'  BY <1>2 DEF AlertInv, OperatorPlan
<1>10. PendingEvents'
  <2>1. PendingEvents  BY DEF AlertInv
  <2> QED  BY <1>2, <2>1, Names DEF PendingEvents, LastEvent, Sessions, Target
<1>11. NoRepeatedEvents'  BY <1>2 DEF AlertInv, NoRepeatedEvents
<1>12. ASSUME ~setting'.overlap PROVE Turns' /\ PlansFlag' /\ Recovery'
  <2>1. Turns /\ PlansFlag /\ Recovery  BY <1>2, <1>12 DEF AlertInv, InTurns
  <2>2. op.phase = "idle" /\ \A u \in AgentTxns : req[u].phase = "idle"
    BY <1>2, <1>12, CalmTurns
  <2>3. rec'.phase = "loaded" /\ rec'.plan = NoPlan  BY <1>3
  <2>4. Turns'  BY <1>2, <2>1, <2>2, <2>3 DEF Turns
  <2>5. PlansFlag'
    <3>1. \A plan, to : Flags(plan, to)' <=> Flags(plan, to)  BY <1>2, FlagsStay
    <3>2. rec.plan = NoPlan  BY <1>2 DEF AlertInv, LoopPlan
    <3> QED  BY <1>2, <2>1, <2>3, <3>1, <3>2 DEF PlansFlag
  <2>6. Recovery'
    BY <1>2, <1>5, <2>1, <2>2, <2>3 DEF Recovery, LastEvent, Offline
  <2> QED  BY <2>4, <2>5, <2>6
<1> QED  BY <1>6, <1>7, <1>8, <1>9, <1>10, <1>11, <1>12 DEF AlertInv, InTurns

LEMMA ReconcileQueryKeeps ==
    ASSUME AlertInv, ReconcileQuery
    PROVE  AlertInv'
<1> DEFINE opens == UNION {Raises(Offline(m)) : m \in Told}
           uses == UNION {OpenAbout(Offline(m)) : m \in Told}
           row(m) == IF m \in Due
                     THEN [status |-> "OFFLINE", flag |-> machine[m].flag \/ Offline(m) \in opens]
                     ELSE [machine[m] EXCEPT !.status = "NEVER_CONNECTED"]
           new == [m \in Due \cup rec.never |-> row(m)]
           p == [new |-> new, closes |-> {}, opens |-> opens, uses |-> uses]
<1>1. TypeOK  BY DEF AlertInv
<1>2. /\ rec.phase = "loaded"
      /\ Reserve(Told, "OFFLINE", Reconcile)
      /\ setting' = setting /\ machine' = machine /\ agent' = agent /\ alert' = alert
      /\ req' = req /\ op' = op /\ repeated' = repeated
  BY DEF ReconcileQuery
<1>3. rec' = [rec EXCEPT !.phase = "queried", !.seen = machine, !.plan = p]
  BY DEF ReconcileQuery
<1>4. Due \subseteq Machines /\ Told \subseteq Due /\ rec.never \subseteq Machines
  BY <1>1 DEF TypeOK, Due, Told
<1>5. ASSUME NEW o \in opens
      PROVE  o \in Issue /\ o.rule = "offline" /\ o.machine \in Told /\ OpenAbout(o) = {}
  <2>1. PICK m \in Told : o \in Raises(Offline(m))  OBVIOUS
  <2>2. o = Offline(m) /\ OpenAbout(o) = {}  BY <2>1 DEF Raises
  <2>3. m \in Machines  BY <1>4
  <2> QED  BY <2>2, <2>3 DEF Offline, Issue, Rules
<1>6. uses \subseteq Ids  BY DEF OpenAbout
<1> HIDE DEF opens, uses
<1>7. ASSUME NEW m \in Due \cup rec.never
      PROVE  /\ row(m) \in Row
             /\ row(m).status # "ONLINE"
             /\ row(m).flag <=> machine[m].flag \/ (m \in Due /\ Offline(m) \in opens)
  <2>1. machine[m] \in Row  BY <1>1, <1>4 DEF TypeOK
  <2>2. CASE m \in Due
    <3> DEFINE f == machine[m].flag \/ Offline(m) \in opens
    <3>1. f \in BOOLEAN  OBVIOUS
    <3>2. row(m) = [status |-> "OFFLINE", flag |-> f]  BY <2>2
    <3> HIDE DEF f, row
    <3>3. row(m) \in Row /\ row(m).status # "ONLINE" /\ row(m).flag = f
      BY <3>1, <3>2 DEF Row, Status
    <3>4. f <=> machine[m].flag \/ (m \in Due /\ Offline(m) \in opens)  BY <2>2 DEF f
    <3> QED  BY <3>3, <3>4
  <2>3. CASE m \notin Due
    <3>1. row(m) = [machine[m] EXCEPT !.status = "NEVER_CONNECTED"]  BY <2>3
    <3> HIDE DEF row
    <3>2. row(m).flag = machine[m].flag /\ row(m).status = "NEVER_CONNECTED"
      BY <2>1, <3>1 DEF Row
    <3>3. row(m) \in Row  BY <2>1, <3>1 DEF Row, Status
    <3> QED  BY <2>3, <3>2, <3>3
  <2> QED  BY <2>2, <2>3
<1> HIDE DEF row
<1>8. new \in Rows /\ DOMAIN new = Due \cup rec.never /\ \A m \in DOMAIN new : new[m] = row(m)
  <2>1. new \in [Due \cup rec.never -> Row]  BY <1>7
  <2>2. Due \cup rec.never \in SUBSET Machines  BY <1>4
  <2> QED  BY <2>1, <2>2, RowsType
<1> HIDE DEF new
<1>9. /\ p \in Plan /\ p.closes = {} /\ p.opens = opens /\ p.new = new
  BY <1>5, <1>6, <1>8 DEF Plan
<1> HIDE DEF p
<1>10. machine \in Rows /\ machine \in [Machines -> Row]  BY <1>1, RowsType DEF TypeOK
<1>11. /\ rec'.phase = "queried" /\ rec'.seen = machine /\ rec'.plan = p
       /\ rec' \in [phase : {"idle", "loaded", "queried"}, late : SUBSET Machines,
                    never : SUBSET Machines, seen : Rows, plan : Plan]
  BY <1>1, <1>3, <1>9, <1>10 DEF TypeOK
<1>12. \A o : OpenAbout(o)' = OpenAbout(o) /\ (Settled(o)' <=> Settled(o))  BY <1>2, AlertsStay
<1>13. events \in [Machines -> Events] /\ "OFFLINE" \in Status /\ Reconcile \in Sessions
  BY <1>1, Names DEF TypeOK, Status
<1>14. /\ events' \in [Machines -> Events]
       /\ \A x \in Machines : \A w \in Writers :
             events'[x].type[w] = IF x \in Told /\ w = Reconcile THEN "OFFLINE" ELSE events[x].type[w]
       /\ \A x \in Machines : \A q \in events'[x].before :
             q \in events[x].before \/ (x \in Told /\ q[1] \in Written(events[x]))
  BY <1>2, <1>13, ReserveKeeps
<1>15. \A x \in Machines : LastEvent(x)' = LastEvent(x)  BY <1>14, Names DEF LastEvent
<1>16. \A x \in Told : LastEvent(x) # "OFFLINE"  BY DEF Told, Emits
<1>17. PendingEvents  BY DEF AlertInv
<1>18. \A x \in Machines : events[x].type[Reconcile] = "none"
  BY <1>2, <1>13, <1>17 DEF PendingEvents
<1>19. TypeOK'  BY <1>1, <1>2, <1>11, <1>14 DEF TypeOK
<1>20. AgentPlans' /\ RowLocks' /\ OneOpenAlert'  BY <1>2, AgentsStay
<1>21. LoopPlan'
  <2>1. \A o \in opens : o.rule = "offline" /\ Settled(o)'
    BY <1>5, <1>12 DEF Settled
  <2> QED  BY <1>2, <1>9, <1>10, <1>11, <2>1 DEF LoopPlan
<1>22. OperatorPlan'  BY <1>2 DEF AlertInv, OperatorPlan
<1>23. PendingEvents'
  <2>1. ASSUME NEW x \in Machines, NEW w \in Sessions, events'[x].type[w] # "none"
        PROVE  /\ events'[x].type[w] # LastEvent(x)'
               /\ w = Reconcile => events'[x].type[w] = "OFFLINE" /\ rec'.phase = "queried"
               /\ w # Reconcile => /\ req'[w].phase = "locked" /\ req'[w].m = x
                                   /\ events'[x].type[w] = Target(req'[w].kind)
    <3>1. CASE w = Reconcile
      <4>1. x \in Told /\ events'[x].type[w] = "OFFLINE"  BY <1>14, <1>18, <2>1, <3>1, Names
      <4> QED  BY <1>11, <1>15, <1>16, <3>1, <4>1
    <3>2. CASE w # Reconcile
      <4>1. events'[x].type[w] = events[x].type[w]  BY <1>14, <3>2, Names
      <4> QED  BY <1>2, <1>15, <1>17, <2>1, <3>2, <4>1 DEF PendingEvents
    <3> QED  BY <3>1, <3>2
  <2> QED  BY <2>1 DEF PendingEvents, Target
<1>24. NoRepeatedEvents'  BY <1>2 DEF AlertInv, NoRepeatedEvents
<1>25. ASSUME ~setting'.overlap PROVE Turns' /\ PlansFlag' /\ Recovery'
  <2>1. Turns /\ PlansFlag /\ Recovery  BY <1>2, <1>25 DEF AlertInv, InTurns
  <2>2. op.phase = "idle" /\ \A u \in AgentTxns : req[u].phase = "idle"
    BY <1>2, <2>1 DEF Turns
  <2>3. ASSUME NEW x \in Machines, NEW q \in events'[x].before PROVE q[1] = "committed"
    <3>1. CASE q \in events[x].before  BY <2>1, <3>1 DEF Turns
    <3>2. CASE q[1] \in Written(events[x])
      <4>1. q[1] \in Writers /\ events[x].type[q[1]] # "none"  BY <3>2 DEF Written
      <4>2. q[1] \in Sessions => FALSE
        BY <1>2, <1>17, <2>2, <4>1 DEF PendingEvents, Sessions
      <4> QED  BY <4>1, <4>2 DEF Writers, Sessions
    <3> QED  BY <1>14, <3>1, <3>2
  <2>4. Turns'  BY <1>2, <1>11, <2>2, <2>3 DEF Turns
  <2>5. PlansFlag'
    <3>1. Flags(NoPlan, "RESOLVED")
      <4>1. rec.plan = NoPlan  BY <1>2 DEF AlertInv, LoopPlan
      <4> QED  BY <2>1, <4>1 DEF PlansFlag
    <3>2. ASSUME NEW x \in Machines, Leaves(p, "RESOLVED", x)
          PROVE  IF x \in DOMAIN p.new THEN p.new[x].flag ELSE machine[x].flag
      <4>1. OpenOn(x) # {} \/ (x \in Told /\ Offline(x) \in opens)
        <5>1. CASE \E o \in opens : o.machine = x
          <6>1. PICK o \in opens : o.machine = x  BY <5>1
          <6>2. o = Offline(x) /\ x \in Told  BY <1>5, <6>1 DEF Issue, Offline
          <6> QED  BY <6>1, <6>2
        <5>2. CASE \E i \in Ids : alert[i].machine = x /\ IsOpen(i)  BY <5>2 DEF OpenOn
        <5> QED  BY <1>9, <3>2, <5>1, <5>2 DEF Leaves
      <4>2. OpenOn(x) # {} => machine[x].flag  BY <3>1, NoPlanFlags
      <4>3. CASE x \in DOMAIN p.new
        BY <1>4, <1>7, <1>8, <1>9, <4>1, <4>2, <4>3
      <4>4. CASE x \notin DOMAIN p.new
        BY <1>4, <1>8, <1>9, <4>1, <4>2, <4>4
      <4> QED  BY <4>3, <4>4
    <3>3. Flags(p, "RESOLVED")  BY <3>2 DEF Flags
    <3>4. Flags(rec.plan, "RESOLVED")'  BY <1>2, <1>11, <3>3 DEF Flags, Leaves, IsOpen
    <3>5. /\ \A u \in AgentTxns : Flags(req[u].plan, "RESOLVED")'
          /\ Flags(op.plan, op.to)'
      BY <1>2, <2>1 DEF PlansFlag, Flags, Leaves, IsOpen
    <3> QED  BY <3>4, <3>5 DEF PlansFlag
  <2>6. Recovery'
    <3>1. \A x \in Machines :
             machine'[x].status = "ONLINE" \/ LastEvent(x)' = "ONLINE" => Settled(Offline(x))'
      BY <1>2, <1>12, <1>15, <2>1 DEF Recovery, Offline
    <3>2. ASSUME NEW x \in Machines
          PROVE  /\ x \in DOMAIN rec'.plan.new => rec'.plan.new[x].status # "ONLINE"
                 /\ Offline(x) \in rec'.plan.opens => /\ x \in DOMAIN rec'.plan.new
                                                      /\ events'[x].type[Reconcile] = "OFFLINE"
      <4>1. Offline(x) \in opens => x \in Told  BY <1>5 DEF Offline
      <4> QED  BY <1>4, <1>7, <1>8, <1>9, <1>11, <1>14, <4>1, Names
    <3>3. \A u \in AgentTxns : req'[u].phase # "locked"  BY <1>2, <2>2
    <3> QED  BY <3>1, <3>2, <3>3 DEF Recovery, Offline
  <2> QED  BY <2>4, <2>5, <2>6
<1> QED  BY <1>19, <1>20, <1>21, <1>22, <1>23, <1>24, <1>25 DEF AlertInv, InTurns

LEMMA ReconcileAbortKeeps ==
    ASSUME AlertInv, ReconcileAbort
    PROVE  AlertInv'
<1>1. TypeOK  BY DEF AlertInv
<1>2. /\ rec.phase # "idle"
      /\ Forget(Reconcile)
      /\ rec' = IdleRec
      /\ setting' = setting /\ machine' = machine /\ agent' = agent /\ alert' = alert
      /\ req' = req /\ op' = op /\ repeated' = repeated
  BY DEF ReconcileAbort
<1>3. rec'.phase = "idle" /\ rec'.plan = NoPlan  BY <1>2 DEF IdleRec
<1>4. \A o : OpenAbout(o)' = OpenAbout(o) /\ (Settled(o)' <=> Settled(o))  BY <1>2, AlertsStay
<1>5. /\ events' \in [Machines -> Events]
      /\ \A x \in Machines : \A w \in Writers :
            events'[x].type[w] = IF w = Reconcile THEN "none" ELSE events[x].type[w]
      /\ \A x \in Machines : events'[x].before \subseteq events[x].before
  BY <1>1, <1>2, ForgetKeeps, Names DEF TypeOK
<1>6. \A x \in Machines : LastEvent(x)' = LastEvent(x)  BY <1>5, Names DEF LastEvent
<1>7. TypeOK'
  <2>1. [m \in {} |-> NewRow] \in Rows  BY DEF Rows
  <2>2. IdleRec \in [phase : {"idle", "loaded", "queried"}, late : SUBSET Machines,
                     never : SUBSET Machines, seen : Rows, plan : Plan]
    BY <2>1, Blank DEF IdleRec
  <2> QED  BY <1>1, <1>2, <1>5, <2>2 DEF TypeOK
<1>8. AgentPlans' /\ RowLocks' /\ OneOpenAlert'  BY <1>2, AgentsStay
<1>9. LoopPlan'  BY <1>3 DEF LoopPlan, NoPlan
<1>10. OperatorPlan'  BY <1>2 DEF AlertInv, OperatorPlan
<1>11. PendingEvents'
  <2>1. PendingEvents  BY DEF AlertInv
  <2> QED  BY <1>2, <1>5, <1>6, <2>1, Names DEF PendingEvents, Sessions, Target
<1>12. NoRepeatedEvents'  BY <1>2 DEF AlertInv, NoRepeatedEvents
<1>13. ASSUME ~setting'.overlap PROVE Turns' /\ PlansFlag' /\ Recovery'
  <2>1. Turns /\ PlansFlag /\ Recovery  BY <1>2, <1>13 DEF AlertInv, InTurns
  <2>2. op.phase = "idle" /\ \A u \in AgentTxns : req[u].phase = "idle"  BY <1>2, <2>1 DEF Turns
  <2>3. \A x \in Machines : \A q \in events'[x].before : q[1] = "committed"
    BY <1>5, <2>1 DEF Turns
  <2>4. Turns'  BY <1>2, <1>3, <2>2, <2>3 DEF Turns
  <2>5. PlansFlag'
    <3>1. op.plan = NoPlan  BY <2>2 DEF AlertInv, OperatorPlan
    <3>2. Flags(NoPlan, "RESOLVED")  BY <2>1, <3>1, NoPlanFlags DEF PlansFlag
    <3>3. Flags(rec.plan, "RESOLVED")'  BY <1>2, <1>3, <3>2 DEF Flags, Leaves, IsOpen
    <3>4. /\ \A u \in AgentTxns : Flags(req[u].plan, "RESOLVED")'
          /\ Flags(op.plan, op.to)'
      BY <1>2, <2>1 DEF PlansFlag, Flags, Leaves, IsOpen
    <3> QED  BY <3>3, <3>4 DEF PlansFlag
  <2>6. Recovery'
    BY <1>2, <1>3, <1>4, <1>6, <2>1, <2>2 DEF Recovery, Offline
  <2> QED  BY <2>4, <2>5, <2>6
<1> QED  BY <1>7, <1>8, <1>9, <1>10, <1>11, <1>12, <1>13 DEF AlertInv, InTurns

LEMMA ReconcileCommitKeeps ==
    ASSUME AlertInv, ReconcileCommit
    PROVE  AlertInv'
<1> DEFINE p == rec.plan
<1>1. TypeOK  BY DEF AlertInv
<1>2. /\ rec.phase = "queried"
      /\ Intact(p)
      /\ WriteAlerts(p, "RESOLVED")
      /\ WriteMachines(rec.seen, p.new)
      /\ Publish(Reconcile)
      /\ rec' = IdleRec
      /\ setting' = setting /\ agent' = agent /\ req' = req /\ op' = op
  BY DEF ReconcileCommit
<1>3. /\ p \in Plan /\ "RESOLVED" \in Moves
      /\ alert \in [Ids -> Alert] /\ machine \in [Machines -> Row] /\ events \in [Machines -> Events]
      /\ Reconcile \in Sessions /\ Reconcile \notin AgentTxns
  BY <1>1, Names DEF TypeOK, Moves
<1>4. p.new \in Rows /\ p.opens \subseteq Issue  BY <1>3 DEF Plan
<1>5. /\ p.closes = {} /\ p.closes \subseteq p.uses
      /\ \A o \in p.opens : o.rule = "offline" /\ Settled(o)
  BY DEF AlertInv, LoopPlan
<1>6. rec'.phase = "idle" /\ rec'.plan = NoPlan  BY <1>2 DEF IdleRec
<1>7. /\ events' \in [Machines -> Events]
      /\ \A x \in Machines : \A w \in Sessions :
            events'[x].type[w] = IF w = Reconcile THEN "none" ELSE events[x].type[w]
      /\ \A x \in Machines : LastEvent(x)' \in {LastEvent(x)} \cup ({events[x].type[Reconcile]} \ {"none"})
      /\ \A x \in Machines : (\A q \in events[x].before : q[1] = "committed") =>
            /\ \A q \in events'[x].before : q[1] = "committed"
            /\ events[x].type[Reconcile] # "none" => LastEvent(x)' = events[x].type[Reconcile]
  BY <1>2, <1>3, PublishKeeps
<1>8. PendingEvents  BY DEF AlertInv
<1>9. \A x \in Machines : events[x].type[Reconcile] # "none" =>
          events[x].type[Reconcile] = "OFFLINE" /\ events[x].type[Reconcile] # LastEvent(x)
  BY <1>3, <1>8 DEF PendingEvents
<1> HIDE DEF p
<1>10. ASSUME NEW o, o \notin p.opens, Settled(o) PROVE Settled(o)'
  BY <1>2, <1>3, <1>5, <1>10, SettledKeeps
<1>11. TypeOK'
  <2>1. [m \in {} |-> NewRow] \in Rows  BY DEF Rows
  <2>2. IdleRec \in [phase : {"idle", "loaded", "queried"}, late : SUBSET Machines,
                     never : SUBSET Machines, seen : Rows, plan : Plan]
    BY <2>1, Blank DEF IdleRec
  <2>3. alert' \in [Ids -> Alert]  BY <1>2, <1>3, <1>5, WriteKeeps
  <2>4. machine' \in [Machines -> Row]  BY <1>2, <1>3, <1>4, MachinesKeep
  <2>5. repeated' \in BOOLEAN  BY <1>1, <1>2 DEF Publish, TypeOK
  <2> QED  BY <1>1, <1>2, <1>7, <2>2, <2>3, <2>4, <2>5 DEF TypeOK
<1>12. AgentPlans'
  <2>1. AgentPlans  BY DEF AlertInv
  <2>2. ASSUME NEW u \in AgentTxns, NEW o \in req[u].plan.opens PROVE Settled(o)'
    <3>1. o \in {Metric(req[u].m), Hardware(req[u].m)} /\ Settled(o)  BY <2>1, <2>2 DEF AgentPlans
    <3>2. o \notin p.opens  BY <1>5, <3>1 DEF Metric, Hardware
    <3> QED  BY <1>10, <3>1, <3>2
  <2> QED  BY <1>2, <2>1, <2>2 DEF AgentPlans, Metric, Hardware, Target
<1>13. RowLocks'  BY <1>2 DEF AlertInv, RowLocks
<1>14. LoopPlan'  BY <1>6 DEF LoopPlan, NoPlan
<1>15. OperatorPlan'  BY <1>2 DEF AlertInv, OperatorPlan
<1>16. PendingEvents'
  <2>1. ASSUME NEW x \in Machines, NEW w \in Sessions, events'[x].type[w] # "none"
        PROVE  /\ w # Reconcile
               /\ events'[x].type[w] # LastEvent(x)'
               /\ req'[w].phase = "locked" /\ req'[w].m = x
               /\ events'[x].type[w] = Target(req'[w].kind)
    <3>1. w # Reconcile /\ events'[x].type[w] = events[x].type[w]  BY <1>7, <2>1
    <3>2. /\ events[x].type[w] # LastEvent(x)
          /\ req[w].phase = "locked" /\ req[w].m = x /\ events[x].type[w] = Target(req[w].kind)
      BY <1>8, <2>1, <3>1 DEF PendingEvents
    <3>3. events[x].type[w] # "OFFLINE"  BY <3>2, TargetType
    <3>4. LastEvent(x)' \in {LastEvent(x), "OFFLINE"}  BY <1>7, <1>9
    <3> QED  BY <1>2, <3>1, <3>2, <3>3, <3>4
  <2> QED  BY <2>1 DEF PendingEvents, Target
<1>17. OneOpenAlert'
  BY <1>2, <1>3, <1>5, OneOpenKeeps DEF AlertInv
<1>18. NoRepeatedEvents'
  <2>1. "none" \notin Status  BY DEF Status
  <2> QED  BY <1>2, <1>9, <2>1 DEF AlertInv, NoRepeatedEvents, Publish
<1>19. ASSUME ~setting'.overlap PROVE Turns' /\ PlansFlag' /\ Recovery'
  <2>1. Turns /\ PlansFlag /\ Recovery  BY <1>2, <1>19 DEF AlertInv, InTurns
  <2>2. op.phase = "idle" /\ (\A u \in AgentTxns : req[u].phase = "idle") /\ rec.seen = machine
    BY <1>2, <2>1 DEF Turns
  <2>3. \A x \in Machines : \A q \in events'[x].before : q[1] = "committed"
    BY <1>7, <2>1 DEF Turns
  <2>4. Turns'  BY <1>2, <1>6, <2>2, <2>3 DEF Turns
  <2>5. \A x \in Machines : machine'[x] = IF x \in DOMAIN p.new THEN p.new[x] ELSE machine[x]
    BY <1>2, <1>3, <1>4, <2>2, RowsWritten
  <2>6. PlansFlag'
    <3>1. Flags(p, "RESOLVED")  BY <2>1 DEF PlansFlag, p
    <3>2. \A any : Flags(NoPlan, any)'  BY <1>2, <1>3, <1>5, <2>5, <3>1, FlagsKeeps
    <3>3. rec'.plan = NoPlan /\ op'.plan = NoPlan  BY <1>2, <1>6, <2>2 DEF AlertInv, OperatorPlan
    <3>4. \A u \in AgentTxns : req'[u].plan = NoPlan
      BY <1>2, <2>2 DEF AlertInv, AgentPlans
    <3> QED  BY <3>2, <3>3, <3>4 DEF PlansFlag, Flags, Leaves
  <2>7. Recovery'
    <3>1. ASSUME NEW x \in Machines, machine'[x].status = "ONLINE" \/ LastEvent(x)' = "ONLINE"
          PROVE  Settled(Offline(x))'
      <4>1. machine'[x].status = "ONLINE" => machine[x].status = "ONLINE"
        BY <1>2, <2>1, <2>5 DEF Recovery, p
      <4>2. LastEvent(x)' = "ONLINE" => LastEvent(x) = "ONLINE"  BY <1>7, <1>9
      <4>3. Settled(Offline(x))  BY <2>1, <3>1, <4>1, <4>2 DEF Recovery
      <4>4. Offline(x) \notin p.opens
        <5>1. ASSUME Offline(x) \in p.opens PROVE FALSE
          <6>1. x \in DOMAIN p.new /\ events[x].type[Reconcile] = "OFFLINE"
            BY <1>2, <2>1, <5>1 DEF Recovery, p
          <6>2. machine'[x].status # "ONLINE"  BY <1>2, <2>1, <2>5, <6>1 DEF Recovery, p
          <6>3. LastEvent(x)' = "OFFLINE"  BY <1>7, <2>1, <6>1 DEF Turns
          <6> QED  BY <3>1, <6>2, <6>3
        <5> QED  BY <5>1
      <4> QED  BY <1>10, <4>3, <4>4
    <3>2. \A u \in AgentTxns : req'[u].phase # "locked"  BY <1>2, <2>2
    <3> QED  BY <1>6, <3>1, <3>2 DEF Recovery
  <2> QED  BY <2>4, <2>6, <2>7
<1> QED  BY <1>11, <1>12, <1>13, <1>14, <1>15, <1>16, <1>17, <1>18, <1>19 DEF AlertInv, InTurns

-----------------------------------------------------------------------------
(* Operators, administrators and the passing of time keep the invariant.   *)

\* An operator's request that acknowledges counts the machines of its alerts.
LEMMA OperateKeeps ==
    ASSUME AlertInv, Calm, NEW ids \in SUBSET Ids, NEW ms \in SUBSET Machines, NEW to \in Moves,
           to = "ACKNOWLEDGED" => \A i \in ids : alert[i].machine \in ms,
           Operate(ids, ms, to)
    PROVE  AlertInv'
<1> DEFINE row(m) == [machine[m] EXCEPT !.flag = Remaining(m, ids, to)]
           new == [m \in ms |-> row(m)]
           closes == {i \in ids : alert[i].status # to}
           p == [new |-> new, closes |-> closes, opens |-> {}, uses |-> ids]
<1>1. TypeOK  BY DEF AlertInv
<1>2. /\ op.phase = "idle"
      /\ op' = [phase |-> "read", to |-> to, seen |-> machine, plan |-> p]
      /\ setting' = setting /\ machine' = machine /\ agent' = agent /\ alert' = alert
      /\ events' = events /\ req' = req /\ rec' = rec /\ repeated' = repeated
  BY DEF Operate, rows
<1>3. ASSUME NEW m \in Machines
      PROVE  row(m) \in Row /\ row(m).status = machine[m].status
             /\ row(m).flag = Remaining(m, ids, to)
  <2>1. machine[m] \in Row  BY <1>1 DEF TypeOK
  <2>2. Remaining(m, ids, to) \in BOOLEAN  BY DEF Remaining
  <2> QED  BY <2>1, <2>2 DEF Row
<1> HIDE DEF row
<1>4. new \in Rows /\ DOMAIN new = ms /\ \A m \in ms : new[m] = row(m)
  <2>1. new \in [ms -> Row]  BY <1>3
  <2> QED  BY <2>1, RowsType
<1> HIDE DEF new
<1>5. closes \subseteq ids  OBVIOUS
<1>6. p \in Plan /\ p.new = new /\ p.closes = closes /\ p.opens = {} /\ p.uses = ids
  BY <1>4 DEF Plan
<1> HIDE DEF p
<1>7. /\ op'.phase = "read" /\ op'.to = to /\ op'.seen = machine /\ op'.plan = p
  BY <1>2
<1>8. \A o : OpenAbout(o)' = OpenAbout(o) /\ (Settled(o)' <=> Settled(o))  BY <1>2, AlertsStay
<1>9. TypeOK'
  <2>1. to \in AlertStatus  BY DEF Moves, AlertStatus, Open
  <2>2. machine \in Rows  BY <1>1, RowsType DEF TypeOK
  <2>3. op' \in [phase : {"idle", "read"}, to : AlertStatus, seen : Rows, plan : Plan]
    BY <1>2, <1>6, <2>1, <2>2
  <2> QED  BY <1>1, <1>2, <2>3 DEF TypeOK
<1>10. AgentPlans' /\ RowLocks' /\ OneOpenAlert'  BY <1>2, AgentsStay
<1>11. LoopPlan'  BY <1>2, <1>8 DEF AlertInv, LoopPlan
<1>12. OperatorPlan'  BY <1>3, <1>4, <1>5, <1>6, <1>7 DEF OperatorPlan
<1>13. PendingEvents'
  <2>1. PendingEvents  BY DEF AlertInv
  <2> QED  BY <1>2, <2>1, Names DEF PendingEvents, LastEvent, Sessions, Target
<1>14. NoRepeatedEvents'  BY <1>2 DEF AlertInv, NoRepeatedEvents
<1>15. ASSUME ~setting'.overlap PROVE Turns' /\ PlansFlag' /\ Recovery'
  <2>1. Turns /\ PlansFlag /\ Recovery  BY <1>2, <1>15 DEF AlertInv, InTurns
  <2>2. rec.phase = "idle" /\ \A u \in AgentTxns : req[u].phase = "idle"
    BY <1>2, <1>15, CalmTurns
  <2>3. Turns'  BY <1>2, <1>7, <2>1, <2>2 DEF Turns
  <2>4. PlansFlag'
    <3>1. \A m \in Machines : OpenOn(m) # {} => machine[m].flag
      <4>1. rec.plan = NoPlan  BY <2>2 DEF AlertInv, LoopPlan
      <4> QED  BY <2>1, <4>1, NoPlanFlags DEF PlansFlag
    <3>2. ASSUME NEW x \in Machines, Leaves(p, to, x)
          PROVE  IF x \in DOMAIN p.new THEN p.new[x].flag ELSE machine[x].flag
      <4>1. PICK i \in Ids : /\ alert[i].machine = x
                             /\ IF i \in closes THEN to = "ACKNOWLEDGED" ELSE IsOpen(i)
        BY <1>6, <3>2 DEF Leaves
      <4>2. CASE x \in ms
        <5>1. Remaining(x, ids, to)
          <6>1. CASE i \in ids
            <7>1. to \in Open  BY <4>1, <6>1 DEF IsOpen, Open
            <7> QED  BY <6>1, <7>1 DEF Remaining
          <6>2. CASE i \notin ids
            <7>1. i \in OpenOn(x)  BY <1>5, <4>1, <6>2 DEF OpenOn
            <7> QED  BY <6>2, <7>1 DEF Remaining
          <6> QED  BY <6>1, <6>2
        <5> QED  BY <1>3, <1>4, <1>6, <4>2, <5>1
      <4>3. CASE x \notin ms
        <5>1. i \notin closes  BY <1>5, <4>1, <4>3
        <5>2. i \in OpenOn(x)  BY <4>1, <5>1 DEF OpenOn
        <5> QED  BY <1>4, <1>6, <3>1, <4>3, <5>2
      <4> QED  BY <4>2, <4>3
    <3>3. Flags(p, to)  BY <3>2 DEF Flags
    <3>4. Flags(op.plan, op.to)'  BY <1>2, <1>7, <3>3 DEF Flags, Leaves, IsOpen
    <3>5. /\ \A u \in AgentTxns : Flags(req[u].plan, "RESOLVED")'
          /\ Flags(rec.plan, "RESOLVED")'
      BY <1>2, <2>1 DEF PlansFlag, Flags, Leaves, IsOpen
    <3> QED  BY <3>4, <3>5 DEF PlansFlag
  <2>5. Recovery'
    BY <1>2, <1>8, <2>1, <2>2 DEF Recovery, LastEvent, Offline
  <2> QED  BY <2>3, <2>4, <2>5
<1> QED  BY <1>9, <1>10, <1>11, <1>12, <1>13, <1>14, <1>15 DEF AlertInv, InTurns

LEMMA OperatorAbortKeeps ==
    ASSUME AlertInv, OperatorAbort
    PROVE  AlertInv'
<1>1. TypeOK  BY DEF AlertInv
<1>2. /\ op.phase = "read"
      /\ op' = IdleOp
      /\ setting' = setting /\ machine' = machine /\ agent' = agent /\ alert' = alert
      /\ events' = events /\ req' = req /\ rec' = rec /\ repeated' = repeated
  BY DEF OperatorAbort, rows
<1>3. op'.phase = "idle" /\ op'.plan = NoPlan /\ op'.to = "absent"  BY <1>2 DEF IdleOp
<1>4. \A o : OpenAbout(o)' = OpenAbout(o) /\ (Settled(o)' <=> Settled(o))  BY <1>2, AlertsStay
<1>5. TypeOK'
  <2>1. [m \in {} |-> NewRow] \in Rows  BY DEF Rows
  <2>2. IdleOp \in [phase : {"idle", "read"}, to : AlertStatus, seen : Rows, plan : Plan]
    BY <2>1, Blank DEF IdleOp, AlertStatus
  <2> QED  BY <1>1, <1>2, <2>2 DEF TypeOK
<1>6. AgentPlans' /\ RowLocks' /\ OneOpenAlert'  BY <1>2, AgentsStay
<1>7. LoopPlan'  BY <1>2, <1>4 DEF AlertInv, LoopPlan
<1>8. OperatorPlan'  BY <1>3 DEF OperatorPlan, NoPlan, Moves
<1>9. PendingEvents'
  <2>1. PendingEvents  BY DEF AlertInv
  <2> QED  BY <1>2, <2>1, Names DEF PendingEvents, LastEvent, Sessions, Target
<1>10. NoRepeatedEvents'  BY <1>2 DEF AlertInv, NoRepeatedEvents
<1>11. ASSUME ~setting'.overlap PROVE Turns' /\ PlansFlag' /\ Recovery'
  <2>1. Turns /\ PlansFlag /\ Recovery  BY <1>2, <1>11 DEF AlertInv, InTurns
  <2>2. rec.phase = "idle"  BY <1>2, <2>1 DEF Turns
  <2>3. Turns'  BY <1>2, <1>3, <2>1 DEF Turns
  <2>4. PlansFlag'
    <3>1. rec.plan = NoPlan  BY <2>2 DEF AlertInv, LoopPlan
    <3>2. Flags(NoPlan, "absent")  BY <2>1, <3>1, NoPlanFlags DEF PlansFlag
    <3>3. Flags(op.plan, op.to)'  BY <1>2, <1>3, <3>2 DEF Flags, Leaves, IsOpen
    <3>4. /\ \A u \in AgentTxns : Flags(req[u].plan, "RESOLVED")'
          /\ Flags(rec.plan, "RESOLVED")'
      BY <1>2, <2>1 DEF PlansFlag, Flags, Leaves, IsOpen
    <3> QED  BY <3>3, <3>4 DEF PlansFlag
  <2>5. Recovery'
    BY <1>2, <1>4, <2>1 DEF Recovery, LastEvent, Offline, Target, OpenAbout, IsOpen, About
  <2> QED  BY <2>3, <2>4, <2>5
<1> QED  BY <1>5, <1>6, <1>7, <1>8, <1>9, <1>10, <1>11 DEF AlertInv, InTurns

LEMMA OperatorCommitKeeps ==
    ASSUME AlertInv, OperatorCommit
    PROVE  AlertInv'
<1> DEFINE p == op.plan
           to == op.to
<1>1. TypeOK  BY DEF AlertInv
<1>2. /\ op.phase = "read"
      /\ Intact(p)
      /\ WriteAlerts(p, to)
      /\ WriteMachines(op.seen, p.new)
      /\ op' = IdleOp
      /\ setting' = setting /\ agent' = agent /\ events' = events /\ req' = req
      /\ rec' = rec /\ repeated' = repeated
  BY DEF OperatorCommit
<1>3. /\ p.opens = {} /\ p.closes \subseteq p.uses /\ to \in Moves
      /\ \A m \in DOMAIN p.new : p.new[m].status = op.seen[m].status
  BY DEF AlertInv, OperatorPlan
<1>4. /\ p \in Plan /\ p.new \in Rows
      /\ alert \in [Ids -> Alert] /\ machine \in [Machines -> Row]
  BY <1>1 DEF TypeOK, Plan
<1>5. op'.phase = "idle" /\ op'.plan = NoPlan /\ op'.to = "absent"  BY <1>2 DEF IdleOp
<1> HIDE DEF p, to
<1>6. ASSUME NEW o, Settled(o) PROVE Settled(o)'
  BY <1>2, <1>3, <1>4, <1>6, SettledKeeps
<1>7. TypeOK'
  <2>1. [m \in {} |-> NewRow] \in Rows  BY DEF Rows
  <2>2. IdleOp \in [phase : {"idle", "read"}, to : AlertStatus, seen : Rows, plan : Plan]
    BY <2>1, Blank DEF IdleOp, AlertStatus
  <2>3. alert' \in [Ids -> Alert]  BY <1>2, <1>3, <1>4, WriteKeeps
  <2>4. machine' \in [Machines -> Row]  BY <1>2, <1>4, MachinesKeep
  <2> QED  BY <1>1, <1>2, <2>2, <2>3, <2>4 DEF TypeOK
<1>8. AgentPlans'
  <2>1. AgentPlans  BY DEF AlertInv
  <2> QED  BY <1>2, <1>6, <2>1 DEF AgentPlans, Metric, Hardware, Target
<1>9. RowLocks'  BY <1>2 DEF AlertInv, RowLocks
<1>10. LoopPlan'  BY <1>2, <1>6 DEF AlertInv, LoopPlan
<1>11. OperatorPlan'  BY <1>5 DEF OperatorPlan, NoPlan, Moves
<1>12. PendingEvents'
  <2>1. PendingEvents  BY DEF AlertInv
  <2> QED  BY <1>2, <2>1, Names DEF PendingEvents, LastEvent, Sessions, Target
<1>13. OneOpenAlert'
  BY <1>2, <1>3, <1>4, OneOpenKeeps DEF AlertInv
<1>14. NoRepeatedEvents'  BY <1>2 DEF AlertInv, NoRepeatedEvents
<1>15. ASSUME ~setting'.overlap PROVE Turns' /\ PlansFlag' /\ Recovery'
  <2>1. Turns /\ PlansFlag /\ Recovery  BY <1>2, <1>15 DEF AlertInv, InTurns
  <2>2. /\ \A u \in AgentTxns : req[u].phase = "idle"
        /\ rec.phase = "idle" /\ op.seen = machine
    BY <1>2, <2>1 DEF Turns
  <2>3. Turns'  BY <1>2, <1>5, <2>1, <2>2 DEF Turns
  <2>4. \A x \in Machines : machine'[x] = IF x \in DOMAIN p.new THEN p.new[x] ELSE machine[x]
    BY <1>2, <1>4, <2>2, RowsWritten
  <2>5. PlansFlag'
    <3>1. Flags(p, to)  BY <2>1 DEF PlansFlag, p, to
    <3>2. \A any : Flags(NoPlan, any)'  BY <1>2, <1>3, <1>4, <2>4, <3>1, FlagsKeeps
    <3>3. rec'.plan = NoPlan /\ \A u \in AgentTxns : req'[u].plan = NoPlan
      BY <1>2, <2>2 DEF AlertInv, AgentPlans, LoopPlan
    <3> QED  BY <1>5, <3>2, <3>3 DEF PlansFlag, Flags, Leaves
  <2>6. Recovery'
    <3>1. \A x \in Machines : machine'[x].status = machine[x].status /\ LastEvent(x)' = LastEvent(x)
      BY <1>2, <1>3, <2>2, <2>4 DEF LastEvent
    <3>2. ASSUME NEW x \in Machines, machine'[x].status = "ONLINE" \/ LastEvent(x)' = "ONLINE"
          PROVE  Settled(Offline(x))'
      <4>1. Settled(Offline(x))  BY <2>1, <3>1, <3>2 DEF Recovery
      <4> QED  BY <1>6, <4>1
    <3> QED  BY <1>2, <2>2, <3>2 DEF Recovery
  <2> QED  BY <2>3, <2>5, <2>6
<1> QED  BY <1>7, <1>8, <1>9, <1>10, <1>11, <1>12, <1>13, <1>14, <1>15 DEF AlertInv, InTurns

LEMMA ClearEventsKeeps ==
    ASSUME AlertInv, NEW m \in Machines, ClearEvents(m)
    PROVE  AlertInv'
<1>1. TypeOK  BY DEF AlertInv
<1>2. /\ setting' = setting /\ machine' = machine /\ agent' = agent /\ alert' = alert
      /\ req' = req /\ rec' = rec /\ op' = op /\ repeated' = repeated
  BY DEF ClearEvents
<1>3. /\ events' \in [Machines -> Events]
      /\ \A x \in Machines : \A w \in Writers :
            events'[x].type[w] = IF x = m /\ w = "committed" THEN "none" ELSE events[x].type[w]
      /\ \A x \in Machines : events'[x].before \subseteq events[x].before
  BY <1>1, ClearKeeps DEF TypeOK
<1>4. \A x \in Machines : LastEvent(x)' \in {LastEvent(x), "none"}  BY <1>3, Names DEF LastEvent
<1>5. \A x \in Machines : \A w \in Sessions : events'[x].type[w] = events[x].type[w]
  BY <1>3, Names
<1>6. \A o : OpenAbout(o)' = OpenAbout(o) /\ (Settled(o)' <=> Settled(o))  BY <1>2, AlertsStay
<1>7. TypeOK'  BY <1>1, <1>2, <1>3 DEF TypeOK
<1>8. AgentPlans' /\ RowLocks' /\ OneOpenAlert'  BY <1>2, AgentsStay
<1>9. LoopPlan'  BY <1>2, <1>6 DEF AlertInv, LoopPlan
<1>10. OperatorPlan'  BY <1>2 DEF AlertInv, OperatorPlan
<1>11. PendingEvents'
  <2>1. PendingEvents  BY DEF AlertInv
  <2> QED  BY <1>2, <1>4, <1>5, <2>1 DEF PendingEvents, Target
<1>12. NoRepeatedEvents'  BY <1>2 DEF AlertInv, NoRepeatedEvents
<1>13. ASSUME ~setting'.overlap PROVE Turns' /\ PlansFlag' /\ Recovery'
  <2>1. Turns /\ PlansFlag /\ Recovery  BY <1>2, <1>13 DEF AlertInv, InTurns
  <2>2. \A x \in Machines : \A q \in events'[x].before : q[1] = "committed"
    BY <1>3, <2>1 DEF Turns
  <2>3. Turns'  BY <1>2, <2>1, <2>2 DEF Turns
  <2>4. PlansFlag'  BY <1>2, <2>1 DEF PlansFlag, Flags, Leaves, IsOpen
  <2>5. Recovery'
    <3>1. \A x \in Machines : events'[x].type[Reconcile] = events[x].type[Reconcile]  BY <1>5, Names
    <3>2. \A x \in Machines :
             machine'[x].status = "ONLINE" \/ LastEvent(x)' = "ONLINE" => Settled(Offline(x))'
      BY <1>2, <1>4, <1>6, <2>1 DEF Recovery, Offline
    <3> QED  BY <1>2, <2>1, <3>1, <3>2 DEF Recovery, Offline, Target, OpenAbout, IsOpen, About
  <2> QED  BY <2>3, <2>4, <2>5
<1> QED  BY <1>7, <1>8, <1>9, <1>10, <1>11, <1>12, <1>13 DEF AlertInv, InTurns

\* Nothing but agent rows changes.
LEMMA AgentRowsKeep ==
    ASSUME AlertInv, agent' \in [Machines -> [beat : Beats, active : BOOLEAN]],
           UNCHANGED <<setting, machine, alert, events, req, rec, op, repeated>>
    PROVE  AlertInv'
<1>1. \A o : OpenAbout(o)' = OpenAbout(o) /\ (Settled(o)' <=> Settled(o))  BY AlertsStay
<1>2. TypeOK'  BY DEF AlertInv, TypeOK
<1>3. AgentPlans' /\ RowLocks' /\ OneOpenAlert'  BY AgentsStay
<1>4. LoopPlan'  BY <1>1 DEF AlertInv, LoopPlan
<1>5. OperatorPlan'  BY DEF AlertInv, OperatorPlan
<1>6. PendingEvents'
  <2>1. PendingEvents  BY DEF AlertInv
  <2> QED  BY <2>1, Names DEF PendingEvents, LastEvent, Sessions, Target
<1>7. NoRepeatedEvents'  BY DEF AlertInv, NoRepeatedEvents
<1>8. ASSUME ~setting'.overlap PROVE Turns' /\ PlansFlag' /\ Recovery'
  <2>1. Turns /\ PlansFlag /\ Recovery  BY <1>8 DEF AlertInv, InTurns
  <2>2. Turns'  BY <2>1 DEF Turns
  <2>3. PlansFlag'  BY <2>1 DEF PlansFlag, Flags, Leaves, IsOpen
  <2>4. Recovery'  BY <2>1 DEF Recovery, LastEvent, Offline, Target, Settled, OpenAbout, IsOpen, About
  <2> QED  BY <2>2, <2>3, <2>4
<1> QED  BY <1>2, <1>3, <1>4, <1>5, <1>6, <1>7, <1>8 DEF AlertInv, InTurns

-----------------------------------------------------------------------------
(* The theorems.                                                           *)

LEMMA InitInv == Init => AlertInv
<1> SUFFICES ASSUME Init PROVE AlertInv  OBVIOUS
<1>1. /\ setting \in Settings
      /\ machine = [m \in Machines |-> NewRow]
      /\ agent = [m \in Machines |-> [beat |-> "none", active |-> TRUE]]
      /\ alert = [i \in Ids |-> NoAlert]
      /\ events = [m \in Machines |-> NoEvents]
      /\ req = [t \in AgentTxns |-> IdleReq]
      /\ rec = IdleRec /\ op = IdleOp /\ repeated = FALSE
  BY DEF Init
<1>2. \A i \in Ids : ~IsOpen(i)  BY <1>1 DEF IsOpen, NoAlert, Open
<1>3. \A m \in Machines : \A w \in Writers : events[m].type[w] = "none"  BY <1>1 DEF NoEvents
<1>4. \A t \in AgentTxns : req[t].phase = "idle" /\ req[t].plan = NoPlan  BY <1>1 DEF IdleReq
<1>5. rec.phase = "idle" /\ rec.plan = NoPlan /\ op.phase = "idle" /\ op.plan = NoPlan /\ op.to = "absent"
  BY <1>1 DEF IdleRec, IdleOp
<1>6. NoPlan.closes = {} /\ NoPlan.opens = {} /\ DOMAIN NoPlan.new = {}  BY DEF NoPlan
<1>7. TypeOK
  <2>1. [m \in {} |-> NewRow] \in Rows  BY DEF Rows
  <2>2. IdleReq \in [phase : {"idle", "loaded", "locked"}, m : Machines, kind : AllRequests, seen : Row, plan : Plan]
    BY Blank DEF IdleReq, AllRequests
  <2>3. IdleRec \in [phase : {"idle", "loaded", "queried"}, late : SUBSET Machines,
                     never : SUBSET Machines, seen : Rows, plan : Plan]
    BY <2>1, Blank DEF IdleRec
  <2>4. IdleOp \in [phase : {"idle", "read"}, to : AlertStatus, seen : Rows, plan : Plan]
    BY <2>1, Blank DEF IdleOp, AlertStatus
  <2>5. agent \in [Machines -> [beat : Beats, active : BOOLEAN]]  BY <1>1 DEF Beats
  <2>6. req \in [AgentTxns -> [phase : {"idle", "loaded", "locked"}, m : Machines, kind : AllRequests, seen : Row, plan : Plan]]
    BY <1>1, <2>2
  <2> QED  BY <1>1, <2>3, <2>4, <2>5, <2>6, Blank DEF TypeOK
<1>8. AgentPlans  BY <1>4, <1>6 DEF AgentPlans
<1>9. RowLocks  BY <1>4 DEF RowLocks
<1>10. LoopPlan  BY <1>5, <1>6 DEF LoopPlan
<1>11. OperatorPlan  BY <1>5, <1>6 DEF OperatorPlan, Moves
<1>12. PendingEvents  BY <1>3, Names DEF PendingEvents
<1>13. OneOpenAlert /\ NoRepeatedEvents  BY <1>1, <1>2 DEF OneOpenAlert, NoRepeatedEvents
<1>14. InTurns
  <2>1. \A m \in Machines : events[m].before = {}  BY <1>1 DEF NoEvents
  <2>2. Turns  BY <1>4, <1>5, <2>1 DEF Turns
  <2>3. \A any : Flags(NoPlan, any)  BY <1>2, <1>6 DEF Flags, Leaves
  <2>4. PlansFlag  BY <1>4, <1>5, <2>3 DEF PlansFlag
  <2>5. Recovery  BY <1>2, <1>4, <1>5 DEF Recovery, Settled, OpenAbout
  <2> QED  BY <2>2, <2>4, <2>5 DEF InTurns
<1> QED  BY <1>7, <1>8, <1>9, <1>10, <1>11, <1>12, <1>13, <1>14 DEF AlertInv

LEMMA OperatorKeeps == AlertInv /\ OperatorNext => AlertInv'
<1> SUFFICES ASSUME AlertInv, OperatorNext PROVE AlertInv'  OBVIOUS
<1>1. alert \in [Ids -> Alert] /\ agent \in [Machines -> [beat : Beats, active : BOOLEAN]]
  BY DEF AlertInv, TypeOK
<1>2. \A i \in Ids : alert[i].machine \in Machines  BY <1>1 DEF Alert
<1>3. ASSUME NEW i \in Ids, Calm, Acknowledge(i) PROVE AlertInv'
  <2>1. Operate({i}, {alert[i].machine}, "ACKNOWLEDGED")  BY <1>3 DEF Acknowledge
  <2>2. {i} \in SUBSET Ids /\ {alert[i].machine} \in SUBSET Machines /\ "ACKNOWLEDGED" \in Moves
        /\ \A j \in {i} : alert[j].machine \in {alert[i].machine}
    BY <1>2 DEF Moves
  <2> QED  BY <1>3, <2>1, <2>2, OperateKeeps
<1>4. ASSUME NEW i \in Ids, Calm, Resolve(i) PROVE AlertInv'
  <2>1. Operate({i}, {alert[i].machine}, "RESOLVED")  BY <1>4 DEF Resolve
  <2>2. {i} \in SUBSET Ids /\ {alert[i].machine} \in SUBSET Machines /\ "RESOLVED" \in Moves
    BY <1>2 DEF Moves
  <2> QED  BY <1>4, <2>1, <2>2, OperateKeeps
<1>5. ASSUME NEW i \in Ids, Calm, Delete(i) PROVE AlertInv'
  <2>1. Operate({i}, {alert[i].machine}, "absent")  BY <1>5 DEF Delete
  <2>2. {i} \in SUBSET Ids /\ {alert[i].machine} \in SUBSET Machines /\ "absent" \in Moves
    BY <1>2 DEF Moves
  <2> QED  BY <1>5, <2>1, <2>2, OperateKeeps
<1>6. ASSUME NEW wanted \in Wanted, Calm, Clear(wanted) PROVE AlertInv'
  <2> DEFINE ids == {i \in Ids : alert[i].status \in wanted}
  <2>1. Operate(ids, Machines, "absent")  BY <1>6 DEF Clear
  <2>2. ids \in SUBSET Ids /\ Machines \in SUBSET Machines /\ "absent" \in Moves  BY DEF Moves
  <2> HIDE DEF ids
  <2> QED  BY <1>6, <2>1, <2>2, OperateKeeps
<1>7. ASSUME NEW m \in Machines, SetActive(m, ~agent[m].active) PROVE AlertInv'
  <2>1. agent' = [agent EXCEPT ![m].active = ~agent[m].active]  BY <1>7 DEF SetActive
  <2>2. (~agent[m].active) \in BOOLEAN  OBVIOUS
  <2>3. agent' \in [Machines -> [beat : Beats, active : BOOLEAN]]  BY <1>1, <2>1, <2>2
  <2>4. UNCHANGED <<setting, machine, alert, events, req, rec, op, repeated>>  BY <1>7 DEF SetActive
  <2> QED  BY <2>3, <2>4, AgentRowsKeep
<1> QED
  BY <1>3, <1>4, <1>5, <1>6, <1>7, OperatorCommitKeeps, OperatorAbortKeeps, ClearEventsKeeps
     DEF OperatorNext

LEMMA NextInv == AlertInv /\ [Next]_vars => AlertInv'
<1> SUFFICES ASSUME AlertInv, [Next]_vars PROVE AlertInv'  OBVIOUS
<1>1. agent \in [Machines -> [beat : Beats, active : BOOLEAN]]  BY DEF AlertInv, TypeOK
<1>2. CASE AgentNext  BY <1>2, LoadKeeps, LockKeeps, CommitKeeps, AbortKeeps DEF AgentNext
<1>3. CASE ReconcileNext
  BY <1>3, ReconcileLoadKeeps, ReconcileQueryKeeps, ReconcileCommitKeeps, ReconcileAbortKeeps
     DEF ReconcileNext
<1>4. CASE OperatorNext  BY <1>4, OperatorKeeps
<1>5. ASSUME NEW m \in Machines, BeatAges(m) PROVE AlertInv'
  <2>1. agent' = [agent EXCEPT ![m].beat = "stale"]  BY <1>5 DEF BeatAges
  <2>2. agent' \in [Machines -> [beat : Beats, active : BOOLEAN]]  BY <1>1, <2>1 DEF Beats
  <2>3. UNCHANGED <<setting, machine, alert, events, req, rec, op, repeated>>  BY <1>5 DEF BeatAges
  <2> QED  BY <2>2, <2>3, AgentRowsKeep
<1>6. CASE UNCHANGED vars  BY <1>1, <1>6, AgentRowsKeep DEF vars
<1> QED  BY <1>2, <1>3, <1>4, <1>5, <1>6 DEF Next

\* The inductive invariant holds, for every number of machines and of sessions.
THEOREM AlertCorrect == Spec => []AlertInv
BY InitInv, NextInv, PTL DEF Spec

\* Every variable keeps its type.
THEOREM AlertTypeCorrect == Spec => []TypeOK
<1>1. AlertInv => TypeOK  BY DEF AlertInv
<1> QED  BY <1>1, AlertCorrect, PTL

\* Two open alerts for a machine and a rule exist only after an operator
\* acknowledged a resolved one, however requests, loop and operators overlap.
THEOREM AlertsOpenOnce == Spec => []OneOpenAlert
<1>1. AlertInv => OneOpenAlert  BY DEF AlertInv
<1> QED  BY <1>1, AlertCorrect, PTL

\* A status event never repeats the one before it.
THEOREM EventsAlternate == Spec => []NoRepeatedEvents
<1>1. AlertInv => NoRepeatedEvents  BY DEF AlertInv
<1> QED  BY <1>1, AlertCorrect, PTL

\* In turns, a machine with an open alert is flagged: when the loop is idle its
\* empty plan says so, and when it is busy the operators' does.
THEOREM FlagsAreRaised == Spec => []FlagNeverHides
<1>1. AlertInv => FlagNeverHides
  <2> SUFFICES ASSUME AlertInv, ~setting.overlap
               PROVE  \A m \in Machines : OpenOn(m) # {} => machine[m].flag
    BY DEF FlagNeverHides
  <2>1. Turns /\ PlansFlag  BY DEF AlertInv, InTurns
  <2>2. CASE rec.phase = "idle"
    <3>1. rec.plan = NoPlan  BY <2>2 DEF AlertInv, LoopPlan
    <3> QED  BY <2>1, <3>1, NoPlanFlags DEF PlansFlag
  <2>3. CASE rec.phase # "idle"
    <3>1. op.phase = "idle"  BY <2>1, <2>3 DEF Turns
    <3>2. op.plan = NoPlan  BY <3>1 DEF AlertInv, OperatorPlan
    <3> QED  BY <2>1, <3>2, NoPlanFlags DEF PlansFlag
  <2> QED  BY <2>2, <2>3
<1> QED  BY <1>1, AlertCorrect, PTL

\* In turns, a machine that is online has no open offline alert but revived ones.
THEOREM OnlineIsSettled == Spec => []OnlineClearsOffline
<1>1. AlertInv => OnlineClearsOffline
  BY DEF AlertInv, InTurns, Recovery, Settled, OnlineClearsOffline
<1> QED  BY <1>1, AlertCorrect, PTL
=============================================================================
