# LabWatch: specifications, model checks and proofs

LabWatch watches the machines of computer labs.  An *agent* on every machine
(`agent/labwatch_agent`, Python, one thread) registers with a *server*
(`server/app`, FastAPI over PostgreSQL), sends heartbeats, metrics, inventory and
logs, and installs the agent packs the server ships.  The server keeps machine
status, alerts and histories, runs two background loops, and serves operators
and administrators through a web application (`frontend`).  Beside the
monitoring it administers scholars and the assignment of inventory to them.

This directory specifies the parts of it whose correctness depends on the order
in which things happen.  Modules are TLA+; TLC checks them on small instances
and TLAPS checks proofs for every value of the constants.

## 1. Inventory

### 1.1 Parts, their state, their operations

| Part | State | Operations |
|---|---|---|
| Agent loop (`service.py`, `client.py`, `config.py`) | credentials in `state.toml`, configuration, timers | register, inventory, heartbeat with commands, metrics, flush; 401 drops the credentials |
| Event queue (`queue.py`) | SQLite table `queue.db`, at most 2000 rows (`queue.py:36`) | push (evicts the oldest), pop a batch, delete it |
| Self-update, agent side (`self_update.py`) | the package directory, its snapshot `labwatch_agent.prev`, a watchdog process | download, apply, restart, roll back |
| Self-update, server side (`admin.py`, `agents.py`) | the agent's update columns | queue, hand out with a heartbeat, acknowledge, expire after 45 minutes |
| Enrollment (`agents.py`, `registration_tokens.py`, `admin.py`, `machines.py`) | registration tokens, machines, agents | enroll, register, revoke, approve, rotate, delete, retag; tokens made, revoked, superseded, expired, deleted |
| Status and alerts (`heartbeat.py`, `alerts.py`, `routes/alerts.py`) | machine status, `has_open_alerts`, status events, alerts | heartbeat, metrics, inventory, reconcile loop, acknowledge, resolve, delete, clear |
| Hardware diff and persistence (`diff.py`, `inventory.py`) | snapshots, normalised hardware rows, hardware events | compare with the previous snapshot, replace the rows |
| Retention (`retention.py`) | metric samples, hourly rollups, logs | roll up, prune; every hour |
| Server update (`updates.py`, `routes/updates.py`, `scripts/linux`) | `status.json`, a request file, a helper container, a systemd path unit | request, start, poll, cancel, detect a stuck run |
| Inventory assignment and OTP (`inv_assign.py`, `email_otp.py`, `routes/inventory.py`) | items, assignments, one-time codes | assign, verify, revoke, remove, restore, purge, import |
| Scholars (`routes/scholars.py`, `scholar_mgmt.py`) | scholars, IDs unique per lab | enroll with OTP, approve, no-dues, remove, restore, purge, import |
| Users and sessions (`auth.py`, `admin.py`) | users, refresh tokens | log in, rotate a refresh token, demote, disable, delete |
| Collectors and parsers | none | read the hardware of the host |
| Notifications, SMTP, audit, dashboard, reports, labs, installers, frontend | settings, audit rows, files | straight reads and writes |

### 1.2 How they interact

* Agent to server: HTTP requests, one at a time, 20 s client timeout.  A request
  the agent gave up on may still be running on the server.
* Server to agent: only in the answer to a heartbeat (`commands`).
* Inside the server: requests and the two loops (`main.py:93-121`, 15 s and 3600 s)
  share the database.  `get_db` opens a session per request and commits nothing;
  handlers commit, an exception rolls back.  PostgreSQL runs at READ COMMITTED,
  and the ORM's UPDATE names the columns the handler changed: two handlers that
  loaded the same row and changed different columns both succeed, and a handler
  writes conclusions drawn from values that are no longer there.
* Agent process, service manager, watchdog: processes that see only the files and
  whether the service is active.
* Server update: the API, the updater service, a helper container and a systemd unit
  share two files, a checkout and a container name.
* Scholars and inventory: an item's `assigned_scholar_id` and a scholar's inventory
  pointer are two records of one fact, written by different pages.

### 1.3 What is hard

Interleaving of request handlers and of the loop; answers lost after the commit;
a request that outlives the client's patience next to its successor; crashes
between two steps of an installation; a full queue during an outage; long
sequences of legal operations that leave two rows where the code expects one.
`PROJECT.json` lists the hazards at the lines where they bite, with the
properties that would catch them going wrong.

### 1.4 What correctness means, part by part

* Self-update: a command is begun and installed at most once; the package goes
  back to an older one only behind the server or by the watchdog; a reported
  success is true; every update in progress ends.
* Alerts: no two open alerts for a machine and a rule; no status event twice in
  a row; the flag never hides an open alert; silence is noticed.
* Event queue: nothing is lost but by eviction, the server gets rows in order,
  the table stays bounded, and it drains.
* Enrollment: a revoked agent stays out, a one-use token that was used begins no registration, a returning host is recognised.
* Package installation: at whatever point it stops, a package that starts is left,
  and the watchdog brings the agent back.
* Server update: "ok" means deployed; a running script locks the page, and nothing
  locks it for ever; what was cancelled or has ended is not begun again.
* Assignment: scholar IDs are unique in a lab (but for named reasons), items change hands by consent only,
  the two records of an assignment agree, only the newest code counts.
* Hardware events: no part is reported removed that is there; the events add up
  to the tables.

## 2. Modules

| Module | Models | Uses |
|---|---|---|
| `UpdateCommand` | what a remote update promises (abstract) | |
| `AgentUpdate` | the update protocol, both sides, with the files on the host | `UpdateCommand` by refinement |
| `AgentUpdateProofs` | theorems about `AgentUpdate` | `AgentUpdate` |
| `AlertLifecycle` | status, status events, alerts, the reconcile loop, operators | |
| `EventQueue` | the agent's queue, its flush, the server's side of the posts | |
| `EventQueueProofs` | theorems about `EventQueue` | `EventQueue` |
| `Enrollment` | tokens, registrations, credentials, administrators | |
| `PackApply` | the agent's package trees, the installation and both watchdogs | |
| `ServerApply` | the server's own update: files, processes, script | |
| `Assignment` | scholars, inventory items, one-time codes | |
| `HardwareDiff` | collection, comparison and storage of inventories | |
| `AlertLifecycleProofs`, `EnrollmentProofs`, `PackApplyProofs`, `ServerApplyProofs`, `AssignmentProofs`, `HardwareDiffProofs` | theorems about the modules they are named after | that module |
| `MC...` | symmetry sets, constant functions and settings for TLC | the module they are named after |

Definitions called `X_Y` next to a definition `X`, commented "Mutant", are
variants of `X` with a plausible bug; no specification uses them.  They document
what each property is able to notice.

Several modules have a variable `setting` that no action changes.  It says which
operations, faults or deployments a behaviour considers, so that one run covers
several small instances instead of one that is too large.

### 2.1 AgentUpdate

`row` is the update columns of the agent's row, `txn` the open sessions.  A
request is two steps: it loads the row (`Begin`), it commits (`...Commit`) or ends
otherwise (`Abort`); `Merge` is the column-wise UPDATE.  `pc` follows
`_handle_commands` and `run`: heartbeat, the `downloading` and `applying`
acknowledgements (best effort), download, `apply_pack`, the `ok` acknowledgement
(whose failure is reported as an error), the restart.  `disk`, `backup`,
`armed` are the package, its snapshot and the watchdog, which is named by the version
of the code that started it.  `Timeout` loses an answer or leaves a request
running; `Exit` is a stop or a crash at any point, inside `apply_pack` too.

`pack` is what the server's checkout holds.  `Deploy` replaces it by another
release, newer or older: the server's own update offers downgrades
(`updates.py:636-637`, `814-815`) and checks the tag out under the running API
(`apply-requested-update.sh:113`).  `known` is the version the API has read from it:
`agent_pack_version` is cached for the life of the process (`agent_pack.py:36`), so the
target of a command is `known` and the pack downloaded is `pack`, until
`ServerRestart` forgets the one and drops open sessions.  `recalled` is history: versions the
server went back behind.  At the start the agent runs what the server ships (`FirstPack`).

The watchdog looks at the service again and again (`self_update.py:217-222`): `SeesActive`
is a look that finds it active, `Rollback` the end of those that did not; a boot
does nothing to it.  The files are those of Linux, where `Apply` writes the live
tree; on Windows `apply_pack` only stages the pack and the script swaps it
(`self_update.py:167-178`), which `PackApply` has.

Assumed: versions are compared as numbers; the archive is read from the checkout in
one moment; a crash in `apply_pack` leaves the tree as it was or torn (`Torn`
never boots, except after the rollback); of two watchdogs that run at once the
younger stands for both.

### 2.2 AlertLifecycle

An agent's request is three steps: `Load` (the machine's row), `Lock` (the first UPDATE
takes the row lock, events and alerts are read), `Commit` or `Abort`.  The loop
is `ReconcileLoad` (agents), `ReconcileQuery` (machines, events, alerts),
`ReconcileCommit`; an operator's request is read, then commit.  Status events
are ordered by `created_at`, taken before the commit makes them visible: for a
machine, `events` has the newest committed one and at most one of each session that
has not committed yet (`type`), and which of them was created before which
(`before`).  Older committed ones are not kept, since `record_status_event` reads only
the newest; a commit (`Publish`) replaces it unless it was created later.  One metric rule and one hardware rule stand for all: rules
do not interact except through the flag, which is modelled.  The history
variable `revived` marks an alert an operator acknowledged after it was
resolved; `repeated` records that a status event repeated its predecessor.

Assumed: one API process runs the loop; the loop takes row locks when it
commits; deadlocks of the database appear as `Abort`.

### 2.3 EventQueue

A row is its id.  `Flush` is `pop_batch`, `Post` sends the events of the batch and
then the logs, `Delete` removes the batch.  `posted` is what server sessions are
about to store, `live` the one the agent waits for; a session the agent
gave up may store its rows at any later time.  `GiveUp` pushes the client's own
warning into the queue.  At the bound `LastId` that warning is left out.
"Order" is the order of first storage: storage is at least once, and a
resent row is not told apart from the first.

### 2.4 Enrollment

A row of `row` is a machine with its agent (the code creates and deletes them
together).  `Register` runs `register_agent` up to its flush: the token is checked, the
row matched, the superseded token determined; `RegisterCommit` writes what the
handler changed, subject to the database's constraints (`Committable`);
`RegisterAbort` is every other end.  Secrets are numbers, drawn per registration
and per rotation.  `Rejected` is the agent's reaction to 401, `Upload` the identity
an inventory writes.  `uses` is history.  The effects of `revoked_at`,
labs and display names are left out.  A host reports the same identity in
registration and inventory.  The installer's one-use tokens are considered with and
without overlap: two sessions may both read such a token before either commits.

The agent's id is new with every registration (`service.py:35-40`: no installer
writes `agent.id`), so the lookup by `agent_public_id` never finds a row; nor does
the lookup by fingerprint, which is stored with the agent's id
(`agents.py:212-214`) and searched without (`agents.py:119-121`), although the
docstring at `agents.py:111-112` puts it before the inventory id.

### 2.5 PackApply

`live`, `staged`, `snapshot` are the trees `labwatch_agent`, `.next` and `.prev`: a
version, `Torn` while files are being copied, or `Absent`.  `pc` is the agent's
process in `apply_pack` and `schedule_restart`, `dog` the watchdog script.  A
directory that is copied or removed is `Torn` or `Absent` from the step before on,
so that a crash finds it so.  On Linux `Unpack`, `Copy` and `Check...` write the
live tree, `Exit` kills the watchdog with the control group, and systemd
(`Start`) starts whatever is there.  On Windows `Stage` writes beside it, and
the watchdog swaps, starts, looks, and keeps or puts back.  `setting.dead` are
the packs whose code does not start.  Since the Linux watchdog never outlives
the process, its rollback has no action; `AgentUpdate` keeps that rollback, for hosts
where the script survives, and so allows more than `PackApply`.
Of the Windows script two things are left out: that it goes on after 30 s although the
process still runs (`self_update.py:279-284`), and that it ignores a
`Remove-Item` or `Move-Item` that fails (286-291, 316-319): there `RemoveLive`, `MoveStaged`, `Undo` and `Back` succeed or
are interrupted.
The script's branch without a staged package has no action: it is dead, since the
script starts after a package was staged and none but itself takes it away (theorem
`SwapFindsPackage`).

`unsure` is history: the live tree was written and the process went on (a copy
failed, or the last report did), or an update began while a watchdog was still
looking.  The next start clears it.

### 2.6 ServerApply

`status` and `request` are the two files, `proc` says how far the API and the updater are
in `spawn_host_apply`, `runner` where the script is in the helper container and
in the systemd unit, `trigger` that the path unit saw a change.  The k-th apply is for
tag k.  What a process does to the files before it starts the helper is one step;
each call to Docker and each write after it is one.  Each step of the script ends
with its write of the status; `Fails` are its error exits, `Dies` every other
end.  `Compose` may recreate API and updater.  `ended` and `rerun` are history.

`setting` is the deployment: whether Docker answers, whether the unit is
installed, and whether API and updater may be interrupted by each other
(`overlap`).  Left out: the fallback that starts the script as a child of the API
(the image has neither git nor docker), and a reader that finds the script's
`status` file half written.  With both backends the script runs twice at the
same time, from the same checkout: `OkIsDeployed` does not hold there.

### 2.7 Assignment

`scholar` and `item` are the rows, `codes` the challenges in the order they were
sent.  A request that gives a scholar a lab or an ID is two steps, since
`_assert_unique_scholar_id` (`scholars.py:81-97`) is a query that locks nothing and the table
has no constraint (`models.py:629`): `Enroll` (also an import of a new ID), `EnrollConfirm` and
`Patch` look the ID up (`Unused`) and put what they will write into `writing`; `Insert` and
`Update` commit it, the latter only the columns that changed; `Fail` is a
rollback.  An enrolment's code is spent with the commit, so it can be presented
twice meanwhile.  An import that finds the ID (`ImportUpdate`) and all other requests are
one step; what overlaps there are the exchanges with a
code: `...Send` opens it, `...Confirm` presents it in whatever state the rows are in
by then.  An import of several rows is several requests here.
`Linked` writes a scholar's pointer alone (enrolment, import, own page);
`Issue` and `AfterRevoke` write the item and recompute the pointer (`Refresh`) in
the order of the code: `Issue` recomputes the previous holder's pointer *before*
the item leaves.  `deprived` is history for that defect, `restored` for a removal
taken back, `raced` for a lab and ID that were written by a request another had
overtaken (`late`), or that combine columns of two edits.

### 2.8 HardwareDiff

`hardware` are the parts that are in the machine, `request` the inventories on
their way, `newest` the snapshot with the greatest `collected_at`, `tables` the
inventory tables.  An inventory names a part by what the tool that saw it gives: a
module by its slot, a disk by its serial number, a card by its UUID (`nvidia-smi`)
or its PCI address (`lspci`).  `Seen...` are the collectors, `Diff...` the
comparison with its rules against tools that fail, `Read` and `Commit` the two
halves of `persist_inventory` with other requests in between.  `told` is history: the parts
someone knows who believes the events from the first snapshot on.

## 3. Runs

| Run | Specification, bounds | Checks |
|---|---|---|
| `agent_update` | fairness, one agent session, one administrator session, 3 commands or releases together, 3 versions | `TypeOK`, `NeverRedelivered`, `OkAckTruthful`, `DiskNotBehind`, `NoDowngrade`, `ImplementsUpdateCommand`, `UpdateSettles` |
| `alert_lifecycle` | two agent sessions, loop, operator, 2 alerts with heartbeats and high metrics; without overlap every request and operation, 3 alerts | `TypeOK`, `OneOpenAlert`, `NoRepeatedEvents`, `FlagNeverHides`, `OnlineClearsOffline` |
| `alert_live` | fairness, heartbeats and acknowledgements | `OfflineDetected` |
| `alert_silence` | *violation*, the same instance | `SilenceIsNoticed` |
| `event_queue` | fairness, 4 rows through a table of 3, batches of 2, 2 sessions | `TypeOK`, `NothingLost`, `StoredInOrder`, `Bounded`, `LeavesForAReason`, `Drains` |
| `enrollment` | two hosts, two assets, two sessions, two tokens: overlap and no approval required, with administrators or with one-use tokens; no overlap, approval required, tokens of both kinds | `TypeOK`, `OneUseToken`, `RevokedStaysOut` |
| `enrollment_match` | *violation*, no overlap | `MatchIsUnique` |
| `pack_apply` | fairness, 3 packs, both platforms, every choice of packs that do not start, with and without crashes | `TypeOK`, `OneTreeStarts`, `RestoredRan`, `WatchdogRestarts` |
| `server_apply` | fairness, 2 applies, four deployments | `TypeOK`, `OkIsDeployed`, `RunningLocks`, `EndedStaysEnded`, `ActiveEnds` |
| `assignment` | 2 scholars, 2 items, 2 labs, one ID, 2 addresses, 2 codes, 2 requests at once, seven sets of operations | `TypeOK`, `SharedIdHasAReason`, `PointerIsIssuedUnlessMoved`, `MirrorsAgree`, `NewestCodeOnly`, `MovesOnlyByConsent` |
| `assign_pointer` | *violation*, the Assign page alone | `PointerIsIssued` |
| `hardware_diff` | 4 inventories, 2 changes, 2 parts of each kind, two sessions, six settings | `TypeOK`, `ReportsAreReal`, `EventsExplainTables` |

### 3.1 Why the bounds are enough to be interesting

* `MaxChanges` bounds commands and releases together: two commands let an
  acknowledgement of the first meet the row of the second, and leave a release
  between them; one command leaves two releases, one newer and one older, around its queueing
  and download.  Three versions are the pack shipped at the start (`FirstPack`), one behind
  it, which is also the snapshot an earlier update may have left, and one ahead.
  A single agent session can still be occupied by a request the agent
  gave up; that several such requests change nothing is proved (section 5).
* Two agent sessions, the loop and one operator are every pair of writers. Two
  alert ids are the two open alerts the property forbids; the setting without overlap
  has three so that two revived alerts and a new one can coexist.
* One row more than the table holds forces eviction while a batch is out;
  two sessions let a late post and its repetition overlap.
* Two hosts and two assets give each host a row of its own and one to take over;
  three secrets are two registrations and one repetition or rotation.  `Rows`
  bounds the machines that exist at a time, `MaxSecret` registrations and
  rotations, `Tokens` the tokens ever made.
* Three packs are one that works, one that does not start on top of it, and one
  after the recovery.
* Two applies are one that is cancelled, overruled or hung, and its successor;
  API, updater, helper and unit are all there are.  The four ages of the status
  are the four outcomes of the stuck detector's comparisons.
* Two codes are one that is superseded and its successor, or one of each of
  two purposes; two items let a scholar keep one and lose the other.  Two
  requests at once are one that overtakes and one that is overtaken; one ID is the one they
  want.  The registry of scholars is considered three times, each without one of its operations.
* Four inventories are a base, one that failed or was overtaken, one after it,
  and one that shows whether what was missed is made up for.  Two modules in
  two slots can be swapped.

"No overlap" is a setting (`overlap` is
FALSE): a transaction begins only when none is in progress, in `Enrollment`
nothing else happens while a registration is, and in `ServerApply` API and updater
take turns.  Those parts ask what the code guarantees by itself, without its races.

`CHECK_DEADLOCK FALSE` stands in the configurations of the queue (all `LastId` rows
delivered), of enrollment (secrets used up), of `ServerApply` (applies used up,
nobody reads the status), `PackApply` (no tree starts, or packs used up), `Assignment`
(codes used up) and `HardwareDiff` (the clock at its bound): those systems may stop there.

### 3.2 What the violations show, and what was seen besides

* `alert_silence`: acknowledging a resolved alert makes it active again.  With two
  active offline alerts for one machine, `scalar_one_or_none` raises in the reconcile
  loop, which rolls back the pass for *all* machines, each time (`heartbeat.py:76`): a
  machine that falls silent stays ONLINE.  `OfflineDetected` shows that nothing
  else keeps the loop from noticing silence.
* `enrollment_match`: a PC that takes over another asset's row and uploads its
  inventory leaves two rows with its UUID; when it is registered once more under a
  new inventory id, the lookup by UUID raises and the registration fails with 500.
* `assign_pointer`: an item is issued to one scholar and then to another.
  `apply_assign_to_scholar` clears the first scholar's pointer (`inv_assign.py:228`),
  recomputes it (229), and only then changes the item's holder (234): the query
  finds the item once more and the pointer is set back.  Both scholars' records
  then show the item.  `PointerIsIssuedUnlessMoved` and `MirrorsAgree` show that this
  is the only way: but for a scholar who lost an item so, the records agree.

Further disagreements are visible when the passing runs are changed; they are no
runs of their own:

* The heartbeat handler records "command delivered" (`agents.py:344-345`) in the commit
  that precedes the answer; if the answer is lost, nobody has the command and
  the row says "sent" until the 45 minutes are over.
* The server can go to an older release between the queueing of a command and its download.
  The agent then installs a pack older than the target, perhaps older than the
  code it runs, and acknowledges "ok" (`service.py:151-157`, `self_update.py:139-156` compare nothing); the
  administrator's list shows an update that ended well.  Until the API restarts,
  its cached version (`agent_pack.py:36`) also makes it refuse or queue by the old
  number.  `OkAckTruthful`, `DiskNotBehind` and `NoDowngrade` show that this takes
  such a release; without `recalled` all three fail.
* "within one lab it must be unique" (`scholars.py:84`), but two requests at once both find
  an ID unused and both commit; so do one code presented twice, and an edit of a
  scholar's lab next to an edit of the scholar's ID.  `SharedIdHasAReason` shows that besides a
  restoration (`scholars.py:731`) it takes an overlap; without `raced` it fails.
* A re-queue that overlaps with an acknowledgement mixes the columns of both
  (`agents.py:366-368`, `admin.py:396-401`): the row names the new command with the
  status of the old one.  The shared-token count of `revoke_superseded_token` precedes
  the commit: an agent that joins the token in between loses it.
* With overlap, a one-use token may register more than once: a registration given
  up and its retry both read it before either commits (`agents.py:102`, 287).  `OneUseToken`
  shows that a session that reads it later never does; `uses[t] <= 1` fails.
* With overlap and approval required, `RevokedStaysOut` fails: a registration that read the agent
  before it was revoked writes PENDING over REVOKED.
* A copy that fails on Linux leaves the live package torn, and the snapshot is
  dropped although `self_update.py:3` promises its restoration (`self_update.py:187-194`):
  `OneTreeStarts` without `unsure`.
* Cancelling an apply does not stop a run of the systemd unit (`updates.py:254`).
  With overlap, `RunningLocks` and `EndedStaysEnded` fail: the updater starts an apply the API cancelled
  between its read of the status and its call to Docker.
* The same NVIDIA card is reported removed and added when `nvidia-smi` fails once
  and `lspci` answers (`diff.py:138-145`), although `diff.py:4` says "Never infers missing hardware".
  After an inventory without modules, because `dmidecode` failed, the next reports all of
  them added (`diff.py:295-305`).

### 3.3 Fairness and why the code justifies it

* `AgentUpdate`: time passes; sessions end; the Admin page lists the agents every
  2.5 s while an update is in progress (`Admin.tsx:596-602`), so a poll happens
  again and again and not each one fails (strong fairness on `ListRead` and
  `ListCommit`, since a concurrent session may occupy the administrator's).
  Nothing is assumed of the agent: `UpdateSettles` holds if it never returns.
* `AlertLifecycle`: the loop runs every 15 s for ever (`main.py:93-101`) and
  survives exceptions; requests end; from some point on its transaction fails
  only because a query raises or a row it names is gone.  Its commit waits for row locks,
  which are free infinitely often: strong fairness.
* `EventQueue`: from some point on requests are answered and the agent is not
  restarted; the loop flushes in every round; sessions end.
* `ServerApply`: the status gets older, the page is polled while an apply is in
  progress (every `GET /status` runs the stuck detector), and the API and the updater
  get on with what they do.  Nothing is assumed of the script, the unit or
  Docker: `ActiveEnds` holds if they hang.
* `PackApply`: the watchdog on Windows, once it runs, goes on to its end; all its
  loops are bounded.  Nothing is assumed of the agent.

## 4. Properties that need an explanation

* `NeverRedelivered`: an answer to a heartbeat never carries a command the agent
  has begun.  It rests on marking the command "sent" in the transaction that hands
  it out, and on a re-queue drawing a new command id.
* `NoRepeatedEvents` holds with overlap although the events are not unique in
  the database: heartbeats read the last event under the row lock, the loop is alone.
* `OneOpenAlert` excludes alerts an operator brought back: the acknowledge
  handler does not look at the status it replaces.
* `OneTreeStarts` is about the installation as a whole, across processes: a pack
  takes the place of the last package that starts only after it has been
  started itself.  `RestoredRan` says which package the watchdog puts back.
* `RunningLocks` and `EndedStaysEnded` name the deployments they hold in.  They
  are what a single administrator expects of the buttons: a running helper
  refuses a second apply, and a cancelled one stays cancelled.
* `ActiveEnds` covers every deployment: whatever hangs or dies, the page unlocks.
* `OkAckTruthful`, `DiskNotBehind` and `NoDowngrade` speak of versions the server has
  not gone back behind (`Kept`).  What is left is what agent and watchdog could
  do wrong by themselves: report another version than the one on disk, keep a stale
  snapshot, restore while the new code runs.
* `SharedIdHasAReason` spans enrolments confirmed late or twice, imports, edits and moves
  between labs, overlapping as they like; restoring is the one path that does
  not look.  "Overtaken" is exact: the other request took that very ID in that lab.
* `OneUseToken` counts commits (`uses`), not what the token's row says: the row loses
  counts when sessions overlap, yet never falls back to zero.
* `NewestCodeOnly` compares codes by address, as the code does, while the scholar's
  address changes: a code sent to the old address stays good, since codes are
  expired by address.
* `ReportsAreReal` compares the events with the parts that were in the machine when the
  two inventories were collected, which the program cannot see.  It is stated
  for the kinds the rules protect: losses of modules and disks, finds of disks.
* `EventsExplainTables` is about sequences: suppressed comparisons must not add
  up to a difference.  A kind that an inventory showed as empty is left out.
* `LeavesForAReason` is an action property: a row leaves the table only in a
  step in which the server has it already, or in which it is evicted.

## 5. Proofs

Every safety property the passing runs check, invariant or action property, is proved
by TLAPS in the `...Proofs` module of its component, for every number of machines,
sessions, commands, packs, parts, scholars, items and codes, and for every set of
settings.  Each proof has the same plan: an inductive invariant `...Inv`, a conjunction
of named parts, which TLC checked as an invariant of the component's run before it was
proved; a lemma that the initial states satisfy it; lemmas that each action keeps
each part; and theorems that the properties follow from it, or from it and one step.

### 5.1 What is assumed

The modules' named assumptions about constants, which TLC evaluates in each run:
bounds are natural numbers; settings are settings; sessions, rows and scholars are
distinct from the values that stand for "none" (and an agent session from the loop);
`Machines`, `Labs` and `Emails` are not empty (an unused row of the model names some
value of each; without machines or labs nothing happens).  One theorem has a hypothesis of its own:

* `RevocationHolds` assumes `NoApprovalInOverlap`: where registrations overlap, no
  approval is required (the default).
  The code does not guarantee more: section 3.2 tells how the property fails
  without.  The run's settings satisfy it, with and without overlap.

Other limits of the code stand in the properties themselves (`recalled` in `OkAckTruthful`,
`DiskNotBehind` and `NoDowngrade`, `restored` and `raced` in `SharedIdHasAReason`, `~setting.overlap` in
`FlagNeverHides`, `OnlineClearsOffline`, `RunningLocks` and `EventsExplainTables`,
`OneBackend` in `OkIsDeployed`, the pages in `MirrorsAgree`).

### 5.2 The invariants

* **AgentUpdate.**  `TypeOK` is inductive by itself (`TypeCorrect`).
  `NeverRedelivered` is not: `OnceInv` (`OnceCorrect`, `AtMostOnce`, `RefinesUpdateCommand`) follows a
  command.  Those in the system were issued (`CommandsKnown`); a queued one was never begun
  (`QueuedUnbegun`); while the agent waits for a heartbeat, what that session will
  hand out was not begun (`Waiting`); what is in an answer is no longer queued and
  not begun (`HandedOut`); what is being handled is begun and not installed
  (`HandledOnce`).  The refinement maps the abstract `hand` to `cur.cmd`; each step
  begins a command for the first time, installs the command in hand, issues one,
  drops it, or stutters.
  `VersionInv` (`VersionCorrect`, `OkAckIsTruthful`, `DiskKeepsUp`, `DowngradesHaveAReason`)
  says that every version in the system is not ahead of what the server ships, or was
  recalled (`Shipped`): going back recalls all that it leaves ahead, going
  forward leaves nothing ahead.  So a fetched pack is `Kept` against target, running code
  and disk (`FetchedNewest`), and so is the
  snapshot an armed watchdog would restore against the code that armed it
  (`SnapshotNotOlder`); an agent that is off runs nothing, and one that reports ok has
  what it fetched on disk (`Process`).
* **EventQueue.**  `QueueInv` (`QueueCorrect`, `QueueTypeCorrect`, `RowsAreKept`, `ServerKeepsOrder`,
  `TableIsBounded`, `RowsLeaveForAReason`) adds to the properties the shape of a flush
  (`FlushShape`), that what a finished post contained is stored (`FlushStored`), that a batch
  has no unbatched predecessor still waiting (`BatchInOrder`), and that the same is
  true of every post in progress, also one given up (`PostsInOrder`).
  `TableIsBounded` proves `EvictsOldest` too, which no run checks.
* **AlertLifecycle.**  `AlertInv` (`AlertCorrect`, `AlertTypeCorrect`, `AlertsOpenOnce`, `EventsAlternate`,
  `FlagsAreRaised`, `OnlineIsSettled`).  One session at a time has a machine's row
  (`RowLocks`).  A plan to open an alert is made under the row lock, or by the loop alone, while
  no other alert about the issue is open but a revived one, and nobody else opens alerts about that
  issue until it commits (`AgentPlans`, `LoopPlan`, `OperatorPlan`): hence one open
  alert.  An event that is not committed belongs to the session that has the row, or to the
  loop, and differs from the newest committed one (`PendingEvents`).  Only the loop
  writes OFFLINE and only holders of the row write the others, so a commit
  cannot make two equal ones meet: this is why `NoRepeatedEvents` needs no turns.
  Without overlap, who is busy read the rows as they are (`Turns`), so each
  plan flags the machines on which it leaves an open alert (`PlansFlag`), and a plan
  that brings a machine online closes its offline alerts (`Recovery`).
* **Enrollment.**  `EnrollInv` (`EnrollCorrect`, `EnrollTypeCorrect`, `TokensRegisterOnce`,
  `RevocationHolds`).  A registration counts from what it read, and goes on only for an agent that was
  not revoked then (`CallsKnown`); every use, committed or on its way, drew a secret of its
  own (`Counted`: uses and registrations in progress never exceed the secrets drawn, which bounds `uses`);
  without approval no agent is ever PENDING (`NonePending`), so a late registration writes
  no status; in turns, a registration commits over what it read (`Turns`).  A one-use token
  that registered shows a use, whatever overlaps, since every commit writes one
  more than its session read; in turns the count is exact (`OneUse`).
* **PackApply.**  `PackInv` (`PackCorrect`, `PackTypeCorrect`, `OneTreeAlwaysStarts`, `WatchdogRestoresRunning`,
  `SwapFindsPackage`): one part per platform and program.  On Linux the tree that is not being written is the
  code that runs (`LinuxTrees`); on Windows the process runs from the live tree and the
  snapshot is what runs (`WindowsTrees`); a script that waits or works has stopped the
  process and finds the package staged for it (`DogTrees`); what runs starts
  (`RunningStarts`); where nothing runs, a tree is left that starts (`LeftToStart`).
* **ServerApply.**  `ApplyInv` (`ApplyCorrect`, `ApplyTypeCorrect`, `OkTellsTheTruth`, `HelperLocks`,
  `NeverBegunAgain`).  Whatever is requested, spawned or run was accepted (`TagsKnown`); a backend
  that is not installed runs nothing (`Backends`); with one backend, checkout and services are
  where the script's next step says, and since the last success no script has touched them
  (`Deployed`).  With turns and without the unit, who spawns does so alone, for a queued
  apply and while no helper runs (`Turns`), so what is about to be begun has not ended
  (`TurnsOpen`).  With the unit alone, a change of the request that it has not acted on is
  about an apply that has neither ended nor is the one it runs (`UnitOpen`).
* **Assignment.**  `AssignInv` (`AssignCorrect`, `AssignTypeCorrect`, `SharedIdsAreExplained`, `PointersAreIssued`, `RecordsAgree`,
  `OnlyNewestAccepted`, `MovesAreConfirmed`) adds to the properties what a code was opened for
  (`CodesNamed`), that of the codes for one purpose and address only the newest may be open (`NewestOpen`),
  that what a request looked up still holds unless it is late (`WritesKnown`),
  that a scholar who is gone has no inventory (`GoneHaveNone`), and that the two pages
  alone remove nobody and nothing (`AllPresent`).  Lemmas say what `Issue` and
  `AfterRevoke` leave of both records, for all who issue and revoke.
* **HardwareDiff.**  `DiffInv` (`DiffCorrect`, `DiffTypeCorrect`, `NothingIsInvented`, `EventsAreComplete`).  A
  snapshot names all modules and disks of the machine it was collected from, or none if the tool failed
  (`Shown`, in `Types`), and a session that read holds the comparison with what was newest
  then (`Requests`).  Lemma `Real` says what such a comparison can report, whatever the two inventories
  are; `ReportsAreReal` follows and needs no order.  In order, the newest snapshot is what
  the tables have, and the events since the first one lead from what was known
  to the tables (`InOrder`, lemma `Explains`).

### 5.3 Only model-checked

Liveness: `UpdateSettles`, `OfflineDetected`, `Drains`, `ActiveEnds` and `WatchdogRestarts` rest on
fairness, hence on ENABLED, which this prover does not treat.  Nothing here is defined by recursion, so
induction over data, which is out of its reach too, was not needed.

The properties that fail (`SilenceIsNoticed`, `MatchIsUnique`, `PointerIsIssued`) are
counterexamples of TLC's and need no proof.

## 6. Plan

Done: the components above, with all safety properties of the runs proved.  Left,
in this order:

1. Users and sessions (`auth.py:38`, `admin.py:104`): refresh tokens that are rotated by
   two requests at once, and administrators who demote each other.  What the code
   promises there holds in turns only; the module is worth writing when a test or a
   document states the promise.
2. Retention (`retention.py`), when it is settled what a rollup of an incomplete hour must
   contain: then, that pruning loses no hour that was not rolled up.
3. The lost answer to a registration (`service.py:66`): an agent that retries
   with a one-use token for ever.  `Enrollment` has the behaviour; no text of the repository
   promises that the agent gets in.

## 7. Not modelled, and why

* Parsers, telemetry and the Windows and Jetson collectors read files and command
  output and keep no state; of the Linux collectors `HardwareDiff` has what
  they return for a tool that answers or fails.
* Of the comparison of inventories, CPU, board, network and fields that change in
  place: each compares two values.
* Retention is one sequential pass; its window is not aligned to the hour
  (`retention.py:67`), so the oldest hour is overwritten with an incomplete
  aggregate.  No text says what a rollup must contain beyond the code.
* Users and sessions: the guards hold when requests do not overlap and can be
  broken when they do (`admin.py:104`, `auth.py:38`); a model would restate them.
* The catalogue of releases and the proxy login of the server update only
  decide which tags can be chosen.
* The frontend, reports, dashboard, audit and labs are reads and single-row writes;
  notifications and SMTP send mail after the fact; installers and start scripts run
  once under an operator's eye (what `install-agent.sh` leaves behind is the action `Install`
  of `Enrollment`).
* Approval and no-dues flags, photos, documents and Bio-IDs of scholars.
* Vendored code: `agent/wheels/get-pip.py` alone is 28019 of the 44129 lines counted
  as implementation; the other wheels and the database's own machinery are
  outside too.

Smaller hazards no property covers: a log batch whose post failed is sent again with
events already stored (`service.py:111`), and one the server rejects for good
blocks the queue until it is evicted (103); the counter of wrong codes is rolled back with
the request (`email_otp.py:93`), and so never reaches its limit; a revocation is
confirmed against whoever holds the item by then (`routes/inventory.py:1133`); a purged scholar's items keep
the pointer (767); two inventories of a machine may report one change twice
(`inventory.py:85`).

What is modelled is the part of the remaining lines that is about state shared
between processes, requests or runs.  `PROJECT.json` lists the components and the
hazards one by one.
