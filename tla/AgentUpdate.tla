---------------------------- MODULE AgentUpdate ----------------------------
(***************************************************************************)
(* The server-pushed self-update of one monitoring agent: an administrator *)
(* queues a command in the agent's database row, the next heartbeat hands  *)
(* it to the agent, the agent downloads and installs the server's current  *)
(* pack and acknowledges its progress.                                     *)
(*                                                                         *)
(* Every request is two steps: it opens a database session and loads the   *)
(* agent's row, and it commits, writing back the columns the handler       *)
(* changed (the ORM's UPDATE names only those); other requests may run in  *)
(* between.  The agent is sequential: it waits for at most one request,    *)
(* but a request it gave up on (client timeout) may still be running on    *)
(* the server.                                                             *)
(***************************************************************************)
EXTENDS Naturals, FiniteSets

CONSTANTS
    AgentTxns,    \* sessions serving the agent's requests
    AdminTxns,    \* sessions serving administrators' requests
    MaxChanges,   \* bound: commands ever queued and releases ever deployed, together
    MaxVersion,   \* bound: highest pack version the server ever ships
    FirstPack     \* the pack version the server ships at the start

ASSUME BoundsAssumption == MaxChanges \in Nat /\ MaxVersion \in Nat /\ FirstPack \in 1 .. MaxVersion

VARIABLES
    row,       \* the agent's row: update columns and reported version
    pack,      \* version of the agent pack in the server's checkout: it is what is shipped
    known,     \* version the API process has read from the checkout and cached, or 0
    txn,       \* open sessions
    call,      \* session of the request the agent waits for, or NoCall
    reply,     \* answer on its way to the agent
    pc,        \* what the agent process is doing
    cur,       \* command being handled by the agent
    running,   \* version of the code in the agent process, 0 without one
    disk,      \* version of the package on the host, or Torn
    backup,    \* labwatch_agent.prev: empty, or the set of its one version
    armed,     \* version of the code that started the restart watchdog, 0 without one
    fetched,   \* version of the pack being installed, or 0
    issued,    \* history: number of commands queued so far
    acted,     \* history: commands the agent has begun to handle
    installed, \* history: commands whose pack the agent has installed
    recalled,  \* history: versions the server has gone back behind
    deploys    \* history: number of releases deployed so far

serverVars == <<row, pack, known>>
wire  == <<txn, call, reply>>
files == <<disk, backup, armed, fetched>>
host  == <<pc, cur, running, files>>
hist  == <<issued, acted, installed, recalled, deploys>>
vars  == <<row, pack, known, txn, call, reply, pc, cur, running, disk, backup,
           armed, fetched, issued, acted, installed, recalled, deploys>>

-----------------------------------------------------------------------------
Txns    == AgentTxns \cup AdminTxns
NoCall  == "nocall"   \* no session
ASSUME TxnsAssumption == AgentTxns \cap AdminTxns = {} /\ NoCall \notin Txns

Torn    == 0
Version == Nat   \* 0 is no version

Active   == {"queued", "sent", "downloading", "applying"}
Terminal == {"ok", "error"}
Status   == Active \cup Terminal \cup {""}

Row == [status : Status, cmd : Nat, target : Nat, late : BOOLEAN, version : Version]

Kinds == {"free", "heartbeat", "ack", "queue", "list"}
Txn == [kind : Kinds, seen : Row, cmd : Nat, status : Status, version : Version]

Pcs == {"loop", "heartbeat", "ackSkip", "ackDownloading", "download",
        "ackApplying", "apply", "ackOk", "ackError", "stopping", "off"}

NoCmd    == [cmd |-> 0, target |-> 0]
Command  == [cmd : Nat, target : Nat]
NoReply  == [kind |-> "none", body |-> NoCmd]
Failed   == [kind |-> "failed", body |-> NoCmd]
Reply    == [kind : {"none", "failed", "ok"}, body : Command]

FreshRow == [status |-> "", cmd |-> 0, target |-> 0, late |-> FALSE, version |-> 1]
FreeTxn  == [kind |-> "free", seen |-> FreshRow, cmd |-> 0, status |-> "", version |-> 1]

TypeOK ==
    /\ row \in Row
    /\ pack \in Version
    /\ known \in Version
    /\ txn \in [Txns -> Txn]
    /\ call \in AgentTxns \cup {NoCall}
    /\ reply \in Reply
    /\ pc \in Pcs
    /\ cur \in Command
    /\ running \in Version
    /\ disk \in Version
    /\ backup \subseteq Version
    /\ armed \in Version
    /\ fetched \in Version
    /\ issued \in Nat
    /\ acted \subseteq Nat
    /\ installed \subseteq Nat
    /\ recalled \subseteq Version
    /\ deploys \in Nat

\* An agent that runs the pack the server ships, as installed or as an earlier
\* update left it, with its snapshot.
Init ==
    /\ pack = FirstPack
    /\ row = [FreshRow EXCEPT !.version = pack]
    /\ known = 0
    /\ txn = [t \in Txns |-> FreeTxn]
    /\ call = NoCall
    /\ reply = NoReply
    /\ pc = "loop"
    /\ cur = NoCmd
    /\ running = pack
    /\ disk = pack
    /\ backup \in {{}} \cup {{b} : b \in 1 .. (pack - 1)}
    /\ armed = 0
    /\ fetched = 0
    /\ issued = 0
    /\ acted = {}
    /\ installed = {}
    /\ recalled = {}
    /\ deploys = 0

-----------------------------------------------------------------------------
(* Database sessions.                                                      *)

Dirty(seen, new, now) == IF new = seen THEN now ELSE new

\* What the row becomes when a handler that loaded `seen` and left its object
\* as `new` commits: the UPDATE names the changed columns only.
Merge(seen, new) ==
    [status  |-> Dirty(seen.status,  new.status,  row.status),
     cmd     |-> Dirty(seen.cmd,     new.cmd,     row.cmd),
     target  |-> Dirty(seen.target,  new.target,  row.target),
     late    |-> Dirty(seen.late,    new.late,    row.late),
     version |-> Dirty(seen.version, new.version, row.version)]

\* A request of this kind arrives in session t and loads the row.
Begin(t, kind, cmd, status, version) ==
    /\ txn[t].kind = "free"
    /\ txn' = [txn EXCEPT ![t] = [kind |-> kind, seen |-> row, cmd |-> cmd,
                                  status |-> status, version |-> version]]

Release(t) == txn' = [txn EXCEPT ![t] = FreeTxn]

\* The answer reaches the agent only if it still waits for this session.
Answer(t, r) ==
    IF call = t THEN call' = NoCall /\ reply' = r
                ELSE UNCHANGED <<call, reply>>

-----------------------------------------------------------------------------
(* The pack the server ships.                                              *)

\* Mutant: the version of the server's own release in place of the pack's.
PackVersion_Release == MaxVersion

\* agent_pack_version: read from the checkout once in the life of the API process.
PackVersion == IF known = 0 THEN pack ELSE known

\* The server's update checks out another release, newer or older, under the
\* running API.
Deploy ==
    /\ issued + deploys < MaxChanges
    /\ deploys' = deploys + 1
    /\ pack' \in (1 .. MaxVersion) \ {pack}
    /\ recalled' = recalled \cup (pack' + 1) .. pack
    /\ UNCHANGED <<row, known, wire, host, issued, acted, installed>>

\* The API restarts: open sessions are lost, and what it has cached.
ServerRestart ==
    /\ known' = 0
    /\ txn' = [t \in Txns |-> FreeTxn]
    /\ IF call = NoCall THEN UNCHANGED <<call, reply>>
                        ELSE call' = NoCall /\ reply' = Failed
    /\ UNCHANGED <<row, pack, host, hist>>

-----------------------------------------------------------------------------
(* Administrator requests.                                                 *)

\* list_agents reads the pack's version and loads the agents.
ListRead(t) ==
    /\ known' = PackVersion
    /\ Begin(t, "list", 0, "", 1)
    /\ UNCHANGED <<row, pack, call, reply, host, hist>>

\* Mutants: only the first two states expire; the status of another enumeration.
Expired_FirstStates(r) == IF r.status \in {"queued", "sent"} /\ r.late THEN [r EXCEPT !.status = "error"] ELSE r
Expired_Cancelled(r)   == IF r.status \in Active /\ r.late THEN [r EXCEPT !.status = "cancelled"] ELSE r

\* _expire_stale_updates marks an overdue update as failed; the command id stays.
Expired(r) == IF r.status \in Active /\ r.late THEN [r EXCEPT !.status = "error"] ELSE r

ListCommit(t) ==
    /\ txn[t].kind = "list"
    /\ row' = Merge(txn[t].seen, Expired(txn[t].seen))
    /\ Release(t)
    /\ UNCHANGED <<pack, known, call, reply, host, hist>>

\* The update request loads the agent; an agent already current is refused.
QueueRead(t) ==
    /\ known' = PackVersion
    /\ row.version < PackVersion
    /\ Begin(t, "queue", 0, "", PackVersion)
    /\ UNCHANGED <<row, pack, call, reply, host, hist>>

\* _queue_agent_update: a fresh command id, the target fixed when it was queued.
QueueCommit(t) ==
    /\ txn[t].kind = "queue"
    /\ issued + deploys < MaxChanges
    /\ issued' = issued + 1
    /\ row' = [Merge(txn[t].seen,
                     [txn[t].seen EXCEPT !.status = "queued", !.cmd = issued + 1,
                                         !.target = txn[t].version])
                 EXCEPT !.late = FALSE]
    /\ Release(t)
    /\ UNCHANGED <<pack, known, call, reply, host, acted, installed, recalled, deploys>>

-----------------------------------------------------------------------------
(* Agent requests, on the server.                                          *)

\* Mutant: any unfinished command is handed out, as a retry would.
Deliverable_Unfinished(r) ==
    IF r.status \in Active /\ r.cmd # 0 THEN [cmd |-> r.cmd, target |-> r.target] ELSE NoCmd

\* The command a heartbeat that loaded r returns.
Deliverable(r) ==
    IF r.status = "queued" /\ r.cmd # 0 THEN [cmd |-> r.cmd, target |-> r.target] ELSE NoCmd

\* heartbeat: record the version, mark a queued command as sent, commit, answer.
HeartbeatCommit(t) ==
    LET seen == txn[t].seen
        mine == [seen EXCEPT !.version = txn[t].version,
                             !.status = IF Deliverable(seen) = NoCmd THEN @ ELSE "sent"]
    IN  /\ txn[t].kind = "heartbeat"
        /\ row' = Merge(seen, mine)
        /\ Release(t)
        /\ Answer(t, [kind |-> "ok", body |-> Deliverable(seen)])
        /\ UNCHANGED <<pack, known, host, hist>>

\* The row an acknowledgement leaves: "error" does not report a version.
Acked(r, t) ==
    [r EXCEPT !.status = txn[t].status,
              !.version = IF txn[t].status = "error" THEN @ ELSE txn[t].version]

\* An acknowledgement counts only if it names the row's command.
Concerns(r, cmd) == r.cmd # 0 /\ r.cmd = cmd

\* ack_command; an acknowledgement of another command is ignored.
AckCommit(t) ==
    /\ txn[t].kind = "ack"
    /\ row' = IF Concerns(txn[t].seen, txn[t].cmd)
              THEN Merge(txn[t].seen, Acked(txn[t].seen, t))
              ELSE row
    /\ Release(t)
    /\ Answer(t, [kind |-> "ok", body |-> NoCmd])
    /\ UNCHANGED <<pack, known, host, hist>>

\* A session ends without commit: the request was refused or lost, the handler
\* raised, or the database failed; get_db rolls back.
Abort(t) ==
    /\ txn[t].kind # "free"
    /\ Release(t)
    /\ Answer(t, Failed)
    /\ UNCHANGED <<serverVars, host, hist>>

\* The command of the row has been outstanding for _UPDATE_STALE_AFTER.
TimePasses ==
    /\ row.status \in Active /\ ~row.late
    /\ row' = [row EXCEPT !.late = TRUE]
    /\ UNCHANGED <<pack, known, wire, host, hist>>

-----------------------------------------------------------------------------
(* The agent process.                                                      *)

\* A request of the agent reaches get_current_agent, which loads its row.
Send(kind, cmd, status, version) ==
    \E t \in AgentTxns :
        /\ Begin(t, kind, cmd, status, version)
        /\ call' = t
        /\ reply' = NoReply

\* The agent stops waiting (20 s client timeout), or the answer is lost.
Timeout ==
    /\ call # NoCall \/ reply.kind = "ok"
    /\ call' = NoCall
    /\ reply' = Failed
    /\ UNCHANGED <<serverVars, txn, host, hist>>

\* A blocking request of the agent has ended at `at` and the agent goes on to `next`.
Returned(at, kinds, next) ==
    /\ pc = at /\ call = NoCall /\ reply.kind \in kinds
    /\ pc' = next

AnyOutcome == {"ok", "failed"}

SendHeartbeat ==
    /\ pc = "loop"
    /\ Send("heartbeat", 0, "", running)
    /\ pc' = "heartbeat"
    /\ UNCHANGED <<serverVars, cur, running, files, hist>>

\* A heartbeat that failed, or whose answer holds no command.
HeartbeatIdle ==
    /\ Returned("heartbeat", AnyOutcome, "loop")
    /\ reply.body = NoCmd
    /\ reply' = NoReply
    /\ UNCHANGED <<serverVars, txn, call, cur, running, files, hist>>

\* _handle_commands, first ack: "ok" when the code already has the target version.
BeginCommand ==
    /\ pc = "heartbeat" /\ call = NoCall /\ reply.kind = "ok" /\ reply.body # NoCmd
    /\ cur' = reply.body
    /\ acted' = acted \cup {reply.body.cmd}
    /\ IF running >= reply.body.target
       THEN pc' = "ackSkip" /\ Send("ack", reply.body.cmd, "ok", running)
       ELSE pc' = "ackDownloading" /\ Send("ack", reply.body.cmd, "downloading", running)
    /\ UNCHANGED <<serverVars, running, files, issued, installed, recalled, deploys>>

SkipDone ==
    /\ Returned("ackSkip", {"ok"}, "loop")
    /\ reply' = NoReply /\ cur' = NoCmd
    /\ UNCHANGED <<serverVars, txn, call, running, files, hist>>

\* The progress acks are best effort: whatever their outcome the agent goes on.
DownloadAcked ==
    /\ Returned("ackDownloading", AnyOutcome, "download")
    /\ reply' = NoReply
    /\ UNCHANGED <<serverVars, txn, call, cur, running, files, hist>>

\* The pack is whatever the checkout holds now; nobody compares it with the target.
Download ==
    /\ pc = "download"
    /\ fetched' = pack
    /\ known' = PackVersion
    /\ Send("ack", cur.cmd, "applying", running)
    /\ pc' = "ackApplying"
    /\ UNCHANGED <<row, pack, cur, running, disk, backup, armed, hist>>

ApplyingAcked ==
    /\ Returned("ackApplying", AnyOutcome, "apply")
    /\ reply' = NoReply
    /\ UNCHANGED <<serverVars, txn, call, cur, running, files, hist>>

\* Mutant: a snapshot that exists is kept.
Apply_KeepsSnapshot ==
    /\ pc = "apply"
    /\ backup' = IF backup = {} THEN {disk} ELSE backup
    /\ disk' = fetched
    /\ installed' = installed \cup {cur.cmd}
    /\ Send("ack", cur.cmd, "ok", fetched)
    /\ pc' = "ackOk"
    /\ UNCHANGED <<serverVars, cur, running, armed, fetched, issued, acted, recalled, deploys>>

\* apply_pack succeeded: the package on disk is the new one, the previous one is kept.
Apply ==
    /\ pc = "apply"
    /\ backup' = {disk}
    /\ disk' = fetched
    /\ installed' = installed \cup {cur.cmd}
    /\ Send("ack", cur.cmd, "ok", fetched)
    /\ pc' = "ackOk"
    /\ UNCHANGED <<serverVars, cur, running, armed, fetched, issued, acted, recalled, deploys>>

ReportError(at) ==
    /\ pc = at
    /\ Send("ack", cur.cmd, "error", running)
    /\ pc' = "ackError"
    /\ fetched' = 0
    /\ UNCHANGED <<serverVars, cur, running, armed, hist>>

DownloadFails == ReportError("download") /\ UNCHANGED <<disk, backup>>

\* apply_pack raised: the tree is as before, or half copied; the snapshot is gone.
ApplyFails == ReportError("apply") /\ disk' \in {disk, Torn} /\ backup' = {}

\* The final "ok" ack is not best effort: its failure is reported as an error.
OkAckFails ==
    /\ call = NoCall /\ reply.kind = "failed"
    /\ \E at \in {"ackSkip", "ackOk"} : ReportError(at)
    /\ UNCHANGED <<disk, backup>>

ErrorAcked ==
    /\ Returned("ackError", AnyOutcome, "loop")
    /\ reply' = NoReply /\ cur' = NoCmd
    /\ UNCHANGED <<serverVars, txn, call, running, files, hist>>

\* schedule_restart starts the watchdog, and the run loop ends.
ScheduleRestart ==
    /\ Returned("ackOk", {"ok"}, "stopping")
    /\ armed' = running
    /\ fetched' = 0
    /\ reply' = NoReply /\ cur' = NoCmd
    /\ UNCHANGED <<serverVars, txn, call, running, disk, backup, hist>>

\* The process ends, by itself or by a crash; a crash inside apply_pack leaves
\* the tree whole or half copied, with or without the snapshot.
Exit ==
    /\ pc # "off"
    /\ pc' = "off"
    /\ call' = NoCall /\ reply' = NoReply /\ cur' = NoCmd
    /\ running' = 0 /\ fetched' = 0
    /\ IF pc = "apply" THEN disk' \in {disk, Torn} /\ backup' \in {{}, {disk}}
                       ELSE UNCHANGED <<disk, backup>>
    /\ UNCHANGED <<serverVars, txn, armed, hist>>

\* The service manager starts what is on disk.
Boot ==
    /\ pc = "off" /\ disk # Torn
    /\ running' = disk
    /\ pc' = "loop"
    /\ UNCHANGED <<serverVars, wire, cur, files, hist>>

\* The watchdog, which has restarted the service, finds it active and ends.
SeesActive ==
    /\ armed # 0 /\ pc \notin {"stopping", "off"}
    /\ armed' = 0
    /\ UNCHANGED <<serverVars, wire, pc, cur, running, disk, backup, fetched, hist>>

\* Mutant: the watchdog does not ask whether the service is active.
Rollback_Blind ==
    /\ armed # 0
    /\ \E b \in backup : disk' = b
    /\ backup' = {}
    /\ armed' = 0
    /\ UNCHANGED <<serverVars, wire, pc, cur, running, fetched, hist>>

\* The watchdog found the service inactive at every look and moves the
\* snapshot back.
Rollback ==
    /\ pc = "off" /\ armed # 0
    /\ \E b \in backup : disk' = b
    /\ backup' = {}
    /\ armed' = 0
    /\ UNCHANGED <<serverVars, wire, pc, cur, running, fetched, hist>>

-----------------------------------------------------------------------------
AdminNext == \E t \in AdminTxns : ListRead(t) \/ ListCommit(t) \/ QueueRead(t) \/ QueueCommit(t)

ServerNext ==
    \/ \E t \in AgentTxns : HeartbeatCommit(t) \/ AckCommit(t)
    \/ \E t \in Txns : Abort(t)
    \/ Deploy \/ ServerRestart
    \/ TimePasses

CommandNext ==
    \/ BeginCommand \/ SkipDone \/ DownloadAcked \/ Download \/ ApplyingAcked
    \/ Apply \/ DownloadFails \/ ApplyFails \/ OkAckFails \/ ErrorAcked \/ ScheduleRestart

AgentNext ==
    \/ Timeout \/ SendHeartbeat \/ HeartbeatIdle \/ CommandNext
    \/ Exit \/ Boot \/ SeesActive \/ Rollback

Next == AdminNext \/ ServerNext \/ AgentNext

Spec == Init /\ [][Next]_vars

\* Time passes, no session stays open forever, and the Admin page polls the
\* agent list while an update is active: not every poll fails.
Fairness ==
    /\ WF_vars(TimePasses)
    /\ \A t \in AdminTxns : /\ WF_vars(Abort(t) \/ ListCommit(t) \/ QueueCommit(t))
                            /\ SF_vars(ListRead(t)) /\ SF_vars(ListCommit(t))

FairSpec == Spec /\ Fairness

-----------------------------------------------------------------------------
(* Safety.                                                                 *)

\* No answer to a heartbeat carries a command the agent has already begun to
\* handle, whatever was lost, repeated, re-queued or restarted in between
\* (heartbeat marks the command as sent in the transaction that hands it out).
NeverRedelivered == reply.body # NoCmd => reply.body.cmd \notin acted

\* w is not behind v, unless the server has gone back behind v.
Kept(v, w) == v <= w \/ v \in recalled

\* When the agent reports a successful installation, the package on disk is
\* whole and what was downloaded.  It is at least the version the administrator
\* asked for, unless the server has gone back behind that version: the target
\* is what the API had cached, the pack what is checked out when it is
\* downloaded (agent_pack_version, apply_pack).
OkAckTruthful == pc = "ackOk" => disk # Torn /\ disk = fetched /\ Kept(cur.target, disk)

\* The process runs code newer than the package on disk only where the server
\* has gone back behind the code that runs: neither an installation nor the
\* watchdog puts an older package under it by itself.
DiskNotBehind == disk = Torn \/ Kept(running, disk)

\* The package goes back to an older one for two reasons: the server has gone
\* back behind it, or the watchdog restores the snapshot of an update, which is
\* not older than the code that made that update (unless recalled as well).
NoDowngrade ==
    [][disk' < disk /\ disk' # Torn =>
          \/ disk \in recalled
          \/ pc = "off" /\ armed # 0 /\ Kept(armed, disk')]_vars

\* The agent's side refines UpdateCommand: commands are begun and installed at
\* most once each, and only after they were queued.
Promise == INSTANCE UpdateCommand WITH hand <- cur.cmd
ImplementsUpdateCommand == Promise!Spec

-----------------------------------------------------------------------------
(* Liveness.                                                               *)

\* Every update in progress ends, at the latest when the agent list is polled
\* after the stale limit: a lost answer or a dead agent leaves no update
\* in progress forever.
UpdateSettles == row.status \in Active ~> row.status \in Terminal
=============================================================================
