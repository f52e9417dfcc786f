------------------------- MODULE AgentUpdateProofs -------------------------
(***************************************************************************)
(* Proofs about AgentUpdate: type correctness, at-most-once delivery, the  *)
(* refinement of UpdateCommand, and the order of the installed versions,   *)
(* for any number of sessions and any bounds.                              *)
(***************************************************************************)
EXTENDS AgentUpdate, TLAPS

\* Merging well-formed rows gives one.
LEMMA MergeType ==
    ASSUME TypeOK, NEW seen \in Row, NEW new \in Row
    PROVE  Merge(seen, new) \in Row
BY DEF TypeOK, Row, Merge, Dirty

\* An unused session is well formed.
LEMMA FreeTxnType == FreeTxn \in Txn /\ FreshRow \in Row
BY DEF FreeTxn, FreshRow, Txn, Row, Kinds, Status, Active, Terminal, Version

\* A new session is well formed.
LEMMA BeginType ==
    ASSUME TypeOK, NEW t \in Txns, NEW kind \in Kinds, NEW cmd \in Nat,
           NEW status \in Status, NEW version \in Version, Begin(t, kind, cmd, status, version)
    PROVE  txn' \in [Txns -> Txn]
BY DEF TypeOK, Begin, Txn

\* Ending a session keeps the sessions well formed.
LEMMA ReleaseType ==
    ASSUME TypeOK, NEW t \in Txns, Release(t)
    PROVE  txn' \in [Txns -> Txn]
BY FreeTxnType DEF TypeOK, Release

\* So does an answer, which may reach the agent.
LEMMA AnswerType ==
    ASSUME TypeOK, NEW t, NEW r \in Reply, Answer(t, r)
    PROVE  call' \in AgentTxns \cup {NoCall} /\ reply' \in Reply
BY DEF TypeOK, Answer

\* A request of the agent keeps the types of what it touches.
LEMMA SendType ==
    ASSUME TypeOK, NEW kind \in Kinds, NEW cmd \in Nat,
           NEW status \in Status, NEW version \in Version, Send(kind, cmd, status, version)
    PROVE  /\ txn' \in [Txns -> Txn]
           /\ call' \in AgentTxns \cup {NoCall}
           /\ reply' \in Reply
<1>1. PICK t \in AgentTxns : Begin(t, kind, cmd, status, version) /\ call' = t /\ reply' = NoReply
  BY DEF Send
<1>2. t \in Txns
  BY DEF Txns
<1>3. NoReply \in Reply
  BY DEF NoReply, Reply, NoCmd, Command
<1> QED
  BY <1>1, <1>2, <1>3, BeginType

\* The constant sets and records the typing proofs need.
LEMMA Constants ==
    /\ {"queued", "sent", "downloading", "applying", "ok", "error", ""} \subseteq Status
    /\ {"free", "heartbeat", "ack", "queue", "list"} = Kinds
    /\ NoReply \in Reply /\ Failed \in Reply /\ NoCmd \in Command
    /\ 0 \in Version /\ 1 \in Version /\ Torn \in Version /\ 0 \in Nat
    /\ \A n \in Version : n \in Nat /\ n + 1 \in Version
    /\ \A n \in Nat : n \in Version /\ n + 1 \in Nat
BY DEF Status, Active, Terminal, Kinds, NoReply, Failed, Reply, NoCmd, Command, Version, Torn

\* What the API takes for the pack's version is a version.
LEMMA PackVersionType == TypeOK => PackVersion \in Version
BY DEF TypeOK, PackVersion

\* The versions between an older pack and a newer one.
LEMMA Above == ASSUME NEW p \in Nat, NEW q \in Nat PROVE (p + 1) .. q \subseteq Nat
OBVIOUS

LEMMA Between ==
    ASSUME NEW p \in Nat, NEW q \in Nat, NEW v \in Nat, v <= q
    PROVE  v <= p \/ v \in (p + 1) .. q
OBVIOUS

\* Deploying another release keeps the types of what it changes.
LEMMA DeployType ==
    ASSUME TypeOK, Deploy
    PROVE  pack' \in Version /\ pack' >= 1 /\ recalled' \subseteq Version /\ deploys' \in Nat
<1>1. /\ pack' \in 1 .. MaxVersion /\ recalled' = recalled \cup (pack' + 1) .. pack
      /\ deploys' = deploys + 1
  BY DEF Deploy
<1>2. MaxVersion \in Nat /\ pack \in Nat /\ recalled \subseteq Nat /\ deploys \in Nat
  BY BoundsAssumption DEF TypeOK, Version
<1>3. pack' \in Nat /\ pack' >= 1
  BY <1>1, <1>2
<1>4. (pack' + 1) .. pack \subseteq Nat
  BY <1>2, <1>3, Above
<1>5. recalled' \subseteq Nat
  BY <1>1, <1>2, <1>4, Zenon
<1>6. deploys' \in Nat
  BY <1>1, <1>2
<1> QED
  BY <1>3, <1>5, <1>6 DEF Version

\* Every administrator or server step keeps the types.
LEMMA ServerTypes == TypeOK /\ (AdminNext \/ ServerNext) => TypeOK'
<1> SUFFICES ASSUME TypeOK, AdminNext \/ ServerNext PROVE TypeOK'
  OBVIOUS
<1> USE Constants
<1>r. \A t \in Txns : /\ txn[t] \in Txn /\ txn[t].seen \in Row /\ txn[t].cmd \in Nat
                      /\ txn[t].status \in Status /\ txn[t].version \in Version
  BY DEF TypeOK, Txn
<1>s. AgentTxns \subseteq Txns /\ AdminTxns \subseteq Txns
  BY DEF Txns
<1>1. ASSUME NEW t \in AdminTxns, ListRead(t) PROVE TypeOK'
  <2>1. txn' \in [Txns -> Txn]
    BY <1>1, <1>s, BeginType DEF ListRead, Version
  <2> QED
    BY <1>1, <2>1, PackVersionType DEF TypeOK, ListRead, host, files, hist
<1>2. ASSUME NEW t \in AdminTxns, ListCommit(t) PROVE TypeOK'
  <2>1. Expired(txn[t].seen) \in Row
    BY <1>r, <1>s DEF Expired, Row
  <2>2. row' \in Row
    BY <1>2, <2>1, <1>r, <1>s, MergeType DEF ListCommit
  <2>3. txn' \in [Txns -> Txn]
    BY <1>2, <1>s, ReleaseType DEF ListCommit
  <2> QED
    BY <1>2, <2>2, <2>3 DEF TypeOK, ListCommit, host, files, hist
<1>3. ASSUME NEW t \in AdminTxns, QueueRead(t) PROVE TypeOK'
  <2>1. txn' \in [Txns -> Txn]
    BY <1>3, <1>s, BeginType, PackVersionType DEF QueueRead
  <2> QED
    BY <1>3, <2>1, PackVersionType DEF TypeOK, QueueRead, host, files, hist
<1>4. ASSUME NEW t \in AdminTxns, QueueCommit(t) PROVE TypeOK'
  <2> DEFINE new == [txn[t].seen EXCEPT !.status = "queued", !.cmd = issued + 1,
                                        !.target = txn[t].version]
  <2>1. new \in Row
    BY <1>r, <1>s DEF Row, TypeOK
  <2>2. Merge(txn[t].seen, new) \in Row
    BY <2>1, <1>r, <1>s, MergeType
  <2>3. row' = [Merge(txn[t].seen, new) EXCEPT !.late = FALSE]
    BY <1>4 DEF QueueCommit
  <2>4. row' \in Row
    <3> HIDE DEF new
    <3> QED BY <2>2, <2>3 DEF Row
  <2>5. txn' \in [Txns -> Txn]
    BY <1>4, <1>s, ReleaseType DEF QueueCommit
  <2>6. issued' \in Nat
    BY <1>4 DEF TypeOK, QueueCommit
  <2> QED
    BY <1>4, <2>4, <2>5, <2>6 DEF TypeOK, QueueCommit, host, files
<1>5. ASSUME NEW t \in AgentTxns, HeartbeatCommit(t) PROVE TypeOK'
  <2> DEFINE seen == txn[t].seen
             mine == [seen EXCEPT !.version = txn[t].version,
                                  !.status = IF Deliverable(seen) = NoCmd THEN @ ELSE "sent"]
  <2>1. mine \in Row /\ seen \in Row
    BY <1>r, <1>s DEF Row
  <2>2. row' = Merge(seen, mine)
    BY <1>5 DEF HeartbeatCommit
  <2>3. row' \in Row
    <3> HIDE DEF mine, seen
    <3> QED BY <2>1, <2>2, MergeType
  <2>4. [kind |-> "ok", body |-> Deliverable(seen)] \in Reply
    BY <2>1 DEF Reply, Deliverable, Command, Row, Version
  <2>5. txn' \in [Txns -> Txn]
    BY <1>5, <1>s, ReleaseType DEF HeartbeatCommit
  <2>6. call' \in AgentTxns \cup {NoCall} /\ reply' \in Reply
    BY <1>5, <2>4, AnswerType DEF HeartbeatCommit
  <2> QED
    BY <1>5, <2>3, <2>5, <2>6 DEF TypeOK, HeartbeatCommit, host, files, hist
<1>6. ASSUME NEW t \in AgentTxns, AckCommit(t) PROVE TypeOK'
  <2>1. Acked(txn[t].seen, t) \in Row
    BY <1>r, <1>s DEF Acked, Row
  <2>2. row' \in Row
    BY <1>6, <2>1, <1>r, <1>s, MergeType DEF AckCommit, TypeOK
  <2>3. txn' \in [Txns -> Txn]
    BY <1>6, <1>s, ReleaseType DEF AckCommit
  <2>4. [kind |-> "ok", body |-> NoCmd] \in Reply
    BY DEF Reply
  <2>5. call' \in AgentTxns \cup {NoCall} /\ reply' \in Reply
    BY <1>6, <2>4, AnswerType DEF AckCommit
  <2> QED
    BY <1>6, <2>2, <2>3, <2>5 DEF TypeOK, AckCommit, host, files, hist
<1>7. ASSUME NEW t \in Txns, Abort(t) PROVE TypeOK'
  <2>1. txn' \in [Txns -> Txn]
    BY <1>7, ReleaseType DEF Abort
  <2>2. call' \in AgentTxns \cup {NoCall} /\ reply' \in Reply
    BY <1>7, AnswerType DEF Abort
  <2> QED
    BY <1>7, <2>1, <2>2 DEF TypeOK, Abort, serverVars, host, files, hist
<1>8. CASE ServerRestart
  <2>2. call' \in AgentTxns \cup {NoCall} /\ reply' \in Reply
    BY <1>8 DEF TypeOK, ServerRestart
  <2> QED
    BY <1>8, <2>2, FreeTxnType DEF TypeOK, ServerRestart, host, files, hist
<1>9. CASE TimePasses
  BY <1>9 DEF TypeOK, TimePasses, Row, wire, host, files, hist
<1>10. CASE Deploy
  <2> QED
    BY <1>10, DeployType DEF TypeOK, Deploy, wire, host, files
<1> QED
  BY <1>1, <1>2, <1>3, <1>4, <1>5, <1>6, <1>7, <1>8, <1>9, <1>10 DEF AdminNext, ServerNext

\* Every step of the agent's host keeps the types.
LEMMA AgentTypes == TypeOK /\ AgentNext => TypeOK'
<1> SUFFICES ASSUME TypeOK, AgentNext PROVE TypeOK'
  OBVIOUS
<1> USE Constants
<1>0. /\ cur \in Command /\ cur.cmd \in Nat /\ running \in Version /\ fetched \in Version
      /\ reply.body \in Command /\ reply.body.cmd \in Nat
  BY DEF TypeOK, Command, Reply
<1>1. CASE Timeout
  BY <1>1 DEF TypeOK, Timeout, serverVars, host, files, hist
<1>2. CASE SendHeartbeat
  <2>1. txn' \in [Txns -> Txn] /\ call' \in AgentTxns \cup {NoCall} /\ reply' \in Reply
    BY <1>2, <1>0, SendType DEF SendHeartbeat
  <2> QED
    BY <1>2, <2>1 DEF TypeOK, SendHeartbeat, serverVars, files, hist, Pcs
<1>3. CASE HeartbeatIdle
  BY <1>3 DEF TypeOK, HeartbeatIdle, Returned, serverVars, files, hist, Pcs
<1>4. CASE BeginCommand
  <2>1. txn' \in [Txns -> Txn] /\ call' \in AgentTxns \cup {NoCall} /\ reply' \in Reply
    BY <1>4, <1>0, SendType DEF BeginCommand
  <2> QED
    BY <1>4, <1>0, <2>1 DEF TypeOK, BeginCommand, serverVars, files, Pcs
<1>5. CASE SkipDone
  BY <1>5 DEF TypeOK, SkipDone, Returned, serverVars, files, hist, Pcs
<1>6. CASE DownloadAcked
  BY <1>6 DEF TypeOK, DownloadAcked, Returned, serverVars, files, hist, Pcs
<1>7. CASE Download
  <2>1. txn' \in [Txns -> Txn] /\ call' \in AgentTxns \cup {NoCall} /\ reply' \in Reply
    BY <1>7, <1>0, SendType DEF Download
  <2> QED
    BY <1>7, <2>1, PackVersionType DEF TypeOK, Download, hist, Pcs
<1>8. CASE ApplyingAcked
  BY <1>8 DEF TypeOK, ApplyingAcked, Returned, serverVars, files, hist, Pcs
<1>9. CASE Apply
  <2>1. txn' \in [Txns -> Txn] /\ call' \in AgentTxns \cup {NoCall} /\ reply' \in Reply
    BY <1>9, <1>0, SendType DEF Apply
  <2> QED
    BY <1>9, <1>0, <2>1 DEF TypeOK, Apply, serverVars, Pcs
<1>10. ASSUME NEW at, ReportError(at), disk' \in Version, backup' \subseteq Version
       PROVE TypeOK'
  <2>1. txn' \in [Txns -> Txn] /\ call' \in AgentTxns \cup {NoCall} /\ reply' \in Reply
    BY <1>10, <1>0, SendType DEF ReportError
  <2> QED
    BY <1>10, <2>1 DEF TypeOK, ReportError, serverVars, hist, Pcs
<1>11. CASE DownloadFails
  BY <1>11, <1>10 DEF DownloadFails, TypeOK
<1>12. CASE ApplyFails
  BY <1>12, <1>10 DEF ApplyFails, TypeOK
<1>13. CASE OkAckFails
  BY <1>13, <1>10 DEF OkAckFails, TypeOK
<1>14. CASE ErrorAcked
  BY <1>14 DEF TypeOK, ErrorAcked, Returned, serverVars, files, hist, Pcs
<1>15. CASE ScheduleRestart
  BY <1>15 DEF TypeOK, ScheduleRestart, Returned, serverVars, hist, Pcs
<1>16. CASE Exit
  <2>1. disk' \in Version /\ backup' \subseteq Version
    BY <1>16 DEF TypeOK, Exit
  <2> QED
    BY <1>16, <2>1 DEF TypeOK, Exit, serverVars, hist, Pcs
<1>17. CASE Boot
  BY <1>17 DEF TypeOK, Boot, serverVars, wire, files, hist, Pcs
<1>18. CASE Rollback
  BY <1>18 DEF TypeOK, Rollback, serverVars, wire, hist
<1>19. CASE SeesActive
  BY <1>19 DEF TypeOK, SeesActive, serverVars, wire, hist
<1> QED
  BY <1>1, <1>2, <1>3, <1>4, <1>5, <1>6, <1>7, <1>8, <1>9, <1>11, <1>12, <1>13, <1>14,
     <1>15, <1>16, <1>17, <1>18, <1>19 DEF AgentNext, CommandNext

\* The initial states are well typed.
LEMMA InitTypes == Init => TypeOK
<1> SUFFICES ASSUME Init PROVE TypeOK
  OBVIOUS
<1>1. pack \in Version /\ backup \subseteq Version
  BY BoundsAssumption DEF Init, Version
<1>2. row \in Row
  BY <1>1, FreeTxnType DEF Init, Row
<1> QED
  BY <1>1, <1>2, FreeTxnType, Constants DEF Init, TypeOK, Pcs

\* Type correctness: every variable keeps its type in every behaviour.
THEOREM TypeCorrect == Spec => []TypeOK
<1>1. Init => TypeOK
  BY InitTypes
<1>2. TypeOK /\ [Next]_vars => TypeOK'
  <2>1. ASSUME TypeOK, UNCHANGED vars PROVE TypeOK'
    BY <2>1 DEF TypeOK, vars
  <2> QED
    BY <2>1, ServerTypes, AgentTypes DEF Next
<1> QED
  BY <1>1, <1>2, PTL DEF Spec

-----------------------------------------------------------------------------
(* At most once.  NeverRedelivered is not inductive: the strengthening      *)
(* follows a command from the row through the open session and the answer   *)
(* to the agent, and says where a command that was not begun can be.        *)

CommandsKnown ==
    /\ row.cmd <= issued
    /\ \A t \in Txns : txn[t].seen.cmd <= issued
    /\ reply.body.cmd <= issued
    /\ acted \subseteq 1 .. issued
    /\ installed \subseteq acted

\* A queued command was never begun, and acknowledgements never queue.
QueuedUnbegun ==
    /\ row.status = "queued" => row.cmd \notin acted
    /\ \A t \in Txns : txn[t].kind = "ack" => txn[t].status # "queued"

\* The agent waits for one request of its own.
Waiting ==
    call # NoCall =>
        /\ reply = NoReply
        /\ txn[call].kind \in {"heartbeat", "ack"}
        /\ txn[call].kind = "heartbeat" =>
              /\ pc = "heartbeat"
              /\ Deliverable(txn[call].seen) # NoCmd => txn[call].seen.cmd \notin acted

\* A command in an answer was not begun and is no longer queued.
HandedOut ==
    reply.body # NoCmd =>
        /\ pc = "heartbeat"
        /\ reply.body.cmd # 0
        /\ reply.body.cmd \notin acted
        /\ row.status = "queued" => row.cmd # reply.body.cmd

Handling == {"ackDownloading", "download", "ackApplying", "apply"}

HandledOnce == pc \in Handling => cur.cmd \in acted \ installed

OnceInv == TypeOK /\ CommandsKnown /\ QueuedUnbegun /\ Waiting /\ HandedOut /\ HandledOnce

-----------------------------------------------------------------------------
(* Versions.  Whatever version is anywhere in the system was in the         *)
(* checkout before, so a pack downloaded later is older only if the server  *)
(* has gone back; the snapshot an armed watchdog would restore is no more   *)
(* behind the code that armed it than that.                                 *)

\* The server ships v or a newer one, or it has gone back behind v.
Held(v) == Kept(v, pack)

Shipped ==
    /\ pack >= 1
    /\ Held(known) /\ Held(running) /\ Held(disk) /\ Held(fetched) /\ Held(armed)
    /\ \A b \in backup : Held(b)
    /\ Held(row.target) /\ Held(reply.body.target) /\ Held(cur.target)
    /\ \A t \in Txns : Held(txn[t].seen.target)
    /\ \A t \in Txns : txn[t].kind = "queue" => Held(txn[t].version)

FetchedNewest ==
    pc \in {"ackApplying", "apply", "ackOk"} =>
        /\ fetched >= 1
        /\ Kept(cur.target, fetched) /\ Kept(running, fetched)
        /\ Kept(disk, fetched) /\ Kept(armed, fetched)

SnapshotNotOlder ==
    /\ \A b \in backup : b = Torn \/ Kept(armed, b)
    /\ disk = Torn \/ Kept(armed, disk)
    /\ pc = "ackOk" => \A b \in backup : b = Torn \/ Kept(running, b)

Process ==
    /\ pc = "off" => running = 0
    /\ pc = "ackOk" => disk = fetched

VersionInv ==
    /\ TypeOK /\ Shipped /\ FetchedNewest /\ SnapshotNotOlder /\ DiskNotBehind /\ Process

-----------------------------------------------------------------------------
(* Proof of the at-most-once invariant.                                    *)

\* A change of the row that neither queues a command nor names another one.
Quiet(r) == r.cmd = row.cmd /\ (r.status = "queued" => row.status = "queued")

\* Commits of handlers that leave the command alone and do not queue are quiet.
LEMMA QuietMerge ==
    ASSUME NEW seen \in Row, NEW new \in Row, row \in Row, new.cmd = seen.cmd,
           new.status # "queued" \/ new.status = seen.status
    PROVE  Quiet(Merge(seen, new))
BY DEF Quiet, Merge, Dirty

\* A server step that changes the row quietly, ends sessions, and may answer
\* with no command keeps the invariant.
LEMMA QuietStep ==
    ASSUME OnceInv, TypeOK', Quiet(row'),
           \A t \in Txns : txn'[t] = txn[t] \/ txn'[t] = FreeTxn
                           \/ (txn'[t].seen = row /\ txn'[t].kind \in {"list", "queue"}),
           \/ call' = call /\ reply' = reply /\ (call # NoCall => txn'[call] = txn[call])
           \/ call' = NoCall /\ reply'.body = NoCmd,
           UNCHANGED <<pc, cur, issued, acted, installed>>
    PROVE  OnceInv'
<1> USE DEF OnceInv
<1>1. CommandsKnown'
  <2>1. \A t \in Txns : txn'[t].seen.cmd <= issued'
    <3> SUFFICES ASSUME NEW t \in Txns PROVE txn'[t].seen.cmd <= issued
      OBVIOUS
    <3>1. CASE txn'[t] = FreeTxn
      <4>1. FreeTxn.seen.cmd = 0
        BY DEF FreeTxn, FreshRow
      <4>2. 0 <= issued /\ issued' = issued
        BY DEF TypeOK
      <4> QED
        BY <3>1, <4>1, <4>2
    <3>2. CASE txn'[t] = txn[t] \/ txn'[t].seen = row
      BY <3>2 DEF CommandsKnown
    <3> QED
      BY <3>1, <3>2
  <2>2. reply'.body.cmd <= issued'
    <3>1. NoCmd.cmd <= issued
      BY DEF NoCmd, TypeOK
    <3> QED
      BY <3>1 DEF CommandsKnown
  <2>3. row'.cmd <= issued' /\ acted' \subseteq 1 .. issued' /\ installed' \subseteq acted'
    BY DEF CommandsKnown, Quiet
  <2> QED
    BY <2>1, <2>2, <2>3 DEF CommandsKnown
<1>2. QueuedUnbegun'
  <2>1. row'.status = "queued" => row'.cmd \notin acted'
    BY DEF QueuedUnbegun, Quiet
  <2>2. ASSUME NEW t \in Txns PROVE txn'[t].kind = "ack" => txn'[t].status # "queued"
    <3>1. FreeTxn.kind = "free"
      BY DEF FreeTxn
    <3>2. CASE txn'[t] = txn[t]
      BY <3>2 DEF QueuedUnbegun
    <3> QED
      BY <3>1, <3>2
  <2> QED
    BY <2>1, <2>2 DEF QueuedUnbegun
<1>3. Waiting'
  BY DEF Waiting, Deliverable
<1>4. HandedOut'
  BY DEF HandedOut, Quiet
<1>5. HandledOnce'
  BY DEF HandledOnce, Handling
<1> QED
  BY <1>1, <1>2, <1>3, <1>4, <1>5

\* Ending session t and answering without a command does what QuietStep asks.
LEMMA AnswerQuiet ==
    ASSUME TypeOK, NEW t \in Txns, NEW r, Release(t), Answer(t, r), r.body = NoCmd
    PROVE  /\ \A u \in Txns : txn'[u] = txn[u] \/ txn'[u] = FreeTxn
           /\ \/ call' = call /\ reply' = reply /\ (call # NoCall => txn'[call] = txn[call])
              \/ call' = NoCall /\ reply'.body = NoCmd
<1>1. \A u \in Txns : txn'[u] = IF u = t THEN FreeTxn ELSE txn[u]
  BY DEF TypeOK, Release
<1>2. call # NoCall => call \in Txns
  BY DEF TypeOK, Txns
<1>3. CASE call = t
  BY <1>1, <1>3 DEF Answer
<1>4. CASE call # t
  BY <1>1, <1>2, <1>4 DEF Answer
<1> QED
  BY <1>1, <1>3, <1>4

\* An administrator's or a server step keeps the invariant.
LEMMA OnceServer ==
    ASSUME OnceInv, TypeOK', AdminNext \/ ServerNext PROVE OnceInv'
<1> USE DEF OnceInv
<1>s. AgentTxns \subseteq Txns /\ AdminTxns \subseteq Txns
  BY DEF Txns
<1>r. \A t \in Txns : txn[t].seen \in Row /\ txn[t].status \in Status
  BY DEF TypeOK, Txn
<1>q. row \in Row /\ Quiet(row)
  BY DEF TypeOK, Quiet
<1>c. \A t \in AdminTxns : call # t
  BY TxnsAssumption DEF TypeOK, Txns
<1>b. NoReply.body = NoCmd /\ Failed.body = NoCmd
  BY DEF NoReply, Failed
<1>1. ASSUME NEW t \in AdminTxns, NEW kind \in {"list", "queue"}, NEW version,
             Begin(t, kind, 0, "", version),
             UNCHANGED <<row, call, reply, host, hist>>
      PROVE  OnceInv'
  <2>1. \A u \in Txns : txn'[u] = txn[u] \/ (txn'[u].seen = row /\ txn'[u].kind \in {"list", "queue"})
    BY <1>1, <1>s DEF Begin, TypeOK
  <2>2. call # NoCall => txn'[call] = txn[call]
    BY <1>1, <1>c, <1>s DEF Begin, TypeOK
  <2> QED
    BY <1>1, <2>1, <2>2, <1>q, QuietStep DEF host, hist
<1>2. ASSUME NEW t \in AdminTxns, ListCommit(t) PROVE OnceInv'
  <2>1. Expired(txn[t].seen) \in Row /\ Expired(txn[t].seen).cmd = txn[t].seen.cmd
    BY <1>r, <1>s, Constants DEF Expired, Row
  <2>2. Expired(txn[t].seen).status \in {"error", txn[t].seen.status}
    BY <1>r, <1>s DEF Expired, Row
  <2>3. Quiet(row')
    BY <1>2, <2>1, <2>2, <1>r, <1>s, <1>q, QuietMerge DEF ListCommit
  <2>4. \A u \in Txns : txn'[u] = txn[u] \/ txn'[u] = FreeTxn
    BY <1>2, <1>s DEF ListCommit, Release, TypeOK
  <2>5. call # NoCall => txn'[call] = txn[call]
    BY <1>2, <1>s, <1>c DEF ListCommit, Release, TypeOK
  <2> QED
    BY <1>2, <2>3, <2>4, <2>5, QuietStep DEF ListCommit, host, hist
<1>3. ASSUME NEW t \in AdminTxns, QueueCommit(t) PROVE OnceInv'
  <2>1. issued \in Nat /\ issued' = issued + 1 /\ txn[t].seen.cmd <= issued /\ txn[t].seen.cmd \in Nat
    BY <1>3, <1>s, <1>r DEF QueueCommit, TypeOK, CommandsKnown, Row
  <2>2. row'.cmd = issued'
    <3>1. issued + 1 # txn[t].seen.cmd
      BY <2>1
    <3> QED
      BY <1>3, <1>r, <1>s, <2>1, <3>1 DEF QueueCommit, Merge, Dirty, Row
  <2>3. \A u \in Txns : txn'[u] = txn[u] \/ txn'[u] = FreeTxn
    BY <1>3, <1>s DEF QueueCommit, Release, TypeOK
  <2>4. call # NoCall => txn'[call] = txn[call]
    BY <1>3, <1>s, <1>c DEF QueueCommit, Release, TypeOK
  <2>5. UNCHANGED <<pc, cur, call, reply, acted, installed>>
    BY <1>3 DEF QueueCommit, host
  <2>6. issued' \notin acted /\ issued' # reply.body.cmd /\ \A c \in Nat : c <= issued => c <= issued'
    <3>1. reply.body.cmd <= issued /\ acted \subseteq 1 .. issued /\ reply.body.cmd \in Nat
      BY DEF CommandsKnown, TypeOK, Reply, Command
    <3> QED
      BY <2>1, <3>1
  <2>7. CommandsKnown'
    <3>1. ASSUME NEW u \in Txns PROVE txn'[u].seen.cmd <= issued'
      <4>1. txn[u].seen.cmd <= issued /\ txn[u].seen.cmd \in Nat
        BY <1>r DEF CommandsKnown, Row
      <4>2. FreeTxn.seen.cmd = 0
        BY DEF FreeTxn, FreshRow
      <4>3. 0 <= issued
        BY <2>1
      <4> QED
        BY <2>3, <2>6, <4>1, <4>2, <4>3
    <3>2. row'.cmd <= issued' /\ reply'.body.cmd <= issued'
      BY <2>1, <2>2, <2>5, <2>6 DEF CommandsKnown, TypeOK, Reply, Command
    <3>3. acted' \subseteq 1 .. issued' /\ installed' \subseteq acted'
      BY <2>1, <2>5 DEF CommandsKnown
    <3> QED
      BY <3>1, <3>2, <3>3 DEF CommandsKnown
  <2>8. QueuedUnbegun'
    <3>1. FreeTxn.kind = "free"
      BY DEF FreeTxn
    <3>2. ASSUME NEW u \in Txns PROVE txn'[u].kind = "ack" => txn'[u].status # "queued"
      BY <2>3, <3>1 DEF QueuedUnbegun
    <3> QED
      BY <2>2, <2>5, <2>6, <3>2 DEF QueuedUnbegun
  <2>9. Waiting' /\ HandedOut' /\ HandledOnce'
    BY <2>2, <2>4, <2>5, <2>6 DEF Waiting, Deliverable, HandedOut, HandledOnce, Handling
  <2> QED
    BY <2>7, <2>8, <2>9
<1>4. ASSUME NEW t \in AgentTxns, HeartbeatCommit(t) PROVE OnceInv'
  <2> DEFINE seen == txn[t].seen
             mine == [seen EXCEPT !.version = txn[t].version,
                                  !.status = IF Deliverable(seen) = NoCmd THEN @ ELSE "sent"]
             body == Deliverable(seen)
  <2>1. seen \in Row /\ mine \in Row /\ mine.cmd = seen.cmd
    BY <1>r, <1>s, Constants DEF Row, Txn, TypeOK
  <2>2. mine.status \in {"sent", seen.status}
    BY <2>1 DEF Row
  <2>3. row' = Merge(seen, mine)
    BY <1>4 DEF HeartbeatCommit
  <2>4. Quiet(row')
    <3> HIDE DEF seen, mine
    <3> QED BY <2>1, <2>2, <2>3, <1>q, QuietMerge
  <2>5. Release(t) /\ Answer(t, [kind |-> "ok", body |-> body])
    BY <1>4 DEF HeartbeatCommit
  <2>6. UNCHANGED <<pc, cur, issued, acted, installed>>
    BY <1>4 DEF HeartbeatCommit, host, hist
  <2>7. CASE body = NoCmd
    BY <2>4, <2>5, <2>6, <2>7, <1>s, AnswerQuiet, QuietStep
  <2>8. CASE call # t
    <3>1. call' = call /\ reply' = reply
      BY <2>5, <2>8 DEF Answer
    <3>2. \A u \in Txns : txn'[u] = txn[u] \/ txn'[u] = FreeTxn
      BY <2>5, <1>s DEF Release, TypeOK
    <3>3. call # NoCall => txn'[call] = txn[call]
      BY <2>5, <2>8 DEF Release, TypeOK, Txns
    <3> QED
      BY <2>4, <2>6, <3>1, <3>2, <3>3, QuietStep
  <2>9. CASE call = t /\ body # NoCmd
    <3>1. seen.status = "queued" /\ seen.cmd # 0 /\ body = [cmd |-> seen.cmd, target |-> seen.target]
      BY <2>9 DEF Deliverable
    <3>2. call' = NoCall /\ reply' = [kind |-> "ok", body |-> body]
      BY <2>5, <2>9 DEF Answer
    <3>3. call # NoCall /\ txn[call].kind = "heartbeat" /\ Deliverable(txn[call].seen) # NoCmd
      BY <1>4, <2>9, <1>s, TxnsAssumption DEF HeartbeatCommit
    <3>4. pc = "heartbeat" /\ seen.cmd \notin acted
      BY <3>3, <2>9 DEF Waiting
    <3>5. row'.status # "queued"
      BY <2>1, <2>3, <2>9, <3>1 DEF Merge, Dirty, Row
    <3>6. \A u \in Txns : txn'[u] = txn[u] \/ txn'[u] = FreeTxn
      BY <2>5, <1>s DEF Release, TypeOK
    <3>7. CommandsKnown'
      <4>0. FreeTxn.seen.cmd = 0
        BY DEF FreeTxn, FreshRow
      <4>1. 0 <= issued
        BY DEF TypeOK
      <4>2. reply'.body.cmd <= issued
        BY <3>1, <3>2, <1>s DEF CommandsKnown
      <4>3. ASSUME NEW u \in Txns PROVE txn'[u].seen.cmd <= issued
        BY <3>6, <4>0, <4>1 DEF CommandsKnown
      <4> QED
        BY <2>4, <2>6, <4>2, <4>3 DEF CommandsKnown, Quiet
    <3>8. QueuedUnbegun'
      <4>1. FreeTxn.kind = "free"
        BY DEF FreeTxn
      <4>2. ASSUME NEW u \in Txns PROVE txn'[u].kind = "ack" => txn'[u].status # "queued"
        BY <3>6, <4>1 DEF QueuedUnbegun
      <4> QED
        BY <3>5, <4>2 DEF QueuedUnbegun
    <3>9. Waiting' /\ HandedOut' /\ HandledOnce'
      BY <2>6, <3>1, <3>2, <3>4, <3>5 DEF Waiting, HandedOut, HandledOnce, Handling
    <3> QED
      BY <3>7, <3>8, <3>9
  <2> QED
    BY <2>7, <2>8, <2>9
<1>5. ASSUME NEW t \in AgentTxns, AckCommit(t) PROVE OnceInv'
  <2>1. Acked(txn[t].seen, t) \in Row /\ Acked(txn[t].seen, t).cmd = txn[t].seen.cmd
    BY <1>r, <1>s DEF Acked, Row, TypeOK, Txn
  <2>2. Acked(txn[t].seen, t).status = txn[t].status /\ txn[t].status # "queued"
    BY <1>5, <1>r, <1>s DEF Acked, Row, AckCommit, QueuedUnbegun
  <2>3. Quiet(row')
    BY <1>5, <2>1, <2>2, <1>r, <1>s, <1>q, QuietMerge DEF AckCommit
  <2> QED
    BY <1>5, <2>3, <1>s, AnswerQuiet, QuietStep DEF AckCommit, host, hist
<1>6. ASSUME NEW t \in Txns, Abort(t) PROVE OnceInv'
  BY <1>6, <1>q, <1>b, AnswerQuiet, QuietStep DEF Abort, serverVars, host, hist
<1>7. CASE ServerRestart
  <2>1. \A u \in Txns : txn'[u] = FreeTxn
    BY <1>7 DEF ServerRestart
  <2>2. Quiet(row') /\ UNCHANGED <<pc, cur, issued, acted, installed>>
    BY <1>7, <1>q DEF ServerRestart, host, hist
  <2>3. CASE call = NoCall
    BY <1>7, <2>1, <2>2, <2>3, QuietStep DEF ServerRestart
  <2>4. CASE call # NoCall
    BY <1>7, <1>b, <2>1, <2>2, <2>4, QuietStep DEF ServerRestart
  <2> QED
    BY <2>3, <2>4
<1>8. CASE TimePasses
  <2>1. Quiet(row')
    BY <1>8, <1>q DEF TimePasses, Quiet, Row
  <2> QED
    BY <1>8, <2>1, QuietStep DEF TimePasses, wire, host, hist
<1>9. \A t \in AdminTxns : ListRead(t) \/ QueueRead(t) => OnceInv'
  BY <1>1 DEF ListRead, QueueRead
<1>10. CASE Deploy
  <2>1. UNCHANGED <<row, txn, call, reply, pc, cur, issued, acted, installed>>
    BY <1>10 DEF Deploy, wire, host
  <2> QED
    BY <2>1, <1>q, QuietStep
<1> QED
  BY <1>2, <1>3, <1>4, <1>5, <1>6, <1>7, <1>8, <1>9, <1>10 DEF AdminNext, ServerNext

\* The agent begins a request: it may have begun a command that is not queued.
LEMMA SendOnce ==
    ASSUME OnceInv, TypeOK', NEW kind \in {"heartbeat", "ack"}, NEW cmd, NEW status, NEW version,
           Send(kind, cmd, status, version), status # "queued",
           kind = "heartbeat" => pc' = "heartbeat" /\ acted' = acted,
           UNCHANGED <<row, issued>>, acted' \subseteq 1 .. issued, installed' \subseteq acted',
           row.status = "queued" => row.cmd \notin acted',
           HandledOnce'
    PROVE  OnceInv'
<1> USE DEF OnceInv
<1>1. PICK t \in AgentTxns : Begin(t, kind, cmd, status, version) /\ call' = t /\ reply' = NoReply
  BY DEF Send
<1>2. t \in Txns /\ NoReply.body = NoCmd
  BY DEF Txns, NoReply
<1>3. txn' = [txn EXCEPT ![t] = [kind |-> kind, seen |-> row, cmd |-> cmd,
                                 status |-> status, version |-> version]]
  BY <1>1 DEF Begin
<1>4. /\ txn'[t].kind = kind /\ txn'[t].seen = row /\ txn'[t].status = status
      /\ \A u \in Txns : u # t => txn'[u] = txn[u]
  BY <1>2, <1>3 DEF TypeOK
<1>5. CommandsKnown'
  <2>1. NoCmd.cmd <= issued
    BY DEF NoCmd, TypeOK
  <2>2. ASSUME NEW u \in Txns PROVE txn'[u].seen.cmd <= issued
    BY <1>4 DEF CommandsKnown
  <2> QED
    BY <1>1, <1>2, <2>1, <2>2 DEF CommandsKnown
<1>6. QueuedUnbegun'
  <2>1. ASSUME NEW u \in Txns PROVE txn'[u].kind = "ack" => txn'[u].status # "queued"
    BY <1>4 DEF QueuedUnbegun
  <2> QED
    BY <2>1 DEF QueuedUnbegun
<1>7. Waiting'
  <2>1. Deliverable(row) # NoCmd => row.cmd \notin acted
    BY DEF Deliverable, QueuedUnbegun
  <2>2. Deliverable(txn'[t].seen) = Deliverable(row) /\ txn'[t].seen.cmd = row.cmd
    BY <1>4
  <2>3. Deliverable(row)' = Deliverable(row)
    BY DEF Deliverable
  <2> QED
    BY <1>1, <1>4, <2>1, <2>2 DEF Waiting, Deliverable
<1>8. HandedOut'
  BY <1>1, <1>2 DEF HandedOut
<1> QED
  BY <1>5, <1>6, <1>7, <1>8

\* The agent has its answer, gives up or stops: no command is on its way to it.
LEMMA LocalOnce ==
    ASSUME OnceInv, TypeOK', call' = NoCall, reply'.body = NoCmd,
           UNCHANGED <<row, txn, issued, acted, installed>>, HandledOnce'
    PROVE  OnceInv'
<1> USE DEF OnceInv
<1>1. NoCmd.cmd <= issued
  BY DEF NoCmd, TypeOK
<1> QED
  BY <1>1 DEF CommandsKnown, QueuedUnbegun, Waiting, HandedOut

\* A step of the agent's host keeps the invariant.
LEMMA OnceAgent ==
    ASSUME OnceInv, TypeOK', AgentNext PROVE OnceInv'
<1> USE DEF OnceInv
<1>b. NoReply.body = NoCmd /\ Failed.body = NoCmd
  BY DEF NoReply, Failed
<1>k. acted \subseteq 1 .. issued /\ installed \subseteq acted
      /\ (row.status = "queued" => row.cmd \notin acted)
  BY DEF CommandsKnown, QueuedUnbegun
<1>1. CASE Timeout
  BY <1>1, <1>b, LocalOnce DEF Timeout, serverVars, host, files, hist, HandledOnce
<1>2. CASE SendHeartbeat
  <2>1. HandledOnce'
    BY <1>2 DEF SendHeartbeat, HandledOnce, Handling
  <2> QED
    BY <1>2, <1>k, <2>1, SendOnce DEF SendHeartbeat, serverVars, hist
<1>3. CASE HeartbeatIdle \/ SkipDone \/ DownloadAcked \/ ApplyingAcked \/ ErrorAcked \/ ScheduleRestart
  <2>1. HandledOnce'
    BY <1>3 DEF HeartbeatIdle, SkipDone, DownloadAcked, ApplyingAcked, ErrorAcked, ScheduleRestart,
                Returned, HandledOnce, Handling, hist
  <2> QED
    BY <1>3, <1>b, <2>1, LocalOnce
       DEF HeartbeatIdle, SkipDone, DownloadAcked, ApplyingAcked, ErrorAcked, ScheduleRestart,
           Returned, serverVars, hist
<1>4. CASE BeginCommand
  <2> DEFINE c == reply.body.cmd
  <2>1. c \in 1 .. issued /\ c \notin acted /\ (row.status = "queued" => row.cmd # c)
    BY <1>4 DEF BeginCommand, HandedOut, CommandsKnown, TypeOK, Reply, Command
  <2>2. UNCHANGED <<row, issued, installed>> /\ acted' = acted \cup {c} /\ cur'.cmd = c
    BY <1>4 DEF BeginCommand, serverVars
  <2>3. HandledOnce'
    BY <2>1, <2>2, <1>k DEF HandledOnce
  <2>4. \/ Send("ack", c, "ok", running)
        \/ Send("ack", c, "downloading", running)
    BY <1>4 DEF BeginCommand
  <2> QED
    BY <2>1, <2>2, <2>3, <2>4, <1>k, SendOnce
<1>5. CASE Download
  <2>1. HandledOnce'
    BY <1>5 DEF Download, HandledOnce, Handling, hist
  <2> QED
    BY <1>5, <1>k, <2>1, SendOnce DEF Download, hist
<1>6. CASE Apply
  <2>1. cur.cmd \in acted
    BY <1>6 DEF Apply, HandledOnce, Handling
  <2>2. HandledOnce'
    BY <1>6 DEF Apply, HandledOnce, Handling
  <2> QED
    BY <1>6, <1>k, <2>1, <2>2, SendOnce DEF Apply, serverVars
<1>7. ASSUME NEW at, ReportError(at) PROVE OnceInv'
  <2>1. HandledOnce'
    BY <1>7 DEF ReportError, HandledOnce, Handling
  <2> QED
    BY <1>7, <1>k, <2>1, SendOnce DEF ReportError, serverVars, hist
<1>8. CASE Exit
  <2>1. HandledOnce'
    BY <1>8 DEF Exit, HandledOnce, Handling
  <2> QED
    BY <1>8, <1>b, <2>1, LocalOnce DEF Exit, serverVars, hist
<1>9. CASE Boot \/ Rollback
  <2>1. pc = "off" /\ pc' \notin Handling /\ UNCHANGED <<row, txn, call, reply, issued, acted, installed>>
    BY <1>9 DEF Boot, Rollback, serverVars, wire, hist, Handling
  <2>2. reply.body = NoCmd /\ (call # NoCall => txn[call].kind # "heartbeat")
    BY <2>1 DEF HandedOut, Waiting
  <2> QED
    BY <2>1, <2>2 DEF CommandsKnown, QueuedUnbegun, Waiting, HandedOut, HandledOnce
<1>10. CASE SeesActive
  BY <1>10 DEF SeesActive, serverVars, wire, hist, CommandsKnown, QueuedUnbegun, Waiting, HandedOut, HandledOnce
<1> QED
  BY <1>1, <1>2, <1>3, <1>4, <1>5, <1>6, <1>7, <1>8, <1>9, <1>10
     DEF AgentNext, CommandNext, DownloadFails, ApplyFails, OkAckFails

\* The at-most-once invariant holds in every state.
THEOREM OnceCorrect == Spec => []OnceInv
<1>1. Init => OnceInv
  <2> SUFFICES ASSUME Init PROVE OnceInv
    OBVIOUS
  <2>1. TypeOK
    BY InitTypes
  <2>2. FreeTxn.kind = "free" /\ FreeTxn.seen = FreshRow /\ FreshRow.cmd = 0 /\ FreshRow.status = ""
    BY DEF FreeTxn, FreshRow
  <2>3. NoReply.body = NoCmd /\ NoCmd.cmd = 0 /\ 0 <= 0
    BY DEF NoReply, NoCmd
  <2>4. /\ row.cmd = 0 /\ row.status = "" /\ call = NoCall /\ reply = NoReply /\ pc = "loop" /\ issued = 0
        /\ acted = {} /\ installed = {} /\ \A t \in Txns : txn[t] = FreeTxn
    BY DEF Init, FreshRow
  <2>5. CommandsKnown
    BY <2>2, <2>3, <2>4 DEF CommandsKnown
  <2> QED
    BY <2>1, <2>2, <2>3, <2>4, <2>5 DEF OnceInv, QueuedUnbegun, Waiting, HandedOut, HandledOnce, Handling
<1>2. OnceInv /\ [Next]_vars => OnceInv'
  <2>1. ASSUME OnceInv, UNCHANGED vars PROVE OnceInv'
    BY <2>1 DEF vars, OnceInv, TypeOK, CommandsKnown, QueuedUnbegun, Waiting, Deliverable,
                HandedOut, HandledOnce
  <2>2. OnceInv => TypeOK
    BY DEF OnceInv
  <2> QED
    BY <2>1, <2>2, ServerTypes, AgentTypes, OnceServer, OnceAgent DEF Next
<1> QED
  BY <1>1, <1>2, PTL DEF Spec

\* No answer carries a command the agent has already begun to handle.
THEOREM AtMostOnce == Spec => []NeverRedelivered
<1>1. OnceInv => NeverRedelivered
  BY DEF OnceInv, HandedOut, NeverRedelivered
<1> QED
  BY <1>1, OnceCorrect, PTL

Counts == <<issued, acted, installed>>

\* Every step begins a queued command for the first time, installs a begun one
\* for the first time, queues one, or leaves the promise's variables alone.
THEOREM RefinesUpdateCommand == Spec => ImplementsUpdateCommand
<1>1. Init => Promise!Init
  BY DEF Init, NoCmd, Promise!Init
<1>2. OnceInv /\ [Next]_vars => [Promise!Next]_Promise!vars
  <2> SUFFICES ASSUME OnceInv, [Next]_vars PROVE [Promise!Next]_Promise!vars
    OBVIOUS
  <2>0. UNCHANGED hist => UNCHANGED Counts
    BY DEF hist, Counts
  <2> USE DEF Promise!vars, Promise!Next
  <2>1. ASSUME NEW t \in AdminTxns, QueueCommit(t) PROVE Promise!Issue
    BY <2>1 DEF QueueCommit, Promise!Issue, host
  <2>2. CASE BeginCommand
    <3>1. reply.body.cmd \in (1 .. issued) \ acted
      BY <2>2 DEF BeginCommand, OnceInv, HandedOut, CommandsKnown, TypeOK, Reply, Command
    <3> QED
      BY <2>2, <3>1 DEF BeginCommand, Promise!Begin
  <2>3. CASE Apply
    <3>1. cur.cmd \in acted \ installed
      BY <2>3 DEF Apply, OnceInv, HandledOnce, Handling
    <3> QED
      BY <2>3, <3>1 DEF Apply, Promise!Install
  <2>4. CASE UNCHANGED <<cur, Counts>>
    BY <2>4 DEF Counts
  <2>5. CASE UNCHANGED Counts /\ cur' = NoCmd
    BY <2>5 DEF Counts, NoCmd, Promise!Drop
  <2>6. CASE UNCHANGED vars
    BY <2>6 DEF vars
  <2>7. AdminNext => UNCHANGED <<cur, Counts>> \/ \E t \in AdminTxns : QueueCommit(t)
    BY <2>0 DEF AdminNext, ListRead, ListCommit, QueueRead, host
  <2>8. ServerNext => UNCHANGED <<cur, Counts>>
    BY <2>0 DEF ServerNext, HeartbeatCommit, AckCommit, Abort, Deploy, ServerRestart, TimePasses, host, Counts
  <2>9. DownloadAcked \/ Download \/ ApplyingAcked => UNCHANGED <<cur, Counts>>
    BY <2>0 DEF DownloadAcked, Download, ApplyingAcked
  <2>10. DownloadFails \/ ApplyFails \/ OkAckFails => UNCHANGED <<cur, Counts>>
    BY <2>0 DEF DownloadFails, ApplyFails, OkAckFails, ReportError
  <2>11. SkipDone \/ ErrorAcked \/ ScheduleRestart => UNCHANGED Counts /\ cur' = NoCmd
    BY <2>0 DEF SkipDone, ErrorAcked, ScheduleRestart
  <2>12. Timeout \/ SendHeartbeat \/ HeartbeatIdle => UNCHANGED <<cur, Counts>>
    BY <2>0 DEF Timeout, SendHeartbeat, HeartbeatIdle, host
  <2>13. Boot \/ SeesActive \/ Rollback => UNCHANGED <<cur, Counts>>
    BY <2>0 DEF Boot, SeesActive, Rollback
  <2>14. Exit => UNCHANGED Counts /\ cur' = NoCmd
    BY <2>0 DEF Exit
  <2> QED
    BY <2>1, <2>2, <2>3, <2>4, <2>5, <2>6, <2>7, <2>8, <2>9, <2>10, <2>11, <2>12,
       <2>13, <2>14 DEF Next, AgentNext, CommandNext
<1> QED
  BY <1>1, <1>2, OnceCorrect, PTL DEF Spec, ImplementsUpdateCommand, Promise!Spec

-----------------------------------------------------------------------------
(* Proof of the version invariant.                                         *)

\* What is held stays held and what is kept stays kept: when the pack goes back
\* from v to an older one, v joins the recalled versions.
LEMMA DeployHolds ==
    ASSUME TypeOK, Deploy
    PROVE  /\ recalled \subseteq recalled'
           /\ \A v \in Nat : Held(v) => v <= pack' \/ v \in recalled'
<1>1. pack \in Nat /\ pack' \in Nat /\ recalled' = recalled \cup (pack' + 1) .. pack
  BY DeployType DEF TypeOK, Deploy, Version
<1>2. recalled \subseteq recalled'
  BY <1>1, Zenon
<1>3. ASSUME NEW v \in Nat, Held(v) PROVE v <= pack' \/ v \in recalled'
  <2>1. CASE v \in recalled
    BY <1>2, <2>1
  <2>2. CASE v <= pack
    <3>1. v <= pack' \/ v \in (pack' + 1) .. pack
      BY <1>1, <2>2, Between
    <3> QED
      BY <1>1, <3>1, Zenon
  <2> QED
    BY <1>3, <2>1, <2>2 DEF Held, Kept
<1> QED
  BY <1>2, <1>3

\* A step of the server or of a session that leaves the pack alone: the host is
\* untouched, and nothing in the database, in a session or in an answer is
\* a version that was never shipped.
LEMMA ServerStep ==
    ASSUME VersionInv, TypeOK', UNCHANGED <<host, pack, recalled>>,
           Held(known'), Held(row'.target), Held(reply'.body.target),
           \A t \in Txns : Held(txn'[t].seen.target),
           \A t \in Txns : txn'[t].kind = "queue" => Held(txn'[t].version)
    PROVE  VersionInv'
<1> USE DEF VersionInv
<1>1. UNCHANGED <<pc, cur, running, disk, backup, armed, fetched>>
  BY DEF host, files
<1>2. Shipped'
  BY <1>1 DEF Shipped, Held, Kept
<1>3. FetchedNewest' /\ SnapshotNotOlder' /\ DiskNotBehind' /\ Process'
  BY <1>1 DEF FetchedNewest, SnapshotNotOlder, DiskNotBehind, Process, Kept
<1> QED
  BY <1>2, <1>3

\* A step of the agent: the server's row, pack and history are untouched.
LEMMA HostStep ==
    ASSUME VersionInv, TypeOK', UNCHANGED <<row, pack, recalled>>,
           Held(known'), Held(reply'.body.target),
           \A t \in Txns : txn'[t] = txn[t] \/ (txn'[t].seen = row /\ txn'[t].kind # "queue"),
           Held(running'), Held(disk'), Held(fetched'), Held(armed'), Held(cur'.target),
           \A b \in backup' : Held(b)
    PROVE  Shipped'
<1>1. pack >= 1 /\ Held(row.target)
  BY DEF VersionInv, Shipped
<1>2. ASSUME NEW t \in Txns
      PROVE  Held(txn'[t].seen.target) /\ (txn'[t].kind = "queue" => Held(txn'[t].version))
  BY <1>1 DEF VersionInv, Shipped
<1> QED
  BY <1>1, <1>2 DEF Shipped, Held, Kept

\* Version 0, the pack and what the API believes the pack to be are held.
LEMMA HeldVersions ==
    ASSUME VersionInv
    PROVE  Held(0) /\ Held(pack) /\ Held(PackVersion)
BY DEF VersionInv, TypeOK, Version, Shipped, Held, Kept, PackVersion

LEMMA VersionServer ==
    ASSUME VersionInv, TypeOK', AdminNext \/ ServerNext PROVE VersionInv'
<1> USE DEF VersionInv
<1>s. AgentTxns \subseteq Txns /\ AdminTxns \subseteq Txns
  BY DEF Txns
<1>r. row \in Row /\ \A t \in Txns : txn[t].seen \in Row
  BY DEF TypeOK, Txn
<1>t. /\ Held(row.target) /\ Held(reply.body.target) /\ Held(known)
      /\ \A t \in Txns : Held(txn[t].seen.target)
  BY DEF Shipped
<1>v. \A t \in Txns : txn[t].kind = "queue" => Held(txn[t].version)
  BY DEF Shipped
<1>f. FreeTxn.kind = "free" /\ FreeTxn.seen.target = 0
  BY DEF FreeTxn, FreshRow
<1>b. Held(NoCmd.target) /\ NoReply.body = NoCmd /\ Failed.body = NoCmd
  BY HeldVersions DEF NoCmd, NoReply, Failed
<1>m. ASSUME NEW seen \in Row, NEW new \in Row, Held(new.target), row' = Merge(seen, new)
      PROVE  Held(row'.target)
  <2>1. row'.target \in {new.target, row.target}
    BY <1>m, <1>r DEF Merge, Dirty
  <2> QED
    BY <1>m, <1>t, <2>1
<1>e. ASSUME NEW t \in Txns, Release(t)
      PROVE  /\ \A u \in Txns : Held(txn'[u].seen.target)
             /\ \A u \in Txns : txn'[u].kind = "queue" => Held(txn'[u].version)
  <2>1. \A u \in Txns : txn'[u] = txn[u] \/ txn'[u] = FreeTxn
    BY <1>e DEF Release, TypeOK
  <2>2. Held(FreeTxn.seen.target)
    BY <1>f, HeldVersions
  <2>3. \A u \in Txns : Held(txn'[u].seen.target)
    BY <1>t, <2>1, <2>2
  <2>4. \A u \in Txns : txn'[u].kind = "queue" => Held(txn'[u].version)
    BY <1>v, <1>f, <2>1
  <2> QED
    BY <2>3, <2>4
<1>1. ASSUME NEW t \in AdminTxns, NEW kind, NEW version, kind # "queue" \/ Held(version),
             Begin(t, kind, 0, "", version), known' = PackVersion,
             UNCHANGED <<row, pack, call, reply, host, hist>>
      PROVE  VersionInv'
  <2>1. \A u \in Txns : \/ txn'[u] = txn[u]
                        \/ txn'[u].seen = row /\ txn'[u].kind = kind /\ txn'[u].version = version
    BY <1>1, <1>s DEF Begin, TypeOK
  <2>2. row' = row /\ reply' = reply /\ UNCHANGED <<host, pack, recalled>> /\ Held(known')
    BY <1>1, HeldVersions DEF hist
  <2>3. \A u \in Txns : Held(txn'[u].seen.target)
    BY <1>t, <2>1
  <2>4. \A u \in Txns : txn'[u].kind = "queue" => Held(txn'[u].version)
    BY <1>1, <1>v, <2>1
  <2> QED
    BY <1>t, <2>2, <2>3, <2>4, ServerStep
<1>2. ASSUME NEW t \in AdminTxns, ListCommit(t) PROVE VersionInv'
  <2>1. Expired(txn[t].seen) \in Row /\ Expired(txn[t].seen).target = txn[t].seen.target
    BY <1>r, <1>s, Constants DEF Expired, Row
  <2>2. Held(Expired(txn[t].seen).target)
    BY <2>1, <1>s, <1>t
  <2>3. Held(row'.target)
    BY <1>2, <2>1, <2>2, <1>r, <1>s, <1>m DEF ListCommit
  <2>4. UNCHANGED <<host, pack, known, recalled, reply>> /\ Release(t)
    BY <1>2 DEF ListCommit, hist
  <2> QED
    BY <2>3, <2>4, <1>e, <1>t, <1>s, ServerStep
<1>3. ASSUME NEW t \in AdminTxns, QueueCommit(t) PROVE VersionInv'
  <2>1. row'.target \in {txn[t].version, row.target}
    BY <1>3, <1>r, <1>s DEF QueueCommit, Merge, Dirty, Row
  <2>2. Held(row'.target)
    BY <1>3, <2>1, <1>t, <1>v, <1>s DEF QueueCommit
  <2>3. UNCHANGED <<host, pack, known, recalled, reply>> /\ Release(t)
    BY <1>3 DEF QueueCommit
  <2> QED
    BY <2>2, <2>3, <1>e, <1>t, <1>s, ServerStep
<1>4. ASSUME NEW t \in AgentTxns, HeartbeatCommit(t) PROVE VersionInv'
  <2> DEFINE seen == txn[t].seen
             mine == [seen EXCEPT !.version = txn[t].version,
                                  !.status = IF Deliverable(seen) = NoCmd THEN @ ELSE "sent"]
             body == Deliverable(seen)
  <2>1. seen \in Row /\ mine \in Row /\ mine.target = seen.target
    BY <1>r, <1>s, Constants DEF Row, Txn, TypeOK
  <2>0. Held(mine.target) /\ Held(seen.target)
    BY <2>1, <1>s, <1>t
  <2>2. row' = Merge(seen, mine) /\ UNCHANGED <<host, pack, known, recalled>> /\ Release(t)
    BY <1>4 DEF HeartbeatCommit, hist
  <2>3. Held(row'.target)
    <3> HIDE DEF seen, mine
    <3> QED BY <2>0, <2>1, <2>2, <1>m
  <2>4. Held(body.target)
    BY <2>0, <1>b DEF Deliverable
  <2>5. Held(reply'.body.target)
    BY <1>4, <2>4, <1>t DEF HeartbeatCommit, Answer
  <2> QED
    BY <2>2, <2>3, <2>5, <1>e, <1>t, <1>s, ServerStep
<1>5. ASSUME NEW t \in AgentTxns, AckCommit(t) PROVE VersionInv'
  <2>1. Acked(txn[t].seen, t) \in Row /\ Acked(txn[t].seen, t).target = txn[t].seen.target
    BY <1>r, <1>s DEF Acked, Row, TypeOK, Txn
  <2>2. Held(Acked(txn[t].seen, t).target)
    BY <2>1, <1>s, <1>t
  <2>3. Held(row'.target)
    BY <1>5, <2>1, <2>2, <1>r, <1>s, <1>t, <1>m DEF AckCommit
  <2>4. Held(reply'.body.target)
    BY <1>5, <1>b, <1>t DEF AckCommit, Answer
  <2>5. UNCHANGED <<host, pack, known, recalled>> /\ Release(t)
    BY <1>5 DEF AckCommit, hist
  <2> QED
    BY <2>3, <2>4, <2>5, <1>e, <1>t, <1>s, ServerStep
<1>6. ASSUME NEW t \in Txns, Abort(t) PROVE VersionInv'
  <2>1. Held(reply'.body.target)
    BY <1>6, <1>b, <1>t DEF Abort, Answer
  <2>2. UNCHANGED <<host, row, pack, known, recalled>> /\ Release(t)
    BY <1>6 DEF Abort, serverVars, hist
  <2> QED
    BY <2>1, <2>2, <1>e, <1>t, ServerStep
<1>7. CASE ServerRestart
  <2>1. Held(reply'.body.target) /\ known' = 0 /\ UNCHANGED <<host, row, pack, recalled>>
    BY <1>7, <1>b, <1>t DEF ServerRestart, hist
  <2>2. \A u \in Txns : txn'[u] = FreeTxn
    BY <1>7 DEF ServerRestart
  <2> QED
    BY <2>1, <2>2, <1>f, <1>t, HeldVersions, ServerStep
<1>8. CASE TimePasses
  <2>1. row'.target = row.target /\ UNCHANGED <<pack, known, recalled, txn, reply, host>>
    BY <1>8, <1>r DEF TimePasses, Row, wire, hist
  <2> QED
    BY <2>1, <1>t, <1>v, ServerStep
<1>9. \A t \in AdminTxns : ListRead(t) \/ QueueRead(t) => VersionInv'
  BY <1>1, HeldVersions DEF ListRead, QueueRead
<1>10. CASE Deploy
  <2>1. UNCHANGED <<row, known, txn, reply, pc, cur, running, disk, backup, armed, fetched>>
    BY <1>10 DEF Deploy, wire, host, files
  <2>2. recalled \subseteq recalled' /\ \A v \in Nat : Held(v) => v <= pack' \/ v \in recalled'
    BY <1>10, DeployHolds
  <2>3. /\ known \in Nat /\ running \in Nat /\ disk \in Nat /\ fetched \in Nat /\ armed \in Nat
        /\ backup \subseteq Nat /\ row.target \in Nat /\ reply.body.target \in Nat
        /\ cur.target \in Nat /\ \A t \in Txns : txn[t].seen.target \in Nat /\ txn[t].version \in Nat
    BY DEF TypeOK, Version, Row, Reply, Command, Txn
  <2>4. Shipped'
    BY <1>10, <2>1, <2>2, <2>3, DeployType DEF Shipped, Held, Kept
  <2>5. FetchedNewest' /\ SnapshotNotOlder' /\ DiskNotBehind' /\ Process'
    BY <2>1, <2>2 DEF FetchedNewest, SnapshotNotOlder, DiskNotBehind, Process, Kept
  <2> QED
    BY <2>4, <2>5
<1> QED
  BY <1>2, <1>3, <1>4, <1>5, <1>6, <1>7, <1>8, <1>9, <1>10 DEF AdminNext, ServerNext

\* What sending a request or ending one does to sessions and answers.
LEMMA HostWire ==
    ASSUME TypeOK, VersionInv
    PROVE  /\ \A kind \in {"heartbeat", "ack"} : \A cmd, status, version :
                Send(kind, cmd, status, version) =>
                  /\ reply' = NoReply
                  /\ \A t \in Txns : txn'[t] = txn[t] \/ (txn'[t].seen = row /\ txn'[t].kind # "queue")
           /\ Held(NoReply.body.target) /\ Held(Failed.body.target) /\ Held(NoCmd.target)
<1>1. NoReply.body.target = 0 /\ Failed.body.target = 0 /\ NoCmd.target = 0
  BY DEF NoReply, Failed, NoCmd
<1>2. Held(0)
  BY HeldVersions
<1>3. ASSUME NEW kind \in {"heartbeat", "ack"}, NEW cmd, NEW status, NEW version,
             Send(kind, cmd, status, version)
      PROVE  /\ reply' = NoReply
             /\ \A t \in Txns : txn'[t] = txn[t] \/ (txn'[t].seen = row /\ txn'[t].kind # "queue")
  BY <1>3 DEF Send, Begin, Txns, TypeOK
<1> QED
  BY <1>1, <1>2, <1>3

LEMMA VersionAgent ==
    ASSUME VersionInv, TypeOK', AgentNext PROVE VersionInv'
<1> USE DEF VersionInv
<1>t. /\ Held(known) /\ Held(running) /\ Held(disk) /\ Held(fetched) /\ Held(armed) /\ Held(cur.target)
      /\ Held(reply.body.target) /\ \A b \in backup : Held(b)
  BY DEF Shipped
<1>n. /\ running \in Nat /\ disk \in Nat /\ fetched \in Nat /\ pack \in Nat /\ pack >= 1
      /\ \A b \in backup : b \in Nat
  BY DEF TypeOK, Version, Shipped
<1>z. Held(NoCmd.target) /\ Held(0) /\ Held(Torn) /\ Held(NoReply.body.target) /\ Held(Failed.body.target)
  BY HostWire, HeldVersions DEF Torn
<1>k. \A v \in Nat : Kept(0, v) /\ Kept(v, v)
  BY DEF Kept
\* Steps that leave the versions on the host alone.
<1>a. ASSUME UNCHANGED <<serverVars, running, disk, backup, armed, recalled>>,
             fetched' = fetched \/ (fetched' = 0 /\ pc' \notin {"ackApplying", "apply", "ackOk"}),
             Held(cur'.target), Held(reply'.body.target),
             \A t \in Txns : txn'[t] = txn[t] \/ (txn'[t].seen = row /\ txn'[t].kind # "queue"),
             pc' \in {"ackApplying", "apply", "ackOk"} => cur' = cur /\ pc \in {"ackApplying", "apply", "ackOk"},
             pc' = "ackOk" => pc = "ackOk", pc' = "off" => pc = "off"
      PROVE  VersionInv'
  <2>1. Shipped'
    BY <1>a, <1>t, <1>z, HostStep DEF serverVars
  <2>2. FetchedNewest' /\ SnapshotNotOlder' /\ DiskNotBehind' /\ Process'
    BY <1>a DEF FetchedNewest, SnapshotNotOlder, DiskNotBehind, Process, Kept
  <2> QED
    BY <2>1, <2>2
<1>1. CASE Timeout
  <2>1. /\ UNCHANGED <<serverVars, running, disk, backup, armed, recalled, fetched, pc, cur, txn>>
        /\ reply' = Failed
    BY <1>1 DEF Timeout, host, files, hist
  <2> QED
    BY <1>a, <1>t, <1>z, <2>1
<1>2. CASE SendHeartbeat
  <2>1. /\ reply' = NoReply
        /\ \A t \in Txns : txn'[t] = txn[t] \/ (txn'[t].seen = row /\ txn'[t].kind # "queue")
    BY <1>2, HostWire DEF SendHeartbeat
  <2> QED
    BY <1>2, <1>a, <1>t, <1>z, <2>1 DEF SendHeartbeat, files, hist
<1>3. CASE HeartbeatIdle \/ SkipDone \/ DownloadAcked \/ ApplyingAcked \/ ErrorAcked
  <2>1. /\ pc' \in {"loop", "download", "apply"} /\ (pc' = "apply" => pc = "ackApplying" /\ cur' = cur)
        /\ (cur' = cur \/ cur' = NoCmd) /\ txn' = txn /\ reply' = NoReply
        /\ UNCHANGED <<serverVars, running, disk, backup, armed, fetched, recalled>>
    BY <1>3 DEF HeartbeatIdle, SkipDone, DownloadAcked, ApplyingAcked, ErrorAcked, Returned, files, hist
  <2>2. Held(cur'.target)
    BY <2>1, <1>t, <1>z
  <2> QED
    BY <2>1, <2>2, <1>a, <1>z
<1>4. CASE BeginCommand
  <2>1. /\ reply' = NoReply
        /\ \A t \in Txns : txn'[t] = txn[t] \/ (txn'[t].seen = row /\ txn'[t].kind # "queue")
    BY <1>4, HostWire DEF BeginCommand
  <2>2. /\ pc' \in {"ackSkip", "ackDownloading"} /\ cur' = reply.body
        /\ UNCHANGED <<serverVars, running, disk, backup, armed, fetched, recalled>>
    BY <1>4 DEF BeginCommand, files
  <2> QED
    BY <1>a, <1>t, <1>z, <2>1, <2>2
<1>5. CASE Download
  <2>1. /\ reply' = NoReply
        /\ \A t \in Txns : txn'[t] = txn[t] \/ (txn'[t].seen = row /\ txn'[t].kind # "queue")
    BY <1>5, HostWire DEF Download
  <2>2. /\ pc' = "ackApplying" /\ fetched' = pack /\ known' = PackVersion
        /\ UNCHANGED <<row, pack, recalled, cur, running, disk, backup, armed>>
    BY <1>5 DEF Download, hist
  <2>3. Shipped'
    BY <1>t, <1>z, <2>1, <2>2, HeldVersions, HostStep
  <2>4. FetchedNewest'
    BY <1>t, <1>n, <2>2 DEF FetchedNewest, Held, Kept
  <2>5. SnapshotNotOlder' /\ DiskNotBehind' /\ Process'
    BY <2>2 DEF SnapshotNotOlder, DiskNotBehind, Process, Kept
  <2> QED
    BY <2>3, <2>4, <2>5
<1>6. CASE Apply
  <2>1. /\ reply' = NoReply
        /\ \A t \in Txns : txn'[t] = txn[t] \/ (txn'[t].seen = row /\ txn'[t].kind # "queue")
    BY <1>6, HostWire DEF Apply
  <2>2. /\ pc = "apply" /\ pc' = "ackOk" /\ disk' = fetched /\ backup' = {disk}
        /\ UNCHANGED <<serverVars, cur, running, armed, fetched, recalled>>
    BY <1>6 DEF Apply
  <2>3. Shipped'
    BY <1>t, <1>z, <2>1, <2>2, HostStep DEF serverVars
  <2>4. FetchedNewest'
    BY <1>k, <1>n, <2>2 DEF FetchedNewest, Kept
  <2>5. SnapshotNotOlder' /\ DiskNotBehind' /\ Process'
    BY <2>2 DEF SnapshotNotOlder, DiskNotBehind, FetchedNewest, Process, Kept
  <2> QED
    BY <2>3, <2>4, <2>5
<1>7. ASSUME NEW at, ReportError(at), disk' \in {disk, Torn}, backup' \subseteq backup
      PROVE  VersionInv'
  <2>1. /\ reply' = NoReply
        /\ \A t \in Txns : txn'[t] = txn[t] \/ (txn'[t].seen = row /\ txn'[t].kind # "queue")
    BY <1>7, HostWire DEF ReportError
  <2>2. pc' = "ackError" /\ fetched' = 0 /\ UNCHANGED <<serverVars, cur, running, armed, recalled>>
    BY <1>7 DEF ReportError, hist
  <2>3. Held(disk') /\ \A b \in backup' : Held(b)
    BY <1>7, <1>t, <1>z
  <2>4. Shipped'
    BY <1>t, <1>z, <2>1, <2>2, <2>3, HostStep DEF serverVars
  <2>5. SnapshotNotOlder' /\ DiskNotBehind'
    BY <1>7, <2>2 DEF SnapshotNotOlder, DiskNotBehind, Kept
  <2> QED
    BY <2>2, <2>4, <2>5 DEF FetchedNewest, Process
<1>8. CASE DownloadFails \/ ApplyFails \/ OkAckFails
  BY <1>8, <1>7 DEF DownloadFails, ApplyFails, OkAckFails
<1>9. CASE ScheduleRestart
  <2>1. /\ pc = "ackOk" /\ pc' = "stopping" /\ armed' = running /\ fetched' = 0
        /\ reply' = NoReply /\ cur' = NoCmd /\ txn' = txn
        /\ UNCHANGED <<serverVars, running, disk, backup, recalled>>
    BY <1>9 DEF ScheduleRestart, Returned, hist
  <2>2. Shipped'
    BY <1>t, <1>z, <2>1, HostStep DEF serverVars
  <2>3. SnapshotNotOlder' /\ DiskNotBehind'
    BY <2>1 DEF SnapshotNotOlder, DiskNotBehind, Kept
  <2> QED
    BY <2>1, <2>2, <2>3 DEF FetchedNewest, Process
<1>10. CASE Exit
  <2>1. /\ pc' = "off" /\ reply' = NoReply /\ cur' = NoCmd /\ txn' = txn /\ running' = 0 /\ fetched' = 0
        /\ UNCHANGED <<serverVars, armed, recalled>>
        /\ disk' \in {disk, Torn} /\ (backup' = backup \/ backup' \subseteq {disk})
    BY <1>10 DEF Exit, hist
  <2>2. Held(disk') /\ \A b \in backup' : Held(b)
    BY <1>t, <1>z, <2>1
  <2>3. Shipped'
    BY <1>t, <1>z, <2>1, <2>2, HostStep DEF serverVars
  <2>4. SnapshotNotOlder'
    BY <2>1 DEF SnapshotNotOlder, Kept
  <2>5. DiskNotBehind'
    <3>1. disk' \in Nat
      BY <1>n, <2>1 DEF Torn
    <3> QED
      BY <2>1, <3>1 DEF DiskNotBehind, Kept
  <2> QED
    BY <2>1, <2>3, <2>4, <2>5 DEF FetchedNewest, Process
<1>11. CASE Boot
  <2>1. /\ pc' = "loop" /\ running' = disk
        /\ UNCHANGED <<serverVars, txn, reply, cur, disk, backup, fetched, armed, recalled>>
    BY <1>11 DEF Boot, wire, files, hist
  <2>2. Shipped'
    BY <1>t, <2>1, HostStep DEF serverVars
  <2>3. SnapshotNotOlder' /\ DiskNotBehind'
    BY <1>n, <2>1 DEF SnapshotNotOlder, DiskNotBehind, Kept
  <2> QED
    BY <2>1, <2>2, <2>3 DEF FetchedNewest, Process
<1>12. CASE Rollback
  <2>1. /\ pc = "off" /\ pc' = "off" /\ disk' \in backup /\ backup' = {} /\ armed' = 0
        /\ UNCHANGED <<serverVars, txn, reply, cur, running, fetched, recalled>>
    BY <1>12 DEF Rollback, wire, hist
  <2>2. Held(disk') /\ disk' \in Nat /\ running = 0
    BY <1>t, <1>n, <2>1 DEF Process
  <2>3. Shipped'
    BY <1>t, <1>z, <2>1, <2>2, HostStep DEF serverVars
  <2>4. SnapshotNotOlder' /\ DiskNotBehind'
    BY <2>1, <2>2 DEF SnapshotNotOlder, DiskNotBehind, Kept
  <2> QED
    BY <2>1, <2>2, <2>3, <2>4 DEF FetchedNewest, Process
<1>13. CASE SeesActive
  <2>1. /\ armed' = 0
        /\ UNCHANGED <<serverVars, txn, reply, pc, cur, running, disk, backup, fetched, recalled>>
    BY <1>13 DEF SeesActive, wire, hist
  <2>2. Shipped'
    BY <1>t, <1>z, <2>1, HostStep DEF serverVars
  <2>3. SnapshotNotOlder'
    BY <1>n, <2>1 DEF SnapshotNotOlder, Kept
  <2>4. FetchedNewest' /\ DiskNotBehind' /\ Process'
    BY <1>n, <2>1 DEF FetchedNewest, DiskNotBehind, Process, Kept
  <2> QED
    BY <2>2, <2>3, <2>4
<1> QED
  BY <1>1, <1>2, <1>3, <1>4, <1>5, <1>6, <1>8, <1>9, <1>10, <1>11, <1>12, <1>13
     DEF AgentNext, CommandNext

\* The version invariant holds in every state.
THEOREM VersionCorrect == Spec => []VersionInv
<1>1. Init => VersionInv
  <2> SUFFICES ASSUME Init PROVE VersionInv
    OBVIOUS
  <2>1. TypeOK
    BY InitTypes
  <2>2. FreeTxn.kind = "free" /\ FreeTxn.seen.target = 0 /\ FreshRow.target = 0
        /\ NoReply.body.target = 0 /\ NoCmd.target = 0
    BY DEF FreeTxn, FreshRow, NoReply, NoCmd
  <2>3. pack \in Nat /\ pack >= 1 /\ \A b \in backup : b \in Nat /\ b <= pack
    <3>1. pack \in Nat /\ pack >= 1
      BY BoundsAssumption DEF Init
    <3>2. \A b \in 1 .. (pack - 1) : b \in Nat /\ b <= pack
      BY <3>1
    <3> QED
      BY <3>1, <3>2 DEF Init
  <2>4. row.target = 0
    BY <2>2 DEF Init, FreshRow
  <2>5. Shipped
    BY <2>2, <2>3, <2>4 DEF Init, Shipped, Held, Kept
  <2>6. SnapshotNotOlder /\ DiskNotBehind
    BY <2>3 DEF Init, SnapshotNotOlder, DiskNotBehind, Kept
  <2> QED
    BY <2>1, <2>5, <2>6 DEF Init, VersionInv, FetchedNewest, Process
<1>2. VersionInv /\ [Next]_vars => VersionInv'
  <2>1. ASSUME VersionInv, UNCHANGED vars PROVE VersionInv'
    BY <2>1 DEF vars, VersionInv, TypeOK, Shipped, Held, Kept, FetchedNewest, SnapshotNotOlder,
                DiskNotBehind, Process
  <2>2. VersionInv => TypeOK
    BY DEF VersionInv
  <2> QED
    BY <2>1, <2>2, ServerTypes, AgentTypes, VersionServer, VersionAgent DEF Next
<1> QED
  BY <1>1, <1>2, PTL DEF Spec

\* A reported success is the complete package that was downloaded, and is below
\* the version asked for only if the server has gone back behind that version.
THEOREM OkAckIsTruthful == Spec => []OkAckTruthful
<1>1. VersionInv => OkAckTruthful
  BY DEF VersionInv, FetchedNewest, Process, OkAckTruthful, Torn, TypeOK, Version
<1> QED
  BY <1>1, VersionCorrect, PTL

\* The process runs code newer than the package on disk only if the server has
\* gone back behind the code that runs.
THEOREM DiskKeepsUp == Spec => []DiskNotBehind
<1>1. VersionInv => DiskNotBehind
  BY DEF VersionInv
<1> QED
  BY <1>1, VersionCorrect, PTL

\* The package goes back only behind a server that went back, or to a snapshot
\* that is no more behind the code that made the update than that.
THEOREM DowngradesHaveAReason == Spec => NoDowngrade
<1>1. VersionInv /\ [Next]_vars =>
         [disk' < disk /\ disk' # Torn =>
             \/ disk \in recalled
             \/ pc = "off" /\ armed # 0 /\ Kept(armed, disk')]_vars
  <2> SUFFICES ASSUME VersionInv, Next, disk' < disk, disk' # Torn
               PROVE  disk \in recalled \/ (pc = "off" /\ armed # 0 /\ Kept(armed, disk'))
    OBVIOUS
  <2>1. disk \in Nat /\ fetched \in Nat
    BY DEF VersionInv, TypeOK, Version
  <2>2. disk' # disk
    BY <2>1
  <2>3. Apply \/ Rollback
    BY <2>2 DEF Next, AdminNext, ListRead, ListCommit, QueueRead, QueueCommit, ServerNext, HeartbeatCommit,
                AckCommit, Abort, Deploy, ServerRestart, TimePasses, AgentNext, CommandNext, Timeout,
                SendHeartbeat, HeartbeatIdle, BeginCommand, SkipDone, DownloadAcked, Download, ApplyingAcked,
                DownloadFails, ApplyFails, OkAckFails, ReportError, ErrorAcked, ScheduleRestart, Exit, Boot,
                SeesActive, host, files
  <2>4. CASE Apply
    <3>1. disk' = fetched /\ (disk <= fetched \/ disk \in recalled)
      BY <2>4 DEF Apply, VersionInv, FetchedNewest, Kept
    <3> QED
      BY <2>1, <3>1
  <2>5. CASE Rollback
    BY <2>5 DEF Rollback, VersionInv, SnapshotNotOlder
  <2> QED
    BY <2>3, <2>4, <2>5
<1> QED
  BY <1>1, VersionCorrect, PTL DEF Spec, NoDowngrade
=============================================================================
