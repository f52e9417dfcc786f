-------------------------- MODULE EnrollmentProofs --------------------------
(***************************************************************************)
(* Proofs about Enrollment.                                                *)
(***************************************************************************)
EXTENDS Enrollment, FiniteSetTheorems, TLAPS

-----------------------------------------------------------------------------
(* The inductive invariant.                                                *)

\* A registration counts from what it read, and read before it drew its secret;
\* it goes on only for an agent that was not revoked then.
CallsKnown ==
    /\ \A s \in Busy : /\ call[s].used < call[s].secret /\ call[s].secret <= last
                       /\ call[s].row # None =>
                             call[s].seen \in Machine /\ call[s].seen.status # "REVOKED"
    /\ \A t \in Tokens : Known(t) => token[t].uses <= last
    /\ \A h \in Hosts : host[h].token # None => host[h].asset # None

\* Every registration, committed or in progress, drew a secret of its own.
CallsOf(t) == {s \in Busy : call[s].token = t}
Counted == \A t \in Tokens : IsFiniteSet(CallsOf(t)) /\ uses[t] + Cardinality(CallsOf(t)) <= last

\* Without approval no agent is ever pending.
NonePending ==
    ~setting.approval => /\ \A m \in Live : row[m].status # "PENDING"
                         /\ \A s \in Busy : call[s].row # None => call[s].seen.status = "ACTIVE"

\* In turns, a registration is alone and commits over what it read.
Turns ==
    ~setting.overlap =>
        \A s \in Busy : /\ \A u \in Busy : u = s
                        /\ call[s].row # None => call[s].seen = row[call[s].row]
                        /\ Known(call[s].token) /\ call[s].used = token[call[s].token].uses
                        /\ token[call[s].token].limit = 1 => call[s].used = 0

\* A one-use token that registered shows it, whatever overlaps: every commit
\* writes a count above the one its session read.  In turns the count is exact.
OneUse ==
    \A t \in Tokens :
        /\ token[t].state = "absent" => uses[t] = 0
        /\ Known(t) /\ token[t].limit = 1 => uses[t] = 0 \/ token[t].uses >= 1
        /\ Known(t) /\ ~setting.overlap =>
              uses[t] = token[t].uses /\ (token[t].limit = 1 => token[t].uses <= 1)

EnrollInv == TypeOK /\ CallsKnown /\ Counted /\ NonePending /\ Turns /\ OneUse

-----------------------------------------------------------------------------
(* Every step keeps every part.                                            *)

\* What is there has the type of what is there.
LEMMA RowIsMachine == ASSUME TypeOK, NEW m \in Rows, Exists(m) PROVE row[m] \in Machine
  BY DEF TypeOK, Exists

LEMMA TokenIsToken == ASSUME TypeOK, NEW t \in Tokens, Known(t) PROVE token[t] \in Token
  BY DEF TypeOK, Known

LEMMA BusyIsCall == ASSUME TypeOK, NEW s \in Busy PROVE s \in Sessions /\ call[s] \in Call
  BY DEF TypeOK, Busy

\* A live token, and one that was made, is known; an absent one is not.
LEMMA LiveIsKnown ==
    ASSUME NEW t \in Tokens, token[t].state = "live" PROVE Known(t)
  BY DEF Known, NoToken

\* Rows keep their type when one gets a machine.
LEMMA RowsKeepType ==
    ASSUME TypeOK, NEW m \in Rows, NEW x \in Machine
    PROVE [row EXCEPT ![m] = x] \in [Rows -> Machine \cup {NoRow}]
  BY DEF TypeOK

LEMMA TokensKeepType ==
    ASSUME TypeOK, NEW t \in Tokens, NEW x \in Token \cup NoToken
    PROVE [token EXCEPT ![t] = x] \in [Tokens -> Token \cup NoToken]
  BY DEF TypeOK

\* A status a registration gives.
LEMMA StatusType == ASSUME NEW b \in BOOLEAN PROVE StatusFor(b) \in {"PENDING", "ACTIVE"}
  BY DEF StatusFor

\* What a registration writes is a machine.
LEMMA CommitsMachine ==
    ASSUME TypeOK, NEW c \in Call, NEW m \in Rows, Target(c, m),
           row' = [row EXCEPT ![m] = IF c.row = None THEN NewRow(c) ELSE Rewritten(c, @)]
    PROVE row' \in [Rows -> Machine \cup {NoRow}]
  <1> USE SettingsAssumption, NoneAssumption, BoundAssumption
  <1>1. c.host \in Hosts /\ c.asset \in Assets /\ c.token \in Tokens /\ c.secret \in 1 .. MaxSecret
    BY DEF Call
  <1>2. CASE c.row = None
    <2>1. SysUuid[c.host] \in Uuids /\ MachUuid[c.host] \in Uuids
      BY <1>1 DEF Uuids
    <2>2. (~setting.approval) \in BOOLEAN /\ StatusFor(~setting.approval) \in Status
      BY DEF StatusFor, Status
    <2>3. NewRow(c) \in Machine
      BY <1>1, <2>1, <2>2 DEF NewRow, Machine
    <2>4. row' = [row EXCEPT ![m] = NewRow(c)]
      BY <1>2
    <2> HIDE DEF NewRow
    <2> QED BY <2>3, <2>4, RowsKeepType
  <1>3. CASE c.row # None
    <2>1. row[m] \in Machine
      BY <1>3, RowIsMachine DEF Target
    <2> DEFINE now == row[m]
    <2> DEFINE x == IF c.seen.asset # c.asset THEN c.asset ELSE now.asset
               b == now.approved \/ (~setting.approval /\ ~c.seen.approved)
               y == IF c.seen.status # StatusFor(c.seen.approved)
                    THEN StatusFor(c.seen.approved) ELSE now.status
               z == IF c.seen.token # c.token THEN c.token ELSE now.token
    <2>2. /\ x \in Assets /\ b \in BOOLEAN /\ y \in Status /\ z \in Tokens \cup {None}
          /\ Rewritten(c, now) = [now EXCEPT !.asset = x, !.approved = b, !.status = y, !.secret = c.secret, !.token = z]
      <3>1. x \in Assets /\ z \in Tokens \cup {None}
        BY <1>1, <2>1 DEF Machine
      <3>2. b \in BOOLEAN
        OBVIOUS
      <3>3. y \in Status
        BY <2>1 DEF Machine, Status, StatusFor
      <3>4. Rewritten(c, now) = [now EXCEPT !.asset = x, !.approved = b, !.status = y, !.secret = c.secret, !.token = z]
        BY Zenon DEF Rewritten
      <3> QED BY <3>1, <3>2, <3>3, <3>4
    <2> HIDE DEF x, b, y, z
    <2>3. Rewritten(c, now) \in Machine
      BY <1>1, <2>1, <2>2 DEF Machine
    <2>4. row' = [row EXCEPT ![m] = Rewritten(c, row[m])]
      BY <1>3
    <2> QED BY <2>3, <2>4, RowsKeepType
  <1> QED BY <1>2, <1>3

\* Types.
LEMMA TypeKeeps == TypeOK /\ CallsKnown /\ Counted /\ Next => TypeOK'
  <1> SUFFICES ASSUME TypeOK, CallsKnown, Counted, Next PROVE TypeOK'
    OBVIOUS
  <1> USE SettingsAssumption, NoneAssumption, BoundAssumption
  <1>1. ASSUME NEW h \in Hosts, setting.overlap, GiveUp(h) PROVE TypeOK'
    BY <1>1 DEF GiveUp, TypeOK
  <1>2. ASSUME NEW h \in Hosts, Rejected(h) PROVE TypeOK'
    BY <1>2 DEF Rejected, TypeOK
  <1>3. ASSUME NEW h \in Hosts, Calm, Upload(h) PROVE TypeOK'
    <2>1. PICK m \in Mine(h) :
              row' = [row EXCEPT ![m] = [row[m] EXCEPT !.sys  = IF SysUuid[h] # None THEN SysUuid[h] ELSE @,
                                                       !.mach = IF MachUuid[h] # None THEN MachUuid[h] ELSE @]]
      BY <1>3 DEF Upload
    <2>2. m \in Rows /\ row[m] \in Machine
      BY RowIsMachine DEF Mine, Live
    <2> DEFINE now == [row[m] EXCEPT !.sys  = IF SysUuid[h] # None THEN SysUuid[h] ELSE @,
                                     !.mach = IF MachUuid[h] # None THEN MachUuid[h] ELSE @]
    <2>3. now \in Machine
      <3>1. /\ (IF SysUuid[h] # None THEN SysUuid[h] ELSE row[m].sys) \in Uuids
            /\ (IF MachUuid[h] # None THEN MachUuid[h] ELSE row[m].mach) \in Uuids
        BY <2>2 DEF Uuids, Machine
      <3> QED BY <2>2, <3>1 DEF Machine
    <2>4. row' = [row EXCEPT ![m] = now]
      BY <2>1
    <2> HIDE DEF now
    <2>5. row' \in [Rows -> Machine \cup {NoRow}]
      BY <2>2, <2>3, <2>4, RowsKeepType
    <2> QED BY <1>3, <2>5 DEF Upload, TypeOK
  <1>4. ASSUME NEW h \in Hosts, NEW s \in Sessions, Calm, Register(h, s) PROVE TypeOK'
    <2> DEFINE a == host[h].asset
               t == host[h].token
               m == IF Matches(h, a) = {} THEN None ELSE CHOOSE x \in Matches(h, a) : TRUE
               new == [host |-> h, asset |-> a, token |-> t, used |-> token[t].uses, row |-> m,
                       seen |-> IF m = None THEN NoRow ELSE row[m], secret |-> last + 1,
                       supersedes |-> Superseded(m, t)]
    <2>1. t \in Tokens /\ token[t] \in Token
      BY <1>4, LiveIsKnown, TokenIsToken DEF Register, Valid, TypeOK
    <2>2. a \in Assets
      BY <2>1, <1>4 DEF CallsKnown, TypeOK
    <2>3. m = None \/ (m \in Rows /\ row[m] \in Machine)
      <3>1. Matches(h, a) \subseteq Live
        BY DEF Matches, ByAsset, BySys, ByMach
      <3>2. m = None \/ m \in Live
        BY <3>1
      <3> HIDE DEF m
      <3>3. CASE m \in Live
        BY <3>3, RowIsMachine DEF Live
      <3> QED BY <3>2, <3>3
    <2>4. Superseded(m, t) \in Tokens \cup {None}
      BY <2>3 DEF Superseded, Machine
    <2>5. last + 1 \in 1 .. MaxSecret
      BY <1>4 DEF Register, TypeOK
    <2>6. (IF m = None THEN NoRow ELSE row[m]) \in Machine \cup {NoRow}
      BY <2>3
    <2>7. token[t].uses \in 0 .. MaxSecret
      BY <2>1 DEF Token
    <2> HIDE DEF a, t, m
    <2>8. new \in Call
      BY <2>1, <2>2, <2>3, <2>4, <2>5, <2>6, <2>7 DEF Call
    <2>9. call' = [call EXCEPT ![s] = new] /\ host' = [host EXCEPT ![h].waits = s]
      BY <1>4 DEF Register, a, t, m
    <2> HIDE DEF new
    <2>10. /\ last' \in 0 .. MaxSecret /\ setting' = setting
           /\ row' = row /\ token' = token /\ uses' = uses
      BY <1>4, <2>5 DEF Register, TypeOK
    <2> QED BY <2>8, <2>9, <2>10 DEF TypeOK
  <1>5. ASSUME NEW s \in Sessions, RegisterCommit(s) PROVE TypeOK'
    <2> DEFINE c == call[s]
    <2>1. s \in Busy /\ c \in Call
      BY <1>5, BusyIsCall DEF RegisterCommit
    <2>2. PICK m \in Rows :
             /\ Target(c, m)
             /\ Committable(c, row')
             /\ row' = [row EXCEPT ![m] = IF c.row = None THEN NewRow(c) ELSE Rewritten(c, @)]
      BY <1>5 DEF RegisterCommit
    <2>3. row' \in [Rows -> Machine \cup {NoRow}]
      BY <2>1, <2>2, CommitsMachine
    <2>4. token' \in [Tokens -> Token \cup NoToken]
      <3>1. ASSUME NEW t \in Tokens, t = c.token PROVE [token[t] EXCEPT !.uses = c.used + 1] \in Token
        <4>1. token[t] \in Token
          BY <2>2, <3>1, TokenIsToken DEF Committable
        <4>2. c.used + 1 \in 0 .. MaxSecret
          BY <2>1 DEF CallsKnown, Call, TypeOK
        <4> QED BY <4>1, <4>2 DEF Token
      <3>2. ASSUME NEW t \in Tokens, t = c.supersedes PROVE [token[t] EXCEPT !.state = "revoked"] \in Token
        <4>1. token[t] \in Token
          BY <2>2, <3>2, TokenIsToken DEF Committable
        <4> QED BY <4>1 DEF Token
      <3> QED BY <1>5, <3>1, <3>2 DEF RegisterCommit, TypeOK
    <2>5. uses' \in [Tokens -> 0 .. MaxSecret]
      <3>1. c.token \in Tokens /\ s \in CallsOf(c.token)
        BY <2>1 DEF Call, CallsOf
      <3>2. Cardinality(CallsOf(c.token)) >= 1
        BY <3>1, FS_EmptySet, FS_CardinalityType DEF Counted
      <3>3. uses[c.token] + 1 \in 0 .. MaxSecret
        BY <3>1, <3>2, FS_CardinalityType DEF Counted, TypeOK
      <3> QED BY <1>5, <3>1, <3>3 DEF RegisterCommit, TypeOK
    <2>6. host' \in [Hosts -> [asset : Assets \cup {None}, token : Tokens \cup {None},
                              secret : 0 .. MaxSecret, waits : Sessions \cup {None}]]
      <3>1. c.host \in Hosts /\ c.secret \in 0 .. MaxSecret /\ None \in Sessions \cup {None}
        BY <2>1 DEF Call
      <3>2. \/ host' = [host EXCEPT ![c.host].secret = c.secret, ![c.host].waits = None]
            \/ host' = [host EXCEPT ![c.host].waits = None]
            \/ host' = host
        BY <1>5 DEF RegisterCommit, Answer
      <3> QED BY <3>1, <3>2 DEF TypeOK
    <2> QED BY <1>5, <2>1, <2>3, <2>4, <2>5, <2>6 DEF RegisterCommit, TypeOK, Busy
  <1>6. ASSUME NEW s \in Sessions, RegisterAbort(s) PROVE TypeOK'
    BY <1>6 DEF RegisterAbort, TypeOK, Busy
  <1>7. ASSUME NEW t \in Tokens, Calm, Share(t) PROVE TypeOK'
    <2>1. [limit |-> NoLimit, uses |-> 0, state |-> "live"] \in Token
      BY DEF Token, NoLimit
    <2> QED BY <1>7, <2>1, TokensKeepType DEF Share, TypeOK
  <1>8. ASSUME NEW t \in Tokens, Calm, RevokeToken(t) PROVE TypeOK'
    <2>1. token[t] \in Token
      BY <1>8, TokenIsToken DEF RevokeToken, ChangeToken
    <2>2. [token[t] EXCEPT !.state = "revoked"] \in Token \cup NoToken
      BY <2>1 DEF Token, NoToken
    <2> QED BY <1>8, <2>2, TokensKeepType DEF RevokeToken, ChangeToken, TypeOK
  <1>9. ASSUME NEW t \in Tokens, Calm, DeleteToken(t) PROVE TypeOK'
    <2>1. token' \in [Tokens -> Token \cup NoToken]
      BY <1>9, TokensKeepType DEF DeleteToken, ChangeToken, NoToken
    <2>2. ASSUME NEW m \in Linked(t) PROVE [row[m] EXCEPT !.token = None] \in Machine
      <3>1. m \in Rows /\ row[m] \in Machine
        BY RowIsMachine DEF Linked, Live
      <3> QED BY <3>1 DEF Machine
    <2>3. row' \in [Rows -> Machine \cup {NoRow}]
      BY <1>9, <2>2 DEF DeleteToken, TypeOK
    <2> QED BY <1>9, <2>1, <2>3 DEF DeleteToken, ChangeToken, TypeOK
  <1>10. ASSUME NEW t \in Tokens, Calm, Expire(t) PROVE TypeOK'
    <2>1. token[t] \in Token
      BY <1>10, TokenIsToken DEF Expire, ChangeToken
    <2>2. [token[t] EXCEPT !.state = "expired"] \in Token \cup NoToken
      BY <2>1 DEF Token, NoToken
    <2> QED BY <1>10, <2>2, TokensKeepType DEF Expire, ChangeToken, TypeOK
  <1>11. ASSUME NEW h \in Hosts, NEW a \in Assets, NEW t \in Tokens, Does("enroll"), Enroll(h, a, t) PROVE TypeOK'
    <2>1. [limit |-> 1, uses |-> 0, state |-> "live"] \in Token
      <3>1. 1 \in {NoLimit, 1} /\ 0 \in 0 .. MaxSecret /\ "live" \in {"live", "expired", "revoked"}
        OBVIOUS
      <3> QED BY <3>1 DEF Token
    <2>2. token' \in [Tokens -> Token \cup NoToken]
      BY <1>11, <2>1, TokensKeepType DEF Enroll
    <2> QED BY <1>11, <2>2 DEF Enroll, Installed, TypeOK
  <1>12. ASSUME NEW h \in Hosts, NEW a \in Assets, NEW t \in Tokens, Calm, Install(h, a, t) PROVE TypeOK'
    BY <1>12 DEF Install, Installed, TypeOK
  <1>13. ASSUME NEW m \in Rows, Calm, Revoke(m) PROVE TypeOK'
    <2>1. row[m] \in Machine
      BY <1>13, RowIsMachine DEF Revoke, ChangeRow
    <2>2. [row[m] EXCEPT !.status = "REVOKED"] \in Machine
      BY <2>1 DEF Machine, Status
    <2> QED BY <1>13, <2>2, RowsKeepType DEF Revoke, ChangeRow, TypeOK
  <1>14. ASSUME NEW m \in Rows, Calm, Approve(m) PROVE TypeOK'
    <2>1. row[m] \in Machine
      BY <1>14, RowIsMachine DEF Approve, ChangeRow
    <2>2. [row[m] EXCEPT !.approved = TRUE, !.status = "ACTIVE"] \in Machine
      BY <2>1 DEF Machine, Status
    <2> QED BY <1>14, <2>2, RowsKeepType DEF Approve, ChangeRow, TypeOK
  <1>15. ASSUME NEW m \in Rows, Calm, Allow(m) PROVE TypeOK'
    <2>1. row[m] \in Machine
      BY <1>15, RowIsMachine DEF Allow, ChangeRow
    <2>2. [row[m] EXCEPT !.approved = TRUE, !.status = IF @ = "PENDING" THEN "ACTIVE" ELSE @] \in Machine
      BY <2>1 DEF Machine, Status
    <2> QED BY <1>15, <2>2, RowsKeepType DEF Allow, ChangeRow, TypeOK
  <1>16. ASSUME NEW m \in Rows, Calm, Withdraw(m) PROVE TypeOK'
    <2>1. row[m] \in Machine
      BY <1>16, RowIsMachine DEF Withdraw, ChangeRow
    <2>2. [row[m] EXCEPT !.approved = FALSE] \in Machine
      BY <2>1 DEF Machine, Status
    <2> QED BY <1>16, <2>2, RowsKeepType DEF Withdraw, ChangeRow, TypeOK
  <1>17. ASSUME NEW m \in Rows, Calm, Rotate(m) PROVE TypeOK'
    <2>1. row[m] \in Machine
      BY <1>17, RowIsMachine DEF Rotate, ChangeRow
    <2>2. last + 1 \in 1 .. MaxSecret
      BY <1>17 DEF Rotate, TypeOK
    <2>3. [row[m] EXCEPT !.secret = last + 1, !.status = "ACTIVE"] \in Machine
      BY <2>1, <2>2 DEF Machine, Status
    <2>4. row' \in [Rows -> Machine \cup {NoRow}]
      BY <1>17, <2>3, RowsKeepType DEF Rotate, ChangeRow
    <2> QED BY <1>17, <2>2, <2>4 DEF Rotate, ChangeRow, TypeOK
  <1>18. ASSUME NEW m \in Rows, Calm, Delete(m) PROVE TypeOK'
    BY <1>18 DEF Delete, ChangeRow, TypeOK
  <1>19. ASSUME NEW m \in Rows, NEW a \in Assets, Calm, Retag(m, a) PROVE TypeOK'
    <2>1. row[m] \in Machine
      BY <1>19, RowIsMachine DEF Retag, ChangeRow
    <2>2. [row[m] EXCEPT !.asset = a] \in Machine
      BY <2>1, <1>19 DEF Machine, Status
    <2> QED BY <1>19, <2>2, RowsKeepType DEF Retag, ChangeRow, TypeOK
  <1> QED BY <1>1, <1>2, <1>3, <1>4, <1>5, <1>6, <1>7, <1>8, <1>9, <1>10, <1>11, <1>12, <1>13, <1>14, <1>15, <1>16, <1>17, <1>18, <1>19
         DEF Next, AgentNext, TokenNext, RowNext, Does

\* A registration that begins: what it read, and from where.
LEMMA RegisterReads ==
    ASSUME TypeOK, CallsKnown, TypeOK', NEW h \in Hosts, NEW s \in Sessions, Register(h, s)
    PROVE  /\ s \notin Busy /\ Busy' = Busy \cup {s}
           /\ call'[s] \in Call
           /\ \A u \in Busy : call'[u] = call[u]
           /\ call'[s].token \in Tokens /\ Valid(call'[s].token)
           /\ call'[s].used = token[call'[s].token].uses
           /\ call'[s].secret = last + 1 /\ last' = last + 1
           /\ call'[s].row # None =>
                 /\ call'[s].row \in Live /\ call'[s].seen = row[call'[s].row]
                 /\ call'[s].seen.status # "REVOKED"
  <1> USE NoneAssumption
  <1> DEFINE a == host[h].asset
             t == host[h].token
             m == IF Matches(h, a) = {} THEN None ELSE CHOOSE x \in Matches(h, a) : TRUE
             new == [host |-> h, asset |-> a, token |-> t, used |-> token[t].uses, row |-> m,
                     seen |-> IF m = None THEN NoRow ELSE row[m], secret |-> last + 1,
                     supersedes |-> Superseded(m, t)]
  <1>1. m = None \/ m \in Live
    <2>1. Matches(h, a) \subseteq Live
      BY DEF Matches, ByAsset, BySys, ByMach
    <2> QED BY <2>1
  <1>2. Admitted(m) /\ call' = [call EXCEPT ![s] = new] /\ s \notin Busy /\ last' = last + 1
        /\ t # None /\ Valid(t)
    BY DEF Register
  <1> HIDE DEF a, t, m
  <1>3. call'[s] = new
    BY <1>2 DEF TypeOK
  <1>4. new # Idle
    <2>1. new.host = h /\ Idle.host = None
      BY DEF Idle
    <2> QED BY <2>1
  <1>5. s \in Busy'
    BY <1>3, <1>4 DEF Busy
  <1>6. Busy' = Busy \cup {s}
    BY <1>2, <1>3, <1>4 DEF Busy, TypeOK
  <1>7. call'[s] \in Call
    BY <1>3, <1>4 DEF TypeOK
  <1>8. \A u \in Busy : call'[u] = call[u]
    BY <1>2 DEF Busy, TypeOK
  <1>9. t \in Tokens
    BY <1>2 DEF t, TypeOK
  <1> QED BY <1>1, <1>2, <1>3, <1>6, <1>7, <1>8, <1>9 DEF Admitted

\* A registration that ends.
LEMMA EndReads ==
    ASSUME TypeOK, NEW s \in Busy, call' = [call EXCEPT ![s] = Idle]
    PROVE  /\ Busy' = Busy \ {s}
           /\ \A u \in Busy' : call'[u] = call[u]
  BY DEF Busy, TypeOK

\* Registrations count from what they read.
LEMMA CallsKeep == TypeOK /\ CallsKnown /\ TypeOK' /\ Next => CallsKnown'
  <1> SUFFICES ASSUME TypeOK, CallsKnown, TypeOK', Next PROVE CallsKnown'
    OBVIOUS
  <1> USE NoneAssumption
  <1>1. ASSUME NEW h \in Hosts, setting.overlap, GiveUp(h) PROVE CallsKnown'
    <2>1. Busy' = Busy /\ call' = call
      BY <1>1 DEF Busy, GiveUp
    <2> QED BY <1>1, <2>1 DEF CallsKnown, Known, NoToken, TypeOK, GiveUp
  <1>2. ASSUME NEW h \in Hosts, Rejected(h) PROVE CallsKnown'
    <2>1. Busy' = Busy /\ call' = call
      BY <1>2 DEF Busy, Rejected, Mine
    <2> QED BY <1>2, <2>1 DEF CallsKnown, Known, NoToken, TypeOK, Rejected, Mine
  <1>3. ASSUME NEW h \in Hosts, Calm, Upload(h) PROVE CallsKnown'
    <2>1. Busy' = Busy /\ call' = call
      BY <1>3 DEF Busy, Upload, Mine
    <2> QED BY <1>3, <2>1 DEF CallsKnown, Known, NoToken, TypeOK, Upload, Mine
  <1>4. ASSUME NEW h \in Hosts, NEW s \in Sessions, Calm, Register(h, s) PROVE CallsKnown'
    <2>1. /\ Busy' = Busy \cup {s} /\ \A u \in Busy : call'[u] = call[u]
          /\ call'[s] \in Call /\ call'[s].token \in Tokens /\ Valid(call'[s].token)
          /\ call'[s].used = token[call'[s].token].uses
          /\ call'[s].secret = last + 1 /\ last' = last + 1
          /\ (call'[s].row # None => /\ call'[s].row \in Live /\ call'[s].seen = row[call'[s].row]
                                     /\ call'[s].seen.status # "REVOKED")
      BY <1>4, RegisterReads
    <2>2. Known(call'[s].token) /\ call'[s].used <= last
      BY <2>1, LiveIsKnown DEF CallsKnown, Valid
    <2>3. call'[s].used \in Nat /\ last \in Nat
      BY <2>1 DEF Call, TypeOK
    <2>4. call'[s].row # None => call'[s].seen \in Machine
      BY <2>1, RowIsMachine DEF Live
    <2>5. \A u \in Busy : call[u] \in Call
      BY BusyIsCall
    <2>6. \A u \in Busy' : /\ call'[u].used < call'[u].secret /\ call'[u].secret <= last'
                           /\ (call'[u].row # None => call'[u].seen \in Machine /\ call'[u].seen.status # "REVOKED")
      BY <2>1, <2>2, <2>3, <2>4, <2>5 DEF CallsKnown, Call
    <2>7. \A t \in Tokens : Known(t)' => token'[t].uses <= last'
      <3> SUFFICES ASSUME NEW t \in Tokens, Known(t)' PROVE token'[t].uses <= last'
        OBVIOUS
      <3>1. token' = token /\ token[t] \in Token /\ token[t].uses <= last
        BY <1>4, TokenIsToken DEF Register, Known, CallsKnown
      <3> QED BY <2>1, <2>3, <3>1 DEF Token
    <2>8. \A g \in Hosts : host'[g].token = host[g].token /\ host'[g].asset = host[g].asset
      BY <1>4 DEF Register, TypeOK
    <2> QED BY <2>6, <2>7, <2>8 DEF CallsKnown
  <1>5. ASSUME NEW s \in Sessions, RegisterCommit(s) PROVE CallsKnown'
    <2>1. s \in Busy /\ Busy' = Busy \ {s} /\ (\A u \in Busy' : call'[u] = call[u]) /\ last' = last
      BY <1>5, EndReads DEF RegisterCommit
    <2>2. \A g \in Hosts : host'[g].token = host[g].token /\ host'[g].asset = host[g].asset
      <3>1. \/ host' = [host EXCEPT ![call[s].host].secret = call[s].secret, ![call[s].host].waits = None]
            \/ host' = [host EXCEPT ![call[s].host].waits = None]
            \/ host' = host
        BY <1>5 DEF RegisterCommit, Answer
      <3> QED BY <3>1 DEF TypeOK
    <2>3. call[s] \in Call /\ call[s].used < call[s].secret /\ call[s].secret <= last
      BY <2>1, BusyIsCall DEF CallsKnown
    <2>4. \A t \in Tokens : Known(t)' => token'[t].uses <= last
      <3> SUFFICES ASSUME NEW t \in Tokens, Known(t)' PROVE token'[t].uses <= last
        OBVIOUS
      <3>1. Known(call[s].token) /\ (call[s].supersedes # None => Known(call[s].supersedes))
        BY <1>5 DEF RegisterCommit, Committable
      <3>2. CASE t = call[s].token
        <4>1. token'[t] = [token[t] EXCEPT !.uses = call[s].used + 1]
          BY <1>5, <3>2 DEF RegisterCommit
        <4>2. token[t] \in Token
          BY <3>1, <3>2, TokenIsToken
        <4>3. token'[t].uses = call[s].used + 1
          BY <4>1, <4>2 DEF Token
        <4> QED BY <2>3, <4>3 DEF Call, TypeOK
      <3>3. CASE t # call[s].token /\ t = call[s].supersedes
        <4>1. token'[t] = [token[t] EXCEPT !.state = "revoked"]
          BY <1>5, <3>3 DEF RegisterCommit
        <4>2. Known(t) /\ token[t] \in Token
          BY <3>1, <3>3, TokenIsToken, NoneAssumption
        <4>3. token'[t].uses = token[t].uses
          BY <4>1, <4>2 DEF Token
        <4> QED BY <4>2, <4>3 DEF CallsKnown
      <3>4. CASE t # call[s].token /\ t # call[s].supersedes
        <4>1. token'[t] = token[t]
          BY <1>5, <3>4 DEF RegisterCommit
        <4> QED BY <4>1 DEF CallsKnown, Known
      <3> QED BY <3>2, <3>3, <3>4
    <2> QED BY <2>1, <2>2, <2>4 DEF CallsKnown
  <1>6. ASSUME NEW s \in Sessions, RegisterAbort(s) PROVE CallsKnown'
    <2>1. s \in Busy /\ Busy' = Busy \ {s} /\ (\A u \in Busy' : call'[u] = call[u]) /\ last' = last
      BY <1>6, EndReads DEF RegisterAbort
    <2>2. \A g \in Hosts : host'[g].token = host[g].token /\ host'[g].asset = host[g].asset
      BY <1>6 DEF RegisterAbort, TypeOK
    <2> QED BY <1>6, <2>1, <2>2 DEF CallsKnown, RegisterAbort, Known
  <1>7. ASSUME NEW t \in Tokens, Calm, Share(t) PROVE CallsKnown'
    <2>1. Busy' = Busy /\ call' = call
      BY <1>7 DEF Busy, Share, CanMake
    <2> QED BY <1>7, <2>1 DEF CallsKnown, Known, NoToken, TypeOK, Share, CanMake
  <1>8. ASSUME NEW t \in Tokens, Calm, RevokeToken(t) PROVE CallsKnown'
    <2>1. Busy' = Busy /\ call' = call
      BY <1>8 DEF Busy, RevokeToken, ChangeToken
    <2> QED BY <1>8, <2>1 DEF CallsKnown, Known, NoToken, TypeOK, RevokeToken, ChangeToken
  <1>9. ASSUME NEW t \in Tokens, Calm, DeleteToken(t) PROVE CallsKnown'
    <2>1. Busy' = Busy /\ call' = call
      BY <1>9 DEF Busy, DeleteToken, ChangeToken
    <2> QED BY <1>9, <2>1 DEF CallsKnown, Known, NoToken, TypeOK, DeleteToken, ChangeToken
  <1>10. ASSUME NEW t \in Tokens, Calm, Expire(t) PROVE CallsKnown'
    <2>1. Busy' = Busy /\ call' = call
      BY <1>10 DEF Busy, Expire, ChangeToken
    <2> QED BY <1>10, <2>1 DEF CallsKnown, Known, NoToken, TypeOK, Expire, ChangeToken
  <1>11. ASSUME NEW h \in Hosts, NEW a \in Assets, NEW t \in Tokens, Does("enroll"), Enroll(h, a, t) PROVE CallsKnown'
    <2>1. Busy' = Busy /\ call' = call
      BY <1>11 DEF Busy, Enroll, CanMake, Installed, Does
    <2> QED BY <1>11, <2>1 DEF CallsKnown, Known, NoToken, TypeOK, Enroll, CanMake, Installed, Does
  <1>12. ASSUME NEW h \in Hosts, NEW a \in Assets, NEW t \in Tokens, Calm, Install(h, a, t) PROVE CallsKnown'
    <2>1. Busy' = Busy /\ call' = call
      BY <1>12 DEF Busy, Install, Installed
    <2> QED BY <1>12, <2>1 DEF CallsKnown, Known, NoToken, TypeOK, Install, Installed
  <1>13. ASSUME NEW m \in Rows, Calm, Revoke(m) PROVE CallsKnown'
    <2>1. Busy' = Busy /\ call' = call
      BY <1>13 DEF Busy, Revoke, ChangeRow
    <2> QED BY <1>13, <2>1 DEF CallsKnown, Known, NoToken, TypeOK, Revoke, ChangeRow
  <1>14. ASSUME NEW m \in Rows, Calm, Approve(m) PROVE CallsKnown'
    <2>1. Busy' = Busy /\ call' = call
      BY <1>14 DEF Busy, Approve, ChangeRow
    <2> QED BY <1>14, <2>1 DEF CallsKnown, Known, NoToken, TypeOK, Approve, ChangeRow
  <1>15. ASSUME NEW m \in Rows, Calm, Allow(m) PROVE CallsKnown'
    <2>1. Busy' = Busy /\ call' = call
      BY <1>15 DEF Busy, Allow, ChangeRow
    <2> QED BY <1>15, <2>1 DEF CallsKnown, Known, NoToken, TypeOK, Allow, ChangeRow
  <1>16. ASSUME NEW m \in Rows, Calm, Withdraw(m) PROVE CallsKnown'
    <2>1. Busy' = Busy /\ call' = call
      BY <1>16 DEF Busy, Withdraw, ChangeRow
    <2> QED BY <1>16, <2>1 DEF CallsKnown, Known, NoToken, TypeOK, Withdraw, ChangeRow
  <1>17. ASSUME NEW m \in Rows, Calm, Rotate(m) PROVE CallsKnown'
    <2>1. Busy' = Busy /\ call' = call /\ token' = token /\ host' = host /\ last' = last + 1
      BY <1>17 DEF Busy, Rotate, ChangeRow
    <2>2. \A u \in Busy : call[u].secret \in Nat
      BY BusyIsCall DEF Call
    <2>3. \A t \in Tokens : Known(t) => token[t].uses \in Nat
      BY TokenIsToken DEF Token
    <2>4. last \in Nat
      BY DEF TypeOK
    <2>5. \A u \in Busy : call[u].secret <= last + 1
      BY <2>2, <2>4 DEF CallsKnown
    <2>6. \A t \in Tokens : Known(t) => token[t].uses <= last + 1
      BY <2>3, <2>4 DEF CallsKnown
    <2> QED BY <2>1, <2>5, <2>6 DEF CallsKnown, Known
  <1>18. ASSUME NEW m \in Rows, Calm, Delete(m) PROVE CallsKnown'
    <2>1. Busy' = Busy /\ call' = call
      BY <1>18 DEF Busy, Delete, ChangeRow
    <2> QED BY <1>18, <2>1 DEF CallsKnown, Known, NoToken, TypeOK, Delete, ChangeRow
  <1>19. ASSUME NEW m \in Rows, NEW a \in Assets, Calm, Retag(m, a) PROVE CallsKnown'
    <2>1. Busy' = Busy /\ call' = call
      BY <1>19 DEF Busy, Retag, ChangeRow
    <2> QED BY <1>19, <2>1 DEF CallsKnown, Known, NoToken, TypeOK, Retag, ChangeRow
  <1> QED BY <1>1, <1>2, <1>3, <1>4, <1>5, <1>6, <1>7, <1>8, <1>9, <1>10, <1>11, <1>12, <1>13, <1>14, <1>15, <1>16, <1>17, <1>18, <1>19
         DEF Next, AgentNext, TokenNext, RowNext, Does

\* Every registration drew a secret of its own.
LEMMA CountKeeps == TypeOK /\ CallsKnown /\ Counted /\ TypeOK' /\ Next => Counted'
  <1> SUFFICES ASSUME TypeOK, CallsKnown, Counted, TypeOK', Next PROVE Counted'
    OBVIOUS
  <1> USE NoneAssumption
  <1>1. ASSUME NEW h \in Hosts, setting.overlap, GiveUp(h) PROVE Counted'
    <2>1. Busy' = Busy /\ call' = call /\ last' = last /\ uses' = uses
      BY <1>1 DEF Busy, GiveUp
    <2> QED BY <2>1 DEF Counted, CallsOf
  <1>2. ASSUME NEW h \in Hosts, Rejected(h) PROVE Counted'
    <2>1. Busy' = Busy /\ call' = call /\ last' = last /\ uses' = uses
      BY <1>2 DEF Busy, Rejected, Mine
    <2> QED BY <2>1 DEF Counted, CallsOf
  <1>3. ASSUME NEW h \in Hosts, Calm, Upload(h) PROVE Counted'
    <2>1. Busy' = Busy /\ call' = call /\ last' = last /\ uses' = uses
      BY <1>3 DEF Busy, Upload, Mine
    <2> QED BY <2>1 DEF Counted, CallsOf
  <1>4. ASSUME NEW h \in Hosts, NEW s \in Sessions, Calm, Register(h, s) PROVE Counted'
    <2>1. /\ s \notin Busy /\ Busy' = Busy \cup {s} /\ (\A u \in Busy : call'[u] = call[u])
          /\ last' = last + 1 /\ uses' = uses
      BY <1>4, RegisterReads DEF Register
    <2>2. \A t \in Tokens : uses[t] \in Nat /\ Cardinality(CallsOf(t)) \in Nat /\ last \in Nat
      BY FS_CardinalityType DEF Counted, TypeOK
    <2>3. ASSUME NEW t \in Tokens PROVE (IsFiniteSet(CallsOf(t)) /\ uses[t] + Cardinality(CallsOf(t)) <= last)'
      <3>1. CallsOf(t)' = CallsOf(t) \/ CallsOf(t)' = CallsOf(t) \cup {s}
        BY <2>1 DEF CallsOf
      <3>2. IsFiniteSet(CallsOf(t)) /\ uses[t] + Cardinality(CallsOf(t)) <= last
        BY DEF Counted
      <3>3. CASE CallsOf(t)' = CallsOf(t)
        BY <2>1, <2>2, <3>2, <3>3
      <3>4. CASE CallsOf(t)' = CallsOf(t) \cup {s}
        <4>1. s \notin CallsOf(t)
          BY <2>1 DEF CallsOf
        <4>2. IsFiniteSet(CallsOf(t)') /\ Cardinality(CallsOf(t)') = Cardinality(CallsOf(t)) + 1
          BY <3>2, <3>4, <4>1, FS_AddElement
        <4> QED BY <2>1, <2>2, <3>2, <4>2
      <3> QED BY <3>1, <3>3, <3>4
    <2> QED BY <2>3 DEF Counted
  <1>5. ASSUME NEW s \in Sessions, RegisterCommit(s) PROVE Counted'
    <2>1. s \in Busy /\ Busy' = Busy \ {s} /\ (\A u \in Busy' : call'[u] = call[u]) /\ last' = last
      BY <1>5, EndReads DEF RegisterCommit
    <2>2. \A t \in Tokens : uses[t] \in Nat /\ Cardinality(CallsOf(t)) \in Nat /\ last \in Nat
      BY FS_CardinalityType DEF Counted, TypeOK
    <2>3. call[s].token \in Tokens /\ uses' = [uses EXCEPT ![call[s].token] = @ + 1]
      BY <1>5, <2>1, BusyIsCall DEF RegisterCommit, Call
    <2>4. ASSUME NEW t \in Tokens PROVE (IsFiniteSet(CallsOf(t)) /\ uses[t] + Cardinality(CallsOf(t)) <= last)'
      <3>1. IsFiniteSet(CallsOf(t)) /\ uses[t] + Cardinality(CallsOf(t)) <= last
        BY DEF Counted
      <3>2. CASE t = call[s].token
        <4>1. s \in CallsOf(t) /\ CallsOf(t)' = CallsOf(t) \ {s}
          BY <2>1, <3>2 DEF CallsOf
        <4>2. IsFiniteSet(CallsOf(t)') /\ Cardinality(CallsOf(t)') = Cardinality(CallsOf(t)) - 1
          BY <3>1, <4>1, FS_RemoveElement
        <4>3. uses'[t] = uses[t] + 1
          BY <2>3, <3>2 DEF TypeOK
        <4> QED BY <2>1, <2>2, <3>1, <4>2, <4>3
      <3>3. CASE t # call[s].token
        <4>1. CallsOf(t)' = CallsOf(t)
          BY <2>1, <3>3 DEF CallsOf
        <4>2. uses'[t] = uses[t]
          BY <2>3, <3>3 DEF TypeOK
        <4> QED BY <2>1, <3>1, <4>1, <4>2
      <3> QED BY <3>2, <3>3
    <2> QED BY <2>4 DEF Counted
  <1>6. ASSUME NEW s \in Sessions, RegisterAbort(s) PROVE Counted'
    <2>1. s \in Busy /\ Busy' = Busy \ {s} /\ (\A u \in Busy' : call'[u] = call[u]) /\ last' = last
      BY <1>6, EndReads DEF RegisterAbort
    <2>2. \A t \in Tokens : uses[t] \in Nat /\ Cardinality(CallsOf(t)) \in Nat /\ last \in Nat
      BY FS_CardinalityType DEF Counted, TypeOK
    <2>3. uses' = uses
      BY <1>6 DEF RegisterAbort
    <2>4. ASSUME NEW t \in Tokens PROVE (IsFiniteSet(CallsOf(t)) /\ uses[t] + Cardinality(CallsOf(t)) <= last)'
      <3>1. CallsOf(t)' \subseteq CallsOf(t)
        BY <2>1 DEF CallsOf
      <3>2. IsFiniteSet(CallsOf(t)) /\ uses[t] + Cardinality(CallsOf(t)) <= last
        BY DEF Counted
      <3>3. IsFiniteSet(CallsOf(t)') /\ Cardinality(CallsOf(t)') <= Cardinality(CallsOf(t))
        BY <3>1, <3>2, FS_Subset
      <3>4. Cardinality(CallsOf(t)') \in Nat
        BY <3>3, FS_CardinalityType
      <3> QED BY <2>1, <2>2, <2>3, <3>2, <3>3, <3>4
    <2> QED BY <2>4 DEF Counted
  <1>7. ASSUME NEW t \in Tokens, Calm, Share(t) PROVE Counted'
    <2>1. Busy' = Busy /\ call' = call /\ last' = last /\ uses' = uses
      BY <1>7 DEF Busy, Share, CanMake
    <2> QED BY <2>1 DEF Counted, CallsOf
  <1>8. ASSUME NEW t \in Tokens, Calm, RevokeToken(t) PROVE Counted'
    <2>1. Busy' = Busy /\ call' = call /\ last' = last /\ uses' = uses
      BY <1>8 DEF Busy, RevokeToken, ChangeToken
    <2> QED BY <2>1 DEF Counted, CallsOf
  <1>9. ASSUME NEW t \in Tokens, Calm, DeleteToken(t) PROVE Counted'
    <2>1. Busy' = Busy /\ call' = call /\ last' = last /\ uses' = uses
      BY <1>9 DEF Busy, DeleteToken, ChangeToken
    <2> QED BY <2>1 DEF Counted, CallsOf
  <1>10. ASSUME NEW t \in Tokens, Calm, Expire(t) PROVE Counted'
    <2>1. Busy' = Busy /\ call' = call /\ last' = last /\ uses' = uses
      BY <1>10 DEF Busy, Expire, ChangeToken
    <2> QED BY <2>1 DEF Counted, CallsOf
  <1>11. ASSUME NEW h \in Hosts, NEW a \in Assets, NEW t \in Tokens, Does("enroll"), Enroll(h, a, t) PROVE Counted'
    <2>1. Busy' = Busy /\ call' = call /\ last' = last /\ uses' = uses
      BY <1>11 DEF Busy, Enroll, CanMake, Installed, Does
    <2> QED BY <2>1 DEF Counted, CallsOf
  <1>12. ASSUME NEW h \in Hosts, NEW a \in Assets, NEW t \in Tokens, Calm, Install(h, a, t) PROVE Counted'
    <2>1. Busy' = Busy /\ call' = call /\ last' = last /\ uses' = uses
      BY <1>12 DEF Busy, Install, Installed
    <2> QED BY <2>1 DEF Counted, CallsOf
  <1>13. ASSUME NEW m \in Rows, Calm, Revoke(m) PROVE Counted'
    <2>1. Busy' = Busy /\ call' = call /\ last' = last /\ uses' = uses
      BY <1>13 DEF Busy, Revoke, ChangeRow
    <2> QED BY <2>1 DEF Counted, CallsOf
  <1>14. ASSUME NEW m \in Rows, Calm, Approve(m) PROVE Counted'
    <2>1. Busy' = Busy /\ call' = call /\ last' = last /\ uses' = uses
      BY <1>14 DEF Busy, Approve, ChangeRow
    <2> QED BY <2>1 DEF Counted, CallsOf
  <1>15. ASSUME NEW m \in Rows, Calm, Allow(m) PROVE Counted'
    <2>1. Busy' = Busy /\ call' = call /\ last' = last /\ uses' = uses
      BY <1>15 DEF Busy, Allow, ChangeRow
    <2> QED BY <2>1 DEF Counted, CallsOf
  <1>16. ASSUME NEW m \in Rows, Calm, Withdraw(m) PROVE Counted'
    <2>1. Busy' = Busy /\ call' = call /\ last' = last /\ uses' = uses
      BY <1>16 DEF Busy, Withdraw, ChangeRow
    <2> QED BY <2>1 DEF Counted, CallsOf
  <1>17. ASSUME NEW m \in Rows, Calm, Rotate(m) PROVE Counted'
    <2>1. Busy' = Busy /\ call' = call /\ last' = last + 1 /\ uses' = uses
      BY <1>17 DEF Busy, Rotate, ChangeRow
    <2>2. \A t \in Tokens : uses[t] \in Nat /\ Cardinality(CallsOf(t)) \in Nat /\ last \in Nat
      BY FS_CardinalityType DEF Counted, TypeOK
    <2>3. \A t \in Tokens : CallsOf(t)' = CallsOf(t)
      BY <2>1 DEF CallsOf
    <2>4. \A t \in Tokens : uses[t] + Cardinality(CallsOf(t)) <= last + 1
      BY <2>2 DEF Counted
    <2> QED BY <2>1, <2>3, <2>4 DEF Counted
  <1>18. ASSUME NEW m \in Rows, Calm, Delete(m) PROVE Counted'
    <2>1. Busy' = Busy /\ call' = call /\ last' = last /\ uses' = uses
      BY <1>18 DEF Busy, Delete, ChangeRow
    <2> QED BY <2>1 DEF Counted, CallsOf
  <1>19. ASSUME NEW m \in Rows, NEW a \in Assets, Calm, Retag(m, a) PROVE Counted'
    <2>1. Busy' = Busy /\ call' = call /\ last' = last /\ uses' = uses
      BY <1>19 DEF Busy, Retag, ChangeRow
    <2> QED BY <2>1 DEF Counted, CallsOf
  <1> QED BY <1>1, <1>2, <1>3, <1>4, <1>5, <1>6, <1>7, <1>8, <1>9, <1>10, <1>11, <1>12, <1>13, <1>14, <1>15, <1>16, <1>17, <1>18, <1>19
         DEF Next, AgentNext, TokenNext, RowNext, Does

\* Nobody waits for an approval that is not asked for.
LEMMA NonePendingKeeps == TypeOK /\ CallsKnown /\ NonePending /\ TypeOK' /\ Next => NonePending'
  <1> SUFFICES ASSUME TypeOK, CallsKnown, NonePending, TypeOK', Next PROVE NonePending'
    OBVIOUS
  <1> USE NoneAssumption
  <1>1. ASSUME NEW h \in Hosts, setting.overlap, GiveUp(h) PROVE NonePending'
    <2>1. Busy' = Busy /\ call' = call /\ row' = row /\ setting' = setting
      BY <1>1 DEF Busy, GiveUp
    <2> QED BY <2>1 DEF NonePending, Live, Exists
  <1>2. ASSUME NEW h \in Hosts, Rejected(h) PROVE NonePending'
    <2>1. Busy' = Busy /\ call' = call /\ row' = row /\ setting' = setting
      BY <1>2 DEF Busy, Rejected, Mine
    <2> QED BY <2>1 DEF NonePending, Live, Exists
  <1>3. ASSUME NEW h \in Hosts, Calm, Upload(h) PROVE NonePending'
    <2>1. Busy' = Busy /\ call' = call /\ setting' = setting
      BY <1>3 DEF Busy, Upload, Mine
    <2>2. \A x \in Live' : x \in Live /\ (row'[x].status = "PENDING" => row[x].status = "PENDING")
      <3>1. \A x \in Live : x \in Rows /\ row[x] \in Machine
        BY RowIsMachine DEF Live
      <3> QED BY <1>3, <3>1 DEF Upload, Mine, Live, Exists, Machine, NoRow, TypeOK
    <2> QED BY <2>1, <2>2 DEF NonePending
  <1>4. ASSUME NEW h \in Hosts, NEW s \in Sessions, Calm, Register(h, s) PROVE NonePending'
    <2>1. /\ Busy' = Busy \cup {s} /\ (\A u \in Busy : call'[u] = call[u]) /\ row' = row /\ setting' = setting
          /\ (call'[s].row # None => /\ call'[s].row \in Live /\ call'[s].seen = row[call'[s].row]
                                     /\ call'[s].seen.status # "REVOKED")
      BY <1>4, RegisterReads DEF Register
    <2>2. call'[s].row # None => call'[s].seen \in Machine
      BY <2>1, RowIsMachine DEF Live
    <2> QED BY <2>1, <2>2 DEF NonePending, Live, Exists, Machine, Status
  <1>5. ASSUME NEW s \in Sessions, RegisterCommit(s) PROVE NonePending'
    <2>1. s \in Busy /\ Busy' = Busy \ {s} /\ (\A u \in Busy' : call'[u] = call[u]) /\ last' = last
      BY <1>5, EndReads DEF RegisterCommit
    <2> DEFINE c == call[s]
    <2>2. setting' = setting
      BY <1>5 DEF RegisterCommit
    <2>3. PICK m \in Rows :
             /\ Target(c, m)
             /\ row' = [row EXCEPT ![m] = IF c.row = None THEN NewRow(c) ELSE Rewritten(c, row[m])]
      BY <1>5 DEF RegisterCommit
    <2> HIDE DEF c
    <2>4. ASSUME ~setting.approval, NEW x \in Live' PROVE row'[x].status # "PENDING"
      <3>1. CASE x # m
        BY <2>3, <2>4, <3>1 DEF NonePending, Live, Exists, TypeOK
      <3>2. CASE x = m /\ c.row = None
        <4>1. row'[x] = NewRow(c)
          BY <2>3, <3>2 DEF TypeOK
        <4> QED BY <2>4, <4>1 DEF NewRow, StatusFor
      <3>3. CASE x = m /\ c.row # None
        <4>1. row'[x] = Rewritten(c, row[x]) /\ x \in Live
          BY <2>3, <3>3 DEF TypeOK, Target, Live
        <4>2. row[x] \in Machine /\ row[x].status # "PENDING"
          BY <2>4, <4>1, RowIsMachine DEF NonePending, Live
        <4>3. StatusFor(c.seen.approved) = "ACTIVE"
          BY <2>4 DEF StatusFor
        <4>4. Rewritten(c, row[x]).status = IF c.seen.status # "ACTIVE" THEN "ACTIVE" ELSE row[x].status
          BY <4>2, <4>3 DEF Rewritten, Machine
        <4> QED BY <4>1, <4>2, <4>4
      <3> QED BY <3>1, <3>2, <3>3
    <2> QED BY <2>1, <2>2, <2>4 DEF NonePending
  <1>6. ASSUME NEW s \in Sessions, RegisterAbort(s) PROVE NonePending'
    <2>1. s \in Busy /\ Busy' = Busy \ {s} /\ (\A u \in Busy' : call'[u] = call[u]) /\ last' = last
      BY <1>6, EndReads DEF RegisterAbort
    <2>2. row' = row /\ setting' = setting
      BY <1>6 DEF RegisterAbort
    <2> QED BY <2>1, <2>2 DEF NonePending, Live, Exists
  <1>7. ASSUME NEW t \in Tokens, Calm, Share(t) PROVE NonePending'
    <2>1. Busy' = Busy /\ call' = call /\ row' = row /\ setting' = setting
      BY <1>7 DEF Busy, Share, CanMake
    <2> QED BY <2>1 DEF NonePending, Live, Exists
  <1>8. ASSUME NEW t \in Tokens, Calm, RevokeToken(t) PROVE NonePending'
    <2>1. Busy' = Busy /\ call' = call /\ row' = row /\ setting' = setting
      BY <1>8 DEF Busy, RevokeToken, ChangeToken
    <2> QED BY <2>1 DEF NonePending, Live, Exists
  <1>9. ASSUME NEW t \in Tokens, Calm, DeleteToken(t) PROVE NonePending'
    <2>1. Busy' = Busy /\ call' = call /\ setting' = setting
      BY <1>9 DEF Busy, DeleteToken, ChangeToken
    <2>2. \A x \in Live' : x \in Live /\ (row'[x].status = "PENDING" => row[x].status = "PENDING")
      <3>1. \A x \in Live : x \in Rows /\ row[x] \in Machine
        BY RowIsMachine DEF Live
      <3> QED BY <1>9, <3>1 DEF DeleteToken, ChangeToken, Live, Exists, Machine, NoRow, TypeOK
    <2> QED BY <2>1, <2>2 DEF NonePending
  <1>10. ASSUME NEW t \in Tokens, Calm, Expire(t) PROVE NonePending'
    <2>1. Busy' = Busy /\ call' = call /\ row' = row /\ setting' = setting
      BY <1>10 DEF Busy, Expire, ChangeToken
    <2> QED BY <2>1 DEF NonePending, Live, Exists
  <1>11. ASSUME NEW h \in Hosts, NEW a \in Assets, NEW t \in Tokens, Does("enroll"), Enroll(h, a, t) PROVE NonePending'
    <2>1. Busy' = Busy /\ call' = call /\ row' = row /\ setting' = setting
      BY <1>11 DEF Busy, Enroll, CanMake, Installed, Does
    <2> QED BY <2>1 DEF NonePending, Live, Exists
  <1>12. ASSUME NEW h \in Hosts, NEW a \in Assets, NEW t \in Tokens, Calm, Install(h, a, t) PROVE NonePending'
    <2>1. Busy' = Busy /\ call' = call /\ row' = row /\ setting' = setting
      BY <1>12 DEF Busy, Install, Installed
    <2> QED BY <2>1 DEF NonePending, Live, Exists
  <1>13. ASSUME NEW m \in Rows, Calm, Revoke(m) PROVE NonePending'
    <2>1. Busy' = Busy /\ call' = call /\ setting' = setting
      BY <1>13 DEF Busy, Revoke, ChangeRow
    <2>2. \A x \in Live' : x \in Live /\ (row'[x].status = "PENDING" => row[x].status = "PENDING")
      <3>1. \A x \in Live : x \in Rows /\ row[x] \in Machine
        BY RowIsMachine DEF Live
      <3> QED BY <1>13, <3>1 DEF Revoke, ChangeRow, Live, Exists, Machine, NoRow, TypeOK
    <2> QED BY <2>1, <2>2 DEF NonePending
  <1>14. ASSUME NEW m \in Rows, Calm, Approve(m) PROVE NonePending'
    <2>1. Busy' = Busy /\ call' = call /\ setting' = setting
      BY <1>14 DEF Busy, Approve, ChangeRow
    <2>2. \A x \in Live' : x \in Live /\ (row'[x].status = "PENDING" => row[x].status = "PENDING")
      <3>1. \A x \in Live : x \in Rows /\ row[x] \in Machine
        BY RowIsMachine DEF Live
      <3> QED BY <1>14, <3>1 DEF Approve, ChangeRow, Live, Exists, Machine, NoRow, TypeOK
    <2> QED BY <2>1, <2>2 DEF NonePending
  <1>15. ASSUME NEW m \in Rows, Calm, Allow(m) PROVE NonePending'
    <2>1. Busy' = Busy /\ call' = call /\ setting' = setting
      BY <1>15 DEF Busy, Allow, ChangeRow
    <2>2. \A x \in Live' : x \in Live /\ (row'[x].status = "PENDING" => row[x].status = "PENDING")
      <3>1. \A x \in Live : x \in Rows /\ row[x] \in Machine
        BY RowIsMachine DEF Live
      <3> QED BY <1>15, <3>1 DEF Allow, ChangeRow, Live, Exists, Machine, NoRow, TypeOK
    <2> QED BY <2>1, <2>2 DEF NonePending
  <1>16. ASSUME NEW m \in Rows, Calm, Withdraw(m) PROVE NonePending'
    <2>1. Busy' = Busy /\ call' = call /\ setting' = setting
      BY <1>16 DEF Busy, Withdraw, ChangeRow
    <2>2. \A x \in Live' : x \in Live /\ (row'[x].status = "PENDING" => row[x].status = "PENDING")
      <3>1. \A x \in Live : x \in Rows /\ row[x] \in Machine
        BY RowIsMachine DEF Live
      <3> QED BY <1>16, <3>1 DEF Withdraw, ChangeRow, Live, Exists, Machine, NoRow, TypeOK
    <2> QED BY <2>1, <2>2 DEF NonePending
  <1>17. ASSUME NEW m \in Rows, Calm, Rotate(m) PROVE NonePending'
    <2>1. Busy' = Busy /\ call' = call /\ setting' = setting
      BY <1>17 DEF Busy, Rotate, ChangeRow
    <2>2. \A x \in Live' : x \in Live /\ (row'[x].status = "PENDING" => row[x].status = "PENDING")
      <3>1. \A x \in Live : x \in Rows /\ row[x] \in Machine
        BY RowIsMachine DEF Live
      <3> QED BY <1>17, <3>1 DEF Rotate, ChangeRow, Live, Exists, Machine, NoRow, TypeOK
    <2> QED BY <2>1, <2>2 DEF NonePending
  <1>18. ASSUME NEW m \in Rows, Calm, Delete(m) PROVE NonePending'
    <2>1. Busy' = Busy /\ call' = call /\ setting' = setting
      BY <1>18 DEF Busy, Delete, ChangeRow
    <2>2. \A x \in Live' : x \in Live /\ (row'[x].status = "PENDING" => row[x].status = "PENDING")
      <3>1. \A x \in Live : x \in Rows /\ row[x] \in Machine
        BY RowIsMachine DEF Live
      <3> QED BY <1>18, <3>1 DEF Delete, ChangeRow, Live, Exists, Machine, NoRow, TypeOK
    <2> QED BY <2>1, <2>2 DEF NonePending
  <1>19. ASSUME NEW m \in Rows, NEW a \in Assets, Calm, Retag(m, a) PROVE NonePending'
    <2>1. Busy' = Busy /\ call' = call /\ setting' = setting
      BY <1>19 DEF Busy, Retag, ChangeRow
    <2>2. \A x \in Live' : x \in Live /\ (row'[x].status = "PENDING" => row[x].status = "PENDING")
      <3>1. \A x \in Live : x \in Rows /\ row[x] \in Machine
        BY RowIsMachine DEF Live
      <3> QED BY <1>19, <3>1 DEF Retag, ChangeRow, Live, Exists, Machine, NoRow, TypeOK
    <2> QED BY <2>1, <2>2 DEF NonePending
  <1> QED BY <1>1, <1>2, <1>3, <1>4, <1>5, <1>6, <1>7, <1>8, <1>9, <1>10, <1>11, <1>12, <1>13, <1>14, <1>15, <1>16, <1>17, <1>18, <1>19
         DEF Next, AgentNext, TokenNext, RowNext, Does

\* Registrations in turns.
LEMMA TurnsKeep == TypeOK /\ CallsKnown /\ Turns /\ TypeOK' /\ Next => Turns'
  <1> SUFFICES ASSUME TypeOK, CallsKnown, Turns, TypeOK', Next PROVE Turns'
    OBVIOUS
  <1> USE NoneAssumption
  <1>1. ASSUME NEW h \in Hosts, setting.overlap, GiveUp(h) PROVE Turns'
    <2>1. setting' = setting
      BY <1>1 DEF GiveUp
    <2> QED BY <1>1, <2>1 DEF Turns
  <1>2. ASSUME NEW h \in Hosts, Rejected(h) PROVE Turns'
    <2>1. Busy' = Busy /\ call' = call /\ setting' = setting /\ row' = row /\ token' = token
      BY <1>2 DEF Busy, Rejected
    <2> QED BY <2>1 DEF Turns, Known
  <1>3. ASSUME NEW h \in Hosts, Calm, Upload(h) PROVE Turns'
    <2>1. Busy' = Busy /\ setting' = setting
      BY <1>3 DEF Busy, Upload, Mine
    <2> QED BY <1>3, <2>1 DEF Turns, Calm, Does
  <1>4. ASSUME NEW h \in Hosts, NEW s \in Sessions, Calm, Register(h, s) PROVE Turns'
    <2>1. /\ Busy' = Busy \cup {s} /\ row' = row /\ setting' = setting /\ token' = token
          /\ call'[s].token \in Tokens /\ Valid(call'[s].token)
          /\ call'[s].used = token[call'[s].token].uses
          /\ (call'[s].row # None => call'[s].seen = row[call'[s].row])
      BY <1>4, RegisterReads DEF Register
    <2>2. Known(call'[s].token)
      BY <2>1, LiveIsKnown DEF Valid
    <2>3. ASSUME token[call'[s].token].limit = 1 PROVE call'[s].used = 0
      <3>1. token[call'[s].token].uses \in Nat
        BY <2>1, <2>2, TokenIsToken DEF Token
      <3> QED BY <2>1, <2>3, <3>1 DEF Valid, NoLimit
    <2>4. ~setting.overlap => Busy' = {s}
      BY <1>4, <2>1 DEF Calm
    <2> QED BY <2>1, <2>2, <2>3, <2>4 DEF Turns, Known
  <1>5. ASSUME NEW s \in Sessions, RegisterCommit(s) PROVE Turns'
    <2>1. s \in Busy /\ Busy' = Busy \ {s} /\ (\A u \in Busy' : call'[u] = call[u]) /\ last' = last
      BY <1>5, EndReads DEF RegisterCommit
    <2>2. setting' = setting
      BY <1>5 DEF RegisterCommit
    <2>3. ~setting.overlap => Busy' = {}
      BY <2>1 DEF Turns
    <2> QED BY <2>2, <2>3 DEF Turns
  <1>6. ASSUME NEW s \in Sessions, RegisterAbort(s) PROVE Turns'
    <2>1. s \in Busy /\ Busy' = Busy \ {s} /\ (\A u \in Busy' : call'[u] = call[u]) /\ last' = last
      BY <1>6, EndReads DEF RegisterAbort
    <2>2. setting' = setting
      BY <1>6 DEF RegisterAbort
    <2>3. ~setting.overlap => Busy' = {}
      BY <2>1 DEF Turns
    <2> QED BY <2>2, <2>3 DEF Turns
  <1>7. ASSUME NEW t \in Tokens, Calm, Share(t) PROVE Turns'
    <2>1. Busy' = Busy /\ setting' = setting
      BY <1>7 DEF Busy, Share, CanMake
    <2> QED BY <1>7, <2>1 DEF Turns, Calm, Does
  <1>8. ASSUME NEW t \in Tokens, Calm, RevokeToken(t) PROVE Turns'
    <2>1. Busy' = Busy /\ setting' = setting
      BY <1>8 DEF Busy, RevokeToken, ChangeToken
    <2> QED BY <1>8, <2>1 DEF Turns, Calm, Does
  <1>9. ASSUME NEW t \in Tokens, Calm, DeleteToken(t) PROVE Turns'
    <2>1. Busy' = Busy /\ setting' = setting
      BY <1>9 DEF Busy, DeleteToken, ChangeToken
    <2> QED BY <1>9, <2>1 DEF Turns, Calm, Does
  <1>10. ASSUME NEW t \in Tokens, Calm, Expire(t) PROVE Turns'
    <2>1. Busy' = Busy /\ setting' = setting
      BY <1>10 DEF Busy, Expire, ChangeToken
    <2> QED BY <1>10, <2>1 DEF Turns, Calm, Does
  <1>11. ASSUME NEW h \in Hosts, NEW a \in Assets, NEW t \in Tokens, Does("enroll"), Enroll(h, a, t) PROVE Turns'
    <2>1. Busy' = Busy /\ setting' = setting
      BY <1>11 DEF Busy, Enroll, CanMake, Installed, Does
    <2> QED BY <1>11, <2>1 DEF Turns, Calm, Does
  <1>12. ASSUME NEW h \in Hosts, NEW a \in Assets, NEW t \in Tokens, Calm, Install(h, a, t) PROVE Turns'
    <2>1. Busy' = Busy /\ setting' = setting
      BY <1>12 DEF Busy, Install, Installed
    <2> QED BY <1>12, <2>1 DEF Turns, Calm, Does
  <1>13. ASSUME NEW m \in Rows, Calm, Revoke(m) PROVE Turns'
    <2>1. Busy' = Busy /\ setting' = setting
      BY <1>13 DEF Busy, Revoke, ChangeRow
    <2> QED BY <1>13, <2>1 DEF Turns, Calm, Does
  <1>14. ASSUME NEW m \in Rows, Calm, Approve(m) PROVE Turns'
    <2>1. Busy' = Busy /\ setting' = setting
      BY <1>14 DEF Busy, Approve, ChangeRow
    <2> QED BY <1>14, <2>1 DEF Turns, Calm, Does
  <1>15. ASSUME NEW m \in Rows, Calm, Allow(m) PROVE Turns'
    <2>1. Busy' = Busy /\ setting' = setting
      BY <1>15 DEF Busy, Allow, ChangeRow
    <2> QED BY <1>15, <2>1 DEF Turns, Calm, Does
  <1>16. ASSUME NEW m \in Rows, Calm, Withdraw(m) PROVE Turns'
    <2>1. Busy' = Busy /\ setting' = setting
      BY <1>16 DEF Busy, Withdraw, ChangeRow
    <2> QED BY <1>16, <2>1 DEF Turns, Calm, Does
  <1>17. ASSUME NEW m \in Rows, Calm, Rotate(m) PROVE Turns'
    <2>1. Busy' = Busy /\ setting' = setting
      BY <1>17 DEF Busy, Rotate, ChangeRow
    <2> QED BY <1>17, <2>1 DEF Turns, Calm, Does
  <1>18. ASSUME NEW m \in Rows, Calm, Delete(m) PROVE Turns'
    <2>1. Busy' = Busy /\ setting' = setting
      BY <1>18 DEF Busy, Delete, ChangeRow
    <2> QED BY <1>18, <2>1 DEF Turns, Calm, Does
  <1>19. ASSUME NEW m \in Rows, NEW a \in Assets, Calm, Retag(m, a) PROVE Turns'
    <2>1. Busy' = Busy /\ setting' = setting
      BY <1>19 DEF Busy, Retag, ChangeRow
    <2> QED BY <1>19, <2>1 DEF Turns, Calm, Does
  <1> QED BY <1>1, <1>2, <1>3, <1>4, <1>5, <1>6, <1>7, <1>8, <1>9, <1>10, <1>11, <1>12, <1>13, <1>14, <1>15, <1>16, <1>17, <1>18, <1>19
         DEF Next, AgentNext, TokenNext, RowNext, Does

\* A one-use token that registered keeps showing it.
LEMMA OneUseKeeps == TypeOK /\ Turns /\ OneUse /\ TypeOK' /\ Next => OneUse'
  <1> SUFFICES ASSUME TypeOK, Turns, OneUse, TypeOK', Next PROVE OneUse'
    OBVIOUS
  <1> USE NoneAssumption
  <1>1. ASSUME NEW h \in Hosts, setting.overlap, GiveUp(h) PROVE OneUse'
    <2>1. setting' = setting /\ token' = token /\ uses' = uses
      BY <1>1 DEF GiveUp
    <2> QED BY <2>1 DEF OneUse, Known
  <1>2. ASSUME NEW h \in Hosts, Rejected(h) PROVE OneUse'
    <2>1. setting' = setting /\ token' = token /\ uses' = uses
      BY <1>2 DEF Rejected, Mine
    <2> QED BY <2>1 DEF OneUse, Known
  <1>3. ASSUME NEW h \in Hosts, Calm, Upload(h) PROVE OneUse'
    <2>1. setting' = setting /\ token' = token /\ uses' = uses
      BY <1>3 DEF Upload, Mine
    <2> QED BY <2>1 DEF OneUse, Known
  <1>4. ASSUME NEW h \in Hosts, NEW s \in Sessions, Calm, Register(h, s) PROVE OneUse'
    <2>1. setting' = setting /\ token' = token /\ uses' = uses
      BY <1>4 DEF Register
    <2> QED BY <2>1 DEF OneUse, Known
  <1>5. ASSUME NEW s \in Sessions, RegisterCommit(s) PROVE OneUse'
    <2> DEFINE c == call[s]
    <2>1. /\ setting' = setting /\ s \in Busy /\ c \in Call
          /\ Known(c.token) /\ (c.supersedes # None => Known(c.supersedes))
      BY <1>5, BusyIsCall DEF RegisterCommit, Committable
    <2>2. /\ uses' = [uses EXCEPT ![c.token] = @ + 1]
          /\ token' = [t \in Tokens |->
                         IF t = c.token THEN [token[t] EXCEPT !.uses = c.used + 1]
                         ELSE IF t = c.supersedes THEN [token[t] EXCEPT !.state = "revoked"]
                         ELSE token[t]]
      BY <1>5 DEF RegisterCommit
    <2>3. ~setting.overlap => /\ c.used = token[c.token].uses
                              /\ (token[c.token].limit = 1 => c.used = 0)
      BY <2>1 DEF Turns
    <2> HIDE DEF c
    <2> SUFFICES ASSUME NEW t \in Tokens
                 PROVE  /\ token'[t].state = "absent" => uses'[t] = 0
                        /\ Known(t)' /\ token'[t].limit = 1 => uses'[t] = 0 \/ token'[t].uses >= 1
                        /\ Known(t)' /\ ~setting.overlap =>
                              /\ uses'[t] = token'[t].uses
                              /\ token'[t].limit = 1 => token'[t].uses <= 1
      BY <2>1 DEF OneUse
    <2>4. CASE t = c.token
      <3>1. token[t] \in Token
        BY <2>1, <2>4, TokenIsToken
      <3>2. /\ uses'[t] = uses[t] + 1 /\ token'[t].uses = c.used + 1
            /\ token'[t].state = token[t].state /\ token'[t].limit = token[t].limit
        BY <2>2, <2>4, <3>1 DEF Token, TypeOK
      <3>3. token[t].state # "absent"
        BY <3>1 DEF Token
      <3>4. c.used \in Nat
        BY <2>1 DEF Call
      <3> QED BY <2>1, <2>3, <2>4, <3>2, <3>3, <3>4 DEF OneUse
    <2>5. CASE t # c.token /\ t = c.supersedes
      <3>1. Known(t) /\ token[t] \in Token
        BY <2>1, <2>5, TokenIsToken
      <3>2. /\ uses'[t] = uses[t] /\ token'[t].uses = token[t].uses
            /\ token'[t].state = "revoked" /\ token'[t].limit = token[t].limit
        BY <2>1, <2>2, <2>5, <3>1 DEF Token, TypeOK, Call
      <3> QED BY <3>1, <3>2 DEF OneUse
    <2>6. CASE t # c.token /\ t # c.supersedes
      <3>1. uses'[t] = uses[t] /\ token'[t] = token[t]
        BY <2>1, <2>2, <2>6 DEF TypeOK, Call
      <3> QED BY <3>1 DEF OneUse, Known
    <2> QED BY <2>4, <2>5, <2>6
  <1>6. ASSUME NEW s \in Sessions, RegisterAbort(s) PROVE OneUse'
    <2>1. setting' = setting /\ token' = token /\ uses' = uses
      BY <1>6 DEF RegisterAbort
    <2> QED BY <2>1 DEF OneUse, Known
  <1>7. ASSUME NEW t \in Tokens, Calm, Share(t) PROVE OneUse'
    <2>1. /\ setting' = setting /\ uses' = uses /\ token[t].state = "absent"
          /\ token' = [token EXCEPT ![t] = [limit |-> NoLimit, uses |-> 0, state |-> "live"]]
      BY <1>7 DEF Share, CanMake
    <2> QED BY <2>1 DEF OneUse, Known, NoToken, NoLimit, TypeOK
  <1>8. ASSUME NEW t \in Tokens, Calm, RevokeToken(t) PROVE OneUse'
    <2>1. /\ setting' = setting /\ uses' = uses /\ Known(t)
          /\ token' = [token EXCEPT ![t] = [token[t] EXCEPT !.state = "revoked"]]
      BY <1>8 DEF RevokeToken, ChangeToken
    <2>2. token[t] \in Token
      BY <2>1, TokenIsToken
    <2> QED BY <2>1, <2>2 DEF OneUse, Known, NoToken, Token, TypeOK
  <1>9. ASSUME NEW t \in Tokens, Calm, DeleteToken(t) PROVE OneUse'
    <2>1. /\ setting' = setting /\ uses' = uses /\ Known(t)
          /\ token' = [token EXCEPT ![t] = [state |-> "deleted"]]
      BY <1>9 DEF DeleteToken, ChangeToken
    <2>2. token[t] \in Token
      BY <2>1, TokenIsToken
    <2> QED BY <2>1, <2>2 DEF OneUse, Known, NoToken, Token, TypeOK
  <1>10. ASSUME NEW t \in Tokens, Calm, Expire(t) PROVE OneUse'
    <2>1. /\ setting' = setting /\ uses' = uses /\ Known(t)
          /\ token' = [token EXCEPT ![t] = [token[t] EXCEPT !.state = "expired"]]
      BY <1>10 DEF Expire, ChangeToken
    <2>2. token[t] \in Token
      BY <2>1, TokenIsToken
    <2> QED BY <2>1, <2>2 DEF OneUse, Known, NoToken, Token, TypeOK
  <1>11. ASSUME NEW h \in Hosts, NEW a \in Assets, NEW t \in Tokens, Does("enroll"), Enroll(h, a, t) PROVE OneUse'
    <2>1. /\ setting' = setting /\ uses' = uses /\ token[t].state = "absent"
          /\ token' = [token EXCEPT ![t] = [limit |-> 1, uses |-> 0, state |-> "live"]]
          /\ "enroll" \in setting.operations
      BY <1>11 DEF Enroll, CanMake, Does
    <2> QED BY <2>1 DEF OneUse, Known, NoToken, NoLimit, TypeOK
  <1>12. ASSUME NEW h \in Hosts, NEW a \in Assets, NEW t \in Tokens, Calm, Install(h, a, t) PROVE OneUse'
    <2>1. setting' = setting /\ token' = token /\ uses' = uses
      BY <1>12 DEF Install, Installed
    <2> QED BY <2>1 DEF OneUse, Known
  <1>13. ASSUME NEW m \in Rows, Calm, Revoke(m) PROVE OneUse'
    <2>1. setting' = setting /\ token' = token /\ uses' = uses
      BY <1>13 DEF Revoke, ChangeRow
    <2> QED BY <2>1 DEF OneUse, Known
  <1>14. ASSUME NEW m \in Rows, Calm, Approve(m) PROVE OneUse'
    <2>1. setting' = setting /\ token' = token /\ uses' = uses
      BY <1>14 DEF Approve, ChangeRow
    <2> QED BY <2>1 DEF OneUse, Known
  <1>15. ASSUME NEW m \in Rows, Calm, Allow(m) PROVE OneUse'
    <2>1. setting' = setting /\ token' = token /\ uses' = uses
      BY <1>15 DEF Allow, ChangeRow
    <2> QED BY <2>1 DEF OneUse, Known
  <1>16. ASSUME NEW m \in Rows, Calm, Withdraw(m) PROVE OneUse'
    <2>1. setting' = setting /\ token' = token /\ uses' = uses
      BY <1>16 DEF Withdraw, ChangeRow
    <2> QED BY <2>1 DEF OneUse, Known
  <1>17. ASSUME NEW m \in Rows, Calm, Rotate(m) PROVE OneUse'
    <2>1. setting' = setting /\ token' = token /\ uses' = uses
      BY <1>17 DEF Rotate, ChangeRow
    <2> QED BY <2>1 DEF OneUse, Known
  <1>18. ASSUME NEW m \in Rows, Calm, Delete(m) PROVE OneUse'
    <2>1. setting' = setting /\ token' = token /\ uses' = uses
      BY <1>18 DEF Delete, ChangeRow
    <2> QED BY <2>1 DEF OneUse, Known
  <1>19. ASSUME NEW m \in Rows, NEW a \in Assets, Calm, Retag(m, a) PROVE OneUse'
    <2>1. setting' = setting /\ token' = token /\ uses' = uses
      BY <1>19 DEF Retag, ChangeRow
    <2> QED BY <2>1 DEF OneUse, Known
  <1> QED BY <1>1, <1>2, <1>3, <1>4, <1>5, <1>6, <1>7, <1>8, <1>9, <1>10, <1>11, <1>12, <1>13, <1>14, <1>15, <1>16, <1>17, <1>18, <1>19
         DEF Next, AgentNext, TokenNext, RowNext, Does

-----------------------------------------------------------------------------
(* The theorems.                                                           *)

LEMMA EnrollInit == Init => EnrollInv
  <1> SUFFICES ASSUME Init PROVE EnrollInv
    OBVIOUS
  <1> USE NoneAssumption, BoundAssumption DEF Init
  <1>1. TypeOK
    BY DEF TypeOK, NoToken, NoHost
  <1>2. Busy = {}
    BY DEF Busy
  <1>3. \A t \in Tokens : ~Known(t)
    BY DEF Known, NoToken
  <1>4. CallsKnown
    BY <1>2, <1>3 DEF CallsKnown, NoHost
  <1>5. Counted
    <2>1. \A t \in Tokens : CallsOf(t) = {}
      BY <1>2 DEF CallsOf
    <2> QED BY <2>1, FS_EmptySet DEF Counted
  <1>6. NonePending /\ Turns /\ OneUse
    BY <1>2, <1>3 DEF NonePending, Turns, OneUse, Live, Exists
  <1> QED BY <1>1, <1>4, <1>5, <1>6 DEF EnrollInv

LEMMA EnrollStutters == EnrollInv /\ UNCHANGED vars => EnrollInv'
  BY DEF vars, EnrollInv, TypeOK, CallsKnown, Counted, CallsOf, NonePending, Turns, OneUse, Busy, Known, Live, Exists

\* The inductive invariant of tokens, registrations and machines.
THEOREM EnrollCorrect == Spec => []EnrollInv
  <1>1. EnrollInv /\ Next => EnrollInv'
    BY TypeKeeps, CallsKeep, CountKeeps, NonePendingKeeps, TurnsKeep, OneUseKeeps DEF EnrollInv
  <1> QED BY <1>1, EnrollInit, EnrollStutters, PTL DEF Spec

\* Machines, tokens, hosts and registrations have their types at all times: no
\* count of uses passes the registrations made.
THEOREM EnrollTypeCorrect == Spec => []TypeOK
  <1>1. EnrollInv => TypeOK
    BY DEF EnrollInv
  <1> QED BY <1>1, EnrollCorrect, PTL

\* What OneUseToken says of the session and the token of one step.
Begins(s, t) == s \notin Busy /\ call'[s] # Idle /\ call'[s].token = t

\* Only a host's registration occupies a session, with a token that is valid.
LEMMA OnlyValidBegins ==
    ASSUME TypeOK, Next, NEW s \in Sessions, NEW t \in Tokens, Begins(s, t)
    PROVE Valid(t)
  <1>1. ASSUME call' = call PROVE FALSE
    BY <1>1 DEF Begins, Busy
  <1>2. ASSUME NEW u \in Sessions, call' = [call EXCEPT ![u] = Idle] PROVE FALSE
    BY <1>2 DEF Begins, Busy, TypeOK
  <1>3. ASSUME NEW h \in Hosts, NEW u \in Sessions, Register(h, u) PROVE Valid(t)
    <2>1. Valid(host[h].token) /\ s = u /\ call'[s].token = host[h].token
      BY <1>3 DEF Register, Begins, Busy, TypeOK
    <2> QED BY <2>1 DEF Begins
  <1>4. ASSUME NEW u \in Sessions, RegisterCommit(u) \/ RegisterAbort(u) PROVE FALSE
    BY <1>2, <1>4 DEF RegisterCommit, RegisterAbort
  <1>5. CASE AgentNext
    BY <1>1, <1>3, <1>4, <1>5 DEF AgentNext, GiveUp, Rejected, Upload
  <1>6. CASE TokenNext
    BY <1>1, <1>6 DEF TokenNext, Share, Install, Enroll, RevokeToken, DeleteToken, Expire, ChangeToken
  <1>7. CASE RowNext
    BY <1>1, <1>7 DEF RowNext, Revoke, Approve, Allow, Withdraw, Rotate, Delete, Retag, ChangeRow
  <1> QED BY <1>5, <1>6, <1>7 DEF Next

\* No registration begins with a one-use token (agents.py:147) that was used,
\* however registrations overlap; where they take turns it registers once.
THEOREM TokensRegisterOnce == Spec => OneUseToken
  <1> DEFINE A == /\ \A s \in Sessions, t \in Tokens :
                        s \notin Busy /\ call'[s] # Idle /\ call'[s].token = t /\ token[t].limit = 1
                        => uses[t] = 0
                  /\ \A t \in Tokens :
                        Known(t)' /\ token'[t].limit = 1 => setting.overlap \/ uses'[t] <= 1
  <1>1. EnrollInv /\ EnrollInv' /\ [Next]_vars => [A]_vars
    <2> SUFFICES ASSUME EnrollInv, EnrollInv', Next PROVE A
      OBVIOUS
    <2>1. ASSUME NEW s \in Sessions, NEW t \in Tokens, Begins(s, t), token[t].limit = 1
          PROVE uses[t] = 0
      <3>1. Valid(t)
        BY <2>1, OnlyValidBegins DEF EnrollInv
      <3>2. Known(t) /\ token[t] \in Token /\ ~(token[t].uses >= 1)
        BY <2>1, <3>1, TokenIsToken DEF Valid, Known, NoToken, NoLimit, EnrollInv, TypeOK, Token
      <3> QED BY <2>1, <3>2 DEF EnrollInv, OneUse
    <2>2. ASSUME NEW t \in Tokens, Known(t)', token'[t].limit = 1, ~setting.overlap
          PROVE uses'[t] <= 1
      <3>1. setting' = setting
        BY DEF Next, AgentNext, TokenNext, RowNext, GiveUp, Rejected, Upload, Register, RegisterCommit,
               RegisterAbort, Share, Install, Enroll, RevokeToken, DeleteToken, Expire, ChangeToken,
               Revoke, Approve, Allow, Withdraw, Rotate, Delete, Retag, ChangeRow
      <3> QED BY <2>2, <3>1 DEF EnrollInv, OneUse
    <2> QED BY <2>1, <2>2 DEF Begins
  <1> QED BY <1>1, EnrollCorrect, PTL DEF Spec, OneUseToken

-----------------------------------------------------------------------------
(* Revocation.                                                             *)

\* Where a registration may overlap with administrators, agents need no approval.
NoApprovalInOverlap == \A s \in Settings : s.overlap => ~s.approval

\* What RevokedStaysOut says of one step.
StaysOut(m) ==
    Exists(m) /\ row[m].status = "REVOKED" =>
        \/ ~Exists(m)' \/ row[m].status' = "REVOKED" \/ Approve(m) \/ Rotate(m)

\* A row that is not written keeps its status.
LEMMA KeptStaysOut == ASSUME NEW m \in Rows, row'[m] = row[m] PROVE StaysOut(m)
  BY DEF StaysOut

\* So does one that an administrator wrote, with a status or without.
LEMMA WrittenStaysOut ==
    ASSUME TypeOK, NEW m \in Rows, NEW x \in Rows, NEW after, ChangeRow(x, after),
           row[m].status = "REVOKED", x = m => after.status = "REVOKED"
    PROVE StaysOut(m)
  <1>1. CASE x = m
    BY <1>1 DEF ChangeRow, TypeOK, StaysOut
  <1>2. CASE x # m
    BY <1>2, KeptStaysOut DEF ChangeRow, TypeOK
  <1> QED BY <1>1, <1>2

\* No step but an administrator's brings a revoked agent back.
LEMMA StepStaysOut ==
    ASSUME NoApprovalInOverlap, EnrollInv, Next, NEW m \in Rows PROVE StaysOut(m)
  <1> SUFFICES ASSUME Exists(m), row[m].status = "REVOKED", TypeOK, CallsKnown, Turns, NonePending,
                      row[m] \in Machine
               PROVE StaysOut(m)
    BY RowIsMachine DEF StaysOut, EnrollInv
  <1>1. ASSUME NEW h \in Hosts, setting.overlap, GiveUp(h) PROVE StaysOut(m)
    BY <1>1, KeptStaysOut DEF GiveUp
  <1>2. ASSUME NEW h \in Hosts, Rejected(h) PROVE StaysOut(m)
    BY <1>2, KeptStaysOut DEF Rejected, Mine
  <1>3. ASSUME NEW h \in Hosts, Calm, Upload(h) PROVE StaysOut(m)
    <2>1. PICK y \in Mine(h) :
              /\ row[y].status = "ACTIVE"
              /\ row' = [row EXCEPT ![y] = [row[y] EXCEPT !.sys  = IF SysUuid[h] # None THEN SysUuid[h] ELSE @,
                                                         !.mach = IF MachUuid[h] # None THEN MachUuid[h] ELSE @]]
      BY <1>3 DEF Upload
    <2> QED BY <2>1, KeptStaysOut DEF TypeOK
  <1>4. ASSUME NEW h \in Hosts, NEW s \in Sessions, Calm, Register(h, s) PROVE StaysOut(m)
    BY <1>4, KeptStaysOut DEF Register
  <1>5. ASSUME NEW s \in Sessions, RegisterCommit(s) PROVE StaysOut(m)
    <2> DEFINE c == call[s]
    <2>1. s \in Busy /\ c \in Call
      BY <1>5, BusyIsCall DEF RegisterCommit
    <2>2. PICK x \in Rows :
             /\ Target(c, x)
             /\ row' = [row EXCEPT ![x] = IF c.row = None THEN NewRow(c) ELSE Rewritten(c, row[x])]
      BY <1>5 DEF RegisterCommit
    <2>3. setting.overlap => ~setting.approval
      BY DEF NoApprovalInOverlap, TypeOK
    <2>4. CASE x # m
      BY <2>2, <2>4, KeptStaysOut DEF TypeOK
    <2>5. CASE x = m
      <3>1. c.row = m /\ c.row # None
        BY <2>2, <2>5, NoneAssumption DEF Target
      <3>2. c.seen \in Machine /\ c.seen.status # "REVOKED"
        BY <2>1, <3>1 DEF CallsKnown
      <3>3. setting.overlap
        <4>1. ~setting.overlap => c.seen = row[m]
          BY <2>1, <3>1 DEF Turns
        <4> QED BY <3>2, <4>1
      <3>4. ~setting.approval /\ c.seen.status = "ACTIVE"
        BY <2>1, <2>3, <3>1, <3>3 DEF NonePending
      <3>5. StatusFor(c.seen.approved) = "ACTIVE"
        BY <3>4 DEF StatusFor
      <3>6. Rewritten(c, row[m]).status = row[m].status
        BY <3>4, <3>5 DEF Rewritten, Machine
      <3>7. row'[m] = Rewritten(c, row[m])
        BY <2>2, <2>5, <3>1 DEF TypeOK
      <3> QED BY <3>6, <3>7 DEF StaysOut
    <2> QED BY <2>4, <2>5
  <1>6. ASSUME NEW s \in Sessions, RegisterAbort(s) PROVE StaysOut(m)
    BY <1>6, KeptStaysOut DEF RegisterAbort
  <1>7. ASSUME NEW t \in Tokens, Calm, Share(t) PROVE StaysOut(m)
    BY <1>7, KeptStaysOut DEF Share, CanMake
  <1>8. ASSUME NEW t \in Tokens, Calm, RevokeToken(t) PROVE StaysOut(m)
    BY <1>8, KeptStaysOut DEF RevokeToken, ChangeToken
  <1>9. ASSUME NEW t \in Tokens, Calm, DeleteToken(t) PROVE StaysOut(m)
    <2>1. row' = [x \in Rows |-> IF x \in Linked(t) THEN [row[x] EXCEPT !.token = None] ELSE row[x]]
      BY <1>9 DEF DeleteToken
    <2>2. row'[m].status = row[m].status
      BY <2>1 DEF Machine
    <2> QED BY <2>2 DEF StaysOut
  <1>10. ASSUME NEW t \in Tokens, Calm, Expire(t) PROVE StaysOut(m)
    BY <1>10, KeptStaysOut DEF Expire, ChangeToken
  <1>11. ASSUME NEW h \in Hosts, NEW a \in Assets, NEW t \in Tokens, Does("enroll"), Enroll(h, a, t) PROVE StaysOut(m)
    BY <1>11, KeptStaysOut DEF Enroll, CanMake, Installed, Does
  <1>12. ASSUME NEW h \in Hosts, NEW a \in Assets, NEW t \in Tokens, Calm, Install(h, a, t) PROVE StaysOut(m)
    BY <1>12, KeptStaysOut DEF Install, Installed
  <1>13. ASSUME NEW x \in Rows, Calm, Revoke(x) PROVE StaysOut(m)
    <2> DEFINE after == [row[x] EXCEPT !.status = "REVOKED"]
    <2>1. ChangeRow(x, after)
      BY <1>13 DEF Revoke
    <2>2. x = m => after.status = "REVOKED"
      BY DEF Machine
    <2> HIDE DEF after
    <2> QED BY <2>1, <2>2, WrittenStaysOut
  <1>14. ASSUME NEW x \in Rows, Calm, Approve(x) PROVE StaysOut(m)
    <2>1. CASE x = m
      BY <1>14, <2>1 DEF StaysOut
    <2>2. CASE x # m
      BY <1>14, <2>2, KeptStaysOut DEF Approve, ChangeRow, TypeOK
    <2> QED BY <2>1, <2>2
  <1>15. ASSUME NEW x \in Rows, Calm, Allow(x) PROVE StaysOut(m)
    <2> DEFINE after == [row[x] EXCEPT !.approved = TRUE, !.status = IF row[x].status = "PENDING" THEN "ACTIVE" ELSE row[x].status]
    <2>1. ChangeRow(x, after)
      BY <1>15 DEF Allow
    <2>2. x = m => after.status = "REVOKED"
      BY DEF Machine
    <2> HIDE DEF after
    <2> QED BY <2>1, <2>2, WrittenStaysOut
  <1>16. ASSUME NEW x \in Rows, Calm, Withdraw(x) PROVE StaysOut(m)
    <2> DEFINE after == [row[x] EXCEPT !.approved = FALSE]
    <2>1. ChangeRow(x, after)
      BY <1>16 DEF Withdraw
    <2>2. x = m => after.status = "REVOKED"
      BY DEF Machine
    <2> HIDE DEF after
    <2> QED BY <2>1, <2>2, WrittenStaysOut
  <1>17. ASSUME NEW x \in Rows, Calm, Rotate(x) PROVE StaysOut(m)
    <2>1. CASE x = m
      BY <1>17, <2>1 DEF StaysOut
    <2>2. CASE x # m
      BY <1>17, <2>2, KeptStaysOut DEF Rotate, ChangeRow, TypeOK
    <2> QED BY <2>1, <2>2
  <1>18. ASSUME NEW x \in Rows, Calm, Delete(x) PROVE StaysOut(m)
    <2>1. row' = [row EXCEPT ![x] = NoRow]
      BY <1>18 DEF Delete, ChangeRow
    <2> QED BY <2>1, KeptStaysOut DEF StaysOut, Exists, TypeOK
  <1>19. ASSUME NEW x \in Rows, NEW a \in Assets, Calm, Retag(x, a) PROVE StaysOut(m)
    <2> DEFINE after == [row[x] EXCEPT !.asset = a]
    <2>1. ChangeRow(x, after)
      BY <1>19 DEF Retag
    <2>2. x = m => after.status = "REVOKED"
      BY DEF Machine
    <2> HIDE DEF after
    <2> QED BY <2>1, <2>2, WrittenStaysOut
  <1> QED BY <1>1, <1>2, <1>3, <1>4, <1>5, <1>6, <1>7, <1>8, <1>9, <1>10, <1>11, <1>12, <1>13, <1>14, <1>15, <1>16, <1>17, <1>18, <1>19
         DEF Next, AgentNext, TokenNext, RowNext, Does

\* A revoked agent comes back by an administrator's hand only (agents.py:257),
\* also when the revocation meets registrations under way that ask for no approval.
THEOREM RevocationHolds == ASSUME NoApprovalInOverlap PROVE Spec => RevokedStaysOut
  <1>1. EnrollInv /\ [Next]_vars =>
          [\A m \in Rows : Exists(m) /\ row[m].status = "REVOKED" =>
               \/ ~Exists(m)' \/ row[m].status' = "REVOKED" \/ Approve(m) \/ Rotate(m)]_vars
    BY StepStaysOut DEF StaysOut
  <1> QED BY <1>1, EnrollCorrect, PTL DEF Spec, RevokedStaysOut
=============================================================================
