----------------------------- MODULE Enrollment -----------------------------
(***************************************************************************)
(* How hosts become machines: registration tokens, the matching of a host  *)
(* to a machine's row, the credentials of its agent, and what happens to   *)
(* them when hosts move between tokens, assets change hands, answers are   *)
(* lost, and administrators revoke, rotate and delete.                     *)
(*                                                                         *)
(* A registration is a transaction at READ COMMITTED: it reads, then       *)
(* commits the columns it changed.  A host's process is one thread, but a  *)
(* registration it gave up may still commit.  The server mints a secret    *)
(* and the agent an id per registration: both are its number here.         *)
(***************************************************************************)
EXTENDS Naturals, FiniteSets

CONSTANTS
    Hosts,
    SysUuid,    \* SMBIOS UUID of each host, or None
    MachUuid,   \* machine-id of each host, or None
    Assets,     \* inventory ids
    Rows,       \* bound: machine rows at a time
    Tokens,     \* registration tokens
    Sessions,   \* server sessions that execute registrations
    MaxSecret,  \* bound: registrations and rotations
    Settings    \* what one behaviour considers: see Setting

None == "none"
AllOperations == {"enroll", "share", "revoke", "approve", "withdraw", "rotate", "delete", "retag",
                  "revoke_token", "delete_token", "expire"}

\* Kinds of administrators' requests; REQUIRE_APPROVAL; whether anything happens
\* while a registration is in progress; and a bound, the tokens ever made.
Setting == [operations : SUBSET AllOperations, approval : BOOLEAN, overlap : BOOLEAN, tokens : Nat]

ASSUME SettingsAssumption == Settings \subseteq Setting
ASSUME NoneAssumption == None \notin Hosts \cup Assets \cup Rows \cup Tokens \cup Sessions
ASSUME BoundAssumption == MaxSecret \in Nat

VARIABLES
    setting, \* never changes
    row,     \* machines with their agents
    token,   \* registration tokens
    host,    \* what each host has: its asset and token (config), its secret (state file)
    call,    \* sessions of registrations
    last,    \* the newest secret
    uses     \* history: registrations committed with each token

vars == <<setting, row, token, host, call, last, uses>>

-----------------------------------------------------------------------------
Status == {"ACTIVE", "PENDING", "REVOKED"}
Uuids  == {SysUuid[h] : h \in Hosts} \cup {MachUuid[h] : h \in Hosts} \cup {None}

\* A row of machines and the agent that belongs to it.
Machine == [sys : Uuids, mach : Uuids, asset : Assets, approved : BOOLEAN,
            status : Status, secret : 1 .. MaxSecret, token : Tokens \cup {None}]
NoRow   == [secret |-> 0]

NoLimit == 0
Token   == [limit : {NoLimit, 1}, uses : 0 .. MaxSecret, state : {"live", "expired", "revoked"}]
NoToken == {[state |-> "absent"], [state |-> "deleted"]}

NoHost == [asset |-> None, token |-> None, secret |-> 0, waits |-> None]
Idle   == [host |-> None]

\* A registration between its queries and its commit.
Call == [host : Hosts, asset : Assets, token : Tokens, used : 0 .. MaxSecret,
         row : Rows \cup {None}, seen : Machine \cup {NoRow}, secret : 1 .. MaxSecret,
         supersedes : Tokens \cup {None}]

TypeOK ==
    /\ setting \in Settings
    /\ row \in [Rows -> Machine \cup {NoRow}]
    /\ token \in [Tokens -> Token \cup NoToken]
    /\ host \in [Hosts -> [asset : Assets \cup {None}, token : Tokens \cup {None},
                           secret : 0 .. MaxSecret, waits : Sessions \cup {None}]]
    /\ call \in [Sessions -> Call \cup {Idle}]
    /\ last \in 0 .. MaxSecret
    /\ uses \in [Tokens -> 0 .. MaxSecret]

Init ==
    /\ setting \in Settings
    /\ row = [m \in Rows |-> NoRow]
    /\ token = [t \in Tokens |-> [state |-> "absent"]]
    /\ host = [h \in Hosts |-> NoHost]
    /\ call = [s \in Sessions |-> Idle]
    /\ last = 0
    /\ uses = [t \in Tokens |-> 0]

-----------------------------------------------------------------------------
(* Tokens and rows.                                                        *)

Known(t) == token[t] \notin NoToken

\* Registrations in progress.
Busy == {s \in Sessions : call[s] # Idle}

\* Mutant: the limit is compared off by one.
Valid_OneMore(t) == /\ token[t].state = "live"
                    /\ token[t].limit # NoLimit => token[t].uses <= token[t].limit

\* _valid_token
Valid(t) == /\ token[t].state = "live"
            /\ token[t].limit # NoLimit => token[t].uses < token[t].limit

Exists(m) == row[m] # NoRow
Live      == {m \in Rows : Exists(m)}

ByAsset(a)   == {m \in Live : row[m].asset = a}
BySys(uuid)  == {m \in Live : uuid # None /\ row[m].sys = uuid}
ByMach(uuid) == {m \in Live : uuid # None /\ row[m].mach = uuid}

\* _match_machine.  The agent's id is new with every registration, and the
\* fingerprint of a row includes the agent's id while the one looked up does
\* not: neither ever finds a row.
Matches(h, a) ==
    IF ByAsset(a) # {} THEN ByAsset(a)
    ELSE IF BySys(SysUuid[h]) # {} THEN BySys(SysUuid[h])
    ELSE ByMach(MachUuid[h])

\* scalar_one_or_none raises when two rows match.
Raises(h, a) == Cardinality(Matches(h, a)) > 1

Linked(t) == {m \in Live : row[m].token = t}

\* revoke_superseded_token: the previous token, when no other agent is linked to it.
Superseded(m, new) ==
    IF m # None /\ row[m].token \notin {None, new} /\ token[row[m].token].state # "revoked"
       /\ Linked(row[m].token) = {m}
    THEN row[m].token ELSE None

-----------------------------------------------------------------------------
(* Registration.                                                           *)

\* A revoked agent is refused.
Admitted(m) == m # None => row[m].status # "REVOKED"

\* register_agent up to the commit.  The agent has no credentials and its token
\* is valid; the other cases answer 401 or 403 and change nothing.
Register(h, s) ==
    LET a == host[h].asset
        t == host[h].token
        m == IF Matches(h, a) = {} THEN None ELSE CHOOSE x \in Matches(h, a) : TRUE
    IN  /\ host[h].secret = 0 /\ host[h].waits = None
        /\ t # None /\ Valid(t)
        /\ s \notin Busy
        /\ last < MaxSecret
        /\ ~Raises(h, a)
        /\ Admitted(m)
        /\ call' = [call EXCEPT ![s] =
              [host |-> h, asset |-> a, token |-> t, used |-> token[t].uses, row |-> m,
               seen |-> IF m = None THEN NoRow ELSE row[m], secret |-> last + 1,
               supersedes |-> Superseded(m, t)]]
        /\ last' = last + 1
        /\ host' = [host EXCEPT ![h].waits = s]
        /\ UNCHANGED <<setting, row, token, uses>>

StatusFor(approved) == IF setting.approval /\ ~approved THEN "PENDING" ELSE "ACTIVE"

\* Mutant: a new machine is made without its inventory id.
NewRow_Untagged(c) ==
    [sys |-> SysUuid[c.host], mach |-> MachUuid[c.host], asset |-> None,
     approved |-> ~setting.approval, status |-> StatusFor(~setting.approval),
     secret |-> c.secret, token |-> c.token]

NewRow(c) ==
    [sys |-> SysUuid[c.host], mach |-> MachUuid[c.host], asset |-> c.asset,
     approved |-> ~setting.approval, status |-> StatusFor(~setting.approval),
     secret |-> c.secret, token |-> c.token]

\* Mutant: the status is written whether it changed or not.
Rewritten_Status(c, now) ==
    [now EXCEPT !.asset    = c.asset,
                !.approved = @ \/ (~setting.approval /\ ~c.seen.approved),
                !.status   = StatusFor(c.seen.approved),
                !.secret   = c.secret,
                !.token    = IF c.seen.token # c.token THEN c.token ELSE @]

\* Only the columns that changed are written.
Rewritten(c, now) ==
    [now EXCEPT !.asset    = IF c.seen.asset # c.asset THEN c.asset ELSE @,
                !.approved = @ \/ (~setting.approval /\ ~c.seen.approved),
                !.status   = IF c.seen.status # StatusFor(c.seen.approved)
                             THEN StatusFor(c.seen.approved) ELSE @,
                !.secret   = c.secret,
                !.token    = IF c.seen.token # c.token THEN c.token ELSE @]

\* The row a registration writes; a new one is not a row another has read.
Target(c, m) ==
    IF c.row = None THEN ~Exists(m) /\ \A s \in Busy : call[s].row # m
    ELSE m = c.row /\ Exists(m)

\* Inventory ids are unique; a deleted token or row fails the commit.
Committable(c, after) ==
    /\ Known(c.token)
    /\ c.supersedes # None => Known(c.supersedes)
    /\ \A x, y \in Rows : after[x] # NoRow /\ after[y] # NoRow /\ after[x].asset = after[y].asset => x = y

Answer(h, s, secret) ==
    IF host[h].waits = s
    THEN \/ host' = [host EXCEPT ![h].secret = secret, ![h].waits = None]
         \/ host' = [host EXCEPT ![h].waits = None]   \* the answer is lost
    ELSE UNCHANGED host

RegisterCommit(s) ==
    LET c == call[s] IN
    /\ s \in Busy
    /\ \E m \in Rows :
          LET after == [row EXCEPT ![m] = IF c.row = None THEN NewRow(c) ELSE Rewritten(c, @)] IN
          /\ Target(c, m)
          /\ Committable(c, after)
          /\ row' = after
    /\ token' = [t \in Tokens |->
          IF t = c.token THEN [token[t] EXCEPT !.uses = c.used + 1]
          ELSE IF t = c.supersedes THEN [token[t] EXCEPT !.state = "revoked"]
          ELSE token[t]]
    /\ uses' = [uses EXCEPT ![c.token] = @ + 1]
    /\ Answer(c.host, s, c.secret)
    /\ call' = [call EXCEPT ![s] = Idle]
    /\ UNCHANGED <<setting, last>>

\* A constraint fails, the connection or the server fails: rolled back.
RegisterAbort(s) ==
    /\ s \in Busy
    /\ host' = [h \in Hosts |-> IF host[h].waits = s THEN [host[h] EXCEPT !.waits = None] ELSE host[h]]
    /\ call' = [call EXCEPT ![s] = Idle]
    /\ UNCHANGED <<setting, row, token, last, uses>>

\* The client times out, or its process ends; the session goes on.
GiveUp(h) ==
    /\ host[h].waits # None
    /\ host' = [host EXCEPT ![h].waits = None]
    /\ UNCHANGED <<setting, row, token, call, last, uses>>

-----------------------------------------------------------------------------
(* The agent with its credentials.                                         *)

Mine(h) == {m \in Live : row[m].secret = host[h].secret}

\* 401: the agent drops its credentials and will register again.
Rejected(h) ==
    /\ host[h].secret # 0
    /\ Mine(h) = {}
    /\ host' = [host EXCEPT ![h].secret = 0]
    /\ UNCHANGED <<setting, row, token, call, last, uses>>

\* persist_inventory: the row takes the identity the host reports.
Upload(h) ==
    \E m \in Mine(h) :
        /\ row[m].status = "ACTIVE"
        /\ row' = [row EXCEPT ![m] = [row[m] EXCEPT !.sys  = IF SysUuid[h] # None THEN SysUuid[h] ELSE @,
                                                    !.mach = IF MachUuid[h] # None THEN MachUuid[h] ELSE @]]
        /\ UNCHANGED <<setting, token, host, call, last, uses>>

-----------------------------------------------------------------------------
(* Operators, administrators and the installer.                            *)

\* The installer writes the configuration and removes the state file.
Installed(h, a, t) == [host EXCEPT ![h] = [asset |-> a, token |-> t, secret |-> 0, waits |-> None]]

CanMake(t) ==
    /\ token[t].state = "absent"
    /\ Cardinality({u \in Tokens : token[u].state # "absent"}) < setting.tokens

\* enroll_agent: the installer gets a token of its own.
Enroll(h, a, t) ==
    /\ CanMake(t)
    /\ token' = [token EXCEPT ![t] = [limit |-> 1, uses |-> 0, state |-> "live"]]
    /\ host' = Installed(h, a, t)
    /\ UNCHANGED <<setting, row, call, last, uses>>

\* create_token: a token for any number of machines.
Share(t) ==
    /\ CanMake(t)
    /\ token' = [token EXCEPT ![t] = [limit |-> NoLimit, uses |-> 0, state |-> "live"]]
    /\ UNCHANGED <<setting, row, host, call, last, uses>>

\* The installer runs with a token the administrator shared.
Install(h, a, t) ==
    /\ Known(t) /\ token[t].limit = NoLimit
    /\ host' = Installed(h, a, t)
    /\ UNCHANGED <<setting, row, token, call, last, uses>>

ChangeToken(t, after) ==
    /\ Known(t)
    /\ token' = [token EXCEPT ![t] = after]
    /\ UNCHANGED <<setting, host, call, last, uses>>

RevokeToken(t) == ChangeToken(t, [token[t] EXCEPT !.state = "revoked"]) /\ UNCHANGED row
Expire(t)      == token[t].state = "live" /\ ChangeToken(t, [token[t] EXCEPT !.state = "expired"]) /\ UNCHANGED row

\* Linked agents keep working (SET NULL).
DeleteToken(t) ==
    /\ ChangeToken(t, [state |-> "deleted"])
    /\ row' = [m \in Rows |-> IF m \in Linked(t) THEN [row[m] EXCEPT !.token = None] ELSE row[m]]

ChangeRow(m, after) ==
    /\ Exists(m)
    /\ row' = [row EXCEPT ![m] = after]
    /\ UNCHANGED <<setting, token, host, call, uses>>

Revoke(m)   == ChangeRow(m, [row[m] EXCEPT !.status = "REVOKED"]) /\ UNCHANGED last
Delete(m)   == ChangeRow(m, NoRow) /\ UNCHANGED last
Withdraw(m) == ChangeRow(m, [row[m] EXCEPT !.approved = FALSE]) /\ UNCHANGED last
Approve(m)  == ChangeRow(m, [row[m] EXCEPT !.approved = TRUE, !.status = "ACTIVE"]) /\ UNCHANGED last
\* update_machine with "approved": a revoked agent stays revoked.
Allow(m)    == ChangeRow(m, [row[m] EXCEPT !.approved = TRUE,
                                           !.status = IF @ = "PENDING" THEN "ACTIVE" ELSE @]) /\ UNCHANGED last
Retag(m, a) == ByAsset(a) = {} /\ ChangeRow(m, [row[m] EXCEPT !.asset = a]) /\ UNCHANGED last

\* rotate_agent: the new secret is shown once; the host does not have it.
Rotate(m) ==
    /\ last < MaxSecret
    /\ last' = last + 1
    /\ ChangeRow(m, [row[m] EXCEPT !.secret = last + 1, !.status = "ACTIVE"])

-----------------------------------------------------------------------------
Calm == setting.overlap \/ Busy = {}

Does(operation) == operation \in setting.operations /\ Calm

AgentNext ==
    \/ \E h \in Hosts : \/ setting.overlap /\ GiveUp(h)
                        \/ Calm /\ Rejected(h)
                        \/ Calm /\ Upload(h)
                        \/ \E s \in Sessions : Calm /\ Register(h, s)
    \/ \E s \in Sessions : RegisterCommit(s) \/ RegisterAbort(s)

TokenNext ==
    \E t \in Tokens :
        \/ Does("share") /\ Share(t)
        \/ Does("revoke_token") /\ RevokeToken(t)
        \/ Does("delete_token") /\ DeleteToken(t)
        \/ Does("expire") /\ Expire(t)
        \/ \E h \in Hosts, a \in Assets : \/ Does("enroll") /\ Enroll(h, a, t)
                                          \/ Does("share") /\ Install(h, a, t)

RowNext ==
    \E m \in Rows :
        \/ Does("revoke") /\ Revoke(m)
        \/ Does("approve") /\ (Approve(m) \/ Allow(m))
        \/ Does("withdraw") /\ Withdraw(m)
        \/ Does("rotate") /\ Rotate(m)
        \/ Does("delete") /\ Delete(m)
        \/ Does("retag") /\ \E a \in Assets : Retag(m, a)

Next == AgentNext \/ TokenNext \/ RowNext

Spec == Init /\ [][Next]_vars

-----------------------------------------------------------------------------
(* Safety.                                                                 *)

\* An agent that was revoked comes back only by an administrator's hand
\* (agents.py:257, "ask an administrator to re-enable it"), also when the
\* revocation meets registrations that are under way.
RevokedStaysOut ==
    [][\A m \in Rows : Exists(m) /\ row[m].status = "REVOKED" =>
           \/ ~Exists(m)' \/ row[m].status' = "REVOKED" \/ Approve(m) \/ Rotate(m)]_vars

\* No registration begins with a one-use token that was used (agents.py:147, "mint
\* a one-use token").  Where registrations take turns it therefore registers once;
\* where they overlap, again only in sessions that read it before its first use was
\* committed: one that a host gave up, and the one it tried next.
OneUseToken ==
    [][/\ \A s \in Sessions, t \in Tokens :
             s \notin Busy /\ call'[s] # Idle /\ call'[s].token = t /\ token[t].limit = 1 => uses[t] = 0
       /\ \A t \in Tokens : Known(t)' /\ token'[t].limit = 1 => setting.overlap \/ uses'[t] <= 1]_vars

\* scalar_one_or_none (agents.py:134-141) takes for granted that at most one
\* machine has the identity of a host that returns.
MatchIsUnique ==
    \A h \in Hosts : host[h].asset # None => ~Raises(h, host[h].asset)
=============================================================================
