----------------------------- MODULE EventQueue -----------------------------
(***************************************************************************)
(* The agent's buffer of events and logs (queue.db) and its flush to the   *)
(* server: take the oldest rows, post the events among them, post the      *)
(* logs, delete the rows.  The agent is one thread, and the table survives *)
(* it; the server may store a post whose answer the agent never sees, also *)
(* long after the agent gave the request up.                               *)
(*                                                                         *)
(* A row is its id.  The agent itself only pushes logs today; the buffer   *)
(* and the flush take both kinds.                                          *)
(***************************************************************************)
EXTENDS Naturals, FiniteSets

CONSTANTS
    MaxRows,    \* EventQueue.max_rows
    BatchSize,  \* rows of a flush
    Sessions,   \* server sessions that execute posts
    LastId      \* bound: rows ever pushed

ASSUME SizesAssumption == MaxRows \in Nat /\ BatchSize \in Nat /\ LastId \in Nat

VARIABLES
    rows,      \* ids in the table
    nextId,    \* AUTOINCREMENT: no id is used twice
    kind,      \* the kind of every row ever pushed
    step,      \* where the flush is
    batch,     \* the rows it took
    live,      \* the session that executes the request the agent waits for
    posted,    \* what each session is about to store
    stored,    \* rows stored by the server
    evicted    \* history: rows deleted because the table was full

vars == <<rows, nextId, kind, step, batch, live, posted, stored, evicted>>

-----------------------------------------------------------------------------
Kinds == {"event", "log"}
Steps == {"idle", "event", "log", "delete"}

None == "none"   \* the agent waits for no answer
Lost == "lost"   \* it waits for one that will not come
ASSUME SessionsAssumption == None \notin Sessions /\ Lost \notin Sessions

Ids == 1 .. nextId - 1

TypeOK ==
    /\ nextId \in Nat \ {0}
    /\ rows \subseteq Ids /\ batch \subseteq Ids /\ stored \subseteq Ids /\ evicted \subseteq Ids
    /\ kind \in [Ids -> Kinds]
    /\ step \in Steps
    /\ live \in Sessions \cup {None, Lost}
    /\ posted \in [Sessions -> SUBSET Ids]

Init ==
    /\ rows = {} /\ nextId = 1 /\ kind = [i \in {} |-> "log"]
    /\ step = "idle" /\ batch = {} /\ live = None
    /\ posted = [s \in Sessions |-> {}]
    /\ stored = {} /\ evicted = {}

\* Mutant: the newest rows first.
Oldest_Newest(S, n) == {i \in S : Cardinality({j \in S : j > i}) < n}

\* ORDER BY id ASC LIMIT n
Oldest(S, n) == {i \in S : Cardinality({j \in S : j < i}) < n}

-----------------------------------------------------------------------------
(* The table.                                                              *)

\* Mutant: the table is trimmed to one row more.
Excess_One(S) == IF Cardinality(S) > MaxRows + 1 THEN Cardinality(S) - MaxRows - 1 ELSE 0

\* Rows beyond max_rows.
Excess(S) == IF Cardinality(S) > MaxRows THEN Cardinality(S) - MaxRows ELSE 0

\* Mutant: without AUTOINCREMENT the table continues from its largest id.
Push_Reuses(k) ==
    LET id  == IF rows = {} THEN 1 ELSE 1 + CHOOSE i \in rows : \A j \in rows : j <= i
        all == rows \cup {id}
        old == Oldest(all, Excess(all))
    IN  /\ rows' = all \ old
        /\ evicted' = evicted \cup old
        /\ kind' = [i \in 1 .. id |-> IF i = id THEN k ELSE kind[i]]
        /\ nextId' = id + 1

\* EventQueue.push: insert a row, then delete the oldest beyond the limit.
Push(k) ==
    LET all == rows \cup {nextId}
        old == Oldest(all, Excess(all))
    IN  /\ rows' = all \ old
        /\ evicted' = evicted \cup old
        /\ kind' = [i \in Ids \cup {nextId} |-> IF i = nextId THEN k ELSE kind[i]]
        /\ nextId' = nextId + 1

\* A record of the agent's loggers, or a failure noted by its loop.
Record(k) ==
    /\ step = "idle"
    /\ nextId <= LastId
    /\ Push(k)
    /\ UNCHANGED <<step, batch, live, posted, stored>>

-----------------------------------------------------------------------------
(* The flush.                                                              *)

\* Mutant: rows are deleted when the flush starts.
Flush_Deletes ==
    /\ step = "idle"
    /\ rows # {}
    /\ batch' = Oldest(rows, BatchSize)
    /\ rows' = rows \ Oldest(rows, BatchSize)
    /\ step' = "event"
    /\ UNCHANGED <<nextId, kind, live, posted, stored, evicted>>

\* Mutant: wait for a full batch.
Flush_Full ==
    /\ step = "idle"
    /\ Cardinality(rows) >= BatchSize
    /\ batch' = Oldest(rows, BatchSize)
    /\ step' = "event"
    /\ UNCHANGED <<rows, nextId, kind, live, posted, stored, evicted>>

\* pop_batch
Flush ==
    /\ step = "idle"
    /\ rows # {}
    /\ batch' = Oldest(rows, BatchSize)
    /\ step' = "event"
    /\ UNCHANGED <<rows, nextId, kind, live, posted, stored, evicted>>

Of(k) == {i \in batch : kind[i] = k}

After(s) == IF s = "event" THEN "log" ELSE "delete"

\* client.events and client.logs are only called when there is something to post.
Post(s) ==
    /\ step \in Kinds
    /\ live = None
    /\ IF Of(step) = {}
       THEN step' = After(step) /\ UNCHANGED <<live, posted>>
       ELSE /\ posted[s] = {}
            /\ posted' = [posted EXCEPT ![s] = Of(step)]
            /\ live' = s
            /\ UNCHANGED step
    /\ UNCHANGED <<rows, nextId, kind, batch, stored, evicted>>

\* The handler commits; the answer reaches the agent, is lost, or nobody waits for it.
Store(s) ==
    /\ posted[s] # {}
    /\ stored' = stored \cup posted[s]
    /\ posted' = [posted EXCEPT ![s] = {}]
    /\ \/ live = s /\ live' = None /\ step' = After(step)
       \/ live = s /\ live' = Lost /\ UNCHANGED step
       \/ live # s /\ UNCHANGED <<live, step>>
    /\ UNCHANGED <<rows, nextId, kind, batch, evicted>>

\* The request is rejected, fails, or never reaches the handler.
Reject(s) ==
    /\ posted[s] # {}
    /\ posted' = [posted EXCEPT ![s] = {}]
    /\ live' = IF live = s THEN Lost ELSE live
    /\ UNCHANGED <<rows, nextId, kind, step, batch, stored, evicted>>

\* The request fails or times out: the client's warning is itself a row of the
\* queue (at the bound it is left out), and run() goes on with its loop.  The
\* server may still be at work.
GiveUp ==
    /\ live # None
    /\ IF nextId <= LastId THEN Push("log") ELSE UNCHANGED <<rows, nextId, kind, evicted>>
    /\ step' = "idle" /\ batch' = {} /\ live' = None
    /\ UNCHANGED <<posted, stored>>

Delete ==
    /\ step = "delete"
    /\ rows' = rows \ batch
    /\ step' = "idle" /\ batch' = {}
    /\ UNCHANGED <<nextId, kind, live, posted, stored, evicted>>

\* The agent stops or is killed, and starts again on the same table.
Restart ==
    /\ step # "idle"
    /\ step' = "idle" /\ batch' = {} /\ live' = None
    /\ UNCHANGED <<rows, nextId, kind, posted, stored, evicted>>

-----------------------------------------------------------------------------
AgentNext ==
    \/ \E k \in Kinds : Record(k)
    \/ Flush
    \/ \E s \in Sessions : Post(s)
    \/ GiveUp
    \/ Delete
    \/ Restart

ServerNext == \E s \in Sessions : Store(s) \/ Reject(s)

Next == AgentNext \/ ServerNext

Spec == Init /\ [][Next]_vars

\* Requests are answered from some point on, and the loop goes on flushing.
Recovered == <>[][live' # Lost /\ ~GiveUp /\ ~Restart]_vars
Fairness ==
    /\ WF_vars(Flush) /\ WF_vars(\E s \in Sessions : Post(s)) /\ WF_vars(Delete)
    /\ WF_vars(live = Lost /\ GiveUp)
    /\ \A s \in Sessions : WF_vars(Store(s) \/ Reject(s))

FairSpec == Spec /\ Fairness /\ Recovered

-----------------------------------------------------------------------------
(* Safety.                                                                 *)

\* Lost answers, requests given up and restarts lose no row: whatever was
\* pushed is still in the table, or stored by the server, or was evicted.
NothingLost == \A i \in Ids : i \in rows \cup stored \cup evicted

\* However late the server stores what the agent gave up, a row it stores has
\* no predecessor of its kind waiting: all were stored, with it or before, or
\* evicted.
StoredInOrder ==
    \A i \in stored : \A j \in Ids :
        j < i /\ kind[j] = kind[i] => j \in stored \cup evicted

\* A full table gives up its oldest rows, never one newer than a row it keeps.
EvictsOldest == \A i \in evicted : \A j \in rows : i < j

\* The table stays within max_rows, the client's own warnings included.
Bounded == Cardinality(rows) <= MaxRows

\* A row leaves the table only when the server has it, or to make room in a
\* full table.
LeavesForAReason ==
    [][\A i \in rows \ rows' : i \in stored \/ Cardinality(rows) >= MaxRows]_vars

-----------------------------------------------------------------------------
(* Liveness.                                                               *)

\* Once the server answers again, every row is stored or evicted.
Drains == \A i \in 1 .. LastId : (i \in rows) ~> (i \in stored \cup evicted)
=============================================================================
