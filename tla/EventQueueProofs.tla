-------------------------- MODULE EventQueueProofs --------------------------
(***************************************************************************)
(* Proofs about EventQueue.                                                *)
(***************************************************************************)
EXTENDS EventQueue, FiniteSetTheorems, WellFoundedInduction, TLAPS

-----------------------------------------------------------------------------
(* The inductive invariant.  What the server may still store, and what the *)
(* flush will delete, must be as good as stored in order.                  *)

\* Without a flush there is no batch; a request is awaited only while posting,
\* and the session that executes it stores what the batch has of that kind.
FlushShape ==
    /\ step = "idle" => batch = {}
    /\ live # None => step \in Kinds
    /\ \A s \in Sessions : live = s => posted[s] = Of(step) /\ posted[s] # {}

\* The flush goes on only over what the server has stored.
FlushStored ==
    /\ step = "log" => Of("event") \subseteq stored
    /\ step = "delete" => batch \subseteq stored

\* A batch is taken from the front of the table.
BatchInOrder == \A i \in batch : \A j \in Ids : j < i => j \in batch \cup stored \cup evicted

\* So is what a session is about to store, however late it does.
PostsInOrder ==
    \A s \in Sessions : \A i \in posted[s] : \A j \in Ids :
        j < i /\ kind[j] = kind[i] => j \in posted[s] \cup stored \cup evicted

QueueInv ==
    /\ TypeOK /\ NothingLost /\ StoredInOrder /\ EvictsOldest /\ Bounded
    /\ FlushShape /\ FlushStored /\ BatchInOrder /\ PostsInOrder

-----------------------------------------------------------------------------
(* Facts about the oldest rows of a table.                                 *)

LEMMA OldestSubset == ASSUME NEW S, NEW n PROVE Oldest(S, n) \subseteq S
  BY DEF Oldest

\* With a row, Oldest takes every row before it.
LEMMA OldestClosed ==
  ASSUME NEW S \in SUBSET Nat, IsFiniteSet(S), NEW n \in Nat,
         NEW i \in Oldest(S, n), NEW j \in S, j < i
  PROVE  j \in Oldest(S, n)
  <1> DEFINE below(k) == {x \in S : x < k}
  <1>0. i \in Nat /\ j \in Nat
    BY DEF Oldest
  <1>1. below(j) \subseteq below(i)
    <2> SUFFICES ASSUME NEW x \in below(j) PROVE x \in below(i)
      OBVIOUS
    <2>1. x \in S /\ x \in Nat /\ x < j
      OBVIOUS
    <2>2. x < i
      BY <1>0, <2>1
    <2> QED BY <2>1, <2>2
  <1>2. IsFiniteSet(below(i)) /\ Cardinality(below(i)) < n
    <2>1. below(i) \subseteq S
      OBVIOUS
    <2> QED BY <2>1, FS_Subset DEF Oldest
  <1>3. Cardinality(below(j)) <= Cardinality(below(i))
    BY <1>1, <1>2, FS_Subset
  <1>4. Cardinality(below(j)) \in Nat /\ Cardinality(below(i)) \in Nat /\ IsFiniteSet(below(j))
    BY <1>1, <1>2, FS_Subset, FS_CardinalityType
  <1> QED BY <1>2, <1>3, <1>4 DEF Oldest

\* A nonempty set of naturals has a least element.
LEMMA Least ==
  ASSUME NEW S \in SUBSET Nat, S # {}
  PROVE  \E x \in S : \A y \in S : x <= y
  <1>1. PICK x \in S : \A y \in S : ~(<<y, x>> \in OpToRel(<, Nat))
    BY NatLessThanWellFounded, WFMin
  <1>2. ASSUME NEW y \in S PROVE x <= y
    <2>1. ~(<<y, x>> \in OpToRel(<, Nat))
      BY <1>1
    <2>2. ~(y < x)
      BY <2>1 DEF OpToRel
    <2> QED BY <2>2
  <1> QED BY <1>2

\* The oldest row of a nonempty table exists.
LEMMA OldestOne ==
  ASSUME NEW S \in SUBSET Nat, S # {}
  PROVE  Oldest(S, 1) # {}
  <1>1. PICK x \in S : \A y \in S : x <= y
    BY Least
  <1>2. {j \in S : j < x} = {}
    <2>1. ASSUME NEW j \in S PROVE ~(j < x)
      <3>1. x \in Nat /\ j \in Nat /\ x <= j
        BY <1>1
      <3> QED BY <3>1
    <2> QED BY <2>1
  <1>3. Cardinality({j \in S : j < x}) = 0
    BY <1>2, FS_EmptySet
  <1> QED BY <1>3 DEF Oldest

LEMMA RowsFinite == TypeOK => IsFiniteSet(rows) /\ rows \in SUBSET Nat
  <1> SUFFICES ASSUME TypeOK PROVE IsFiniteSet(rows) /\ rows \in SUBSET Nat
    OBVIOUS
  <1>1. nextId - 1 \in Int /\ 1 \in Int
    BY DEF TypeOK
  <1>2. IsFiniteSet(Ids)
    BY <1>1, FS_Interval DEF Ids
  <1>3. rows \subseteq Ids /\ Ids \subseteq Nat
    BY DEF TypeOK, Ids
  <1> QED BY <1>2, <1>3, FS_Subset

-----------------------------------------------------------------------------
(* What a push does to the table and to the history.                       *)

LEMMA PushTypes ==
  ASSUME TypeOK, NEW k \in Kinds, Push(k)
  PROVE  /\ nextId' \in Nat \ {0}
         /\ Ids' = Ids \cup {nextId} /\ nextId \notin Ids /\ Ids \in SUBSET Nat
         /\ rows' \subseteq Ids' /\ evicted' \subseteq Ids'
         /\ kind' \in [Ids' -> Kinds] /\ \A i \in Ids : kind'[i] = kind[i]
  <1>1. nextId \in Nat \ {0} /\ nextId' = nextId + 1
    BY DEF TypeOK, Push
  <1>2. Ids' = Ids \cup {nextId} /\ nextId \notin Ids /\ Ids \in SUBSET Nat
    BY <1>1 DEF Ids
  <1> DEFINE all == rows \cup {nextId}
             old == Oldest(all, Excess(all))
  <1>3. rows' = all \ old /\ evicted' = evicted \cup old
    BY DEF Push
  <1>4. old \subseteq all /\ all \subseteq Ids'
    BY <1>2, OldestSubset DEF TypeOK
  <1>5. evicted \subseteq Ids
    BY DEF TypeOK
  <1>6. rows' \subseteq Ids' /\ evicted' \subseteq Ids'
    BY <1>2, <1>3, <1>4, <1>5
  <1>7. kind \in [Ids -> Kinds]
    BY DEF TypeOK
  <1>8. kind' = [i \in Ids \cup {nextId} |-> IF i = nextId THEN k ELSE kind[i]]
    BY DEF Push
  <1>9. kind' \in [Ids' -> Kinds] /\ \A i \in Ids : kind'[i] = kind[i]
    BY <1>2, <1>7, <1>8
  <1> QED BY <1>1, <1>2, <1>6, <1>9

\* What leaves the table is older than what stays, and leaves only a full
\* table; what was in the table stays or is evicted; the limit is kept.
LEMMA PushRows ==
  ASSUME TypeOK, Bounded, EvictsOldest, NEW k \in Kinds, Push(k)
  PROVE  /\ rows \cup {nextId} \subseteq rows' \cup evicted'
         /\ evicted \subseteq evicted'
         /\ EvictsOldest' /\ Bounded'
         /\ \A i \in rows \ rows' : Cardinality(rows) >= MaxRows
  <1> DEFINE all == rows \cup {nextId}
             n   == Excess(all)
             old == Oldest(all, n)
  <1>1. rows' = all \ old /\ evicted' = evicted \cup old
    BY DEF Push
  <1>2. /\ IsFiniteSet(rows) /\ rows \in SUBSET Nat /\ nextId \in Nat /\ nextId \notin rows
        /\ rows \subseteq Ids /\ evicted \subseteq Ids
    BY RowsFinite DEF TypeOK, Ids
  <1>3. /\ IsFiniteSet(all) /\ all \in SUBSET Nat
        /\ Cardinality(all) = Cardinality(rows) + 1 /\ Cardinality(rows) \in Nat
    BY <1>2, FS_AddElement, FS_CardinalityType
  <1>4. n \in Nat /\ (n # 0 => Cardinality(all) > MaxRows) /\ n <= 1
        /\ (n = 0 => Cardinality(all) <= MaxRows)
    BY <1>3, SizesAssumption DEF Excess, Bounded
  <1>5. old \subseteq all
    BY OldestSubset
  <1>6. ASSUME NEW i \in old PROVE n # 0
    <2>1. {j \in all : j < i} \subseteq all
      OBVIOUS
    <2>2. Cardinality({j \in all : j < i}) \in Nat
      BY <1>3, <2>1, FS_Subset, FS_CardinalityType
    <2>3. Cardinality({j \in all : j < i}) < n
      BY <1>6 DEF Oldest
    <2> QED BY <1>4, <2>2, <2>3
  <1>7. ASSUME NEW i \in rows \ rows' PROVE Cardinality(rows) >= MaxRows
    <2>1. i \in old
      BY <1>1
    <2>2. Cardinality(all) > MaxRows
      BY <1>4, <1>6, <2>1
    <2> QED BY <1>3, <2>2, SizesAssumption
  <1>8. Bounded'
    <2>1. CASE n = 0
      <3>1. rows' \subseteq all
        BY <1>1
      <3>2. Cardinality(rows') <= Cardinality(all) /\ Cardinality(rows') \in Nat
        BY <1>3, <3>1, FS_Subset, FS_CardinalityType
      <3> QED BY <1>3, <1>4, <2>1, <3>2, SizesAssumption DEF Bounded
    <2>2. CASE n = 1
      <3>1. PICK x \in old : TRUE
        BY <1>3, <2>2, OldestOne
      <3>2. rows' \subseteq all \ {x}
        BY <1>1
      <3>3. IsFiniteSet(all \ {x}) /\ Cardinality(all \ {x}) = Cardinality(rows)
        <4>1. x \in all
          BY <1>5
        <4>2. IsFiniteSet(all \ {x}) /\ Cardinality(all \ {x}) = Cardinality(all) - 1
          BY <1>3, <4>1, FS_RemoveElement
        <4> QED BY <1>3, <4>2
      <3>4. Cardinality(rows') <= Cardinality(rows) /\ Cardinality(rows') \in Nat
        BY <3>2, <3>3, FS_Subset, FS_CardinalityType
      <3> QED BY <1>3, <3>4, SizesAssumption DEF Bounded
    <2> QED BY <1>4, <2>1, <2>2
  <1>9. EvictsOldest'
    <2> SUFFICES ASSUME NEW i \in evicted', NEW j \in rows' PROVE i < j
      BY DEF EvictsOldest
    <2>1. j \in all /\ j \notin old /\ j \in Nat
      BY <1>1, <1>3
    <2>2. CASE i \in old
      <3>1. i \in all /\ i \in Nat
        BY <1>3, <1>5, <2>2
      <3>2. ~(j < i)
        BY <1>3, <1>4, <2>1, <2>2, OldestClosed
      <3>3. i # j
        BY <2>1, <2>2
      <3> QED BY <2>1, <3>1, <3>2, <3>3
    <2>3. CASE i \in evicted
      <3>1. CASE j \in rows
        BY <2>3, <3>1 DEF EvictsOldest
      <3>2. CASE j = nextId
        BY <1>2, <2>3, <3>2 DEF Ids, TypeOK
      <3> QED BY <2>1, <3>1, <3>2
    <2> QED BY <1>1, <2>2, <2>3
  <1>10. rows \cup {nextId} \subseteq rows' \cup evicted' /\ evicted \subseteq evicted'
    BY <1>1
  <1> QED BY <1>7, <1>8, <1>9, <1>10

\* A push keeps the order of what is stored and of what may still be stored.
LEMMA PushOrder ==
  ASSUME QueueInv, NEW k \in Kinds, Push(k), UNCHANGED <<stored, posted>>
  PROVE  NothingLost' /\ StoredInOrder' /\ PostsInOrder'
  <1>1. /\ Ids' = Ids \cup {nextId} /\ Ids \in SUBSET Nat /\ nextId \notin Ids /\ nextId \in Nat
        /\ \A i \in Ids : i < nextId
        /\ \A i \in Ids : kind'[i] = kind[i]
    BY PushTypes DEF QueueInv, TypeOK, Ids
  <1>2. rows \cup {nextId} \subseteq rows' \cup evicted' /\ evicted \subseteq evicted'
    BY PushRows DEF QueueInv
  <1>3. stored' = stored /\ posted' = posted /\ stored \subseteq Ids /\ posted \in [Sessions -> SUBSET Ids]
    BY DEF QueueInv, TypeOK
  <1>4. NothingLost'
    <2> SUFFICES ASSUME NEW i \in Ids' PROVE i \in rows' \cup stored' \cup evicted'
      BY DEF NothingLost
    <2>1. CASE i \in Ids
      BY <1>2, <1>3, <2>1 DEF QueueInv, NothingLost
    <2>2. CASE i = nextId
      BY <1>2, <2>2
    <2> QED BY <1>1, <2>1, <2>2
  <1>5. StoredInOrder'
    <2> SUFFICES ASSUME NEW i \in stored', NEW j \in Ids', j < i, kind'[j] = kind'[i]
                 PROVE  j \in stored' \cup evicted'
      BY DEF StoredInOrder
    <2>1. i \in Ids /\ j \in Ids
      BY <1>1, <1>3
    <2>2. kind[j] = kind[i]
      BY <1>1, <2>1
    <2> QED BY <1>2, <1>3, <2>1, <2>2 DEF QueueInv, StoredInOrder
  <1>6. PostsInOrder'
    <2> SUFFICES ASSUME NEW s \in Sessions, NEW i \in posted'[s],
                        NEW j \in Ids', j < i, kind'[j] = kind'[i]
                 PROVE  j \in posted'[s] \cup stored' \cup evicted'
      BY DEF PostsInOrder
    <2>1. i \in Ids /\ j \in Ids
      BY <1>1, <1>3
    <2>2. kind[j] = kind[i]
      BY <1>1, <2>1
    <2> QED BY <1>2, <1>3, <2>1, <2>2 DEF QueueInv, PostsInOrder
  <1> QED BY <1>4, <1>5, <1>6

-----------------------------------------------------------------------------
(* Every action keeps the invariant.                                       *)

LEMMA InitInv == Init => QueueInv
  <1> SUFFICES ASSUME Init PROVE QueueInv
    OBVIOUS
  <1>1. Ids = {}
    BY DEF Init, Ids
  <1>2. TypeOK
    BY <1>1 DEF Init, TypeOK, Steps, Ids
  <1>3. Bounded
    BY FS_EmptySet, SizesAssumption DEF Init, Bounded
  <1>4. FlushShape
    BY SessionsAssumption DEF Init, FlushShape
  <1> QED BY <1>1, <1>2, <1>3, <1>4
         DEF Init, QueueInv, NothingLost, StoredInOrder, EvictsOldest, FlushStored, BatchInOrder, PostsInOrder

LEMMA RecordInv == ASSUME QueueInv, NEW k \in Kinds, Record(k) PROVE QueueInv'
  <1>1. Push(k) /\ step = "idle" /\ UNCHANGED <<step, batch, live, posted, stored>>
    BY DEF Record
  <1>2. batch = {} /\ live = None
    BY <1>1 DEF QueueInv, TypeOK, FlushShape, Kinds
  <1>3. TypeOK'
    BY <1>1, <1>2, PushTypes DEF QueueInv, TypeOK
  <1>4. EvictsOldest' /\ Bounded'
    BY <1>1, PushRows DEF QueueInv
  <1>5. NothingLost' /\ StoredInOrder' /\ PostsInOrder'
    BY <1>1, PushOrder
  <1>6. FlushShape' /\ FlushStored' /\ BatchInOrder'
    BY <1>1, <1>2, SessionsAssumption DEF FlushShape, FlushStored, BatchInOrder
  <1> QED BY <1>3, <1>4, <1>5, <1>6 DEF QueueInv

LEMMA FlushInv == ASSUME QueueInv, Flush PROVE QueueInv'
  <1>1. /\ step = "idle" /\ step' = "event" /\ batch' = Oldest(rows, BatchSize)
        /\ UNCHANGED <<rows, nextId, kind, live, posted, stored, evicted>> /\ Ids' = Ids
    BY DEF Flush, Ids
  <1>2. live = None
    BY <1>1 DEF QueueInv, FlushShape, Kinds
  <1>3. batch' \subseteq rows
    BY <1>1, OldestSubset
  <1>4. TypeOK'
    BY <1>1, <1>3 DEF QueueInv, TypeOK, Steps
  <1>5. FlushShape' /\ FlushStored'
    BY <1>1, <1>2, SessionsAssumption DEF FlushShape, FlushStored, Kinds
  <1>6. BatchInOrder'
    <2> SUFFICES ASSUME NEW i \in batch', NEW j \in Ids', j < i
                 PROVE  j \in batch' \cup stored' \cup evicted'
      BY DEF BatchInOrder
    <2>1. CASE j \in rows
      BY <1>1, <2>1, RowsFinite, OldestClosed, SizesAssumption DEF QueueInv
    <2>2. CASE j \notin rows
      BY <1>1, <2>2 DEF QueueInv, NothingLost
    <2> QED BY <2>1, <2>2
  <1>7. NothingLost' /\ StoredInOrder' /\ EvictsOldest' /\ Bounded' /\ PostsInOrder'
    BY <1>1 DEF QueueInv, NothingLost, StoredInOrder, EvictsOldest, Bounded, PostsInOrder
  <1> QED BY <1>4, <1>5, <1>6, <1>7 DEF QueueInv

LEMMA PostInv == ASSUME QueueInv, NEW s \in Sessions, Post(s) PROVE QueueInv'
  <1>1. /\ step \in Kinds /\ live = None
        /\ UNCHANGED <<rows, nextId, kind, batch, stored, evicted>> /\ Ids' = Ids
    BY DEF Post, Ids
  <1>2. NothingLost' /\ StoredInOrder' /\ EvictsOldest' /\ Bounded' /\ BatchInOrder'
    BY <1>1 DEF QueueInv, NothingLost, StoredInOrder, EvictsOldest, Bounded, BatchInOrder
  <1>3. CASE Of(step) = {} /\ step' = After(step) /\ UNCHANGED <<live, posted>>
    <2>1. TypeOK' /\ PostsInOrder'
      BY <1>1, <1>3 DEF QueueInv, TypeOK, Steps, Kinds, After, PostsInOrder
    <2>2. FlushShape'
      BY <1>1, <1>3, SessionsAssumption DEF QueueInv, FlushShape, After, Kinds
    <2>3. FlushStored'
      <3>1. CASE step = "event"
        BY <1>1, <1>3, <3>1 DEF FlushStored, After, Of
      <3>2. CASE step = "log"
        <4>1. Of("event") \subseteq stored /\ Of("log") = {}
          BY <1>3, <3>2 DEF QueueInv, FlushStored
        <4>2. batch \subseteq stored
          BY <4>1 DEF Of, QueueInv, TypeOK, Kinds
        <4> QED BY <1>1, <1>3, <3>2, <4>2 DEF FlushStored, After
      <3> QED BY <1>1, <3>1, <3>2 DEF Kinds
    <2> QED BY <1>2, <2>1, <2>2, <2>3 DEF QueueInv
  <1>4. CASE /\ Of(step) # {} /\ posted' = [posted EXCEPT ![s] = Of(step)]
             /\ live' = s /\ step' = step
    <2>1. Of(step) \subseteq batch /\ batch \subseteq Ids
      BY DEF Of, QueueInv, TypeOK
    <2>2. TypeOK'
      BY <1>1, <1>4, <2>1 DEF QueueInv, TypeOK
    <2>3. FlushShape' /\ FlushStored'
      BY <1>1, <1>4, SessionsAssumption DEF QueueInv, TypeOK, FlushShape, FlushStored, Of, Kinds
    <2>4. PostsInOrder'
      <3> SUFFICES ASSUME NEW r \in Sessions, NEW i \in posted'[r],
                          NEW j \in Ids', j < i, kind'[j] = kind'[i]
                   PROVE  j \in posted'[r] \cup stored' \cup evicted'
        BY DEF PostsInOrder
      <3>1. CASE r # s
        BY <1>1, <1>4, <3>1 DEF QueueInv, TypeOK, PostsInOrder
      <3>2. CASE r = s
        <4>1. posted'[r] = Of(step)
          BY <1>4, <3>2 DEF QueueInv, TypeOK
        <4>2. i \in batch /\ kind[i] = step /\ kind[j] = step
          BY <1>1, <4>1 DEF Of
        <4>3. j \in batch \cup stored \cup evicted
          BY <1>1, <4>2 DEF QueueInv, BatchInOrder
        <4> QED BY <1>1, <4>1, <4>2, <4>3 DEF Of
      <3> QED BY <3>1, <3>2
    <2> QED BY <1>2, <2>2, <2>3, <2>4 DEF QueueInv
  <1> QED BY <1>3, <1>4 DEF Post

LEMMA StoreInv == ASSUME QueueInv, NEW s \in Sessions, Store(s) PROVE QueueInv'
  <1>1. /\ posted[s] # {} /\ stored' = stored \cup posted[s]
        /\ posted' = [posted EXCEPT ![s] = {}]
        /\ UNCHANGED <<rows, nextId, kind, batch, evicted>> /\ Ids' = Ids
    BY DEF Store, Ids
  <1>2. posted \in [Sessions -> SUBSET Ids] /\ posted[s] \subseteq Ids
    BY DEF QueueInv, TypeOK
  <1>3. \/ live = s /\ live' = None /\ step' = After(step)
        \/ live = s /\ live' = Lost /\ step' = step
        \/ live # s /\ live' = live /\ step' = step
    BY DEF Store
  <1>4. live = s => step \in Kinds /\ posted[s] = Of(step)
    BY SessionsAssumption DEF QueueInv, FlushShape
  <1>5. TypeOK'
    BY <1>1, <1>2, <1>3, <1>4 DEF QueueInv, TypeOK, After, Steps, Kinds
  <1>6. NothingLost' /\ EvictsOldest' /\ Bounded'
    BY <1>1 DEF QueueInv, NothingLost, EvictsOldest, Bounded
  <1>7. BatchInOrder'
    BY <1>1 DEF QueueInv, BatchInOrder
  <1>8. StoredInOrder'
    <2> SUFFICES ASSUME NEW i \in stored', NEW j \in Ids, j < i, kind[j] = kind[i]
                 PROVE  j \in stored' \cup evicted
      BY <1>1 DEF StoredInOrder
    <2>1. CASE i \in stored
      BY <1>1, <2>1 DEF QueueInv, StoredInOrder
    <2>2. CASE i \in posted[s]
      BY <1>1, <2>2 DEF QueueInv, PostsInOrder
    <2> QED BY <1>1, <2>1, <2>2
  <1>9. PostsInOrder'
    <2> SUFFICES ASSUME NEW r \in Sessions, NEW i \in posted'[r], NEW j \in Ids, j < i, kind[j] = kind[i]
                 PROVE  j \in posted'[r] \cup stored' \cup evicted
      BY <1>1 DEF PostsInOrder
    <2>1. r # s /\ posted'[r] = posted[r]
      BY <1>1, <1>2
    <2> QED BY <1>1, <2>1 DEF QueueInv, PostsInOrder
  <1>10. FlushShape'
    <2>1. CASE live = s
      BY <1>1, <1>3, <1>4, <2>1, SessionsAssumption
         DEF QueueInv, FlushShape, After, Kinds, None, Lost
    <2>2. CASE live # s
      <3>1. Of(step)' = Of(step) /\ step' = step /\ live' = live /\ batch' = batch
        BY <1>1, <1>3, <2>2 DEF Of
      <3>2. \A r \in Sessions : live' = r => posted'[r] = posted[r]
        BY <1>1, <1>2, <2>2, <3>1
      <3> QED BY <3>1, <3>2 DEF QueueInv, FlushShape, Of
    <2> QED BY <2>1, <2>2
  <1>11. FlushStored'
    <2>1. CASE step' = step
      BY <1>1, <2>1 DEF QueueInv, FlushStored, Of
    <2>2. CASE live = s /\ step' = After(step)
      <3>1. Of(step) \subseteq stored' /\ step \in Kinds
        BY <1>1, <1>4, <2>2
      <3>2. CASE step = "event"
        BY <1>1, <2>2, <3>1, <3>2 DEF FlushStored, After, Of
      <3>3. CASE step = "log"
        <4>1. Of("event") \subseteq stored' /\ Of("log") \subseteq stored'
          BY <1>1, <3>1, <3>3 DEF QueueInv, FlushStored
        <4>2. batch \subseteq stored'
          BY <4>1 DEF Of, QueueInv, TypeOK, Kinds
        <4> QED BY <1>1, <2>2, <3>3, <4>2 DEF FlushStored, After
      <3> QED BY <3>1, <3>2, <3>3 DEF Kinds
    <2> QED BY <1>3, <2>1, <2>2
  <1> QED BY <1>5, <1>6, <1>7, <1>8, <1>9, <1>10, <1>11 DEF QueueInv

LEMMA RejectInv == ASSUME QueueInv, NEW s \in Sessions, Reject(s) PROVE QueueInv'
  <1>1. /\ posted' = [posted EXCEPT ![s] = {}] /\ live' = (IF live = s THEN Lost ELSE live)
        /\ UNCHANGED <<rows, nextId, kind, step, batch, stored, evicted>> /\ Ids' = Ids
    BY DEF Reject, Ids
  <1>2. posted \in [Sessions -> SUBSET Ids]
    BY DEF QueueInv, TypeOK
  <1>3. TypeOK'
    BY <1>1, <1>2 DEF QueueInv, TypeOK
  <1>4. NothingLost' /\ StoredInOrder' /\ EvictsOldest' /\ Bounded' /\ BatchInOrder'
    BY <1>1 DEF QueueInv, NothingLost, StoredInOrder, EvictsOldest, Bounded, BatchInOrder
  <1>5. PostsInOrder'
    BY <1>1, <1>2 DEF QueueInv, PostsInOrder
  <1>6. FlushShape' /\ FlushStored'
    <2>1. Of(step)' = Of(step)
      BY <1>1 DEF Of
    <2>2. \A r \in Sessions : live' = r => live = r /\ r # s /\ posted'[r] = posted[r]
      BY <1>1, <1>2, SessionsAssumption
    <2>3. live' # None => live # None
      BY <1>1, SessionsAssumption
    <2> QED BY <1>1, <2>1, <2>2, <2>3 DEF QueueInv, FlushShape, FlushStored, Of
  <1> QED BY <1>3, <1>4, <1>5, <1>6 DEF QueueInv

\* Back to idle, whatever the flush was doing.
LEMMA IdleFlush ==
  ASSUME step' = "idle", batch' = {}, live' = None
  PROVE  FlushShape' /\ FlushStored' /\ BatchInOrder'
  BY SessionsAssumption DEF FlushShape, FlushStored, BatchInOrder

LEMMA GiveUpInv == ASSUME QueueInv, GiveUp PROVE QueueInv'
  <1>1. step' = "idle" /\ batch' = {} /\ live' = None /\ UNCHANGED <<posted, stored>>
    BY DEF GiveUp
  <1>2. CASE Push("log")
    <2>1. "log" \in Kinds
      BY DEF Kinds
    <2>2. TypeOK'
      BY <1>1, <1>2, <2>1, PushTypes DEF QueueInv, TypeOK, Steps
    <2>3. EvictsOldest' /\ Bounded'
      BY <1>2, <2>1, PushRows DEF QueueInv
    <2>4. NothingLost' /\ StoredInOrder' /\ PostsInOrder'
      BY <1>1, <1>2, <2>1, PushOrder
    <2> QED BY <1>1, <2>2, <2>3, <2>4, IdleFlush DEF QueueInv
  <1>3. CASE UNCHANGED <<rows, nextId, kind, evicted>>
    <2>1. TypeOK' /\ Ids' = Ids
      BY <1>1, <1>3 DEF QueueInv, TypeOK, Ids, Steps
    <2>2. NothingLost' /\ StoredInOrder' /\ EvictsOldest' /\ Bounded' /\ PostsInOrder'
      BY <1>1, <1>3, <2>1 DEF QueueInv, NothingLost, StoredInOrder, EvictsOldest, Bounded, PostsInOrder
    <2> QED BY <1>1, <2>1, <2>2, IdleFlush DEF QueueInv
  <1> QED BY <1>2, <1>3 DEF GiveUp

LEMMA DeleteInv == ASSUME QueueInv, Delete PROVE QueueInv'
  <1>1. /\ step = "delete" /\ rows' = rows \ batch /\ step' = "idle" /\ batch' = {}
        /\ UNCHANGED <<nextId, kind, live, posted, stored, evicted>> /\ Ids' = Ids
    BY DEF Delete, Ids
  <1>2. batch \subseteq stored /\ live = None
    BY <1>1 DEF QueueInv, FlushStored, FlushShape, Kinds
  <1>3. TypeOK'
    BY <1>1 DEF QueueInv, TypeOK, Steps
  <1>4. NothingLost'
    BY <1>1, <1>2 DEF QueueInv, NothingLost
  <1>5. EvictsOldest'
    BY <1>1 DEF QueueInv, EvictsOldest
  <1>6. StoredInOrder' /\ PostsInOrder'
    BY <1>1 DEF QueueInv, StoredInOrder, PostsInOrder
  <1>7. Bounded'
    <2>1. IsFiniteSet(rows) /\ rows' \subseteq rows
      BY <1>1, RowsFinite DEF QueueInv
    <2>2. Cardinality(rows') <= Cardinality(rows) /\ Cardinality(rows') \in Nat /\ Cardinality(rows) \in Nat
      BY <2>1, FS_Subset, FS_CardinalityType
    <2> QED BY <2>2, SizesAssumption DEF QueueInv, Bounded
  <1> QED BY <1>1, <1>2, <1>3, <1>4, <1>5, <1>6, <1>7, IdleFlush DEF QueueInv

LEMMA RestartInv == ASSUME QueueInv, Restart PROVE QueueInv'
  <1>1. /\ step' = "idle" /\ batch' = {} /\ live' = None
        /\ UNCHANGED <<rows, nextId, kind, posted, stored, evicted>> /\ Ids' = Ids
    BY DEF Restart, Ids
  <1>2. TypeOK'
    BY <1>1 DEF QueueInv, TypeOK, Steps
  <1>3. NothingLost' /\ StoredInOrder' /\ EvictsOldest' /\ Bounded' /\ PostsInOrder'
    BY <1>1 DEF QueueInv, NothingLost, StoredInOrder, EvictsOldest, Bounded, PostsInOrder
  <1> QED BY <1>1, <1>2, <1>3, IdleFlush DEF QueueInv

LEMMA StepInv == QueueInv /\ [Next]_vars => QueueInv'
  <1> SUFFICES ASSUME QueueInv, [Next]_vars PROVE QueueInv'
    OBVIOUS
  <1>1. CASE AgentNext
    BY <1>1, RecordInv, FlushInv, PostInv, GiveUpInv, DeleteInv, RestartInv DEF AgentNext
  <1>2. CASE ServerNext
    BY <1>2, StoreInv, RejectInv DEF ServerNext
  <1>3. CASE UNCHANGED vars
    <2>1. Ids' = Ids
      BY <1>3 DEF vars, Ids
    <2> QED BY <1>3, <2>1
           DEF vars, QueueInv, TypeOK, NothingLost, StoredInOrder, EvictsOldest, Bounded,
               FlushShape, FlushStored, BatchInOrder, PostsInOrder, Of
  <1> QED BY <1>1, <1>2, <1>3 DEF Next

-----------------------------------------------------------------------------
\* The buffer and the flush keep their invariant, for every limit and batch
\* size and any number of late requests.
THEOREM QueueCorrect == Spec => []QueueInv
  <1> QED BY InitInv, StepInv, PTL DEF Spec

\* Every variable keeps its type: no row, batch or post holds an id never pushed.
THEOREM QueueTypeCorrect == Spec => []TypeOK
  <1>1. QueueInv => TypeOK
    BY DEF QueueInv
  <1> QED BY <1>1, QueueCorrect, PTL

\* No row is lost by failed posts, lost answers and restarts.
THEOREM RowsAreKept == Spec => []NothingLost
  <1>1. QueueInv => NothingLost
    BY DEF QueueInv
  <1> QED BY <1>1, QueueCorrect, PTL

\* The server stores every kind of row in the order of the table, late requests
\* included, but for rows that were evicted.
THEOREM ServerKeepsOrder == Spec => []StoredInOrder
  <1>1. QueueInv => StoredInOrder
    BY DEF QueueInv
  <1> QED BY <1>1, QueueCorrect, PTL

\* The table stays within its limit, and gives up its oldest rows to do so.
THEOREM TableIsBounded == Spec => [](Bounded /\ EvictsOldest)
  <1>1. QueueInv => Bounded /\ EvictsOldest
    BY DEF QueueInv
  <1> QED BY <1>1, QueueCorrect, PTL

\* A row leaves the table only when the server has it, or out of a full table.
THEOREM RowsLeaveForAReason == Spec => LeavesForAReason
  <1>1. QueueInv /\ [Next]_vars => [\A i \in rows \ rows' : i \in stored \/ Cardinality(rows) >= MaxRows]_vars
    <2> SUFFICES ASSUME QueueInv, Next, NEW i \in rows \ rows'
                 PROVE  i \in stored \/ Cardinality(rows) >= MaxRows
      BY DEF vars
    <2>1. ASSUME NEW k \in Kinds, Push(k) PROVE Cardinality(rows) >= MaxRows
      BY <2>1, PushRows DEF QueueInv
    <2>2. CASE AgentNext
      <3>1. CASE \E k \in Kinds : Record(k)
        BY <2>1, <3>1 DEF Record
      <3>2. CASE Flush \/ (\E s \in Sessions : Post(s)) \/ Restart
        BY <3>2 DEF Flush, Post, Restart
      <3>3. CASE GiveUp
        BY <2>1, <3>3 DEF GiveUp, Kinds
      <3>4. CASE Delete
        BY <3>4 DEF Delete, QueueInv, FlushStored
      <3> QED BY <2>2, <3>1, <3>2, <3>3, <3>4 DEF AgentNext
    <2>3. CASE ServerNext
      BY <2>3 DEF ServerNext, Store, Reject
    <2> QED BY <2>2, <2>3 DEF Next
  <1> QED BY <1>1, QueueCorrect, PTL DEF Spec, LeavesForAReason
=============================================================================
