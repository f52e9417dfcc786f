------------------------- MODULE HardwareDiffProofs -------------------------
(* Proofs about HardwareDiff, for every set of parts and of sessions.      *)
EXTENDS HardwareDiff, FiniteSetTheorems, TLAPS

-----------------------------------------------------------------------------
(* The inductive invariant.                                                *)

\* An inventory names all memory modules and disks, or, without the tool, none.
Shown(p) ==
    /\ p.has.ram = IF "dmidecode" \in p.failed THEN {} ELSE p.parts.ram
    /\ p.has.disk = IF "lsblk" \in p.failed THEN {} ELSE p.parts.disk

Snapshots == {p \in Inventory : Shown(p)}

\* There is at most one newest snapshot.
Single(base) == base = {} \/ \E p \in Snapshots : base = {p}

Types ==
    /\ setting \in Settings
    /\ hardware \in Hardware /\ upsets \in 0 .. MaxUpsets
    /\ clock \in 0 .. MaxClock
    /\ waits \in Sessions \cup {"none"}
    /\ tables \in Names /\ told \in Names
    /\ whole \subseteq Kinds

\* A session that has read the newest snapshot holds the comparison with what was
\* the newest then.
ReadFrom(base, b) == [phase |-> "read", body |-> b, base |-> base, events |-> Diff(base, b)]

RequestOK(r) ==
    \/ r = Idle
    \/ \E b \in Snapshots : r = [phase |-> "sent", body |-> b]
    \/ \E b \in Snapshots : \E base : Single(base) /\ r = ReadFrom(base, b)

Requests ==
    /\ request = [s \in Sessions |-> request[s]]
    /\ \A s \in Sessions : RequestOK(request[s])
    /\ Single(newest)

\* In order: one request at a time, compared with the newest snapshot, which is
\* older than it, and which the tables and the events agree with.
InOrder ==
    /\ \A s \in Sessions : request[s] # Idle =>
          /\ waits = s
          /\ request[s].body.at < clock
          /\ \A p \in newest : p.at <= request[s].body.at
          /\ request[s].phase = "read" => request[s].base = newest
    /\ \A p \in newest : /\ p.at < clock
                         /\ tables = p.has
                         /\ \A k \in whole : p.has[k] # {}
    /\ \A k \in whole : told[k] = tables[k]

DiffInv ==
    /\ Types
    /\ Requests
    /\ ~setting.overlap /\ ~setting.back => InOrder

-----------------------------------------------------------------------------
(* Inventories.                                                            *)

LEMMA InventoryParts ==
    ASSUME NEW p \in Snapshots
    PROVE  /\ p.at \in 0 .. MaxClock
           /\ p.has \in Names
           /\ p.has.ram \subseteq Slots \X Modules
           /\ p.has.disk \subseteq Disks
           /\ p.has.gpu \subseteq {"uuid", "pci"} \X Cards
           /\ p.failed \subseteq Tools
           /\ p.parts \in Hardware
           /\ Shown(p)
BY DEF Snapshots, Inventory, Names

LEMMA SingleParts == ASSUME NEW base, Single(base) PROVE base \subseteq Snapshots
BY DEF Single

LEMMA RequestParts ==
    ASSUME NEW r, RequestOK(r)
    PROVE  /\ r.phase \in {"idle", "sent", "read"}
           /\ r = Idle <=> r.phase = "idle"
           /\ r.phase # "idle" => r.body \in Snapshots
           /\ r.phase = "read" => /\ Single(r.base)
                                  /\ r.events = Diff(r.base, r.body)
<1>1. CASE r = Idle  BY <1>1 DEF Idle
<1>2. CASE \E b \in Snapshots : r = [phase |-> "sent", body |-> b]
  BY <1>2 DEF Idle
<1>3. CASE \E b \in Snapshots : \E base : Single(base) /\ r = ReadFrom(base, b)
  <2>1. PICK b \in Snapshots : \E base : Single(base) /\ r = ReadFrom(base, b)  BY <1>3
  <2>2. PICK base : Single(base) /\ r = ReadFrom(base, b)  BY <2>1
  <2>3. r = [phase |-> "read", body |-> b, base |-> base, events |-> Diff(base, b)]
    BY <2>2 DEF ReadFrom
  <2>4. r.phase = "read" /\ r.body = b /\ r.base = base /\ r.events = Diff(base, b)  BY <2>3
  <2>5. r # Idle  BY <2>4 DEF Idle
  <2> QED  BY <2>2, <2>4, <2>5
<1> QED  BY <1>1, <1>2, <1>3 DEF RequestOK

-----------------------------------------------------------------------------
(* The comparison.                                                         *)

\* What the events of a comparison with one snapshot say of each kind.
Losses(old, new, k) == Lost(Diff({old}, new), k)
Finds(old, new, k)  == Found(Diff({old}, new), k)

LEMMA RamEvents ==
    ASSUME NEW old, NEW new
    PROVE  \A x : /\ x \in Losses(old, new, "ram") <=>
                       ~MemoryUnusable(old, new) /\ \E s \in Slots : At(old, s) # At(new, s) /\ x \in At(old, s)
                  /\ x \in Finds(old, new, "ram") <=>
                       ~MemoryUnusable(old, new) /\ \E s \in Slots : At(old, s) # At(new, s) /\ x \in At(new, s)
<1> DEFINE M == DiffMemory(old, new)
<1>1. Diff({old}, new) = M \cup DiffCards(old, new) \cup DiffDisks(old, new)  BY DEF Diff
<1>2. \A e \in DiffCards(old, new) \cup DiffDisks(old, new) : e.kind # "ram"
  BY DEF DiffCards, DiffDisks, DiffNames, Event
<1>3. \A e \in M : e.kind = "ram"  BY DEF DiffMemory, Event
<1>4. {e \in Diff({old}, new) : e.kind = "ram"} = M  BY <1>1, <1>2, <1>3
<1>5. Losses(old, new, "ram") = UNION {e.lost : e \in M}
      /\ Finds(old, new, "ram") = UNION {e.found : e \in M}
  BY <1>4 DEF Losses, Finds, Lost, Found
<1>6. CASE MemoryUnusable(old, new)
  <2>1. M = {}  BY <1>6 DEF DiffMemory
  <2> QED  BY <1>5, <1>6, <2>1
<1>7. CASE ~MemoryUnusable(old, new)
  <2> DEFINE D == {s \in Slots : At(old, s) # At(new, s)}
  <2>1. M = {Event("ram", At(old, s), At(new, s)) : s \in D}  BY <1>7 DEF DiffMemory
  <2> HIDE DEF M
  <2>2. \A s \in D : /\ Event("ram", At(old, s), At(new, s)).lost = At(old, s)
                     /\ Event("ram", At(old, s), At(new, s)).found = At(new, s)
    BY DEF Event
  <2>3. \A x : x \in UNION {e.lost : e \in M} <=> \E s \in D : x \in At(old, s)  BY <2>1, <2>2
  <2>4. \A x : x \in UNION {e.found : e \in M} <=> \E s \in D : x \in At(new, s)  BY <2>1, <2>2
  <2> QED  BY <1>5, <1>7, <2>3, <2>4
<1> QED  BY <1>6, <1>7

LEMMA NamesEvents ==
    ASSUME NEW kind, NEW old, NEW new
    PROVE  /\ UNION {e.lost : e \in DiffNames(kind, old, new)} = old \ new
           /\ UNION {e.found : e \in DiffNames(kind, old, new)} = new \ old
           /\ \A e \in DiffNames(kind, old, new) : e.kind = kind
<1> DEFINE D == DiffNames(kind, old, new)
           L == {Event(kind, {n}, {}) : n \in old \ new}
           F == {Event(kind, {}, {n}) : n \in new \ old}
<1>1. D = L \cup F  BY DEF DiffNames
<1>2. \A e \in L : e.kind = kind /\ e.found = {} /\ \E n \in old \ new : e.lost = {n}  BY DEF Event
<1>3. \A e \in F : e.kind = kind /\ e.lost = {} /\ \E n \in new \ old : e.found = {n}  BY DEF Event
<1>4. \A n \in old \ new : \E e \in L : e.lost = {n}
  <2>1. ASSUME NEW n \in old \ new PROVE Event(kind, {n}, {}) \in L /\ Event(kind, {n}, {}).lost = {n}
    BY DEF Event
  <2> HIDE DEF L
  <2> QED  BY <2>1
<1>5. \A n \in new \ old : \E e \in F : e.found = {n}
  <2>1. ASSUME NEW n \in new \ old PROVE Event(kind, {}, {n}) \in F /\ Event(kind, {}, {n}).found = {n}
    BY DEF Event
  <2> HIDE DEF F
  <2> QED  BY <2>1
<1> HIDE DEF D, L, F
<1>6. UNION {e.lost : e \in D} = old \ new
  <2>1. \A x : x \in UNION {e.lost : e \in D} <=> \E e \in D : x \in e.lost  OBVIOUS
  <2> QED  BY <1>1, <1>2, <1>3, <1>4, <2>1
<1>7. UNION {e.found : e \in D} = new \ old
  <2>1. \A x : x \in UNION {e.found : e \in D} <=> \E e \in D : x \in e.found  OBVIOUS
  <2> QED  BY <1>1, <1>2, <1>3, <1>5, <2>1
<1>8. \A e \in D : e.kind = kind  BY <1>1, <1>2, <1>3
<1> QED  BY <1>6, <1>7, <1>8 DEF D

LEMMA GpuEvents ==
    ASSUME NEW old, NEW new
    PROVE  \A x : /\ x \in Losses(old, new, "gpu") <=> ~(NoCards(new) \/ NoCards(old)) /\ x \in old.has.gpu \ new.has.gpu
                  /\ x \in Finds(old, new, "gpu") <=> ~(NoCards(new) \/ NoCards(old)) /\ x \in new.has.gpu \ old.has.gpu
<1> DEFINE M == DiffCards(old, new)
<1>1. Diff({old}, new) = DiffMemory(old, new) \cup M \cup DiffDisks(old, new)  BY DEF Diff
<1>2. \A e \in DiffMemory(old, new) \cup DiffDisks(old, new) : e.kind # "gpu"
  BY DEF DiffMemory, DiffDisks, DiffNames, Event
<1>3. \A e \in M : e.kind = "gpu"  BY DEF DiffCards, DiffNames, Event
<1>4. {e \in Diff({old}, new) : e.kind = "gpu"} = M  BY <1>1, <1>2, <1>3
<1>5. Losses(old, new, "gpu") = UNION {e.lost : e \in M}
      /\ Finds(old, new, "gpu") = UNION {e.found : e \in M}
  BY <1>4 DEF Losses, Finds, Lost, Found
<1>6. CASE NoCards(new) \/ NoCards(old)
  <2>1. M = {}  BY <1>6 DEF DiffCards
  <2> QED  BY <1>5, <1>6, <2>1
<1>7. CASE ~(NoCards(new) \/ NoCards(old))
  <2>1. M = DiffNames("gpu", old.has.gpu, new.has.gpu)  BY <1>7 DEF DiffCards
  <2>2. /\ UNION {e.lost : e \in DiffNames("gpu", old.has.gpu, new.has.gpu)} = old.has.gpu \ new.has.gpu
        /\ UNION {e.found : e \in DiffNames("gpu", old.has.gpu, new.has.gpu)} = new.has.gpu \ old.has.gpu
    BY NamesEvents
  <2> HIDE DEF M
  <2> QED  BY <1>5, <1>7, <2>1, <2>2
<1> QED  BY <1>6, <1>7

LEMMA DiskEvents ==
    ASSUME NEW old, NEW new
    PROVE  \A x : /\ x \in Losses(old, new, "disk") <=> ~DiskProbeFailed(old, new) /\ x \in old.has.disk \ new.has.disk
                  /\ x \in Finds(old, new, "disk") <=> ~DiskProbeFailed(old, new) /\ x \in new.has.disk \ old.has.disk
<1> DEFINE M == DiffDisks(old, new)
<1>1. Diff({old}, new) = DiffMemory(old, new) \cup DiffCards(old, new) \cup M  BY DEF Diff
<1>2. \A e \in DiffMemory(old, new) \cup DiffCards(old, new) : e.kind # "disk"
  BY DEF DiffMemory, DiffCards, DiffNames, Event
<1>3. \A e \in M : e.kind = "disk"  BY DEF DiffDisks, DiffNames, Event
<1>4. {e \in Diff({old}, new) : e.kind = "disk"} = M  BY <1>1, <1>2, <1>3
<1>5. Losses(old, new, "disk") = UNION {e.lost : e \in M}
      /\ Finds(old, new, "disk") = UNION {e.found : e \in M}
  BY <1>4 DEF Losses, Finds, Lost, Found
<1>6. CASE DiskProbeFailed(old, new)
  <2>1. M = {}  BY <1>6 DEF DiffDisks
  <2> QED  BY <1>5, <1>6, <2>1
<1>7. CASE ~DiskProbeFailed(old, new)
  <2>1. M = DiffNames("disk", old.has.disk, new.has.disk)  BY <1>7 DEF DiffDisks
  <2>2. /\ UNION {e.lost : e \in DiffNames("disk", old.has.disk, new.has.disk)} = old.has.disk \ new.has.disk
        /\ UNION {e.found : e \in DiffNames("disk", old.has.disk, new.has.disk)} = new.has.disk \ old.has.disk
    BY NamesEvents
  <2> HIDE DEF M
  <2> QED  BY <1>5, <1>7, <2>1, <2>2
<1> QED  BY <1>6, <1>7

\* Without a snapshot to compare with there are no events.
LEMMA FirstEvents == ASSUME NEW new, NEW k PROVE Lost(Diff({}, new), k) = {} /\ Found(Diff({}, new), k) = {}
BY DEF Diff, Lost, Found

\* A comparison of two snapshots invents no loss and no find.
LEMMA Real ==
    ASSUME NEW old \in Snapshots, NEW new \in Snapshots
    PROVE  /\ \A n \in Losses(old, new, "ram") : n \notin new.parts.ram
           /\ \A n \in Losses(old, new, "disk") : n \notin new.parts.disk
           /\ \A n \in Finds(old, new, "disk") : n \notin old.parts.disk
<1>1. ASSUME NEW n \in Losses(old, new, "ram") PROVE n \notin new.parts.ram
  <2>1. ~MemoryUnusable(old, new)  BY <1>1, RamEvents
  <2>2. PICK s \in Slots : At(old, s) # At(new, s) /\ n \in At(old, s)  BY <1>1, RamEvents
  <2>3. n \in old.has.ram /\ n[1] = s  BY <2>2 DEF At
  <2>4. new.has.ram = new.parts.ram  BY <2>1, <2>3, InventoryParts DEF MemoryUnusable, Shown
  <2>5. ASSUME n \in new.parts.ram PROVE FALSE
    <3>1. n \in At(new, s)  BY <2>3, <2>4, <2>5 DEF At
    <3>2. \A x \in At(new, s) : x = n
      <4>1. \A x, y \in new.parts.ram : x = y \/ x[1] # y[1]  BY InventoryParts DEF Hardware
      <4> QED  BY <2>3, <2>4, <2>5, <4>1 DEF At
    <3>3. \A x \in At(old, s) : x = n
      <4>1. \A x, y \in old.parts.ram : x = y \/ x[1] # y[1]  BY InventoryParts DEF Hardware
      <4>2. old.has.ram = old.parts.ram  BY <2>3, InventoryParts DEF Shown
      <4> QED  BY <2>3, <4>1, <4>2 DEF At
    <3> QED  BY <2>2, <3>1, <3>2, <3>3
  <2> QED  BY <2>5
<1>2. ASSUME NEW n \in Losses(old, new, "disk") PROVE n \notin new.parts.disk
  <2>1. ~DiskProbeFailed(old, new) /\ n \in old.has.disk /\ n \notin new.has.disk  BY <1>2, DiskEvents
  <2>2. new.has.disk # {}  BY <2>1 DEF DiskProbeFailed
  <2>3. new.has.disk = new.parts.disk  BY <2>2, InventoryParts DEF Shown
  <2> QED  BY <2>1, <2>3
<1>3. ASSUME NEW n \in Finds(old, new, "disk") PROVE n \notin old.parts.disk
  <2>1. ~DiskProbeFailed(old, new) /\ n \notin old.has.disk  BY <1>3, DiskEvents
  <2>2. CASE "lsblk" \in old.failed
    <3>1. old.has.disk = {}  BY <2>2, InventoryParts DEF Shown
    <3>2. Incomplete(old)  BY <2>2 DEF Incomplete
    <3> QED  BY <2>1, <3>1, <3>2 DEF DiskProbeFailed
  <2>3. CASE "lsblk" \notin old.failed
    <3>1. old.has.disk = old.parts.disk  BY <2>3, InventoryParts DEF Shown
    <3> QED  BY <2>1, <3>1
  <2> QED  BY <2>2, <2>3
<1> QED  BY <1>1, <1>2, <1>3

\* Of a kind both snapshots show, the events lead from the one to the other.
LEMMA Explains ==
    ASSUME NEW old \in Snapshots, NEW new \in Snapshots, NEW k \in Kinds,
           old.has[k] # {}, new.has[k] # {}
    PROVE  (old.has[k] \ Losses(old, new, k)) \cup Finds(old, new, k) = new.has[k]
<1>1. CASE k = "ram"
  <2>1. old.has.ram # {} /\ new.has.ram # {}  BY <1>1
  <2>2. ~MemoryUnusable(old, new)  BY <2>1 DEF MemoryUnusable
  <2>3. \A x \in old.has.ram \cup new.has.ram : x[1] \in Slots  BY InventoryParts
  <2>4. \A p, s : \A x : x \in At(p, s) <=> x \in p.has.ram /\ x[1] = s  BY DEF At
  <2>5. \A x : x \in Losses(old, new, "ram") <=>
            \E s \in Slots : At(old, s) # At(new, s) /\ x \in At(old, s)
    BY <2>2, RamEvents
  <2>6. \A x : x \in Finds(old, new, "ram") <=>
            \E s \in Slots : At(old, s) # At(new, s) /\ x \in At(new, s)
    BY <2>2, RamEvents
  <2>7. ASSUME NEW x
        PROVE  x \in (old.has.ram \ Losses(old, new, "ram")) \cup Finds(old, new, "ram")
                  <=> x \in new.has.ram
    <3>1. CASE x \in old.has.ram \cup new.has.ram
      <4>1. x[1] \in Slots  BY <2>3, <3>1
      <4>2. CASE At(old, x[1]) = At(new, x[1])
        <5>1. (x \in old.has.ram <=> x \in At(old, x[1])) /\ (x \in new.has.ram <=> x \in At(new, x[1]))
          BY <2>4
        <5>2. x \notin Losses(old, new, "ram")  BY <2>4, <2>5, <4>2
        <5> QED  BY <3>1, <4>2, <5>1, <5>2
      <4>3. CASE At(old, x[1]) # At(new, x[1])
        <5>1. x \in old.has.ram => x \in Losses(old, new, "ram")  BY <2>4, <2>5, <4>1, <4>3
        <5>2. x \in Finds(old, new, "ram") <=> x \in new.has.ram  BY <2>4, <2>6, <4>1, <4>3
        <5> QED  BY <5>1, <5>2
      <4> QED  BY <4>2, <4>3
    <3>2. CASE x \notin old.has.ram \cup new.has.ram
      <4>1. x \notin Finds(old, new, "ram")  BY <2>4, <2>6, <3>2
      <4> QED  BY <3>2, <4>1
    <3> QED  BY <3>1, <3>2
  <2> QED  BY <1>1, <2>7
<1>2. CASE k = "gpu"
  <2>1. old.has.gpu # {} /\ new.has.gpu # {}  BY <1>2
  <2>2. ~NoCards(old) /\ ~NoCards(new)  BY <2>1 DEF NoCards
  <2>3. /\ \A x : x \in Losses(old, new, "gpu") <=> x \in old.has.gpu /\ x \notin new.has.gpu
        /\ \A x : x \in Finds(old, new, "gpu") <=> x \in new.has.gpu /\ x \notin old.has.gpu
    BY <2>2, GpuEvents
  <2> QED  BY <1>2, <2>3
<1>3. CASE k = "disk"
  <2>1. old.has.disk # {} /\ new.has.disk # {}  BY <1>3
  <2>2. ~DiskProbeFailed(old, new)  BY <2>1 DEF DiskProbeFailed
  <2>3. /\ \A x : x \in Losses(old, new, "disk") <=> x \in old.has.disk /\ x \notin new.has.disk
        /\ \A x : x \in Finds(old, new, "disk") <=> x \in new.has.disk /\ x \notin old.has.disk
    BY <2>2, DiskEvents
  <2> QED  BY <1>3, <2>3
<1> QED  BY <1>1, <1>2, <1>3 DEF Kinds

-----------------------------------------------------------------------------
(* Each operation keeps the invariant.                                     *)

LEMMA InitInv == Init => DiffInv
<1> SUFFICES ASSUME Init PROVE DiffInv  OBVIOUS
<1>1. Nothing \in Names  BY DEF Nothing, Names
<1>2. Types  BY <1>1, BoundAssumption DEF Init, Types
<1>3. Requests
  <2>1. \A s \in Sessions : request[s] = Idle  BY DEF Init
  <2>2. newest = {}  BY DEF Init
  <2>3. request = [s \in Sessions |-> request[s]]  BY DEF Init
  <2> QED  BY <2>1, <2>2, <2>3 DEF Requests, RequestOK, Single
<1>4. InOrder  BY DEF Init, InOrder
<1> QED  BY <1>2, <1>3, <1>4 DEF DiffInv

\* One session's request changes, and the newest snapshot is a single one still.
LEMMA RequestChanges ==
    ASSUME Requests, NEW s \in Sessions, NEW r, RequestOK(r), request' = [request EXCEPT ![s] = r],
           Single(newest'), UNCHANGED setting
    PROVE  /\ Requests'
           /\ \A t \in Sessions : request'[t] = IF t = s THEN r ELSE request[t]
<1>1. DOMAIN request = Sessions  BY DEF Requests
<1>2. \A t \in Sessions : request'[t] = IF t = s THEN r ELSE request[t]  BY <1>1
<1>3. request' = [t \in Sessions |-> request'[t]]  BY <1>1
<1>4. \A t \in Sessions : RequestOK(request'[t])  BY <1>2 DEF Requests
<1>5. \A base, b : Diff(base, b)' = Diff(base, b)
  BY DEF Diff, DiffMemory, DiffCards, DiffDisks, DiffNames, MemoryUnusable, At, NoCards, DiskProbeFailed, Incomplete, Event
<1>6. \A x : RequestOK(x)' <=> RequestOK(x)  BY <1>5 DEF RequestOK, ReadFrom
<1>7. Requests'  BY <1>3, <1>4, <1>6 DEF Requests
<1> QED  BY <1>2, <1>7

\* What the agent collects is a snapshot that shows what its tools saw.
LEMMA SeenType ==
    ASSUME Types, clock < MaxClock, NEW failed \in Failures
    PROVE  Seen(failed) \in Snapshots /\ Seen(failed).at = clock
<1>1. hardware \in Hardware /\ hardware \in Parts  BY DEF Types, Hardware
<1>2. hardware.ram \subseteq Slots \X Modules /\ hardware.gpu \subseteq Cards /\ hardware.disk \subseteq Disks
  BY <1>1 DEF Parts
<1> DEFINE has == [ram |-> SeenRam(failed), gpu |-> SeenCards(failed), disk |-> SeenDisks(failed)]
<1>3. SeenRam(failed) \subseteq Slots \X Modules  BY <1>2 DEF SeenRam
<1>4. SeenCards(failed) \subseteq {"uuid", "pci"} \X Cards  BY <1>2 DEF SeenCards
<1>5. SeenDisks(failed) \subseteq Disks  BY <1>2 DEF SeenDisks
<1>6. has \in Names  BY <1>3, <1>4, <1>5 DEF Names
<1>7. has.ram = SeenRam(failed) /\ has.disk = SeenDisks(failed)  OBVIOUS
<1> HIDE DEF has
<1>8. Seen(failed) = [at |-> clock, failed |-> failed, parts |-> hardware, has |-> has]
  BY DEF Seen, has
<1>9. failed \subseteq Tools /\ clock \in 0 .. MaxClock  BY DEF Failures, Types
<1>10. Seen(failed) \in Inventory  BY <1>1, <1>6, <1>8, <1>9 DEF Inventory
<1>11. /\ Seen(failed).has = has /\ Seen(failed).failed = failed /\ Seen(failed).parts = hardware
       /\ Seen(failed).at = clock
  BY <1>8
<1>12. Shown(Seen(failed))  BY <1>7, <1>11 DEF Shown, SeenRam, SeenDisks
<1> QED  BY <1>10, <1>11, <1>12 DEF Snapshots

LEMMA ClockType == clock \in 0 .. MaxClock => clock \in Int /\ MaxClock \in Nat
BY BoundAssumption

LEMMA CollectKeeps ==
    ASSUME DiffInv, NEW s \in Sessions, NEW failed \in Failures, Collect(s, failed)
    PROVE  DiffInv'
<1> DEFINE r == [phase |-> "sent", body |-> Seen(failed)]
<1>1. Types /\ Requests  BY DEF DiffInv
<1>2. /\ waits = "none" /\ request[s] = Idle /\ clock < MaxClock /\ clock' = clock + 1
      /\ request' = [request EXCEPT ![s] = r] /\ waits' = s
      /\ setting' = setting /\ hardware' = hardware /\ upsets' = upsets /\ newest' = newest
      /\ tables' = tables /\ told' = told /\ whole' = whole
  BY DEF Collect
<1>3. Seen(failed) \in Snapshots /\ Seen(failed).at = clock  BY <1>1, <1>2, SeenType
<1>4. RequestOK(r)  BY <1>3 DEF RequestOK
<1>5. r.phase = "sent" /\ r.body = Seen(failed)  OBVIOUS
<1> HIDE DEF r
<1>6. Requests' /\ \A t \in Sessions : request'[t] = IF t = s THEN r ELSE request[t]
  BY <1>1, <1>2, <1>4, RequestChanges DEF Requests
<1>7. Types'
  <2>1. clock' \in 0 .. MaxClock  BY <1>1, <1>2, BoundAssumption DEF Types
  <2> QED  BY <1>1, <1>2, <2>1 DEF Types
<1>8. ASSUME ~setting'.overlap, ~setting'.back PROVE InOrder'
  <2>1. InOrder  BY <1>2, <1>8 DEF DiffInv
  <2>2. \A t \in Sessions : request[t] = Idle  BY <1>2, <2>1, NamesAssumption DEF InOrder
  <2>3. clock \in Int  BY <1>1, ClockType DEF Types
  <2>4. \A p \in newest : p.at \in Int  BY <1>1, SingleParts, InventoryParts DEF Requests
  <2>5. \A t \in Sessions : request'[t] # Idle => t = s  BY <1>6, <2>2
  <2>6. \A p \in newest : p.at <= clock /\ p.at < clock + 1  BY <2>1, <2>3, <2>4 DEF InOrder
  <2>7. /\ request'[s].body.at = clock /\ request'[s].phase = "sent"  BY <1>3, <1>5, <1>6
  <2>8. clock < clock + 1  BY <2>3
  <2> QED  BY <1>2, <2>1, <2>5, <2>6, <2>7, <2>8 DEF InOrder, Idle
<1> QED  BY <1>6, <1>7, <1>8 DEF DiffInv

LEMMA ReadKeeps ==
    ASSUME DiffInv, NEW s \in Sessions, Read(s)
    PROVE  DiffInv'
<1> DEFINE b == request[s].body
           r == ReadFrom(newest, b)
<1>1. Types /\ Requests /\ RequestOK(request[s])  BY DEF DiffInv, Requests
<1>2. /\ request[s].phase = "sent"
      /\ request' = [request EXCEPT ![s] = r]
      /\ setting' = setting /\ hardware' = hardware /\ upsets' = upsets /\ clock' = clock
      /\ waits' = waits /\ newest' = newest /\ tables' = tables /\ told' = told /\ whole' = whole
  BY DEF Read, ReadFrom
<1>3. b \in Snapshots /\ request[s] # Idle  BY <1>1, <1>2, RequestParts
<1> HIDE DEF b
<1>4. RequestOK(r)  BY <1>1, <1>3 DEF RequestOK, Requests
<1>5. r.phase = "read" /\ r.body = b /\ r.base = newest  BY DEF ReadFrom
<1> HIDE DEF r
<1>6. Requests' /\ \A t \in Sessions : request'[t] = IF t = s THEN r ELSE request[t]
  BY <1>1, <1>2, <1>4, RequestChanges DEF Requests
<1>7. Types'  BY <1>1, <1>2 DEF Types
<1>8. ASSUME ~setting'.overlap, ~setting'.back PROVE InOrder'
  <2>1. InOrder  BY <1>2, <1>8 DEF DiffInv
  <2>2. /\ waits = s /\ b.at < clock
        /\ \A p \in newest : p.at <= b.at
    BY <1>3, <2>1 DEF InOrder, b
  <2> QED  BY <1>2, <1>5, <1>6, <2>1, <2>2 DEF InOrder, Idle
<1> QED  BY <1>6, <1>7, <1>8 DEF DiffInv

\* Without the request, the rest of the order stands.
LEMMA AbortKeeps ==
    ASSUME DiffInv, NEW s \in Sessions, Abort(s)
    PROVE  DiffInv'
<1>1. Types /\ Requests  BY DEF DiffInv
<1>2. /\ request[s] # Idle
      /\ request' = [request EXCEPT ![s] = Idle]
      /\ waits' = IF waits = s THEN "none" ELSE waits
      /\ setting' = setting /\ hardware' = hardware /\ upsets' = upsets /\ clock' = clock
      /\ newest' = newest /\ tables' = tables /\ told' = told /\ whole' = whole
  BY DEF Abort, Answered
<1>3. RequestOK(Idle)  BY DEF RequestOK
<1>4. Requests' /\ \A t \in Sessions : request'[t] = IF t = s THEN Idle ELSE request[t]
  BY <1>1, <1>2, <1>3, RequestChanges DEF Requests
<1>5. Types'  BY <1>1, <1>2 DEF Types
<1>6. ASSUME ~setting'.overlap, ~setting'.back PROVE InOrder'
  <2>1. InOrder  BY <1>2, <1>6 DEF DiffInv
  <2>2. waits = s  BY <1>2, <2>1 DEF InOrder
  <2>3. \A t \in Sessions : request'[t] = Idle  BY <1>4, <2>1, <2>2 DEF InOrder
  <2> QED  BY <1>2, <2>1, <2>3 DEF InOrder, Idle
<1> QED  BY <1>4, <1>5, <1>6 DEF DiffInv

LEMMA BelieveType ==
    ASSUME Types, Single(newest), NEW r, RequestOK(r), r.phase = "read"
    PROVE  Believe(r) \in Names
<1>1. r.body \in Snapshots /\ Single(r.base) /\ r.events = Diff(r.base, r.body)  BY RequestParts
<1>2. CASE newest = {}  BY <1>1, <1>2, InventoryParts DEF Believe
<1>3. CASE newest # {}
  <2>1. Believe(r) = [k \in Kinds |-> (told[k] \ Lost(r.events, k)) \cup Found(r.events, k)]
    BY <1>3 DEF Believe
  <2>2. told \in Names  BY DEF Types
  <2>3. /\ Found(r.events, "ram") \subseteq Slots \X Modules
        /\ Found(r.events, "gpu") \subseteq {"uuid", "pci"} \X Cards
        /\ Found(r.events, "disk") \subseteq Disks
    <3>1. CASE r.base = {}  BY <1>1, <3>1, FirstEvents
    <3>2. CASE r.base # {}
      <4>1. PICK p \in Snapshots : r.base = {p}  BY <1>1, <3>2 DEF Single
      <4>2. /\ r.body.has.ram \subseteq Slots \X Modules
            /\ r.body.has.gpu \subseteq {"uuid", "pci"} \X Cards
            /\ r.body.has.disk \subseteq Disks
        BY <1>1, InventoryParts
      <4>3. \A k : Found(r.events, k) = Finds(p, r.body, k)  BY <1>1, <4>1 DEF Finds
      <4>4. Finds(p, r.body, "ram") \subseteq r.body.has.ram  BY RamEvents DEF At
      <4>5. Finds(p, r.body, "gpu") \subseteq r.body.has.gpu  BY GpuEvents
      <4>6. Finds(p, r.body, "disk") \subseteq r.body.has.disk  BY DiskEvents
      <4> QED  BY <4>2, <4>3, <4>4, <4>5, <4>6
    <3> QED  BY <3>1, <3>2
  <2> QED  BY <2>1, <2>2, <2>3 DEF Names, Kinds
<1> QED  BY <1>2, <1>3

LEMMA CommitKeeps ==
    ASSUME DiffInv, NEW s \in Sessions, Commit(s)
    PROVE  DiffInv'
<1> DEFINE r == request[s]
<1>1. Types /\ Requests /\ RequestOK(r)  BY DEF DiffInv, Requests
<1>2. /\ r.phase = "read"
      /\ newest' = Newest(r.body)
      /\ tables' = r.body.has
      /\ told' = Believe(r)
      /\ whole' = whole \ {k \in Kinds : r.body.has[k] = {}}
      /\ request' = [request EXCEPT ![s] = Idle]
      /\ waits' = IF waits = s THEN "none" ELSE waits
      /\ setting' = setting /\ hardware' = hardware /\ upsets' = upsets /\ clock' = clock
  BY DEF Commit, Answered
<1>3. r.body \in Snapshots /\ r # Idle /\ Single(r.base) /\ r.events = Diff(r.base, r.body)
  BY <1>1, <1>2, RequestParts
<1>4. Single(newest) /\ Single(newest')
  <2>1. Single(newest)  BY <1>1 DEF Requests
  <2>2. Newest(r.body) \in {{r.body}, newest}  BY DEF Newest
  <2> QED  BY <1>2, <1>3, <2>1, <2>2 DEF Single
<1>5. RequestOK(Idle)  BY DEF RequestOK
<1>6. Requests' /\ \A t \in Sessions : request'[t] = IF t = s THEN Idle ELSE request[t]
  BY <1>1, <1>2, <1>4, <1>5, RequestChanges
<1>7. Types'
  <2>1. told' \in Names  BY <1>1, <1>2, <1>4, BelieveType
  <2>2. tables' \in Names  BY <1>2, <1>3, InventoryParts
  <2> QED  BY <1>1, <1>2, <2>1, <2>2 DEF Types
<1>8. ASSUME ~setting'.overlap, ~setting'.back PROVE InOrder'
  <2>1. InOrder  BY <1>2, <1>8 DEF DiffInv
  <2>2. /\ waits = s /\ r.body.at < clock /\ r.base = newest
        /\ \A p \in newest : p.at <= r.body.at
    BY <1>2, <1>3, <2>1 DEF InOrder
  <2>3. \A t \in Sessions : request'[t] = Idle  BY <1>6, <2>1, <2>2 DEF InOrder
  <2>4. newest' = {r.body}
    <3>1. \A p \in newest : p.at \in Int  BY <1>4, SingleParts, InventoryParts
    <3>2. r.body.at \in Int  BY <1>3, InventoryParts
    <3>3. \A p \in newest : r.body.at >= p.at  BY <2>2, <3>1, <3>2
    <3> QED  BY <1>2, <3>3 DEF Newest
  <2>5. \A k \in whole' : k \in whole /\ k \in Kinds /\ r.body.has[k] # {}  BY <1>1, <1>2 DEF Types
  <2>6. ASSUME NEW k \in whole' PROVE told'[k] = tables'[k]
    <3>1. CASE newest = {}  BY <1>2, <3>1 DEF Believe
    <3>2. CASE newest # {}
      <4>1. PICK p \in Snapshots : newest = {p}  BY <1>4, <3>2 DEF Single
      <4>2. told'[k] = (told[k] \ Lost(r.events, k)) \cup Found(r.events, k)
        BY <1>2, <2>5, <3>2 DEF Believe
      <4>3. Lost(r.events, k) = Losses(p, r.body, k) /\ Found(r.events, k) = Finds(p, r.body, k)
        BY <1>3, <2>2, <4>1 DEF Losses, Finds
      <4>4. told[k] = p.has[k] /\ p.has[k] # {}  BY <2>1, <2>5, <4>1 DEF InOrder
      <4>5. (p.has[k] \ Losses(p, r.body, k)) \cup Finds(p, r.body, k) = r.body.has[k]
        BY <1>3, <2>5, <4>1, <4>4, Explains
      <4> QED  BY <1>2, <4>2, <4>3, <4>4, <4>5
    <3> QED  BY <3>1, <3>2
  <2> QED  BY <1>2, <2>2, <2>3, <2>4, <2>5, <2>6 DEF InOrder, Idle
<1> QED  BY <1>6, <1>7, <1>8 DEF DiffInv

\* The requests, the newest snapshot, the tables and the events stand still.
LEMMA MachineKeeps ==
    ASSUME DiffInv, UNCHANGED <<setting, request, newest, tables, told, whole>>,
           hardware' \in Hardware, upsets' \in 0 .. MaxUpsets, clock' \in 0 .. MaxClock,
           waits' \in Sessions \cup {"none"},
           ~setting.overlap => waits' = waits, ~setting.back => clock' = clock
    PROVE  DiffInv'
<1>1. Types'  BY DEF DiffInv, Types
<1>2. Requests'
  <2>1. Requests  BY DEF DiffInv
  <2>2. \A base, b : Diff(base, b)' = Diff(base, b)
    BY DEF Diff, DiffMemory, DiffCards, DiffDisks, DiffNames, MemoryUnusable, At, NoCards, DiskProbeFailed, Incomplete, Event
  <2>3. \A x : RequestOK(x)' <=> RequestOK(x)  BY <2>2 DEF RequestOK, ReadFrom
  <2> QED  BY <2>1, <2>3 DEF Requests
<1>3. ASSUME ~setting'.overlap, ~setting'.back PROVE InOrder'
  <2>1. InOrder  BY <1>3 DEF DiffInv
  <2>2. waits' = waits /\ clock' = clock  BY <1>3
  <2> QED  BY <2>1, <2>2 DEF InOrder, Idle
<1> QED  BY <1>1, <1>2, <1>3 DEF DiffInv

LEMMA NextInv == DiffInv /\ [Next]_vars => DiffInv'
<1> SUFFICES ASSUME DiffInv, [Next]_vars PROVE DiffInv'  OBVIOUS
<1>1. Types  BY DEF DiffInv
<1>2. /\ hardware \in Hardware /\ upsets \in 0 .. MaxUpsets /\ clock \in 0 .. MaxClock
      /\ waits \in Sessions \cup {"none"} /\ MaxClock \in Nat /\ MaxUpsets \in Nat
  BY <1>1, BoundAssumption DEF Types
<1>3. CASE GiveUp  BY <1>2, <1>3, MachineKeeps DEF GiveUp
<1>4. ASSUME NEW k \in Kinds, NEW h \in Hardware, Fit(k, h) PROVE DiffInv'
  <2>1. upsets' \in 0 .. MaxUpsets  BY <1>2, <1>4 DEF Fit
  <2> QED  BY <1>2, <1>4, <2>1, MachineKeeps DEF Fit
<1>5. CASE SetBack
  <2>1. upsets' \in 0 .. MaxUpsets /\ clock' \in 0 .. MaxClock  BY <1>2, <1>5 DEF SetBack
  <2> QED  BY <1>2, <1>5, <2>1, MachineKeeps DEF SetBack
<1>6. CASE UNCHANGED vars  BY <1>2, <1>6, MachineKeeps DEF vars
<1> QED  BY <1>3, <1>4, <1>5, <1>6, CollectKeeps, ReadKeeps, CommitKeeps, AbortKeeps DEF Next

-----------------------------------------------------------------------------
(* The theorems.                                                           *)

\* The inductive invariant holds, for every set of parts and of sessions.
THEOREM DiffCorrect == Spec => []DiffInv
BY InitInv, NextInv, PTL DEF Spec

\* Every variable keeps its type.
THEOREM DiffTypeCorrect == Spec => []TypeOK
<1>1. DiffInv => TypeOK
  <2> SUFFICES ASSUME DiffInv PROVE TypeOK  OBVIOUS
  <2>1. Types /\ Requests  BY DEF DiffInv
  <2>2. ASSUME NEW s \in Sessions
        PROVE  \/ request[s] = Idle
               \/ request[s].phase \in {"sent", "read"} /\ request[s].body \in Inventory
    <3>1. RequestOK(request[s])  BY <2>1 DEF Requests
    <3> QED  BY <3>1, RequestParts DEF Snapshots
  <2>3. newest \subseteq Inventory /\ Cardinality(newest) <= 1
    <3>1. CASE newest = {}  BY <3>1, FS_EmptySet
    <3>2. CASE newest # {}
      <4>1. PICK p \in Snapshots : newest = {p}  BY <2>1, <3>2 DEF Requests, Single
      <4>2. Cardinality({p}) = 1  BY FS_Singleton
      <4> QED  BY <4>1, <4>2 DEF Snapshots
    <3> QED  BY <3>1, <3>2
  <2> QED  BY <2>1, <2>2, <2>3 DEF Types, TypeOK
<1> QED  BY <1>1, DiffCorrect, PTL

\* However tools fail, requests overtake each other and the clock jumps, no module
\* and no disk that was there is reported removed, and no disk added again.
THEOREM NothingIsInvented == Spec => []ReportsAreReal
<1>1. DiffInv => ReportsAreReal
  <2> SUFFICES ASSUME DiffInv, NEW r \in Reporting
               PROVE  ~FalseLoss(r, "ram") /\ ~FalseLoss(r, "disk") /\ ~FalseFind(r, "disk")
    BY DEF ReportsAreReal
  <2>1. PICK s \in Sessions : r = request[s] /\ r.phase = "read"  BY DEF Reporting
  <2>2. RequestOK(r)  BY <2>1 DEF DiffInv, Requests
  <2>3. r.body \in Snapshots /\ Single(r.base) /\ r.events = Diff(r.base, r.body)
    BY <2>1, <2>2, RequestParts
  <2>4. CASE r.base = {}
    <3>1. Lost(r.events, "ram") = {} /\ Lost(r.events, "disk") = {}  BY <2>3, <2>4, FirstEvents
    <3> QED  BY <2>4, <3>1 DEF FalseLoss, FalseFind
  <2>5. CASE r.base # {}
    <3>1. PICK p \in Snapshots : r.base = {p}  BY <2>3, <2>5 DEF Single
    <3>2. /\ Lost(r.events, "ram") = Losses(p, r.body, "ram")
          /\ Lost(r.events, "disk") = Losses(p, r.body, "disk")
          /\ Found(r.events, "disk") = Finds(p, r.body, "disk")
      BY <2>3, <3>1 DEF Losses, Finds
    <3>3. /\ \A n \in Losses(p, r.body, "ram") : n \notin r.body.parts.ram
          /\ \A n \in Losses(p, r.body, "disk") : n \notin r.body.parts.disk
          /\ \A n \in Finds(p, r.body, "disk") : n \notin p.parts.disk
      BY <2>3, <3>1, Real
    <3> QED  BY <3>1, <3>2, <3>3 DEF FalseLoss, FalseFind, InMachine
  <2> QED  BY <2>4, <2>5
<1> QED  BY <1>1, DiffCorrect, PTL

\* As long as requests and clock keep their order, who believes the events knows
\* the parts the tables name, of every kind that was always shown.
THEOREM EventsAreComplete == Spec => []EventsExplainTables
<1>1. DiffInv => EventsExplainTables  BY DEF DiffInv, InOrder, EventsExplainTables
<1> QED  BY <1>1, DiffCorrect, PTL
=============================================================================
