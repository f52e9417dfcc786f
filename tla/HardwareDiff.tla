---------------------------- MODULE HardwareDiff ----------------------------
(***************************************************************************)
(* How a change of a machine's hardware becomes hardware events.  The      *)
(* agent collects an inventory with tools that may fail, and posts it; the *)
(* server compares it with the newest stored snapshot, stores it, writes   *)
(* the events of the comparison, and replaces the inventory tables.        *)
(*                                                                         *)
(* One machine, with three kinds of parts: memory modules in slots, NVIDIA *)
(* cards, and disks.  An inventory names a part by what the tool that saw  *)
(* it gives: the slot of a module, the serial number of a disk, the UUID   *)
(* of a card (nvidia-smi) or its PCI address (lspci).  Nothing orders the  *)
(* requests of an agent that gave one up, nor its clock.                   *)
(***************************************************************************)
EXTENDS Naturals, FiniteSets

CONSTANTS
    Slots, Modules,  \* memory
    Cards,           \* NVIDIA cards, each in its PCI slot
    Disks,
    Sessions,        \* server sessions that execute the agent's requests
    MaxClock,        \* bound: the agent's clock
    MaxUpsets,       \* bound: times the hardware, or the clock, is changed
    Settings         \* what one behaviour considers: see Setting

Kinds == {"ram", "gpu", "disk"}
Tools == {"dmidecode", "nvidia-smi", "lspci", "lsblk"}

\* Kinds of parts that change; tools that may fail; whether the machine always
\* has a note that reads like a failure ("slot topology not exposed"); whether the
\* agent gives up a request that is still executed; whether its clock is set back.
Setting == [changes : SUBSET Kinds, fails : SUBSET Tools, noisy : BOOLEAN,
            overlap : BOOLEAN, back : BOOLEAN]

ASSUME SettingsAssumption == Settings \subseteq Setting
ASSUME BoundAssumption == MaxClock \in Nat /\ MaxUpsets \in Nat
ASSUME NamesAssumption == "none" \notin Sessions

VARIABLES
    setting,   \* never changes
    hardware,  \* the parts that are in the machine
    upsets,    \* times they, or the clock, were changed
    clock,     \* the agent's clock
    waits,     \* the session whose answer the agent waits for
    request,   \* sessions of inventory requests
    newest,    \* the snapshot with the greatest collected_at, {} when there is none
    tables,    \* the inventory tables, as the parts they name
    told,      \* history: the parts there are according to the events
    whole      \* history: kinds that no snapshot showed as empty

vars == <<setting, hardware, upsets, clock, waits, request, newest, tables, told, whole>>

-----------------------------------------------------------------------------
Parts == [ram : SUBSET (Slots \X Modules), gpu : SUBSET Cards, disk : SUBSET Disks]
Names == [ram : SUBSET (Slots \X Modules), gpu : SUBSET ({"uuid", "pci"} \X Cards), disk : SUBSET Disks]

\* A module is in one slot and a slot holds one module; a machine that runs has memory.
Hardware == {h \in Parts : /\ h.ram # {}
                           /\ \A x, y \in h.ram : x = y \/ (x[1] # y[1] /\ x[2] # y[2])}

\* An inventory: what it names, the tools that failed, and the parts there were
\* when it was collected (history: the program does not know them).
Inventory == [at : 0 .. MaxClock, has : Names, failed : SUBSET Tools, parts : Hardware]

Nothing == [ram |-> {}, gpu |-> {}, disk |-> {}]
Idle    == [phase |-> "idle"]

TypeOK ==
    /\ setting \in Settings
    /\ hardware \in Hardware /\ upsets \in 0 .. MaxUpsets
    /\ clock \in 0 .. MaxClock
    /\ waits \in Sessions \cup {"none"}
    /\ \A s \in Sessions :
          \/ request[s] = Idle
          \/ request[s].phase \in {"sent", "read"} /\ request[s].body \in Inventory
    /\ newest \subseteq Inventory /\ Cardinality(newest) <= 1
    /\ tables \in Names /\ told \in Names
    /\ whole \subseteq Kinds

Init ==
    /\ setting \in Settings
    /\ hardware \in {h \in Hardware : Cardinality(h.ram) = 1 /\ h.gpu = Cards /\ h.disk = Disks}
    /\ upsets = 0 /\ clock = 0
    /\ waits = "none"
    /\ request = [s \in Sessions |-> Idle]
    /\ newest = {}
    /\ tables = Nothing /\ told = Nothing
    /\ whole = Kinds

-----------------------------------------------------------------------------
(* The agent: collect_inventory.                                           *)

\* Without an answer from dmidecode the list of modules is empty and the topology
\* is UNKNOWN; the total comes from the operating system.
SeenRam(failed) == IF "dmidecode" \in failed THEN {} ELSE hardware.ram

\* nvidia-smi, else the PCI devices.
SeenCards(failed) ==
    IF "nvidia-smi" \notin failed THEN {"uuid"} \X hardware.gpu
    ELSE IF "lspci" \notin failed THEN {"pci"} \X hardware.gpu
    ELSE {}

SeenDisks(failed) == IF "lsblk" \in failed THEN {} ELSE hardware.disk

\* nvidia-smi fails when it finds no card.
Failures == {failed \in SUBSET Tools : /\ failed \subseteq setting.fails \cup {"nvidia-smi"}
                                       /\ hardware.gpu = {} => "nvidia-smi" \in failed
                                       /\ "nvidia-smi" \in failed \ setting.fails => hardware.gpu = {}}

Seen(failed) ==
    [at |-> clock, failed |-> failed, parts |-> hardware,
     has |-> [ram |-> SeenRam(failed), gpu |-> SeenCards(failed), disk |-> SeenDisks(failed)]]

\* Collect and post; the agent waits for the answer.
Collect(s, failed) ==
    /\ waits = "none" /\ request[s] = Idle
    /\ clock < MaxClock
    /\ clock' = clock + 1
    /\ request' = [request EXCEPT ![s] = [phase |-> "sent", body |-> Seen(failed)]]
    /\ waits' = s
    /\ UNCHANGED <<setting, hardware, upsets, newest, tables, told, whole>>

\* The answer did not come within 20 s: the server may still execute the request.
GiveUp ==
    /\ setting.overlap /\ waits # "none"
    /\ waits' = "none"
    /\ UNCHANGED <<setting, hardware, upsets, clock, request, newest, tables, told, whole>>

-----------------------------------------------------------------------------
(* The comparison: diff_inventory.  An event tells of a part that is lost, *)
(* of one that is found, or of one in the place of another.                *)

Event(kind, lost, found) == [kind |-> kind, lost |-> lost, found |-> found]

\* _notes_suggest_incomplete: every failure leaves a note, except lspci's.
Incomplete(p) == setting.noisy \/ p.failed \ {"lspci"} # {}

\* _memory_collection_thin, and the early returns of _diff_memory: the list of
\* modules collapsed.  In the inventories of the collector the list is empty
\* exactly when the topology is UNKNOWN.
MemoryUnusable(old, new) == old.has.ram # {} /\ new.has.ram = {}

At(p, slot) == {x \in p.has.ram : x[1] = slot}

\* Mutant: a slot is compared by whether it is taken.
DiffMemory_Taken(old, new) ==
    IF MemoryUnusable(old, new) THEN {}
    ELSE {Event("ram", At(old, slot), At(new, slot)) :
             slot \in {s \in Slots : (At(old, s) = {}) # (At(new, s) = {})}}

DiffMemory(old, new) ==
    IF MemoryUnusable(old, new) THEN {}
    ELSE {Event("ram", At(old, slot), At(new, slot)) :
             slot \in {s \in Slots : At(old, s) # At(new, s)}}

\* Parts that are known by a name: RAM aside, nothing but presence is compared.
DiffNames(kind, old, new) ==
    {Event(kind, {n}, {}) : n \in old \ new} \cup {Event(kind, {}, {n}) : n \in new \ old}

\* _gpu_collection_thin: an inventory without cards always has a note about them.
NoCards(p) == p.has.gpu = {}

DiffCards(old, new) ==
    IF NoCards(new) \/ NoCards(old) THEN {} ELSE DiffNames("gpu", old.has.gpu, new.has.gpu)

DiskProbeFailed(old, new) ==
    \/ old.has.disk # {} /\ new.has.disk = {}
    \/ old.has.disk = {} /\ Incomplete(old)

\* Mutant: disks that reappear are events whatever the notes said.
DiffDisks_Rediscovered(old, new) ==
    IF old.has.disk # {} /\ new.has.disk = {} THEN {}
    ELSE DiffNames("disk", old.has.disk, new.has.disk)

DiffDisks(old, new) ==
    IF DiskProbeFailed(old, new) THEN {} ELSE DiffNames("disk", old.has.disk, new.has.disk)

\* The first snapshot has no events.
Diff(base, new) == UNION {DiffMemory(old, new) \cup DiffCards(old, new) \cup DiffDisks(old, new) : old \in base}

-----------------------------------------------------------------------------
(* The server: persist_inventory.                                          *)

\* The newest snapshot is read, and the events are computed from it.
Read(s) ==
    /\ request[s].phase = "sent"
    /\ request' = [request EXCEPT ![s] = [phase |-> "read", body |-> @.body, base |-> newest,
                                          events |-> Diff(newest, request[s].body)]]
    /\ UNCHANGED <<setting, hardware, upsets, clock, waits, newest, tables, told, whole>>

\* Mutant: the query without its limit.
Newest_All(p) == newest \cup {p}

\* collected_at decides which snapshot is the newest.
Newest(p) == IF \A q \in newest : p.at >= q.at THEN {p} ELSE newest

Lost(events, kind)  == UNION {e.lost : e \in {x \in events : x.kind = kind}}
Found(events, kind) == UNION {e.found : e \in {x \in events : x.kind = kind}}

\* The parts there are when an event is believed; the first snapshot is the start.
Believe(r) ==
    IF newest = {} THEN r.body.has
    ELSE [k \in Kinds |-> (told[k] \ Lost(r.events, k)) \cup Found(r.events, k)]

Answered(s) ==
    /\ request' = [request EXCEPT ![s] = Idle]
    /\ waits' = IF waits = s THEN "none" ELSE waits

\* The snapshot, the events and the tables, in one transaction.
Commit(s) ==
    LET r == request[s] IN
    /\ r.phase = "read"
    /\ newest' = Newest(r.body)
    /\ tables' = r.body.has
    /\ told' = Believe(r)
    /\ whole' = whole \ {k \in Kinds : r.body.has[k] = {}}
    /\ Answered(s)
    /\ UNCHANGED <<setting, hardware, upsets, clock>>

\* The request is lost, or rolled back.
Abort(s) ==
    /\ request[s] # Idle
    /\ Answered(s)
    /\ UNCHANGED <<setting, hardware, upsets, clock, newest, tables, told, whole>>

-----------------------------------------------------------------------------
(* The machine.                                                            *)

\* Parts of one kind are changed.
Fit(k, h) ==
    /\ k \in setting.changes
    /\ upsets < MaxUpsets /\ upsets' = upsets + 1
    /\ h # hardware /\ \A other \in Kinds \ {k} : h[other] = hardware[other]
    /\ hardware' = h
    /\ UNCHANGED <<setting, clock, waits, request, newest, tables, told, whole>>

SetBack ==
    /\ setting.back /\ clock > 0
    /\ upsets < MaxUpsets /\ upsets' = upsets + 1
    /\ clock' = clock - 1
    /\ UNCHANGED <<setting, hardware, waits, request, newest, tables, told, whole>>

Next ==
    \/ \E s \in Sessions : \/ \E failed \in Failures : Collect(s, failed)
                           \/ Read(s) \/ Commit(s) \/ Abort(s)
    \/ GiveUp
    \/ \E k \in Kinds, h \in Hardware : Fit(k, h)
    \/ SetBack

Spec == Init /\ [][Next]_vars

-----------------------------------------------------------------------------
(* Safety.                                                                 *)

InMachine(parts, kind, name) ==
    IF kind = "gpu" THEN name[2] \in parts.gpu ELSE name \in parts[kind]

\* Events that are wrong: a part reported lost was in the machine when the inventory
\* was collected; a part reported found was in it already when the base was.
FalseLoss(r, k) == \E n \in Lost(r.events, k) : InMachine(r.body.parts, k, n)
FalseFind(r, k) == \E n \in Found(r.events, k), b \in r.base : InMachine(b.parts, k, n)

Reporting == {request[s] : s \in {t \in Sessions : request[t].phase = "read"}}

\* However tools fail, requests overtake each other and the clock jumps: no
\* module and no disk is reported removed that was in the machine when the
\* inventory was collected, and no disk is reported added that was there before
\* (diff.py:4, "Never infers missing hardware").
ReportsAreReal ==
    \A r \in Reporting : ~FalseLoss(r, "ram") /\ ~FalseLoss(r, "disk") /\ ~FalseFind(r, "disk")

\* As long as requests and clock keep their order, the events explain the
\* inventory: who believes them from the first snapshot on knows the parts the
\* tables name, of every kind that no inventory showed as empty.
EventsExplainTables ==
    ~setting.overlap /\ ~setting.back => \A k \in whole : told[k] = tables[k]
=============================================================================
