----------------------------- MODULE Assignment -----------------------------
(***************************************************************************)
(* Scholars, the inventory issued to them, and the one-time codes that     *)
(* confirm it.  An item can be tied to a scholar in two ways.  The Assign  *)
(* and Revoke pages write the item's assigned_scholar_id and refresh the   *)
(* scholar's inventory pointer from it; enrolment, import and the          *)
(* scholar's own page write the pointer alone.                             *)
(*                                                                         *)
(* Each request is one transaction.  Those that give a scholar a lab or an *)
(* ID take two steps here, the look at who has that ID and the write:      *)
(* nothing holds the answer until the commit, so others run in between.    *)
(* The other requests are one step; what runs concurrently there are the   *)
(* exchanges with a code: the page opens a code for an address, and a      *)
(* later request, by then in another state, presents it.                   *)
(* Names, labels, approval and no-dues flags decide nothing here and are   *)
(* left out; Bio-IDs are checked like scholar IDs and left out too.        *)
(***************************************************************************)
EXTENDS Naturals, Sequences, FiniteSets, Functions

CONSTANTS
    Scholars, Items, Labs, Ids, Emails,
    Requests,   \* bound: requests between their look at an ID and their commit
    NoOne, NoItem, NoLab, Idle,
    Location,   \* the lab an item's location or machine names, or NoLab
    MaxCodes,   \* bound: codes ever sent
    Settings    \* sets of operations considered together

Operations == {"enroll", "confirm", "import", "patch", "people", "email",
               "issue", "document", "revoke", "link", "items"}
NoId == "blank"

ASSUME AssignmentAssumption ==
    /\ MaxCodes \in Nat /\ Settings \subseteq SUBSET Operations
    /\ Labs # {} /\ Emails # {}
    /\ Location \in [Items -> Labs \cup {NoLab}]
    /\ NoOne \notin Scholars /\ NoItem \notin Items /\ NoLab \notin Labs /\ NoId \notin Ids

VARIABLES
    setting,  \* never changes
    scholar,  \* scholar rows: status, lab, ID, inventory pointer; history: ever restored, given
              \* its lab and ID by a request that another overtook, and lost an item to another
              \* scholar since the pointer was last written
    item,     \* inventory rows: status, and assigned_scholar_id
    codes,    \* email_otp_challenges, oldest first
    writing   \* what requests have looked up and will write; history: another came first

vars == <<setting, scholar, item, codes, writing>>

-----------------------------------------------------------------------------
Life     == {"absent", "active", "removed", "purged"}
Kinds    == {"none", "listed", "non_list"}
Purposes == {"enroll", "link", "issue", "revoke"}

Scholar == [status : Life, lab : Labs, id : Ids \cup {NoId}, email : Emails,
            kind : Kinds, item : Items \cup {NoItem}, restored : BOOLEAN, raced : BOOLEAN, deprived : BOOLEAN]
Item    == [status : Life, holder : Scholars \cup {NoOne}]

\* "to" is an address, or the lab whose owner's address it is.
Code == [purpose : Purposes, to : Emails \cup Labs, state : {"open", "dead", "spent"},
         scholar : Scholars \cup {NoOne}, lab : Labs \cup {NoLab}, id : Ids \cup {NoId}, items : SUBSET Items]

\* A scholar to insert, or one to update in some columns; the code presented, or 0.
Write == [scholar : Scholars, insert : BOOLEAN, lab : Labs, id : Ids \cup {NoId}, columns : SUBSET {"lab", "id"},
          email : Emails, item : Items \cup {NoItem}, code : 0 .. MaxCodes, late : BOOLEAN]

TypeOK ==
    /\ setting \in Settings
    /\ scholar \in [Scholars -> Scholar]
    /\ item \in [Items -> Item]
    /\ codes \in Seq(Code) /\ Len(codes) <= MaxCodes
    /\ writing \in [Requests -> Write \cup {Idle}]
    \* A pointer belongs to listed inventory; a row that is gone holds no place.
    /\ \A s \in Scholars : scholar[s].item # NoItem => scholar[s].kind = "listed"
    /\ \A s \in Scholars, i \in Items : scholar[s].item = i => item[i].status # "purged"

Does(operation) == operation \in setting

Fresh(status, lab, email) ==
    [status |-> status, lab |-> lab, id |-> NoId, email |-> email, kind |-> "none", item |-> NoItem,
     restored |-> FALSE, raced |-> FALSE, deprived |-> FALSE]

AnyEmail == CHOOSE e \in Emails : TRUE

\* Addresses differ where their changes are considered.
Addresses == IF Does("email") THEN Emails ELSE {AnyEmail}

\* Settings without enrolment or without work on the items start with rows.
Init ==
    /\ setting \in Settings
    /\ scholar \in IF Does("enroll") THEN {[s \in Scholars |-> Fresh("absent", l, AnyEmail)] : l \in Labs}
                   ELSE [Scholars -> {Fresh("active", l, e) : l \in Labs, e \in Addresses}]
    /\ item = [i \in Items |-> [status |-> IF Does("items") THEN "absent" ELSE "active", holder |-> NoOne]]
    /\ codes = <<>>
    /\ writing = [r \in Requests |-> Idle]

-----------------------------------------------------------------------------
(* One-time codes.                                                         *)

\* Mutant: earlier codes stay good.
Expired_None(purpose, to) == codes

\* expire_open_for_email
Expired(purpose, to) ==
    [k \in DOMAIN codes |->
        IF codes[k].purpose = purpose /\ codes[k].to = to /\ codes[k].state # "spent"
        THEN [codes[k] EXCEPT !.state = "dead"] ELSE codes[k]]

\* expire_open_for_email and create_challenge.
Send(code) ==
    /\ Len(codes) < MaxCodes
    /\ codes' = Append(Expired(code.purpose, code.to), code)

NewCode(purpose, to) ==
    [purpose |-> purpose, to |-> to, state |-> "open",
     scholar |-> NoOne, lab |-> NoLab, id |-> NoId, items |-> {}]

\* Mutant: neither the expiry nor an earlier use is looked at.
Good_Always(k) == TRUE

Good(k) == codes[k].state = "open"

\* verify_challenge with the right code.  A wrong one raises, and the rollback
\* takes its count of attempts back.
Present(k, purpose) ==
    /\ codes[k].purpose = purpose
    /\ Good(k)
    /\ codes' = [codes EXCEPT ![k].state = "spent"]

\* OTP_TTL_MINUTES pass.
CodeExpires(k) ==
    /\ codes[k].state = "open"
    /\ codes' = [codes EXCEPT ![k].state = "dead"]
    /\ UNCHANGED <<setting, scholar, item, writing>>

-----------------------------------------------------------------------------
(* Scholars.                                                               *)

Clash(lab, id, except) ==
    {s \in Scholars \ {except} : id # NoId /\ scholar[s].status = "active"
                                 /\ scholar[s].lab = lab /\ scholar[s].id = id}

\* What a scholar's own page can name: nothing, a listed item, or a label.
Linkable(kind, i) ==
    \/ kind # "listed" /\ i = NoItem
    \/ kind = "listed" /\ i \in Items /\ item[i].status = "active"

\* Mutant: an item already linked is not let go.
Linked_Kept(row, kind, i) == [row EXCEPT !.kind = kind, !.item = IF i = NoItem THEN row.item ELSE i]

\* _apply_inventory_link, as far as the scholar's row goes.
Linked(row, kind, i) == [row EXCEPT !.kind = kind, !.item = i, !.deprived = FALSE]

\* Inventory can be given with the enrolment where the "link" operation is considered.
Inventory == {NoItem} \cup (IF Does("link") THEN Items ELSE {})

KindOf(i) == IF i = NoItem THEN "none" ELSE "listed"

\* Mutant: the ID is not looked up.
Unused_Unchecked(lab, id, except) == TRUE

\* _assert_unique_scholar_id, which locks nothing.
Unused(lab, id, except) == Clash(lab, id, except) = {}

Begin(r, write) ==
    /\ writing[r] = Idle
    /\ writing' = [writing EXCEPT ![r] = write]
    /\ UNCHANGED <<setting, scholar, item, codes>>

Insertion(s, lab, id, email, i, code) ==
    [scholar |-> s, insert |-> TRUE, lab |-> lab, id |-> id, columns |-> {"lab", "id"},
     email |-> email, item |-> i, code |-> code, late |-> FALSE]

\* _finalize_enroll_payload up to the insertion of s, a row no other request has.
Enrolls(r, s, lab, id, email, i, code) ==
    /\ scholar[s].status = "absent" /\ \A q \in Requests : writing[q] # Idle => writing[q].scholar # s
    /\ Unused(lab, id, NoOne)
    /\ Begin(r, Insertion(s, lab, id, email, i, code))

\* enroll_scholar with nothing to confirm, or confirmed by a document; or
\* import_scholars, for a row whose ID the lab does not have.
Enroll(r, s, lab, id, email, i) == Enrolls(r, s, lab, id, email, i, 0)

\* enroll_scholar with a code; the ID is not looked up yet.
EnrollSend(lab, id, email, i) ==
    /\ Linkable(KindOf(i), i)
    /\ Send([NewCode("enroll", email) EXCEPT !.lab = lab, !.id = id, !.items = {i} \ {NoItem}])
    /\ UNCHANGED <<setting, scholar, item, writing>>

\* verify_scholar_otp for an enrolment, up to the insertion.  The code's use is
\* not committed either: a second request may present it meanwhile.
EnrollConfirm(r, k, s) ==
    LET c == codes[k] IN
    /\ c.purpose = "enroll" /\ Good(k)
    /\ \E i \in IF c.items = {} THEN {NoItem} ELSE c.items : Enrolls(r, s, c.lab, c.id, c.to, i, k)

\* import_scholars, for a row whose ID the lab has: no lab or ID is written.
ImportUpdate(s, lab, id, email, i) ==
    /\ Clash(lab, id, NoOne) = {s} /\ Linkable(KindOf(i), i)
    /\ scholar' = [scholar EXCEPT ![s] = Linked([@ EXCEPT !.email = email], KindOf(i), i)]
    /\ UNCHANGED <<setting, item, codes, writing>>

\* update_scholar up to the commit, of the lab and the ID; a removed scholar can
\* be edited too.  Only what differs from the row read is written.
Patch(r, s, lab, id) ==
    LET changed == {c \in {"lab", "id"} : IF c = "lab" THEN lab # scholar[s].lab ELSE id # scholar[s].id} IN
    /\ scholar[s].status \in {"active", "removed"} /\ changed # {}
    /\ Unused(lab, id, s)
    /\ Begin(r, [Insertion(s, lab, id, scholar[s].email, NoItem, 0) EXCEPT !.insert = FALSE, !.columns = changed])

\* r commits x as the row of s; a request that looked the ID up before that is late.
Commit(r, s, x) ==
    LET overtaken(w) == /\ w.scholar # s /\ x.status = "active" /\ x.id # NoId
                        /\ w.lab = x.lab /\ w.id = x.id IN
    /\ scholar' = [scholar EXCEPT ![s] = x]
    /\ writing' = [q \in Requests |->
                      IF q = r \/ writing[q] = Idle THEN Idle
                      ELSE [writing[q] EXCEPT !.late = @ \/ overtaken(writing[q])]]
    /\ UNCHANGED <<setting, item>>

\* The insertion, the inventory link and the code's use.
Insert(r) ==
    LET w == writing[r] IN
    /\ w # Idle /\ w.insert
    /\ Linkable(KindOf(w.item), w.item)
    /\ Commit(r, w.scholar, Linked([Fresh("active", w.lab, w.email) EXCEPT !.id = w.id, !.raced = w.late],
                                   KindOf(w.item), w.item))
    /\ codes' = [k \in DOMAIN codes |-> IF k = w.code THEN [codes[k] EXCEPT !.state = "spent"] ELSE codes[k]]

\* The update; what another wrote to the other column meanwhile stays.
Update(r) ==
    LET w   == writing[r]
        lab == IF "lab" \in w.columns THEN w.lab ELSE scholar[w.scholar].lab
        id  == IF "id" \in w.columns THEN w.id ELSE scholar[w.scholar].id IN
    /\ w # Idle /\ ~w.insert
    /\ scholar[w.scholar].status \in {"active", "removed"}
    /\ Commit(r, w.scholar, [scholar[w.scholar] EXCEPT !.lab = lab, !.id = id,
                                 !.raced = w.late \/ lab # w.lab \/ id # w.id])
    /\ UNCHANGED codes

\* The request fails after its look: the rollback leaves no trace.
Fail(r) ==
    /\ writing[r] # Idle
    /\ writing' = [writing EXCEPT ![r] = Idle]
    /\ UNCHANGED <<setting, scholar, item, codes>>

\* update_scholar, of the address; codes sent to the old one stay good.
PatchEmail(s, email) ==
    /\ scholar[s].status \in {"active", "removed"}
    /\ scholar' = [scholar EXCEPT ![s].email = email]
    /\ UNCHANGED <<setting, item, codes, writing>>

\* remove_scholars forgets the pointer and leaves the items issued.
Remove(s) ==
    /\ scholar[s].status \in {"active", "removed"}
    /\ scholar' = [scholar EXCEPT ![s] = Linked([@ EXCEPT !.status = "removed"], "none", NoItem)]
    /\ UNCHANGED <<setting, item, codes, writing>>

\* restore_scholars looks no ID up.
Restore(s) ==
    /\ scholar[s].status = "removed"
    /\ scholar' = [scholar EXCEPT ![s].status = "active", ![s].restored = TRUE]
    /\ UNCHANGED <<setting, item, codes, writing>>

\* purge_scholars and empty_removed_scholars; assigned_scholar_id has no foreign key.
Purge(s) ==
    /\ scholar[s].status = "removed"
    /\ scholar' = [scholar EXCEPT ![s] = Linked([@ EXCEPT !.status = "purged"], "none", NoItem)]
    /\ UNCHANGED <<setting, item, codes, writing>>

\* assign_inventory_with_verification and update_scholar: the pointer at once
\* (update_scholar also for a removed scholar)...
Link(s, kind, i) ==
    /\ scholar[s].status \in {"active", "removed"}
    /\ Linkable(kind, i)
    /\ scholar' = [scholar EXCEPT ![s] = Linked(@, kind, i)]
    /\ UNCHANGED <<setting, item, codes, writing>>

\* ... or after a code, when the scholar may have been removed.
LinkSend(s, i) ==
    /\ scholar[s].status = "active" /\ Linkable("listed", i)
    /\ Send([NewCode("link", scholar[s].email) EXCEPT !.scholar = s, !.items = {i}])
    /\ UNCHANGED <<setting, scholar, item, writing>>

LinkConfirm(k) ==
    LET s == codes[k].scholar IN
    /\ Present(k, "link")
    /\ scholar[s].status \in {"active", "removed"}
    /\ \E i \in codes[k].items : /\ Linkable("listed", i)
                                 /\ scholar' = [scholar EXCEPT ![s] = Linked(@, "listed", i)]
    /\ UNCHANGED <<setting, item, writing>>

-----------------------------------------------------------------------------
(* The Assign and Revoke pages.                                            *)

Exists(s) == scholar[s].status \in {"active", "removed"}

Held(s) == {i \in Items : item[i].holder = s /\ item[i].status = "active"}

\* _refresh_scholar_inventory_pointer: the pointer names one of the items found,
\* the newest; which of them that is makes no difference here.  found has, for
\* each scholar, what the last refresh may find: nothing without a refresh.
Refresh(found, deprived) ==
    \E newest \in [Scholars -> Items \cup {NoItem}] :
        /\ \A t \in Scholars :
              IF found[t] = {} THEN newest[t] = scholar[t].item
              ELSE \E held \in found[t] : newest[t] \in IF held = {} THEN {NoItem} ELSE held
        /\ scholar' = [t \in Scholars |->
              IF found[t] = {} THEN scholar[t]
              ELSE [Linked(scholar[t], IF newest[t] = NoItem THEN "none" ELSE "listed", newest[t])
                        EXCEPT !.deprived = t \in deprived]]

\* Items of the batch that are issued to t.
From(batch, t) == {i \in batch : item[i].holder = t}

\* apply_assign_to_scholar for each item of the batch.  A previous holder's
\* pointer is refreshed before the item leaves: the last one is still found.
Issue(batch, s) ==
    LET losers == {t \in Scholars \ {s} : From(batch, t) # {} /\ Exists(t)} IN
    /\ item' = [i \in Items |-> IF i \in batch THEN [item[i] EXCEPT !.holder = s] ELSE item[i]]
    /\ Refresh([t \in Scholars |->
                    IF t = s THEN {Held(s)'}
                    ELSE IF t \in losers THEN {Held(t) \ (From(batch, t) \ {last}) : last \in From(batch, t)}
                    ELSE {}], losers)

Issuable(batch, s) ==
    /\ batch # {} /\ \A i \in batch : item[i].status = "active"
    /\ scholar[s].status = "active"

IssueByDocument(batch, s) ==
    /\ Issuable(batch, s)
    /\ Issue(batch, s)
    /\ UNCHANGED <<setting, codes, writing>>

\* inventory_assign_start
IssueSend(batch, s) ==
    /\ Issuable(batch, s)
    /\ Send([NewCode("issue", scholar[s].email) EXCEPT !.scholar = s, !.items = batch])
    /\ UNCHANGED <<setting, scholar, item, writing>>

\* inventory_assign_verify_otp looks at the scholar again, not at the items'
\* status; an item that is gone is an error for all.
IssueConfirm(k) ==
    LET c == codes[k] IN
    /\ Present(k, "issue")
    /\ scholar[c.scholar].status = "active"
    /\ \A i \in c.items : item[i].status \in {"active", "removed"}
    /\ Issue(c.items, c.scholar)
    /\ UNCHANGED <<setting, writing>>

\* lab_for_inventory
LabOf(i) ==
    IF Location[i] # NoLab THEN Location[i]
    ELSE IF item[i].holder # NoOne /\ Exists(item[i].holder) THEN scholar[item[i].holder].lab ELSE NoLab

\* inventory_revoke_start
RevokeSend(batch, lab) ==
    /\ batch # {}
    /\ \A i \in batch : item[i].status = "active" /\ item[i].holder # NoOne /\ LabOf(i) = lab
    /\ Send([NewCode("revoke", lab) EXCEPT !.lab = lab, !.items = batch])
    /\ UNCHANGED <<setting, scholar, item, writing>>

\* Mutant: the pointer is cleared if it names the item, and not refreshed.
AfterRevoke_Cleared(batch) ==
    scholar' = [s \in Scholars |-> IF scholar[s].item \in batch
                                   THEN Linked(scholar[s], "none", NoItem) ELSE scholar[s]]

\* Mutant: the scholar's row is forgotten.
AfterRevoke_Kept(batch) == UNCHANGED scholar

\* apply_revoke_to_owner: the pointer is refreshed after the item has left.
AfterRevoke(batch) ==
    Refresh([t \in Scholars |-> IF From(batch, t) # {} /\ Exists(t) THEN {Held(t)'} ELSE {}], {})

\* inventory_revoke_verify_otp: items no longer issued are skipped, the others
\* are taken from whoever holds them by now.
RevokeConfirm(k) ==
    LET still == {i \in codes[k].items : item[i].holder # NoOne} IN
    /\ Present(k, "revoke")
    /\ \A i \in codes[k].items : item[i].status \in {"active", "removed"}
    /\ still # {}
    /\ item' = [i \in Items |-> IF i \in still THEN [item[i] EXCEPT !.holder = NoOne] ELSE item[i]]
    /\ AfterRevoke(still)
    /\ UNCHANGED <<setting, writing>>

-----------------------------------------------------------------------------
(* Inventory rows.                                                         *)

\* create_inventory, restore_inventory and import_inventory.
ItemBack(i) ==
    /\ item[i].status \in {"absent", "removed"}
    /\ item' = [item EXCEPT ![i].status = "active"]
    /\ UNCHANGED <<setting, scholar, codes, writing>>

\* remove_inventory leaves the item issued and the pointer on it.
ItemRemove(i) ==
    /\ item[i].status = "active"
    /\ item' = [item EXCEPT ![i].status = "removed"]
    /\ UNCHANGED <<setting, scholar, codes, writing>>

\* purge_inventory and empty_removed_inventory; the foreign key clears the pointer.
ItemPurge(i) ==
    /\ item[i].status = "removed"
    /\ item' = [item EXCEPT ![i] = [status |-> "purged", holder |-> NoOne]]
    /\ scholar' = [s \in Scholars |-> IF scholar[s].item = i THEN [scholar[s] EXCEPT !.item = NoItem]
                                      ELSE scholar[s]]
    /\ UNCHANGED <<setting, codes, writing>>

-----------------------------------------------------------------------------
ScholarNext ==
    \E s \in Scholars :
        \/ \E lab \in Labs, id \in Ids \cup {NoId}, email \in Addresses, i \in Inventory :
              \/ Does("import") /\ ImportUpdate(s, lab, id, email, i)
              \/ (Does("enroll") \/ Does("import")) /\ \E r \in Requests : Enroll(r, s, lab, id, email, i)
        \/ Does("patch") /\ \E r \in Requests, lab \in Labs, id \in Ids \cup {NoId} : Patch(r, s, lab, id)
        \/ Does("email") /\ \E email \in Addresses : PatchEmail(s, email)
        \/ Does("people") /\ (Remove(s) \/ Restore(s) \/ Purge(s))
        \/ Does("link") /\ \/ \E i \in Items : Link(s, "listed", i) \/ LinkSend(s, i)
                           \/ \E kind \in {"none", "non_list"} : Link(s, kind, NoItem)
        \/ \E r \in Requests, k \in DOMAIN codes : EnrollConfirm(r, k, s)

WriteNext == \E r \in Requests : Insert(r) \/ Update(r) \/ Fail(r)

PageNext ==
    \/ \E batch \in SUBSET Items, s \in Scholars : \/ Does("issue") /\ IssueSend(batch, s)
                                                   \/ Does("document") /\ IssueByDocument(batch, s)
    \/ Does("revoke") /\ \E batch \in SUBSET Items, lab \in Labs : RevokeSend(batch, lab)
    \/ Does("confirm") /\ \E lab \in Labs, id \in Ids \cup {NoId}, email \in Addresses, i \in Inventory :
                            EnrollSend(lab, id, email, i)

CodeNext ==
    \E k \in DOMAIN codes : IssueConfirm(k) \/ RevokeConfirm(k) \/ LinkConfirm(k) \/ CodeExpires(k)

ItemNext == Does("items") /\ \E i \in Items : ItemBack(i) \/ ItemRemove(i) \/ ItemPurge(i)

Next == ScholarNext \/ WriteNext \/ PageNext \/ CodeNext \/ ItemNext

Spec == Init /\ [][Next]_vars

-----------------------------------------------------------------------------
SameId(s, t) ==
    /\ s # t /\ scholar[s].id = scholar[t].id /\ scholar[s].id # NoId
    /\ scholar[s].lab = scholar[t].lab
    /\ scholar[s].status = "active" /\ scholar[t].status = "active"

\* Two active scholars of a lab share an ID only if one of them was restored, or
\* was given its lab and ID by a request that another overtook: between its look at
\* the ID and its commit, the other scholar got that ID in that lab, or its own row
\* got another lab or ID.  Nothing else does it: not confirmations that come late, a
\* code presented twice, imports, or edits of scholars who are removed.
SharedIdHasAReason ==
    \A s, t \in Scholars : SameId(s, t) => \/ scholar[s].restored \/ scholar[t].restored
                                          \/ scholar[s].raced \/ scholar[t].raced

\* Where the Assign and Revoke pages are the only ones to issue inventory, a
\* scholar's pointer names an item issued to that scholar, unless another of the
\* scholar's items was issued to someone else since the pointer was written; so it
\* is through revocations, removals and restorations of items and of scholars.
PointerIsIssuedUnlessMoved ==
    ~Does("link") => \A s \in Scholars, i \in Items :
        scholar[s].item = i /\ ~scholar[s].deprived => item[i].holder = s

\* inv_assign.py:224 "Detach previous scholar on this item (item moves to the new
\* assignee)", and :256 "Point scholar.inventory_* at one active issued item (or
\* clear if none)": where the pages alone issue inventory, a pointer names an item
\* that is issued to its scholar.
PointerIsIssued ==
    ~Does("link") => \A s \in Scholars, i \in Items : scholar[s].item = i => item[i].holder = s

\* Where in addition neither items nor scholars are removed, the two records
\* agree: the pointer names an item held, and is there if anything is held.
MirrorsAgree ==
    setting \subseteq {"issue", "document", "revoke", "email"} =>
        \A s \in Scholars : scholar[s].deprived
            \/ IF Held(s) = {} THEN scholar[s].kind = "none"
               ELSE scholar[s].kind = "listed" /\ scholar[s].item \in Held(s)

\* An enrolment accepts its code when it looks the ID up, the others when it is spent.
Accepted(k) ==
    \/ \E r \in Requests : writing[r] = Idle /\ writing'[r] # Idle /\ writing'[r].code = k
    \/ codes[k].purpose # "enroll" /\ codes[k].state # codes'[k].state /\ codes'[k].state = "spent"

\* A code is accepted only if no later one was sent to its address for the same
\* purpose, however the scholar's address changed in between.
NewestCodeOnly ==
    [][\A k \in DOMAIN codes : Accepted(k) =>
          \A n \in DOMAIN codes : n > k => codes[n].purpose # codes[k].purpose \/ codes[n].to # codes[k].to]_vars

\* An item changes hands only by a document, or by a code that names it, is
\* still good and was sent for the new holder, or to the owner of a lab.
Confirmed(i, holder) ==
    \E k \in DOMAIN codes : /\ codes[k].state = "open" /\ codes'[k].state = "spent"
                            /\ i \in codes[k].items /\ codes[k].scholar = holder
                            /\ codes[k].purpose = IF holder = NoOne THEN "revoke" ELSE "issue"

MovesOnlyByConsent ==
    [][\A i \in Items : item[i].holder # item'[i].holder /\ item'[i].status # "purged" =>
          Does("document") \/ Confirmed(i, item'[i].holder)]_vars
=============================================================================
