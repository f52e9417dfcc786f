-------------------------- MODULE AssignmentProofs --------------------------
(***************************************************************************)
(* Proofs about Assignment.                                                *)
(***************************************************************************)
EXTENDS Assignment, TLAPS

-----------------------------------------------------------------------------
(* The inductive invariant.                                                *)

\* What a code was opened for, and by which page.
CodesNamed ==
    \A k \in DOMAIN codes :
        /\ codes[k].purpose = "enroll" => /\ codes[k].lab \in Labs /\ codes[k].to \in Emails
                                          /\ Does("confirm") /\ (~Does("link") => codes[k].items = {})
        /\ codes[k].purpose = "link" => codes[k].scholar \in Scholars /\ Does("link")
        /\ codes[k].purpose = "issue" => codes[k].scholar \in Scholars
        /\ codes[k].purpose = "revoke" => codes[k].scholar = NoOne

\* Of the codes for one purpose and address, only the newest may be open.
NewestOpen ==
    \A k, n \in DOMAIN codes :
        k < n /\ codes[k].purpose = codes[n].purpose /\ codes[k].to = codes[n].to => codes[k].state # "open"

\* A scholar that is not there, or not there any more, has no inventory.
GoneHaveNone == \A s \in Scholars : ~Exists(s) => scholar[s].item = NoItem

\* The settings of the two pages alone, where nobody and nothing is removed.
Pages == setting \subseteq {"issue", "document", "revoke", "email"}
AllPresent ==
    Pages => /\ \A s \in Scholars : scholar[s].status = "active"
             /\ \A i \in Items : item[i].status = "active"

\* What a request looked up still holds, unless it is late: no other active
\* scholar of the lab has the ID, but for restored ones.
Free(w) ==
    w.id = NoId \/ \A t \in Scholars \ {w.scholar} :
        ~(scholar[t].status = "active" /\ scholar[t].lab = w.lab /\ scholar[t].id = w.id) \/ scholar[t].restored

WritesKnown ==
    \A r \in Requests : writing[r] # Idle =>
        /\ ~Pages /\ (~Does("link") => writing[r].item = NoItem)
        /\ \/ writing[r].code = 0
           \/ writing[r].code \in DOMAIN codes /\ codes[writing[r].code].purpose = "enroll"
        /\ writing[r].late \/ Free(writing[r])

AssignInv ==
    /\ TypeOK /\ CodesNamed /\ NewestOpen /\ WritesKnown
    /\ SharedIdHasAReason
    /\ GoneHaveNone /\ PointerIsIssuedUnlessMoved
    /\ AllPresent /\ MirrorsAgree
-----------------------------------------------------------------------------
(* Every step keeps every part.                                            *)

\* The assumptions, one by one.
LEMMA Constants ==
    /\ MaxCodes \in Nat /\ Settings \subseteq SUBSET Operations
    /\ Labs # {} /\ AnyEmail \in Emails
    /\ NoOne \notin Scholars /\ NoItem \notin Items /\ NoLab \notin Labs /\ NoId \notin Ids
  BY AssignmentAssumption DEF AssignmentAssumption, AnyEmail

\* The type of the rows, and of the pointers in them.
RowsOK ==
    /\ scholar \in [Scholars -> Scholar] /\ item \in [Items -> Item]
    /\ \A s \in Scholars : scholar[s].item # NoItem => scholar[s].kind = "listed"
    /\ \A s \in Scholars, i \in Items : scholar[s].item = i => item[i].status # "purged"

CodesOK == codes \in Seq(Code) /\ Len(codes) <= MaxCodes

WritesOK == writing \in [Requests -> Write \cup {Idle}]

LEMMA TypeParts == TypeOK <=> setting \in Settings /\ RowsOK /\ CodesOK /\ WritesOK
  BY DEF TypeOK, RowsOK, CodesOK, WritesOK

-----------------------------------------------------------------------------
(* Codes.                                                                  *)

\* Codes that differ in their state only.
Alike(c, d) ==
    /\ c.purpose = d.purpose /\ c.to = d.to /\ c.scholar = d.scholar
    /\ c.lab = d.lab /\ c.id = d.id /\ c.items = d.items

LEMMA CodesShape ==
    ASSUME CodesOK
    PROVE  /\ Len(codes) \in Nat /\ DOMAIN codes = 1 .. Len(codes)
           /\ \A k \in DOMAIN codes : codes[k] \in Code
  BY DEF CodesOK

\* A sent code comes last; the earlier ones for its purpose and address are not open.
LEMMA SendAppends ==
    ASSUME CodesOK, NEW code \in Code, Send(code)
    PROVE  /\ CodesOK' /\ Len(codes') = Len(codes) + 1
           /\ DOMAIN codes' = DOMAIN codes \cup {Len(codes) + 1} /\ codes'[Len(codes) + 1] = code
           /\ \A k \in DOMAIN codes :
                 /\ Alike(codes'[k], codes[k])
                 /\ codes'[k].state = "open" => codes[k].state = "open"
                 /\ codes'[k].state = "spent" => codes[k].state = "spent"
                 /\ codes[k].purpose = code.purpose /\ codes[k].to = code.to => codes'[k].state # "open"
  <1> DEFINE old == Expired(code.purpose, code.to)
  <1>1. Len(codes) \in Nat /\ DOMAIN codes = 1 .. Len(codes) /\ \A k \in DOMAIN codes : codes[k] \in Code
    BY CodesShape
  <1>2. /\ old = [k \in 1 .. Len(codes) |-> old[k]]
        /\ \A k \in DOMAIN codes : old[k] \in Code
    <2>1. ASSUME NEW k \in DOMAIN codes PROVE [codes[k] EXCEPT !.state = "dead"] \in Code
      BY <1>1 DEF Code
    <2> QED BY <1>1, <2>1 DEF Expired
  <1>3. old \in Seq(Code) /\ Len(old) = Len(codes)
    BY <1>1, <1>2
  <1>4. codes' = Append(old, code) /\ Len(codes) < MaxCodes
    BY DEF Send
  <1>5. ASSUME NEW k \in DOMAIN codes
        PROVE  /\ Alike(old[k], codes[k])
               /\ old[k].state = "open" => codes[k].state = "open"
               /\ old[k].state = "spent" => codes[k].state = "spent"
               /\ codes[k].purpose = code.purpose /\ codes[k].to = code.to => old[k].state # "open"
    <2>1. codes[k] \in Code
      BY <1>1
    <2>2. old[k] = IF codes[k].purpose = code.purpose /\ codes[k].to = code.to /\ codes[k].state # "spent"
                   THEN [codes[k] EXCEPT !.state = "dead"] ELSE codes[k]
      BY DEF Expired
    <2> HIDE DEF old
    <2> QED BY <2>1, <2>2 DEF Code, Alike
  <1> HIDE DEF old
  <1>6. /\ codes' \in Seq(Code) /\ Len(codes') = Len(codes) + 1
        /\ DOMAIN codes' = 1 .. Len(codes) + 1 /\ codes'[Len(codes) + 1] = code
        /\ \A k \in DOMAIN codes : codes'[k] = old[k]
    BY <1>1, <1>3, <1>4
  <1>7. Len(codes') <= MaxCodes
    BY <1>1, <1>4, <1>6, Constants
  <1> QED BY <1>1, <1>5, <1>6, <1>7 DEF CodesOK

\* One code changes its state.
LEMMA OneChanges ==
    ASSUME CodesOK, NEW k \in DOMAIN codes, NEW state \in {"dead", "spent"},
           codes' = [codes EXCEPT ![k].state = state]
    PROVE  /\ CodesOK' /\ Len(codes') = Len(codes) /\ DOMAIN codes' = DOMAIN codes
           /\ \A n \in DOMAIN codes : n # k => codes'[n] = codes[n]
           /\ codes'[k].state = state /\ codes[k] \in Code
           /\ \A n \in DOMAIN codes : Alike(codes'[n], codes[n])
  <1>1. Len(codes) \in Nat /\ DOMAIN codes = 1 .. Len(codes) /\ \A n \in DOMAIN codes : codes[n] \in Code
    BY CodesShape
  <1> DEFINE after == [codes[k] EXCEPT !.state = state]
  <1>2. after \in Code /\ Alike(after, codes[k]) /\ after.state = state
    BY <1>1 DEF Code, Alike
  <1>3. codes' = [codes EXCEPT ![k] = after]
    OBVIOUS
  <1> HIDE DEF after
  <1>4. codes' \in Seq(Code) /\ Len(codes') = Len(codes)
    BY <1>1, <1>2, <1>3 DEF CodesOK
  <1> QED BY <1>1, <1>2, <1>3, <1>4 DEF CodesOK, Alike

\* Presenting a code.
LEMMA PresentSpends ==
    ASSUME CodesOK, NEW k \in DOMAIN codes, NEW purpose, Present(k, purpose)
    PROVE  /\ CodesOK' /\ Len(codes') = Len(codes) /\ DOMAIN codes' = DOMAIN codes
           /\ \A n \in DOMAIN codes : n # k => codes'[n] = codes[n]
           /\ codes[k].state = "open" /\ codes'[k].state = "spent"
           /\ codes[k] \in Code /\ codes[k].purpose = purpose
           /\ \A n \in DOMAIN codes : Alike(codes'[n], codes[n])
  <1>1. codes' = [codes EXCEPT ![k].state = "spent"] /\ codes[k].state = "open" /\ codes[k].purpose = purpose
    BY DEF Present, Good
  <1> QED BY <1>1, OneChanges

-----------------------------------------------------------------------------
(* Rows.                                                                   *)

WritesInv == WritesOK /\ WritesKnown

RowsInv ==
    /\ setting \in Settings /\ RowsOK
    /\ SharedIdHasAReason
    /\ GoneHaveNone /\ PointerIsIssuedUnlessMoved
    /\ AllPresent /\ MirrorsAgree

LEMMA LinkedRow ==
    ASSUME NEW row \in Scholar, NEW kind \in Kinds, NEW i \in Items \cup {NoItem}
    PROVE  /\ Linked(row, kind, i) \in Scholar
           /\ Linked(row, kind, i).kind = kind /\ Linked(row, kind, i).item = i
           /\ Linked(row, kind, i).deprived = FALSE
           /\ Linked(row, kind, i).status = row.status /\ Linked(row, kind, i).lab = row.lab
           /\ Linked(row, kind, i).id = row.id /\ Linked(row, kind, i).email = row.email
           /\ Linked(row, kind, i).restored = row.restored /\ Linked(row, kind, i).raced = row.raced
  BY DEF Linked, Scholar

\* What a scholar's own page links is there.
LEMMA LinkableItem ==
    ASSUME RowsOK, NEW kind \in Kinds, NEW i, Linkable(kind, i)
    PROVE  /\ i \in Items \cup {NoItem}
           /\ i # NoItem => i \in Items /\ kind = "listed" /\ item[i].status = "active"
  BY DEF Linkable

LEMMA InventoryType ==
    ASSUME NEW i \in Inventory
    PROVE  i \in Items \cup {NoItem} /\ KindOf(i) \in Kinds /\ (~Does("link") => i = NoItem)
  BY DEF Inventory, KindOf, Kinds

LEMMA AddressType == ASSUME NEW email \in Addresses PROVE email \in Emails
  BY Constants DEF Addresses

\* What the row x of scholar s may be, for everything that is said of rows to go
\* on: its pointer names inventory that is there and a scholar that is; it is not
\* a second active row with its lab and ID, unless one was restored or it was
\* raced; and without the scholars' own page it points to nothing new.
Fits(s, x) ==
    /\ x \in Scholar
    /\ x.item # NoItem => x.kind = "listed" /\ x.status \in {"active", "removed"}
    /\ \A i \in Items : x.item = i => item[i].status # "purged"
    /\ \/ x.status # "active" \/ x.id = NoId \/ x.restored \/ x.raced
       \/ /\ scholar[s].status = "active" /\ x.lab = scholar[s].lab /\ x.id = scholar[s].id
          /\ x.restored = scholar[s].restored /\ x.raced = scholar[s].raced
       \/ \A t \in Scholars \ {s} :
             ~(scholar[t].status = "active" /\ scholar[t].lab = x.lab /\ scholar[t].id = x.id) \/ scholar[t].restored
    /\ \/ Does("link") \/ x.item = NoItem
       \/ x.item = scholar[s].item /\ x.deprived = scholar[s].deprived
    /\ Pages => /\ x.status = scholar[s].status /\ x.kind = scholar[s].kind
                /\ x.item = scholar[s].item /\ x.deprived = scholar[s].deprived

LEMMA FitsKeeps ==
    ASSUME RowsInv, NEW s \in Scholars, NEW x, Fits(s, x), scholar' = [scholar EXCEPT ![s] = x],
           item' = item, setting' = setting
    PROVE  RowsInv'
  <1> USE Constants DEF RowsInv
  <1>1. /\ scholar' \in [Scholars -> Scholar] /\ scholar'[s] = x
        /\ \A t \in Scholars : t # s => scholar'[t] = scholar[t]
    BY DEF RowsOK, Fits
  <1>2. RowsOK'
    BY <1>1 DEF RowsOK, Fits
  <1>3. SharedIdHasAReason'
    <2> SUFFICES ASSUME NEW t \in Scholars, NEW u \in Scholars, SameId(t, u)'
                 PROVE scholar'[t].restored \/ scholar'[u].restored \/ scholar'[t].raced \/ scholar'[u].raced
      BY DEF SharedIdHasAReason
    <2>1. CASE t # s /\ u # s
      BY <1>1, <2>1 DEF SameId, SharedIdHasAReason
    <2>2. CASE t = s
      <3>1. u # s
        BY <2>2 DEF SameId
      <3> QED BY <1>1, <2>2, <3>1 DEF SameId, SharedIdHasAReason, Fits
    <2>3. CASE u = s
      <3>1. t # s
        BY <2>3 DEF SameId
      <3> QED BY <1>1, <2>3, <3>1 DEF SameId, SharedIdHasAReason, Fits
    <2> QED BY <2>1, <2>2, <2>3
  <1>4. GoneHaveNone'
    BY <1>1 DEF GoneHaveNone, Exists, Fits
  <1>5. PointerIsIssuedUnlessMoved'
    BY <1>1 DEF PointerIsIssuedUnlessMoved, Fits, Does
  <1>6. AllPresent'
    BY <1>1 DEF AllPresent, Pages, Fits
  <1>7. MirrorsAgree'
    <2>1. \A t \in Scholars : Held(t)' = Held(t)
      BY DEF Held
    <2> QED BY <1>1, <2>1 DEF MirrorsAgree, Pages, Fits
  <1> QED BY <1>2, <1>3, <1>4, <1>5, <1>6, <1>7

\* A new scholar.
LEMMA InsertFits ==
    ASSUME RowsInv, WritesInv, NEW r \in Requests, Insert(r)
    PROVE  /\ writing[r] \in Write
           /\ \E x : Fits(writing[r].scholar, x) /\ Commit(r, writing[r].scholar, x)
  <1> DEFINE w == writing[r]
             new == [Fresh("active", w.lab, w.email) EXCEPT !.id = w.id, !.raced = w.late]
             kind == KindOf(w.item)
             i == w.item
             x == Linked(new, kind, i)
  <1>1. w \in Write /\ w # Idle
    BY DEF WritesInv, WritesOK, Insert
  <1>2. ~Pages /\ (~Does("link") => i = NoItem) /\ (w.late \/ Free(w))
    BY <1>1 DEF WritesInv, WritesKnown
  <1>3. Commit(r, w.scholar, x) /\ Linkable(kind, i)
    BY DEF Insert
  <1>4. /\ w.scholar \in Scholars /\ w.lab \in Labs /\ w.id \in Ids \cup {NoId} /\ w.email \in Emails
        /\ i \in Items \cup {NoItem} /\ w.late \in BOOLEAN
    BY <1>1 DEF Write
  <1>5. kind \in Kinds
    BY DEF KindOf, Kinds
  <1> DEFINE lab == w.lab  id == w.id  email == w.email  late == w.late  s == w.scholar
  <1>6. /\ new \in Scholar /\ new.status = "active" /\ new.lab = lab /\ new.id = id
        /\ new.restored = FALSE /\ new.raced = late
    <2>1. lab \in Labs /\ id \in Ids \cup {NoId} /\ email \in Emails /\ late \in BOOLEAN
      BY <1>4
    <2>2. new = [Fresh("active", lab, email) EXCEPT !.id = id, !.raced = late]
      OBVIOUS
    <2> HIDE DEF new, lab, id, email, late, w
    <2> QED BY <2>1, <2>2 DEF Fresh, Scholar, Life, Kinds
  <1>7. /\ i \in Items \cup {NoItem}
        /\ i # NoItem => i \in Items /\ kind = "listed" /\ item[i].status = "active"
    <2> HIDE DEF kind, i
    <2> QED BY <1>3, <1>5, LinkableItem DEF RowsInv
  <1>8. late \/ id = NoId \/ \A t \in Scholars \ {s} :
           ~(scholar[t].status = "active" /\ scholar[t].lab = lab /\ scholar[t].id = id) \/ scholar[t].restored
    BY <1>2 DEF Free
  <1>9. ~Pages /\ (~Does("link") => i = NoItem) /\ s \in Scholars
    BY <1>2, <1>4
  <1>10. Commit(r, s, x)
    BY <1>3
  <1> HIDE DEF new, kind, i, lab, id, email, late, s
  <1>11. /\ x \in Scholar /\ x.kind = kind /\ x.item = i /\ x.status = "active" /\ x.lab = lab /\ x.id = id
         /\ x.restored = FALSE /\ x.raced = late
    <2>1. /\ x \in Scholar /\ x.kind = kind /\ x.item = i /\ x.status = new.status
          /\ x.lab = new.lab /\ x.id = new.id /\ x.restored = new.restored /\ x.raced = new.raced
      BY <1>5, <1>6, <1>7, LinkedRow, ZenonT(40)
    <2> QED BY <1>6, <2>1
  <1> HIDE DEF x
  <1>12. Fits(s, x)
    BY <1>7, <1>8, <1>9, <1>11, Constants DEF Fits
  <1>13. Fits(writing[r].scholar, x) /\ Commit(r, writing[r].scholar, x)
    BY <1>10, <1>12 DEF s, w
  <1> QED BY <1>1, <1>11, <1>13 DEF w

\* A scholar's lab and ID are written.
LEMMA UpdateFits ==
    ASSUME RowsInv, WritesInv, NEW r \in Requests, Update(r)
    PROVE  /\ writing[r] \in Write
           /\ \E x : Fits(writing[r].scholar, x) /\ Commit(r, writing[r].scholar, x)
  <1> DEFINE w == writing[r]
             s == w.scholar
             lab == IF "lab" \in w.columns THEN w.lab ELSE scholar[s].lab
             id == IF "id" \in w.columns THEN w.id ELSE scholar[s].id
             raced == w.late \/ lab # w.lab \/ id # w.id
             x == [scholar[s] EXCEPT !.lab = lab, !.id = id, !.raced = raced]
  <1>1. w \in Write /\ w # Idle
    BY DEF WritesInv, WritesOK, Update
  <1>2. ~Pages /\ (w.late \/ Free(w))
    BY <1>1 DEF WritesInv, WritesKnown
  <1>3. Commit(r, s, x) /\ scholar[s].status \in {"active", "removed"}
    BY DEF Update
  <1>4. s \in Scholars /\ w.lab \in Labs /\ w.id \in Ids \cup {NoId} /\ w.late \in BOOLEAN
    BY <1>1 DEF Write
  <1>5. scholar[s] \in Scholar
    BY <1>4 DEF RowsInv, RowsOK
  <1>6. lab \in Labs /\ id \in Ids \cup {NoId} /\ raced \in BOOLEAN
    BY <1>4, <1>5 DEF Scholar
  <1>7. raced \/ id = NoId \/ \A t \in Scholars \ {s} :
           ~(scholar[t].status = "active" /\ scholar[t].lab = lab /\ scholar[t].id = id) \/ scholar[t].restored
    <2>1. CASE raced
      BY <2>1
    <2>2. CASE ~raced
      <3>1. w.late = FALSE /\ lab = w.lab /\ id = w.id
        BY <1>4, <2>2
      <3> QED BY <1>2, <3>1 DEF Free
    <2> QED BY <2>1, <2>2
  <1> HIDE DEF lab, id, raced, s
  <1>8. /\ x \in Scholar /\ x.lab = lab /\ x.id = id /\ x.raced = raced /\ x.status = scholar[s].status
        /\ x.kind = scholar[s].kind /\ x.item = scholar[s].item /\ x.deprived = scholar[s].deprived
        /\ x.restored = scholar[s].restored
    BY <1>5, <1>6 DEF Scholar
  <1> HIDE DEF x
  <1>9. Fits(s, x)
    BY <1>2, <1>3, <1>4, <1>5, <1>7, <1>8, Constants DEF Fits, RowsInv, RowsOK
  <1>10. Fits(writing[r].scholar, x) /\ Commit(r, writing[r].scholar, x)
    BY <1>3, <1>9 DEF s, w
  <1> QED BY <1>1, <1>10 DEF w

\* A pointer on a scholar that is there; the rest of the row, but for the
\* address, stays.
LEMMA LinksFits ==
    ASSUME RowsInv, NEW s \in Scholars, Exists(s), NEW row \in Scholar,
           row.status = scholar[s].status, row.lab = scholar[s].lab, row.id = scholar[s].id,
           row.restored = scholar[s].restored, row.raced = scholar[s].raced,
           NEW kind \in Kinds, NEW i, Linkable(kind, i), Does("link") \/ i = NoItem, ~Pages
    PROVE  Fits(s, Linked(row, kind, i))
  <1> DEFINE x == Linked(row, kind, i)
  <1>1. /\ i \in Items \cup {NoItem}
        /\ i # NoItem => i \in Items /\ kind = "listed" /\ item[i].status = "active"
    BY LinkableItem DEF RowsInv
  <1>2. /\ x \in Scholar /\ x.kind = kind /\ x.item = i /\ x.status = row.status /\ x.lab = row.lab
        /\ x.id = row.id /\ x.restored = row.restored /\ x.raced = row.raced
    BY <1>1, LinkedRow, ZenonT(40)
  <1> HIDE DEF x
  <1>3. Fits(s, x)
    BY <1>1, <1>2, Constants DEF Fits, Exists
  <1> QED BY <1>3 DEF x

\* The row of t points to one of the items held, and to none if there is none.
PointsInto(t, held) ==
    IF held = {} THEN scholar[t].item = NoItem /\ scholar[t].kind = "none"
    ELSE scholar[t].item \in held /\ scholar[t].kind = "listed"

\* What a refresh makes of the rows.
Refreshed(found, deprived) ==
    /\ scholar' \in [Scholars -> Scholar]
    /\ \A t \in Scholars : found[t] = {} => scholar'[t] = scholar[t]
    /\ \A t \in Scholars :
          /\ scholar'[t].status = scholar[t].status /\ scholar'[t].lab = scholar[t].lab
          /\ scholar'[t].id = scholar[t].id /\ scholar'[t].restored = scholar[t].restored
          /\ scholar'[t].raced = scholar[t].raced
    /\ \A t \in Scholars : found[t] # {} =>
          /\ (scholar'[t].deprived <=> t \in deprived)
          /\ \E held \in found[t] : PointsInto(t, held)'

LEMMA RefreshRows ==
    ASSUME RowsOK, NEW found \in [Scholars -> SUBSET SUBSET Items], NEW deprived, Refresh(found, deprived)
    PROVE  Refreshed(found, deprived)
  <1> USE Constants
  <1>1. PICK newest \in [Scholars -> Items \cup {NoItem}] :
          /\ \A t \in Scholars :
                IF found[t] = {} THEN newest[t] = scholar[t].item
                ELSE \E held \in found[t] : newest[t] \in IF held = {} THEN {NoItem} ELSE held
          /\ scholar' = [t \in Scholars |->
                IF found[t] = {} THEN scholar[t]
                ELSE [Linked(scholar[t], IF newest[t] = NoItem THEN "none" ELSE "listed", newest[t])
                          EXCEPT !.deprived = t \in deprived]]
    BY DEF Refresh
  <1>2. ASSUME NEW t \in Scholars, found[t] = {} PROVE scholar'[t] = scholar[t] /\ scholar'[t] \in Scholar
    BY <1>1, <1>2 DEF RowsOK
  <1>3. ASSUME NEW t \in Scholars, found[t] # {}
        PROVE  /\ scholar'[t] \in Scholar
               /\ scholar'[t].status = scholar[t].status /\ scholar'[t].lab = scholar[t].lab
               /\ scholar'[t].id = scholar[t].id /\ scholar'[t].restored = scholar[t].restored
               /\ scholar'[t].raced = scholar[t].raced
               /\ (scholar'[t].deprived <=> t \in deprived)
               /\ scholar'[t].item = newest[t]
               /\ scholar'[t].kind = IF newest[t] = NoItem THEN "none" ELSE "listed"
    <2> DEFINE sort == IF newest[t] = NoItem THEN "none" ELSE "listed"
               now  == Linked(scholar[t], sort, newest[t])
               lost == t \in deprived
    <2>1. sort \in Kinds /\ newest[t] \in Items \cup {NoItem} /\ scholar[t] \in Scholar /\ lost \in BOOLEAN
      BY <1>1 DEF Kinds, RowsOK
    <2>2. scholar'[t] = [now EXCEPT !.deprived = lost]
      BY <1>1, <1>3
    <2> HIDE DEF sort, lost
    <2>3. /\ now \in Scholar /\ now.status = scholar[t].status /\ now.lab = scholar[t].lab
          /\ now.id = scholar[t].id /\ now.restored = scholar[t].restored /\ now.raced = scholar[t].raced
          /\ now.item = newest[t] /\ now.kind = sort
      <3>1. sort \in Kinds
        BY <2>1
      <3>2. newest[t] \in Items \cup {NoItem}
        BY <2>1
      <3>3. scholar[t] \in Scholar
        BY <2>1
      <3> QED BY <3>1, <3>2, <3>3 DEF Linked, Scholar
    <2> HIDE DEF now
    <2>4. /\ scholar'[t] \in Scholar /\ scholar'[t].status = now.status /\ scholar'[t].lab = now.lab
          /\ scholar'[t].id = now.id /\ scholar'[t].restored = now.restored /\ scholar'[t].raced = now.raced
          /\ scholar'[t].item = now.item /\ scholar'[t].kind = now.kind
          /\ scholar'[t].deprived = lost
      BY <2>1, <2>2, <2>3 DEF Scholar
    <2> QED BY <2>3, <2>4 DEF sort, lost
  <1>4. scholar' \in [Scholars -> Scholar]
    <2>1. \A t \in Scholars : scholar'[t] \in Scholar
      BY <1>2, <1>3
    <2>2. scholar' = [t \in Scholars |-> scholar'[t]]
      BY <1>1
    <2> QED BY <2>1, <2>2
  <1>5. ASSUME NEW t \in Scholars, found[t] # {}
        PROVE  \E held \in found[t] : PointsInto(t, held)'
    <2>1. PICK held \in found[t] : newest[t] \in IF held = {} THEN {NoItem} ELSE held
      BY <1>1, <1>5
    <2>2. held \subseteq Items
      OBVIOUS
    <2>3. PointsInto(t, held)'
      BY <1>3, <1>5, <2>1, <2>2 DEF PointsInto
    <2> QED BY <2>3
  <1> QED BY <1>2, <1>3, <1>4, <1>5 DEF Refreshed

\* Rows whose status, lab and ID stay keep their IDs apart.
LEMMA IdsKept ==
    ASSUME SharedIdHasAReason,
           \A t \in Scholars :
               /\ scholar'[t].status = scholar[t].status /\ scholar'[t].lab = scholar[t].lab
               /\ scholar'[t].id = scholar[t].id /\ scholar'[t].restored = scholar[t].restored
               /\ scholar'[t].raced = scholar[t].raced
    PROVE  SharedIdHasAReason'
  BY DEF SharedIdHasAReason, SameId

\* A batch is issued.
LEMMA IssueKeeps ==
    ASSUME RowsInv, NEW batch \in SUBSET Items, NEW s \in Scholars, scholar[s].status = "active",
           Issue(batch, s), setting' = setting
    PROVE  RowsInv'
  <1> USE Constants DEF RowsInv
  <1> DEFINE losers == {t \in Scholars \ {s} : From(batch, t) # {} /\ Exists(t)}
             found == [t \in Scholars |->
                         IF t = s THEN {Held(s)'}
                         ELSE IF t \in losers THEN {Held(t) \ (From(batch, t) \ {last}) : last \in From(batch, t)}
                         ELSE {}]
  <1>1. /\ item' = [i \in Items |-> IF i \in batch THEN [item[i] EXCEPT !.holder = s] ELSE item[i]]
        /\ Refresh(found, losers)
    BY DEF Issue
  <1>2. /\ item' \in [Items -> Item]
        /\ \A i \in Items : item'[i].status = item[i].status
        /\ \A i \in Items : item'[i].holder = IF i \in batch THEN s ELSE item[i].holder
    BY <1>1 DEF RowsOK, Item
  <1>3. found \in [Scholars -> SUBSET SUBSET Items]
    BY DEF Held
  <1>4. /\ found[s] = {Held(s)'}
        /\ \A t \in Scholars : t # s /\ t \notin losers => found[t] = {}
        /\ \A t \in losers : found[t] # {} /\ \A held \in found[t] : held \subseteq Held(t)
    <2>1. found[s] = {Held(s)'} /\ \A t \in Scholars : t # s /\ t \notin losers => found[t] = {}
      OBVIOUS
    <2>2. ASSUME NEW t \in losers PROVE found[t] # {} /\ \A held \in found[t] : held \subseteq Held(t)
      <3>1. t \in Scholars /\ t # s /\ From(batch, t) # {}
        OBVIOUS
      <3>2. found[t] = {Held(t) \ (From(batch, t) \ {last}) : last \in From(batch, t)}
        BY <3>1
      <3>3. PICK last \in From(batch, t) : TRUE
        BY <3>1
      <3>4. Held(t) \ (From(batch, t) \ {last}) \in found[t]
        BY <3>2, <3>3
      <3>5. \A held \in found[t] : held \subseteq Held(t)
        BY <3>2
      <3> QED BY <3>4, <3>5
    <2> QED BY <2>1, <2>2
  <1>5. s \notin losers /\ losers \subseteq Scholars /\ \A t \in losers : Exists(t)
    OBVIOUS
  <1>6. \A t \in Scholars, i \in Items : t # s /\ t \notin losers /\ Exists(t) /\ item[i].holder = t => i \notin batch
    BY DEF From
  <1> HIDE DEF found, losers
  <1>7. Refreshed(found, losers)
    BY <1>1, <1>3, RefreshRows
  <1>8. ~scholar'[s].deprived /\ PointsInto(s, Held(s))'
    <2>0. found[s] # {}
      BY <1>4
    <2>1. ~scholar'[s].deprived /\ \E held \in found[s] : PointsInto(s, held)'
      <3>1. scholar'[s].deprived <=> s \in losers
        BY <1>7, <2>0 DEF Refreshed
      <3>2. \E held \in found[s] : PointsInto(s, held)'
        BY <1>7, <2>0 DEF Refreshed
      <3> QED BY <1>5, <3>1, <3>2
    <2>2. PICK held \in found[s] : PointsInto(s, held)'
      BY <2>1
    <2>3. held = Held(s)'
      BY <1>4
    <2> QED BY <2>1, <2>2, <2>3 DEF PointsInto
  <1>9. ASSUME NEW t \in losers
        PROVE  /\ scholar'[t].deprived
               /\ \/ scholar'[t].item = NoItem /\ scholar'[t].kind = "none"
                  \/ scholar'[t].item \in Held(t) /\ scholar'[t].kind = "listed"
    <2>1. scholar'[t].deprived /\ \E held \in found[t] : PointsInto(t, held)'
      BY <1>4, <1>5, <1>7 DEF Refreshed
    <2>2. PICK held \in found[t] : PointsInto(t, held)'
      BY <2>1
    <2>3. held \subseteq Held(t)
      BY <1>4
    <2> QED BY <2>1, <2>2, <2>3 DEF PointsInto
  <1>10. \A t \in Scholars : t # s /\ t \notin losers => scholar'[t] = scholar[t]
    BY <1>4, <1>7 DEF Refreshed
  <1>11. \A t \in Scholars :
          /\ scholar'[t].status = scholar[t].status /\ scholar'[t].lab = scholar[t].lab
          /\ scholar'[t].id = scholar[t].id /\ scholar'[t].restored = scholar[t].restored
          /\ scholar'[t].raced = scholar[t].raced
    BY <1>7 DEF Refreshed
  <1>12. \A t \in Scholars : Held(t) \subseteq {i \in Items : item[i].status = "active"}
    BY DEF Held
  <1>13. Held(s)' \subseteq {i \in Items : item[i].status = "active" /\ item'[i].holder = s}
    BY <1>2 DEF Held
  <1>14. RowsOK'
    <2>1. ASSUME NEW t \in Scholars
          PROVE  /\ scholar'[t].item # NoItem => scholar'[t].kind = "listed"
                 /\ \A i \in Items : scholar'[t].item = i => item'[i].status # "purged"
      <3>1. CASE t = s
        <4>1. scholar'[t].item # NoItem => scholar'[t].kind = "listed"
          BY <1>8, <3>1 DEF PointsInto
        <4>2. ASSUME NEW i \in Items, scholar'[t].item = i PROVE item'[i].status # "purged"
          <5>1. i \in Held(s)'
            BY <1>8, <3>1, <4>2 DEF PointsInto
          <5> QED BY <1>2, <1>13, <5>1
        <4> QED BY <4>1, <4>2
      <3>2. CASE t \in losers
        BY <1>2, <1>9, <1>12, <3>2
      <3>3. CASE t # s /\ t \notin losers
        BY <1>2, <1>10, <3>3 DEF RowsOK
      <3> QED BY <3>1, <3>2, <3>3
    <2> QED BY <1>2, <1>7, <2>1 DEF RowsOK, Refreshed
  <1>15. SharedIdHasAReason'
    BY <1>11, IdsKept
  <1>16. GoneHaveNone'
    BY <1>5, <1>10, <1>11 DEF GoneHaveNone, Exists
  <1>17. PointerIsIssuedUnlessMoved'
    <2> SUFFICES ASSUME ~Does("link"), NEW t \in Scholars, NEW i \in Items, scholar'[t].item = i, ~scholar'[t].deprived
                 PROVE  item'[i].holder = t
      BY DEF PointerIsIssuedUnlessMoved, Does
    <2>1. CASE t = s
      BY <1>8, <1>13, <2>1 DEF PointsInto
    <2>2. CASE t \in losers
      BY <1>9, <2>2
    <2>3. CASE t # s /\ t \notin losers
      <3>1. scholar[t].item = i /\ ~scholar[t].deprived
        BY <1>10, <2>3
      <3>2. item[i].holder = t /\ Exists(t)
        BY <3>1 DEF PointerIsIssuedUnlessMoved, GoneHaveNone
      <3> QED BY <1>2, <1>6, <2>3, <3>2
    <2> QED BY <2>1, <2>2, <2>3
  <1>18. AllPresent'
    BY <1>2, <1>11 DEF AllPresent, Pages
  <1>19. MirrorsAgree'
    <2> SUFFICES ASSUME Pages, NEW t \in Scholars, ~scholar'[t].deprived
                 PROVE  IF Held(t)' = {} THEN scholar'[t].kind = "none"
                        ELSE scholar'[t].kind = "listed" /\ scholar'[t].item \in Held(t)'
      BY DEF MirrorsAgree, Pages
    <2>1. CASE t = s
      BY <1>8, <2>1 DEF PointsInto
    <2>2. CASE t \in losers
      BY <1>9, <2>2
    <2>3. CASE t # s /\ t \notin losers
      <3>1. scholar'[t] = scholar[t] /\ Exists(t)
        BY <1>10, <2>3 DEF AllPresent, Exists
      <3>2. Held(t)' = Held(t)
        BY <1>2, <1>6, <2>3, <3>1 DEF Held
      <3> QED BY <3>1, <3>2 DEF MirrorsAgree, Pages
    <2> QED BY <2>1, <2>2, <2>3
  <1> QED BY <1>14, <1>15, <1>16, <1>17, <1>18, <1>19

\* A batch leaves its holders.
LEMMA RevokeKeeps ==
    ASSUME RowsInv, NEW batch \in SUBSET Items,
           item' = [i \in Items |-> IF i \in batch THEN [item[i] EXCEPT !.holder = NoOne] ELSE item[i]],
           AfterRevoke(batch), setting' = setting
    PROVE  RowsInv'
  <1> USE Constants DEF RowsInv
  <1> DEFINE found == [t \in Scholars |-> IF From(batch, t) # {} /\ Exists(t) THEN {Held(t)'} ELSE {}]
  <1>1. Refresh(found, {})
    BY DEF AfterRevoke
  <1>2. /\ item' \in [Items -> Item]
        /\ \A i \in Items : item'[i].status = item[i].status
        /\ \A i \in Items : item'[i].holder = IF i \in batch THEN NoOne ELSE item[i].holder
    BY DEF RowsOK, Item
  <1>3. found \in [Scholars -> SUBSET SUBSET Items]
    BY DEF Held
  <1>4. /\ \A t \in Scholars : found[t] # {} => found[t] = {Held(t)'}
        /\ \A t \in Scholars : found[t] # {} => Exists(t)
        /\ \A t \in Scholars, i \in Items : found[t] = {} /\ Exists(t) /\ item[i].holder = t => i \notin batch
    BY DEF From
  <1> HIDE DEF found
  <1>5. Refreshed(found, {})
    BY <1>1, <1>3, RefreshRows
  <1>6. ASSUME NEW t \in Scholars, found[t] # {} PROVE PointsInto(t, Held(t))'
    <2>1. PICK held \in found[t] : PointsInto(t, held)'
      BY <1>5, <1>6 DEF Refreshed
    <2>2. held = Held(t)'
      BY <1>4, <1>6
    <2> QED BY <2>1, <2>2 DEF PointsInto
  <1>7. \A t \in Scholars :
          /\ scholar'[t].status = scholar[t].status /\ scholar'[t].lab = scholar[t].lab
          /\ scholar'[t].id = scholar[t].id /\ scholar'[t].restored = scholar[t].restored
          /\ scholar'[t].raced = scholar[t].raced
    BY <1>5 DEF Refreshed
  <1>8. \A t \in Scholars : Held(t)' \subseteq {i \in Items : item[i].status = "active" /\ item'[i].holder = t}
    BY <1>2 DEF Held
  <1>9. RowsOK'
    <2>1. ASSUME NEW t \in Scholars
          PROVE  /\ scholar'[t].item # NoItem => scholar'[t].kind = "listed"
                 /\ \A i \in Items : scholar'[t].item = i => item'[i].status # "purged"
      <3>1. CASE found[t] # {}
        <4>1. PointsInto(t, Held(t))'
          BY <1>6, <3>1
        <4>2. scholar'[t].item # NoItem => scholar'[t].kind = "listed"
          BY <4>1 DEF PointsInto
        <4>3. ASSUME NEW i \in Items, scholar'[t].item = i PROVE item'[i].status # "purged"
          <5>1. i \in Held(t)'
            BY <4>1, <4>3 DEF PointsInto
          <5> QED BY <1>2, <1>8, <5>1
        <4> QED BY <4>2, <4>3
      <3>2. CASE found[t] = {}
        BY <1>2, <1>5, <3>2 DEF RowsOK, Refreshed
      <3> QED BY <3>1, <3>2
    <2> QED BY <1>2, <1>5, <2>1 DEF RowsOK, Refreshed
  <1>10. SharedIdHasAReason'
    BY <1>7, IdsKept
  <1>11. GoneHaveNone'
    BY <1>4, <1>5, <1>7 DEF GoneHaveNone, Exists, Refreshed
  <1>12. PointerIsIssuedUnlessMoved'
    <2> SUFFICES ASSUME ~Does("link"), NEW t \in Scholars, NEW i \in Items, scholar'[t].item = i, ~scholar'[t].deprived
                 PROVE  item'[i].holder = t
      BY DEF PointerIsIssuedUnlessMoved, Does
    <2>1. CASE found[t] # {}
      BY <1>6, <1>8, <2>1 DEF PointsInto
    <2>2. CASE found[t] = {}
      <3>1. scholar[t].item = i /\ ~scholar[t].deprived
        BY <1>5, <2>2 DEF Refreshed
      <3>2. item[i].holder = t /\ Exists(t)
        BY <3>1 DEF PointerIsIssuedUnlessMoved, GoneHaveNone
      <3> QED BY <1>2, <1>4, <2>2, <3>2
    <2> QED BY <2>1, <2>2
  <1>13. AllPresent'
    BY <1>2, <1>7 DEF AllPresent, Pages
  <1>14. MirrorsAgree'
    <2> SUFFICES ASSUME Pages, NEW t \in Scholars, ~scholar'[t].deprived
                 PROVE  IF Held(t)' = {} THEN scholar'[t].kind = "none"
                        ELSE scholar'[t].kind = "listed" /\ scholar'[t].item \in Held(t)'
      BY DEF MirrorsAgree, Pages
    <2>1. CASE found[t] # {}
      BY <1>6, <2>1 DEF PointsInto
    <2>2. CASE found[t] = {}
      <3>1. scholar'[t] = scholar[t] /\ Exists(t)
        BY <1>5, <2>2 DEF AllPresent, Exists, Refreshed
      <3>2. Held(t)' = Held(t)
        <4>1. \A i \in Items : item[i].holder = t => i \notin batch
          BY <1>4, <2>2, <3>1
        <4> QED BY <1>2, <4>1 DEF Held
      <3> QED BY <3>1, <3>2 DEF MirrorsAgree, Pages
    <2> QED BY <2>1, <2>2
  <1> QED BY <1>9, <1>10, <1>11, <1>12, <1>13, <1>14

-----------------------------------------------------------------------------
(* Each action.                                                            *)

CodesInv == CodesOK /\ CodesNamed /\ NewestOpen

LEMMA InvParts == AssignInv <=> RowsInv /\ CodesInv /\ WritesInv
  BY TypeParts DEF AssignInv, RowsInv, CodesInv, WritesInv

LEMMA SameRows ==
    ASSUME RowsInv, scholar' = scholar, item' = item, setting' = setting PROVE RowsInv'
  BY DEF RowsInv, RowsOK, SharedIdHasAReason, SameId, GoneHaveNone, Exists, PointerIsIssuedUnlessMoved,
         Does, AllPresent, Pages, MirrorsAgree, Held

LEMMA SameCodes == ASSUME CodesInv, codes' = codes, setting' = setting PROVE CodesInv'
  BY DEF CodesInv, CodesOK, CodesNamed, NewestOpen, Does

\* Codes that only lose their state go on as they were.
LEMMA ChangedCodes ==
    ASSUME CodesInv, CodesOK', DOMAIN codes' = DOMAIN codes, setting' = setting,
           \A n \in DOMAIN codes : Alike(codes'[n], codes[n]) /\ (codes'[n].state = "open" => codes[n].state = "open")
    PROVE  CodesInv'
  <1>1. CodesNamed'
    BY DEF CodesInv, CodesNamed, Alike, Does
  <1>2. NewestOpen'
    BY DEF CodesInv, NewestOpen, Alike
  <1> QED BY <1>1, <1>2 DEF CodesInv

LEMMA PresentedCodes ==
    ASSUME CodesInv, NEW k \in DOMAIN codes, NEW purpose, Present(k, purpose), setting' = setting
    PROVE  CodesInv'
  <1>1. /\ CodesOK' /\ DOMAIN codes' = DOMAIN codes
        /\ \A n \in DOMAIN codes : n # k => codes'[n] = codes[n]
        /\ codes'[k].state = "spent"
        /\ \A n \in DOMAIN codes : Alike(codes'[n], codes[n])
    BY PresentSpends DEF CodesInv
  <1>2. \A n \in DOMAIN codes : codes'[n].state = "open" => codes[n].state = "open"
    BY <1>1
  <1> QED BY <1>1, <1>2, ChangedCodes

\* The code of an enrolment, if it has one, is spent with the insertion.
LEMMA InsertedCodes ==
    ASSUME CodesInv, WritesInv, NEW r \in Requests, Insert(r)
    PROVE  /\ CodesInv' /\ DOMAIN codes' = DOMAIN codes
           /\ \A n \in DOMAIN codes :
                 Alike(codes'[n], codes[n]) /\ (codes'[n] = codes[n] \/ codes[n].purpose = "enroll")
  <1> DEFINE k == writing[r].code
  <1>1. /\ k = 0 \/ (k \in DOMAIN codes /\ codes[k].purpose = "enroll")
        /\ codes' = [n \in DOMAIN codes |-> IF n = k THEN [codes[n] EXCEPT !.state = "spent"] ELSE codes[n]]
        /\ setting' = setting
    BY DEF WritesInv, WritesKnown, Insert, Commit
  <1>2. CodesOK /\ Len(codes) \in Nat /\ DOMAIN codes = 1 .. Len(codes)
    BY CodesShape DEF CodesInv
  <1> HIDE DEF k
  <1>3. CASE k = 0
    <2>1. codes' = codes
      <3>1. codes' = [n \in DOMAIN codes |-> codes[n]]
        BY <1>1, <1>2, <1>3
      <3>2. codes = [n \in 1 .. Len(codes) |-> codes[n]]
        BY <1>2 DEF CodesOK
      <3> QED BY <1>2, <3>1, <3>2
    <2> QED BY <1>1, <2>1, SameCodes DEF Alike
  <1>4. CASE k \in DOMAIN codes /\ codes[k].purpose = "enroll"
    <2>1. codes' = [codes EXCEPT ![k].state = "spent"]
      <3>1. codes = [n \in 1 .. Len(codes) |-> codes[n]]
        BY <1>2 DEF CodesOK
      <3> QED BY <1>1, <1>2, <1>4, <3>1
    <2>2. /\ CodesOK' /\ DOMAIN codes' = DOMAIN codes
          /\ \A n \in DOMAIN codes : n # k => codes'[n] = codes[n]
          /\ codes'[k].state = "spent"
          /\ \A n \in DOMAIN codes : Alike(codes'[n], codes[n])
      BY <1>2, <1>4, <2>1, OneChanges
    <2>3. \A n \in DOMAIN codes : codes'[n].state = "open" => codes[n].state = "open"
      BY <2>2
    <2> QED BY <1>1, <1>4, <2>2, <2>3, ChangedCodes
  <1> QED BY <1>1, <1>3, <1>4

LEMMA SentCodes ==
    ASSUME CodesInv, NEW code \in Code, Send(code), setting' = setting,
           code.purpose = "enroll" => /\ code.lab \in Labs /\ code.to \in Emails
                                      /\ Does("confirm") /\ (~Does("link") => code.items = {}),
           code.purpose = "link" => code.scholar \in Scholars /\ Does("link"),
           code.purpose = "issue" => code.scholar \in Scholars,
           code.purpose = "revoke" => code.scholar = NoOne
    PROVE  CodesInv'
  <1> DEFINE new == Len(codes) + 1
  <1>1. /\ CodesOK' /\ DOMAIN codes' = DOMAIN codes \cup {new} /\ codes'[new] = code
        /\ \A k \in DOMAIN codes :
              /\ Alike(codes'[k], codes[k])
              /\ codes'[k].state = "open" => codes[k].state = "open"
              /\ codes[k].purpose = code.purpose /\ codes[k].to = code.to => codes'[k].state # "open"
    BY SendAppends DEF CodesInv
  <1>2. \A k \in DOMAIN codes : k < new
    BY CodesShape DEF CodesInv
  <1>3. new \notin DOMAIN codes /\ ~(new < new) /\ \A k \in DOMAIN codes : ~(new < k)
    BY CodesShape DEF CodesInv
  <1> HIDE DEF new
  <1>4. CodesNamed'
    <2> SUFFICES ASSUME NEW k \in DOMAIN codes'
                 PROVE  /\ codes'[k].purpose = "enroll" =>
                             /\ codes'[k].lab \in Labs /\ codes'[k].to \in Emails
                             /\ Does("confirm") /\ (~Does("link") => codes'[k].items = {})
                        /\ codes'[k].purpose = "link" => codes'[k].scholar \in Scholars /\ Does("link")
                        /\ codes'[k].purpose = "issue" => codes'[k].scholar \in Scholars
                        /\ codes'[k].purpose = "revoke" => codes'[k].scholar = NoOne
      BY DEF CodesNamed, Does
    <2>1. CASE k = new
      BY <1>1, <2>1
    <2>2. CASE k \in DOMAIN codes
      BY <1>1, <2>2 DEF CodesInv, CodesNamed, Alike
    <2> QED BY <1>1, <2>1, <2>2
  <1>5. NewestOpen'
    <2> SUFFICES ASSUME NEW k \in DOMAIN codes', NEW n \in DOMAIN codes', k < n,
                        codes'[k].purpose = codes'[n].purpose, codes'[k].to = codes'[n].to
                 PROVE  codes'[k].state # "open"
      BY DEF NewestOpen
    <2>1. k \in DOMAIN codes
      BY <1>1, <1>3
    <2>2. CASE n = new
      BY <1>1, <2>1, <2>2 DEF Alike
    <2>3. CASE n \in DOMAIN codes
      BY <1>1, <2>1, <2>3 DEF CodesInv, NewestOpen, Alike
    <2> QED BY <1>1, <2>2, <2>3
  <1> QED BY <1>1, <1>4, <1>5 DEF CodesInv

\* Every step keeps the rows and the codes.
LEMMA StepKeeps == RowsInv /\ CodesInv /\ WritesInv /\ Next => RowsInv' /\ CodesInv'
  <1> SUFFICES ASSUME RowsInv, CodesInv, WritesInv, Next PROVE RowsInv' /\ CodesInv'
    OBVIOUS
  <1>1. ASSUME NEW r \in Requests, NEW s \in Scholars, NEW lab \in Labs, NEW id \in Ids \cup {NoId}, NEW email \in Addresses, NEW i \in Inventory, Does("enroll") \/ Does("import"), Enroll(r, s, lab, id, email, i) PROVE RowsInv' /\ CodesInv'
    BY <1>1, SameRows, SameCodes DEF Enroll, Enrolls, Begin
  <1>2. ASSUME NEW s \in Scholars, NEW lab \in Labs, NEW id \in Ids \cup {NoId}, NEW email \in Addresses, NEW i \in Inventory, Does("import"), ImportUpdate(s, lab, id, email, i) PROVE RowsInv' /\ CodesInv'
    <2> DEFINE now  == [scholar[s] EXCEPT !.email = email]
               kind == KindOf(i)
    <2>1. kind \in Kinds /\ (Does("link") \/ i = NoItem) /\ email \in Emails /\ ~Pages
      BY <1>2, InventoryType, AddressType DEF Pages, Does
    <2>2. Exists(s) /\ Linkable(kind, i)
      BY <1>2 DEF Clash, Exists, ImportUpdate
    <2>3. /\ now \in Scholar /\ now.status = scholar[s].status /\ now.lab = scholar[s].lab
          /\ now.id = scholar[s].id /\ now.restored = scholar[s].restored /\ now.raced = scholar[s].raced
      BY <2>1 DEF RowsInv, RowsOK, Scholar
    <2>4. scholar' = [scholar EXCEPT ![s] = Linked(now, kind, i)] /\ item' = item /\ codes' = codes /\ setting' = setting
      BY <1>2 DEF ImportUpdate
    <2> HIDE DEF now, kind
    <2>5. Fits(s, Linked(now, kind, i))
      BY <2>1, <2>2, <2>3, LinksFits
    <2> QED BY <2>4, <2>5, FitsKeeps, SameCodes
  <1>3. ASSUME NEW r \in Requests, NEW s \in Scholars, NEW lab \in Labs, NEW id \in Ids \cup {NoId}, Does("patch"), Patch(r, s, lab, id) PROVE RowsInv' /\ CodesInv'
    BY <1>3, SameRows, SameCodes DEF Patch, Begin
  <1>4. ASSUME NEW s \in Scholars, NEW email \in Addresses, PatchEmail(s, email) PROVE RowsInv' /\ CodesInv'
    <2> DEFINE x == [scholar[s] EXCEPT !.email = email]
    <2>1. scholar' = [scholar EXCEPT ![s] = x] /\ item' = item /\ codes' = codes /\ setting' = setting
      BY <1>4 DEF PatchEmail
    <2>2. scholar[s] \in Scholar /\ scholar[s].status \in {"active", "removed"}
      BY <1>4 DEF PatchEmail, RowsInv, RowsOK
    <2>3. Fits(s, x)
      <3>1. email \in Emails
        BY AddressType
      <3>2. /\ x \in Scholar /\ x.lab = scholar[s].lab /\ x.id = scholar[s].id /\ x.status = scholar[s].status
            /\ x.kind = scholar[s].kind /\ x.restored = scholar[s].restored /\ x.raced = scholar[s].raced
            /\ x.item = scholar[s].item /\ x.deprived = scholar[s].deprived
        BY <2>2, <3>1 DEF Scholar
      <3> HIDE DEF x
      <3> QED BY <2>2, <3>2 DEF Fits, RowsInv, RowsOK
    <2> HIDE DEF x
    <2> QED BY <2>1, <2>3, FitsKeeps, SameCodes
  <1>5. ASSUME NEW s \in Scholars, Does("people"), Remove(s) PROVE RowsInv' /\ CodesInv'
    <2> DEFINE now == [scholar[s] EXCEPT !.status = "removed"]
               x   == Linked(now, "none", NoItem)
    <2>1. scholar' = [scholar EXCEPT ![s] = x] /\ item' = item /\ codes' = codes /\ setting' = setting
      BY <1>5 DEF Remove
    <2>2. scholar[s] \in Scholar
      BY DEF RowsInv, RowsOK
    <2>3. now \in Scholar /\ now.status = "removed" /\ "none" \in Kinds /\ NoItem \in Items \cup {NoItem}
      BY <2>2 DEF Scholar, Life, Kinds
    <2> HIDE DEF now
    <2>4. x \in Scholar /\ x.status = "removed" /\ x.item = NoItem
      BY <2>3 DEF Linked, Scholar
    <2>5. ~Pages
      BY <1>5 DEF Pages, Does
    <2> HIDE DEF x
    <2>6. Fits(s, x)
      BY <2>4, <2>5, Constants DEF Fits
    <2> QED BY <2>1, <2>6, FitsKeeps, SameCodes
  <1>6. ASSUME NEW s \in Scholars, Does("people"), Restore(s) PROVE RowsInv' /\ CodesInv'
    <2> DEFINE x == [scholar[s] EXCEPT !.status = "active", !.restored = TRUE]
    <2>1. scholar' = [scholar EXCEPT ![s] = x] /\ item' = item /\ codes' = codes /\ setting' = setting
      BY <1>6 DEF Restore
    <2>2. scholar[s] \in Scholar /\ scholar[s].status \in {"active", "removed"}
      BY <1>6 DEF Restore, RowsInv, RowsOK
    <2>3. Fits(s, x)
      <3>1. ~Pages
        BY <1>6 DEF Pages, Does
      <3>2. /\ x \in Scholar /\ x.status = "active" /\ x.restored = TRUE
            /\ x.kind = scholar[s].kind /\ x.item = scholar[s].item /\ x.deprived = scholar[s].deprived
        BY <2>2 DEF Scholar, Life
      <3> HIDE DEF x
      <3> QED BY <2>2, <3>1, <3>2 DEF Fits, RowsInv, RowsOK
    <2> HIDE DEF x
    <2> QED BY <2>1, <2>3, FitsKeeps, SameCodes
  <1>7. ASSUME NEW s \in Scholars, Does("people"), Purge(s) PROVE RowsInv' /\ CodesInv'
    <2> DEFINE now == [scholar[s] EXCEPT !.status = "purged"]
               x   == Linked(now, "none", NoItem)
    <2>1. scholar' = [scholar EXCEPT ![s] = x] /\ item' = item /\ codes' = codes /\ setting' = setting
      BY <1>7 DEF Purge
    <2>2. scholar[s] \in Scholar
      BY DEF RowsInv, RowsOK
    <2>3. now \in Scholar /\ now.status = "purged" /\ "none" \in Kinds /\ NoItem \in Items \cup {NoItem}
      BY <2>2 DEF Scholar, Life, Kinds
    <2> HIDE DEF now
    <2>4. x \in Scholar /\ x.status = "purged" /\ x.item = NoItem
      BY <2>3 DEF Linked, Scholar
    <2>5. ~Pages
      BY <1>7 DEF Pages, Does
    <2> HIDE DEF x
    <2>6. Fits(s, x)
      BY <2>4, <2>5, Constants DEF Fits
    <2> QED BY <2>1, <2>6, FitsKeeps, SameCodes
  <1>8. ASSUME NEW s \in Scholars, NEW i \in Items, Does("link"), Link(s, "listed", i) PROVE RowsInv' /\ CodesInv'
    <2>1. Exists(s) /\ Linkable("listed", i) /\ "listed" \in Kinds /\ scholar[s] \in Scholar /\ ~Pages
      BY <1>8 DEF Link, Exists, Kinds, RowsInv, RowsOK, Pages, Does
    <2>2. Fits(s, Linked(scholar[s], "listed", i))
      BY <1>8, <2>1, LinksFits
    <2> QED BY <1>8, <2>2, FitsKeeps, SameCodes DEF Link
  <1>9. ASSUME NEW s \in Scholars, NEW kind \in {"none", "non_list"}, Does("link"), Link(s, kind, NoItem) PROVE RowsInv' /\ CodesInv'
    <2>1. Exists(s) /\ Linkable(kind, NoItem) /\ kind \in Kinds /\ scholar[s] \in Scholar /\ ~Pages
      BY <1>9 DEF Link, Exists, Kinds, RowsInv, RowsOK, Pages, Does
    <2>2. Fits(s, Linked(scholar[s], kind, NoItem))
      BY <1>9, <2>1, LinksFits
    <2> QED BY <1>9, <2>2, FitsKeeps, SameCodes DEF Link
  <1>10. ASSUME NEW s \in Scholars, NEW i \in Items, Does("link"), LinkSend(s, i) PROVE RowsInv' /\ CodesInv'
    <2> DEFINE c == [NewCode("link", scholar[s].email) EXCEPT !.scholar = s, !.items = {i}]
    <2>1. Send(c) /\ scholar' = scholar /\ item' = item /\ setting' = setting
      BY <1>10 DEF LinkSend
    <2>2. c \in Code /\ c.purpose = "link" /\ c.scholar = s
      <3>1. scholar[s].email \in Emails
        BY DEF RowsInv, RowsOK, Scholar
      <3> QED BY <3>1 DEF NewCode, Code, Purposes
    <2> HIDE DEF c
    <2> QED BY <1>10, <2>1, <2>2, SameRows, SentCodes
  <1>11. ASSUME NEW r \in Requests, NEW s \in Scholars, NEW k \in DOMAIN codes, EnrollConfirm(r, k, s) PROVE RowsInv' /\ CodesInv'
    BY <1>11, SameRows, SameCodes DEF EnrollConfirm, Enrolls, Begin
  <1>12. ASSUME NEW batch \in SUBSET Items, NEW s \in Scholars, IssueSend(batch, s) PROVE RowsInv' /\ CodesInv'
    <2> DEFINE c == [NewCode("issue", scholar[s].email) EXCEPT !.scholar = s, !.items = batch]
    <2>1. Send(c) /\ scholar' = scholar /\ item' = item /\ setting' = setting
      BY <1>12 DEF IssueSend
    <2>2. c \in Code /\ c.purpose = "issue" /\ c.scholar = s
      <3>1. scholar[s].email \in Emails
        BY DEF RowsInv, RowsOK, Scholar
      <3> QED BY <3>1 DEF NewCode, Code, Purposes
    <2> HIDE DEF c
    <2> QED BY <1>12, <2>1, <2>2, SameRows, SentCodes
  <1>13. ASSUME NEW batch \in SUBSET Items, NEW s \in Scholars, Does("document"), IssueByDocument(batch, s) PROVE RowsInv' /\ CodesInv'
    <2>1. Issue(batch, s) /\ scholar[s].status = "active" /\ codes' = codes /\ setting' = setting
      BY <1>13 DEF IssueByDocument, Issuable
    <2> QED BY <2>1, IssueKeeps, SameCodes
  <1>14. ASSUME NEW batch \in SUBSET Items, NEW lab \in Labs, RevokeSend(batch, lab) PROVE RowsInv' /\ CodesInv'
    <2> DEFINE c == [NewCode("revoke", lab) EXCEPT !.lab = lab, !.items = batch]
    <2>1. Send(c) /\ scholar' = scholar /\ item' = item /\ setting' = setting
      BY <1>14 DEF RevokeSend
    <2>2. c \in Code /\ c.purpose = "revoke" /\ c.scholar = NoOne
      BY DEF NewCode, Code, Purposes
    <2> HIDE DEF c
    <2> QED BY <1>14, <2>1, <2>2, SameRows, SentCodes
  <1>15. ASSUME NEW lab \in Labs, NEW id \in Ids \cup {NoId}, NEW email \in Addresses, NEW i \in Inventory, Does("confirm"), EnrollSend(lab, id, email, i) PROVE RowsInv' /\ CodesInv'
    <2> DEFINE things == {i} \ {NoItem}
               c == [NewCode("enroll", email) EXCEPT !.lab = lab, !.id = id, !.items = things]
    <2>1. Send(c) /\ scholar' = scholar /\ item' = item /\ setting' = setting
      BY <1>15 DEF EnrollSend
    <2>2. things \in SUBSET Items /\ (~Does("link") => things = {}) /\ email \in Emails
      BY InventoryType, AddressType
    <2> HIDE DEF things
    <2>3. c \in Code /\ c.purpose = "enroll" /\ c.lab = lab /\ c.to = email /\ c.items = things
      BY <2>2 DEF NewCode, Code, Purposes
    <2> HIDE DEF c
    <2> QED BY <1>15, <2>1, <2>2, <2>3, SameRows, SentCodes
  <1>16. ASSUME NEW k \in DOMAIN codes, IssueConfirm(k) PROVE RowsInv' /\ CodesInv'
    <2>1. /\ Present(k, "issue") /\ scholar[codes[k].scholar].status = "active"
          /\ Issue(codes[k].items, codes[k].scholar) /\ setting' = setting
      BY <1>16 DEF IssueConfirm
    <2>2. codes[k] \in Code /\ codes[k].purpose = "issue"
      BY <2>1, CodesShape DEF Present, CodesInv
    <2>3. codes[k].items \in SUBSET Items /\ codes[k].scholar \in Scholars
      BY <2>2 DEF Code, CodesInv, CodesNamed
    <2> QED BY <2>1, <2>3, IssueKeeps, PresentedCodes
  <1>17. ASSUME NEW k \in DOMAIN codes, RevokeConfirm(k) PROVE RowsInv' /\ CodesInv'
    <2> DEFINE still == {i \in codes[k].items : item[i].holder # NoOne}
    <2>1. /\ Present(k, "revoke") /\ AfterRevoke(still) /\ setting' = setting
          /\ item' = [i \in Items |-> IF i \in still THEN [item[i] EXCEPT !.holder = NoOne] ELSE item[i]]
      BY <1>17 DEF RevokeConfirm
    <2>2. still \in SUBSET Items
      BY CodesShape DEF CodesInv, Code
    <2> HIDE DEF still
    <2> QED BY <2>1, <2>2, RevokeKeeps, PresentedCodes
  <1>18. ASSUME NEW k \in DOMAIN codes, LinkConfirm(k) PROVE RowsInv' /\ CodesInv'
    <2>1. PICK i \in codes[k].items :
             Linkable("listed", i) /\ scholar' = [scholar EXCEPT ![codes[k].scholar] =
                                                   Linked(scholar[codes[k].scholar], "listed", i)]
      BY <1>18 DEF LinkConfirm
    <2>2. /\ Present(k, "link") /\ scholar[codes[k].scholar].status \in {"active", "removed"}
          /\ item' = item /\ setting' = setting
      BY <1>18 DEF LinkConfirm
    <2>3. codes[k].scholar \in Scholars /\ Does("link")
      BY <2>2 DEF Present, CodesInv, CodesNamed
    <2> DEFINE s == codes[k].scholar
    <2>4. Exists(s) /\ "listed" \in Kinds /\ scholar[s] \in Scholar /\ ~Pages
      BY <2>2, <2>3 DEF Exists, Kinds, RowsInv, RowsOK, Pages, Does
    <2>5. s \in Scholars /\ scholar' = [scholar EXCEPT ![s] = Linked(scholar[s], "listed", i)]
      BY <2>1, <2>3
    <2> HIDE DEF s
    <2>6. Fits(s, Linked(scholar[s], "listed", i))
      BY <2>1, <2>3, <2>4, <2>5, LinksFits
    <2> QED BY <2>2, <2>5, <2>6, FitsKeeps, PresentedCodes
  <1>19. ASSUME NEW k \in DOMAIN codes, CodeExpires(k) PROVE RowsInv' /\ CodesInv'
    <2>1. codes' = [codes EXCEPT ![k].state = "dead"] /\ scholar' = scholar /\ item' = item /\ setting' = setting
      BY <1>19 DEF CodeExpires
    <2>2. /\ CodesOK' /\ DOMAIN codes' = DOMAIN codes
          /\ \A n \in DOMAIN codes : n # k => codes'[n] = codes[n]
          /\ codes'[k].state = "dead"
          /\ \A n \in DOMAIN codes : Alike(codes'[n], codes[n])
      BY <2>1, OneChanges DEF CodesInv
    <2>3. \A n \in DOMAIN codes : codes'[n].state = "open" => codes[n].state = "open"
      BY <2>2
    <2> QED BY <2>1, <2>2, <2>3, ChangedCodes, SameRows
  <1>20. ASSUME NEW i \in Items, Does("items"), ItemBack(i) PROVE RowsInv' /\ CodesInv'
    <2>1. item' = [item EXCEPT ![i].status = "active"] /\ scholar' = scholar /\ codes' = codes /\ setting' = setting
      BY <1>20 DEF ItemBack
    <2>2. /\ item' \in [Items -> Item] /\ item'[i].status = "active"
          /\ \A j \in Items : item'[j].holder = item[j].holder /\ (j # i => item'[j] = item[j])
      BY <2>1 DEF RowsInv, RowsOK, Item, Life
    <2>3. ~Pages
      BY <1>20 DEF Pages, Does
    <2>4. RowsOK'
      BY <2>1, <2>2 DEF RowsInv, RowsOK
    <2>5. SharedIdHasAReason' /\ GoneHaveNone'
      BY <2>1 DEF RowsInv, SharedIdHasAReason, SameId, GoneHaveNone, Exists
    <2>6. PointerIsIssuedUnlessMoved'
      BY <2>1, <2>2 DEF RowsInv, PointerIsIssuedUnlessMoved, Does
    <2>7. AllPresent' /\ MirrorsAgree'
      BY <2>1, <2>3 DEF AllPresent, MirrorsAgree, Pages
    <2> QED BY <2>1, <2>4, <2>5, <2>6, <2>7, SameCodes DEF RowsInv
  <1>21. ASSUME NEW i \in Items, Does("items"), ItemRemove(i) PROVE RowsInv' /\ CodesInv'
    <2>1. item' = [item EXCEPT ![i].status = "removed"] /\ scholar' = scholar /\ codes' = codes /\ setting' = setting
      BY <1>21 DEF ItemRemove
    <2>2. /\ item' \in [Items -> Item] /\ item'[i].status = "removed"
          /\ \A j \in Items : item'[j].holder = item[j].holder /\ (j # i => item'[j] = item[j])
      BY <2>1 DEF RowsInv, RowsOK, Item, Life
    <2>3. ~Pages
      BY <1>21 DEF Pages, Does
    <2>4. RowsOK'
      BY <2>1, <2>2 DEF RowsInv, RowsOK
    <2>5. SharedIdHasAReason' /\ GoneHaveNone'
      BY <2>1 DEF RowsInv, SharedIdHasAReason, SameId, GoneHaveNone, Exists
    <2>6. PointerIsIssuedUnlessMoved'
      BY <2>1, <2>2 DEF RowsInv, PointerIsIssuedUnlessMoved, Does
    <2>7. AllPresent' /\ MirrorsAgree'
      BY <2>1, <2>3 DEF AllPresent, MirrorsAgree, Pages
    <2> QED BY <2>1, <2>4, <2>5, <2>6, <2>7, SameCodes DEF RowsInv
  <1>22. ASSUME NEW i \in Items, Does("items"), ItemPurge(i) PROVE RowsInv' /\ CodesInv'
    <2>1. /\ item' = [item EXCEPT ![i] = [status |-> "purged", holder |-> NoOne]] /\ codes' = codes /\ setting' = setting
          /\ scholar' = [t \in Scholars |-> IF scholar[t].item = i THEN [scholar[t] EXCEPT !.item = NoItem]
                                            ELSE scholar[t]]
      BY <1>22 DEF ItemPurge
    <2>2. item' \in [Items -> Item] /\ \A j \in Items : j # i => item'[j] = item[j]
      BY <2>1 DEF RowsInv, RowsOK, Item, Life
    <2>3. /\ scholar' \in [Scholars -> Scholar]
          /\ \A t \in Scholars : IF scholar[t].item = i THEN scholar'[t].item = NoItem ELSE scholar'[t] = scholar[t]
          /\ \A t \in Scholars :
                /\ scholar'[t].status = scholar[t].status /\ scholar'[t].lab = scholar[t].lab
                /\ scholar'[t].id = scholar[t].id /\ scholar'[t].restored = scholar[t].restored
                /\ scholar'[t].raced = scholar[t].raced
      BY <2>1 DEF RowsInv, RowsOK, Scholar
    <2>4. ~Pages
      BY <1>22 DEF Pages, Does
    <2>5. RowsOK'
      BY <2>2, <2>3, Constants DEF RowsInv, RowsOK
    <2>6. SharedIdHasAReason'
      BY <2>3, IdsKept DEF RowsInv
    <2>7. GoneHaveNone'
      BY <2>3 DEF RowsInv, GoneHaveNone, Exists
    <2>8. PointerIsIssuedUnlessMoved'
      BY <2>1, <2>2, <2>3, Constants DEF RowsInv, PointerIsIssuedUnlessMoved, Does
    <2>9. AllPresent' /\ MirrorsAgree'
      BY <2>1, <2>4 DEF AllPresent, MirrorsAgree, Pages
    <2> QED BY <2>1, <2>5, <2>6, <2>7, <2>8, <2>9, SameCodes DEF RowsInv
  <1>23. ASSUME NEW r \in Requests, Insert(r) PROVE RowsInv' /\ CodesInv'
    <2>1. writing[r].scholar \in Scholars /\ \E x : Fits(writing[r].scholar, x) /\ Commit(r, writing[r].scholar, x)
      BY <1>23, InsertFits DEF Write
    <2> QED BY <1>23, <2>1, FitsKeeps, InsertedCodes DEF Commit
  <1>24. ASSUME NEW r \in Requests, Update(r) PROVE RowsInv' /\ CodesInv'
    <2>1. writing[r].scholar \in Scholars /\ \E x : Fits(writing[r].scholar, x) /\ Commit(r, writing[r].scholar, x)
      BY <1>24, UpdateFits DEF Write
    <2>2. codes' = codes
      BY <1>24 DEF Update
    <2> QED BY <2>1, <2>2, FitsKeeps, SameCodes DEF Commit
  <1>25. ASSUME NEW r \in Requests, Fail(r) PROVE RowsInv' /\ CodesInv'
    BY <1>25, SameRows, SameCodes DEF Fail
  <1> QED BY <1>1, <1>2, <1>3, <1>4, <1>5, <1>6, <1>7, <1>8, <1>9, <1>10, <1>11, <1>12, <1>13, <1>14, <1>15, <1>16, <1>17, <1>18, <1>19, <1>20, <1>21, <1>22, <1>23, <1>24, <1>25
         DEF Next, ScholarNext, WriteNext, PageNext, CodeNext, ItemNext

\* A code stays what it was sent for, and unless an enrolment presented it, it is
\* spent from the open state only.
Stays(n) ==
    /\ n \in DOMAIN codes' /\ codes'[n].purpose = codes[n].purpose
    /\ codes[n].purpose = "enroll" \/ codes'[n].state # "spent" \/ codes[n].state \in {"open", "spent"}

LEMMA CodesStay ==
    ASSUME RowsInv, CodesInv, WritesInv, Next, NEW n \in DOMAIN codes
    PROVE  Stays(n)
  <1> USE DEF Stays
  <1>1. ASSUME NEW r \in Requests, NEW s \in Scholars, NEW lab \in Labs, NEW id \in Ids \cup {NoId}, NEW email \in Addresses, NEW i \in Inventory, Does("enroll") \/ Does("import"), Enroll(r, s, lab, id, email, i) PROVE Stays(n)
    BY <1>1 DEF Enroll, Enrolls, Begin
  <1>2. ASSUME NEW s \in Scholars, NEW lab \in Labs, NEW id \in Ids \cup {NoId}, NEW email \in Addresses, NEW i \in Inventory, Does("import"), ImportUpdate(s, lab, id, email, i) PROVE Stays(n)
    BY <1>2 DEF ImportUpdate
  <1>3. ASSUME NEW r \in Requests, NEW s \in Scholars, NEW lab \in Labs, NEW id \in Ids \cup {NoId}, Does("patch"), Patch(r, s, lab, id) PROVE Stays(n)
    BY <1>3 DEF Patch, Begin
  <1>4. ASSUME NEW s \in Scholars, NEW email \in Addresses, PatchEmail(s, email) PROVE Stays(n)
    BY <1>4 DEF PatchEmail
  <1>5. ASSUME NEW s \in Scholars, Does("people"), Remove(s) PROVE Stays(n)
    BY <1>5 DEF Remove
  <1>6. ASSUME NEW s \in Scholars, Does("people"), Restore(s) PROVE Stays(n)
    BY <1>6 DEF Restore
  <1>7. ASSUME NEW s \in Scholars, Does("people"), Purge(s) PROVE Stays(n)
    BY <1>7 DEF Purge
  <1>8. ASSUME NEW s \in Scholars, NEW i \in Items, Does("link"), Link(s, "listed", i) PROVE Stays(n)
    BY <1>8 DEF Link
  <1>9. ASSUME NEW s \in Scholars, NEW kind \in {"none", "non_list"}, Does("link"), Link(s, kind, NoItem) PROVE Stays(n)
    BY <1>9 DEF Link
  <1>10. ASSUME NEW s \in Scholars, NEW i \in Items, Does("link"), LinkSend(s, i) PROVE Stays(n)
    <2> DEFINE c == [NewCode("link", scholar[s].email) EXCEPT !.scholar = s, !.items = {i}]
    <2>1. Send(c) /\ scholar' = scholar /\ item' = item /\ setting' = setting
      BY <1>10 DEF LinkSend
    <2>2. c \in Code /\ c.purpose = "link" /\ c.scholar = s
      <3>1. scholar[s].email \in Emails
        BY DEF RowsInv, RowsOK, Scholar
      <3> QED BY <3>1 DEF NewCode, Code, Purposes
    <2> HIDE DEF c
    <2> QED BY <2>1, <2>2, SendAppends DEF CodesInv, Alike
  <1>11. ASSUME NEW r \in Requests, NEW s \in Scholars, NEW k \in DOMAIN codes, EnrollConfirm(r, k, s) PROVE Stays(n)
    BY <1>11 DEF EnrollConfirm, Enrolls, Begin
  <1>12. ASSUME NEW batch \in SUBSET Items, NEW s \in Scholars, IssueSend(batch, s) PROVE Stays(n)
    <2> DEFINE c == [NewCode("issue", scholar[s].email) EXCEPT !.scholar = s, !.items = batch]
    <2>1. Send(c) /\ scholar' = scholar /\ item' = item /\ setting' = setting
      BY <1>12 DEF IssueSend
    <2>2. c \in Code /\ c.purpose = "issue" /\ c.scholar = s
      <3>1. scholar[s].email \in Emails
        BY DEF RowsInv, RowsOK, Scholar
      <3> QED BY <3>1 DEF NewCode, Code, Purposes
    <2> HIDE DEF c
    <2> QED BY <2>1, <2>2, SendAppends DEF CodesInv, Alike
  <1>13. ASSUME NEW batch \in SUBSET Items, NEW s \in Scholars, Does("document"), IssueByDocument(batch, s) PROVE Stays(n)
    BY <1>13 DEF IssueByDocument
  <1>14. ASSUME NEW batch \in SUBSET Items, NEW lab \in Labs, RevokeSend(batch, lab) PROVE Stays(n)
    <2> DEFINE c == [NewCode("revoke", lab) EXCEPT !.lab = lab, !.items = batch]
    <2>1. Send(c) /\ scholar' = scholar /\ item' = item /\ setting' = setting
      BY <1>14 DEF RevokeSend
    <2>2. c \in Code /\ c.purpose = "revoke" /\ c.scholar = NoOne
      BY DEF NewCode, Code, Purposes
    <2> HIDE DEF c
    <2> QED BY <2>1, <2>2, SendAppends DEF CodesInv, Alike
  <1>15. ASSUME NEW lab \in Labs, NEW id \in Ids \cup {NoId}, NEW email \in Addresses, NEW i \in Inventory, Does("confirm"), EnrollSend(lab, id, email, i) PROVE Stays(n)
    <2> DEFINE things == {i} \ {NoItem}
               c == [NewCode("enroll", email) EXCEPT !.lab = lab, !.id = id, !.items = things]
    <2>1. Send(c) /\ scholar' = scholar /\ item' = item /\ setting' = setting
      BY <1>15 DEF EnrollSend
    <2>2. things \in SUBSET Items /\ (~Does("link") => things = {}) /\ email \in Emails
      BY InventoryType, AddressType
    <2> HIDE DEF things
    <2>3. c \in Code /\ c.purpose = "enroll" /\ c.lab = lab /\ c.to = email /\ c.items = things
      BY <2>2 DEF NewCode, Code, Purposes
    <2> HIDE DEF c
    <2> QED BY <2>1, <2>3, SendAppends DEF CodesInv, Alike
  <1>16. ASSUME NEW k \in DOMAIN codes, IssueConfirm(k) PROVE Stays(n)
    <2>1. Present(k, "issue")
      BY <1>16 DEF IssueConfirm
    <2> QED BY <2>1, PresentSpends DEF CodesInv, Alike
  <1>17. ASSUME NEW k \in DOMAIN codes, RevokeConfirm(k) PROVE Stays(n)
    <2>1. Present(k, "revoke")
      BY <1>17 DEF RevokeConfirm
    <2> QED BY <2>1, PresentSpends DEF CodesInv, Alike
  <1>18. ASSUME NEW k \in DOMAIN codes, LinkConfirm(k) PROVE Stays(n)
    <2>1. Present(k, "link")
      BY <1>18 DEF LinkConfirm
    <2> QED BY <2>1, PresentSpends DEF CodesInv, Alike
  <1>19. ASSUME NEW k \in DOMAIN codes, CodeExpires(k) PROVE Stays(n)
    <2>1. codes' = [codes EXCEPT ![k].state = "dead"]
      BY <1>19 DEF CodeExpires
    <2>2. n \in DOMAIN codes' /\ Alike(codes'[n], codes[n]) /\ (codes'[n].state = "dead" \/ codes'[n] = codes[n])
      BY <2>1, OneChanges DEF CodesInv
    <2> QED BY <2>2 DEF Alike
  <1>20. ASSUME NEW i \in Items, Does("items"), ItemBack(i) PROVE Stays(n)
    BY <1>20 DEF ItemBack
  <1>21. ASSUME NEW i \in Items, Does("items"), ItemRemove(i) PROVE Stays(n)
    BY <1>21 DEF ItemRemove
  <1>22. ASSUME NEW i \in Items, Does("items"), ItemPurge(i) PROVE Stays(n)
    BY <1>22 DEF ItemPurge
  <1>23. ASSUME NEW r \in Requests, Insert(r) PROVE Stays(n)
    BY <1>23, InsertedCodes DEF Alike
  <1>24. ASSUME NEW r \in Requests, Update(r) PROVE Stays(n)
    BY <1>24 DEF Update
  <1>25. ASSUME NEW r \in Requests, Fail(r) PROVE Stays(n)
    BY <1>25 DEF Fail
  <1> QED BY <1>1, <1>2, <1>3, <1>4, <1>5, <1>6, <1>7, <1>8, <1>9, <1>10, <1>11, <1>12, <1>13, <1>14, <1>15, <1>16, <1>17, <1>18, <1>19, <1>20, <1>21, <1>22, <1>23, <1>24, <1>25
         DEF Next, ScholarNext, WriteNext, PageNext, CodeNext, ItemNext

-----------------------------------------------------------------------------
(* Requests between their look at an ID and their commit.                  *)

\* An active scholar is where it was, or was restored now or before.
Place(t) ==
    scholar'[t].status = "active" =>
        \/ scholar'[t].restored
        \/ /\ scholar[t].status = "active" /\ scholar[t].lab = scholar'[t].lab
           /\ scholar[t].id = scholar'[t].id /\ ~scholar[t].restored

LEMMA RefreshPlaces ==
    ASSUME RowsInv, NEW found \in [Scholars -> SUBSET SUBSET Items], NEW deprived, Refresh(found, deprived),
           NEW t \in Scholars
    PROVE  Place(t)
  BY RefreshRows DEF RowsInv, Refreshed, Place, RowsOK, Scholar

\* Requests that were under way and what they looked up; a request whose look
\* still holds is left as it is, or late.
LEMMA WritesStay ==
    ASSUME WritesInv, setting' = setting, \A t \in Scholars : Place(t),
           \A n \in DOMAIN codes : n \in DOMAIN codes' /\ codes'[n].purpose = codes[n].purpose,
           \A r \in Requests : writing'[r] \in {writing[r], Idle},
           writing' = [r \in Requests |-> writing'[r]]
    PROVE  WritesInv'
  <1>1. WritesOK'
    BY DEF WritesInv, WritesOK
  <1>2. ASSUME NEW r \in Requests, writing'[r] # Idle
        PROVE  /\ ~Pages' /\ (~Does("link")' => writing'[r].item = NoItem)
               /\ \/ writing'[r].code = 0
                  \/ writing'[r].code \in DOMAIN codes' /\ codes'[writing'[r].code].purpose = "enroll"
               /\ writing'[r].late \/ Free(writing[r])'
    <2>1. writing'[r] = writing[r] /\ writing[r] # Idle
      BY <1>2
    <2>2. writing[r] \in Write
      BY <2>1 DEF WritesInv, WritesOK
    <2>3. /\ ~Pages /\ (~Does("link") => writing[r].item = NoItem)
          /\ writing[r].code = 0 \/ (writing[r].code \in DOMAIN codes /\ codes[writing[r].code].purpose = "enroll")
          /\ writing[r].late \/ Free(writing[r])
      BY <2>1 DEF WritesInv, WritesKnown
    <2>4. Free(writing[r]) => Free(writing[r])'
      BY <2>1, <2>2 DEF Free, Place, Write
    <2> QED BY <2>1, <2>3, <2>4 DEF Pages, Does
  <1> QED BY <1>1, <1>2 DEF WritesInv, WritesKnown

LEMMA SamePlaces == ASSUME scholar' = scholar PROVE \A t \in Scholars : Place(t)
  BY DEF Place

\* A row whose place stays, or that is restored or goes.
LEMMA RowPlaces ==
    ASSUME RowsInv, NEW s \in Scholars, NEW x, scholar' = [scholar EXCEPT ![s] = x],
           \/ x.restored \/ x.status # "active"
           \/ /\ x.status = scholar[s].status /\ x.lab = scholar[s].lab
              /\ x.id = scholar[s].id /\ x.restored = scholar[s].restored
    PROVE  \A t \in Scholars : Place(t)
  <1>1. scholar'[s] = x /\ \A t \in Scholars : t # s => scholar'[t] = scholar[t]
    BY DEF RowsInv, RowsOK
  <1> QED BY <1>1 DEF Place

LEMMA IssuePlaces ==
    ASSUME RowsInv, NEW batch \in SUBSET Items, NEW s \in Scholars, Issue(batch, s), NEW t \in Scholars
    PROVE  Place(t)
  <1> DEFINE losers == {u \in Scholars \ {s} : From(batch, u) # {} /\ Exists(u)}
             found == [u \in Scholars |->
                         IF u = s THEN {Held(s)'}
                         ELSE IF u \in losers THEN {Held(u) \ (From(batch, u) \ {last}) : last \in From(batch, u)}
                         ELSE {}]
  <1>1. Refresh(found, losers)
    BY DEF Issue
  <1>2. found \in [Scholars -> SUBSET SUBSET Items]
    BY DEF Held
  <1> HIDE DEF found, losers
  <1> QED BY <1>1, <1>2, RefreshPlaces

LEMMA RevokePlaces ==
    ASSUME RowsInv, NEW batch \in SUBSET Items, AfterRevoke(batch), NEW t \in Scholars
    PROVE  Place(t)
  <1> DEFINE found == [u \in Scholars |-> IF From(batch, u) # {} /\ Exists(u) THEN {Held(u)'} ELSE {}]
  <1>1. Refresh(found, {})
    BY DEF AfterRevoke
  <1>2. found \in [Scholars -> SUBSET SUBSET Items]
    BY DEF Held
  <1> HIDE DEF found
  <1> QED BY <1>1, <1>2, RefreshPlaces

\* A request that has looked its ID up.
LEMMA BeginKeeps ==
    ASSUME WritesInv, NEW r \in Requests, NEW w \in Write, Begin(r, w), ~Pages, ~Does("link") => w.item = NoItem,
           w.code = 0 \/ (w.code \in DOMAIN codes /\ codes[w.code].purpose = "enroll"), Free(w)
    PROVE  WritesInv'
  <1>1. /\ scholar' = scholar /\ codes' = codes /\ setting' = setting
        /\ writing' = [writing EXCEPT ![r] = w] /\ writing \in [Requests -> Write \cup {Idle}]
    BY DEF Begin, WritesInv, WritesOK
  <1>2. WritesOK'
    BY <1>1 DEF WritesOK
  <1>3. ASSUME NEW q \in Requests, writing'[q] # Idle
        PROVE  /\ ~Pages' /\ (~Does("link")' => writing'[q].item = NoItem)
               /\ \/ writing'[q].code = 0
                  \/ writing'[q].code \in DOMAIN codes' /\ codes'[writing'[q].code].purpose = "enroll"
               /\ writing'[q].late \/ Free(writing[q])'
    <2>1. CASE q = r
      <3>1. writing'[q] = w
        BY <1>1, <2>1
      <3>2. Free(writing[q])'
        BY <1>1, <3>1 DEF Free
      <3> QED BY <1>1, <3>1, <3>2 DEF Pages, Does
    <2>2. CASE q # r
      <3>1. writing'[q] = writing[q] /\ writing[q] # Idle
        BY <1>1, <1>3, <2>2
      <3>2. /\ ~Pages /\ (~Does("link") => writing[q].item = NoItem)
            /\ writing[q].code = 0 \/ (writing[q].code \in DOMAIN codes /\ codes[writing[q].code].purpose = "enroll")
            /\ writing[q].late \/ Free(writing[q])
        BY <3>1 DEF WritesInv, WritesKnown
      <3>3. Free(writing[q]) => Free(writing[q])'
        BY <1>1, <3>1 DEF Free
      <3> QED BY <1>1, <3>1, <3>2, <3>3 DEF Pages, Does
    <2> QED BY <2>1, <2>2
  <1> QED BY <1>2, <1>3 DEF WritesInv, WritesKnown

\* A row is written: who looked the same ID up before is late.
LEMMA CommitKeeps ==
    ASSUME RowsInv, WritesInv, NEW r \in Requests, NEW s \in Scholars, NEW x \in Scholar, Commit(r, s, x),
           \A n \in DOMAIN codes : n \in DOMAIN codes' /\ codes'[n].purpose = codes[n].purpose
    PROVE  WritesInv'
  <1> DEFINE overtaken(w) == w.scholar # s /\ x.status = "active" /\ x.id # NoId /\ w.lab = x.lab /\ w.id = x.id
  <1>1. /\ scholar' = [scholar EXCEPT ![s] = x] /\ setting' = setting
        /\ writing' = [q \in Requests |-> IF q = r \/ writing[q] = Idle THEN Idle
                                          ELSE [writing[q] EXCEPT !.late = @ \/ overtaken(writing[q])]]
        /\ writing \in [Requests -> Write \cup {Idle}]
    BY DEF Commit, WritesInv, WritesOK
  <1>2. scholar'[s] = x /\ \A t \in Scholars : t # s => scholar'[t] = scholar[t]
    BY <1>1 DEF RowsInv, RowsOK
  <1>3. ASSUME NEW q \in Requests, ~(q = r \/ writing[q] = Idle)
        PROVE  /\ writing[q] # Idle /\ writing[q] \in Write /\ writing'[q] \in Write
               /\ writing'[q].scholar = writing[q].scholar /\ writing'[q].lab = writing[q].lab
               /\ writing'[q].id = writing[q].id /\ writing'[q].item = writing[q].item
               /\ writing'[q].code = writing[q].code
               /\ writing'[q].late <=> writing[q].late \/ overtaken(writing[q])
    <2> DEFINE over == overtaken(writing[q])
    <2>1. writing[q] # Idle /\ writing[q] \in Write /\ over \in BOOLEAN
      BY <1>1, <1>3
    <2>2. writing'[q] = [writing[q] EXCEPT !.late = @ \/ over]
      BY <1>1, <1>3
    <2> HIDE DEF over
    <2>3. /\ writing'[q] \in Write
          /\ writing'[q].scholar = writing[q].scholar /\ writing'[q].lab = writing[q].lab
          /\ writing'[q].id = writing[q].id /\ writing'[q].item = writing[q].item
          /\ writing'[q].code = writing[q].code
          /\ writing'[q].late <=> writing[q].late \/ over
      BY <2>1, <2>2 DEF Write
    <2> QED BY <2>1, <2>3 DEF over
  <1>4. \A q \in Requests : q = r \/ writing[q] = Idle => writing'[q] = Idle
    BY <1>1
  <1>5. WritesOK'
    <2>1. \A q \in Requests : writing'[q] \in Write \cup {Idle}
      BY <1>3, <1>4
    <2>2. writing' = [q \in Requests |-> writing'[q]]
      BY <1>1
    <2> QED BY <2>1, <2>2 DEF WritesOK
  <1>6. ASSUME NEW q \in Requests, writing'[q] # Idle
        PROVE  /\ ~Pages' /\ (~Does("link")' => writing'[q].item = NoItem)
               /\ \/ writing'[q].code = 0
                  \/ writing'[q].code \in DOMAIN codes' /\ codes'[writing'[q].code].purpose = "enroll"
               /\ writing'[q].late \/ Free(writing[q])'
    <2>1. ~(q = r \/ writing[q] = Idle)
      BY <1>4, <1>6
    <2>2. /\ ~Pages /\ (~Does("link") => writing[q].item = NoItem)
          /\ writing[q].code = 0 \/ (writing[q].code \in DOMAIN codes /\ codes[writing[q].code].purpose = "enroll")
          /\ writing[q].late \/ Free(writing[q])
      BY <2>1 DEF WritesInv, WritesKnown
    <2>3. writing'[q].late \/ Free(writing[q])'
      <3> SUFFICES ASSUME ~writing'[q].late PROVE Free(writing[q])'
        OBVIOUS
      <3>1. Free(writing[q]) /\ ~overtaken(writing[q])
        BY <1>3, <2>1, <2>2
      <3> SUFFICES ASSUME writing[q].id # NoId, NEW t \in Scholars \ {writing[q].scholar},
                          scholar'[t].status = "active", scholar'[t].lab = writing[q].lab,
                          scholar'[t].id = writing[q].id
                   PROVE  scholar'[t].restored
        BY <1>3, <2>1 DEF Free
      <3>2. CASE t = s
        BY <1>2, <3>1, <3>2
      <3>3. CASE t # s
        BY <1>2, <3>1, <3>3 DEF Free
      <3> QED BY <3>2, <3>3
    <2>4. ~Pages' /\ (~Does("link")' => writing'[q].item = NoItem)
      BY <1>1, <1>3, <2>1, <2>2 DEF Pages, Does
    <2>5. \/ writing'[q].code = 0
          \/ writing'[q].code \in DOMAIN codes' /\ codes'[writing'[q].code].purpose = "enroll"
      BY <1>3, <2>1, <2>2
    <2> QED BY <2>3, <2>4, <2>5
  <1> QED BY <1>5, <1>6 DEF WritesInv, WritesKnown

\* Every step keeps what is known of the requests under way.
LEMMA WritesStep == RowsInv /\ CodesInv /\ WritesInv /\ Next => WritesInv'
  <1> SUFFICES ASSUME RowsInv, CodesInv, WritesInv, Next PROVE WritesInv'
    OBVIOUS
  <1> DEFINE purposes == \A n \in DOMAIN codes : n \in DOMAIN codes' /\ codes'[n].purpose = codes[n].purpose
             places == \A t \in Scholars : Place(t)
  <1>c. purposes
    BY CodesStay DEF Stays
  <1>a. ASSUME places, UNCHANGED <<setting, writing>> PROVE WritesInv'
    <2>1. /\ \A r \in Requests : writing'[r] \in {writing[r], Idle}
          /\ writing' = [r \in Requests |-> writing'[r]]
      BY <1>a DEF WritesInv, WritesOK
    <2> QED BY <1>a, <1>c, <2>1, WritesStay
  <1>b. ASSUME UNCHANGED <<setting, scholar, writing>> PROVE WritesInv'
    BY <1>a, <1>b, SamePlaces
  <1> HIDE DEF purposes, places
  <1>1. ASSUME NEW r \in Requests, NEW s \in Scholars, NEW lab \in Labs, NEW id \in Ids \cup {NoId}, NEW email \in Addresses, NEW i \in Inventory, Does("enroll") \/ Does("import"), Enroll(r, s, lab, id, email, i) PROVE WritesInv'
    <2> DEFINE w == Insertion(s, lab, id, email, i, 0)
    <2>1. Begin(r, w) /\ Unused(lab, id, NoOne)
      BY <1>1 DEF Enroll, Enrolls
    <2>2. email \in Emails /\ i \in Items \cup {NoItem} /\ (~Does("link") => i = NoItem) /\ 0 \in 0 .. MaxCodes
      BY AddressType, InventoryType, Constants
    <2>3. w \in Write /\ w.item = i /\ w.code = 0 /\ w.lab = lab /\ w.id = id /\ w.scholar = s
      BY <2>2 DEF Insertion, Write
    <2> HIDE DEF w
    <2>4. Free(w)
      BY <2>1, <2>3, Constants DEF Free, Unused, Clash
    <2>5. ~Pages
      BY <1>1 DEF Pages, Does
    <2> QED BY <2>1, <2>2, <2>3, <2>4, <2>5, BeginKeeps
  <1>2. ASSUME NEW s \in Scholars, NEW lab \in Labs, NEW id \in Ids \cup {NoId}, NEW email \in Addresses, NEW i \in Inventory, Does("import"), ImportUpdate(s, lab, id, email, i) PROVE WritesInv'
    <2> DEFINE now == [scholar[s] EXCEPT !.email = email]
               x   == Linked(now, KindOf(i), i)
    <2>1. scholar' = [scholar EXCEPT ![s] = x] /\ setting' = setting /\ writing' = writing
      BY <1>2 DEF ImportUpdate
    <2>2. /\ x.status = scholar[s].status /\ x.lab = scholar[s].lab
          /\ x.id = scholar[s].id /\ x.restored = scholar[s].restored
      BY DEF Linked, RowsInv, RowsOK, Scholar
    <2> HIDE DEF x
    <2> QED BY <1>a, <2>1, <2>2, RowPlaces DEF places
  <1>3. ASSUME NEW r \in Requests, NEW s \in Scholars, NEW lab \in Labs, NEW id \in Ids \cup {NoId}, Does("patch"), Patch(r, s, lab, id) PROVE WritesInv'
    <2> DEFINE changed == {c \in {"lab", "id"} : IF c = "lab" THEN lab # scholar[s].lab ELSE id # scholar[s].id}
               w == [Insertion(s, lab, id, scholar[s].email, NoItem, 0) EXCEPT !.insert = FALSE, !.columns = changed]
    <2>1. Begin(r, w) /\ Unused(lab, id, s)
      BY <1>3 DEF Patch
    <2>2. scholar[s].email \in Emails /\ changed \in SUBSET {"lab", "id"} /\ 0 \in 0 .. MaxCodes
      BY Constants DEF RowsInv, RowsOK, Scholar
    <2> HIDE DEF changed
    <2>3. w \in Write /\ w.item = NoItem /\ w.code = 0 /\ w.lab = lab /\ w.id = id /\ w.scholar = s
      BY <2>2 DEF Insertion, Write
    <2> HIDE DEF w
    <2>4. Free(w)
      BY <2>1, <2>3, Constants DEF Free, Unused, Clash
    <2>5. ~Pages
      BY <1>3 DEF Pages, Does
    <2> QED BY <2>1, <2>3, <2>4, <2>5, BeginKeeps
  <1>4. ASSUME NEW s \in Scholars, NEW email \in Addresses, PatchEmail(s, email) PROVE WritesInv'
    <2> DEFINE x == [scholar[s] EXCEPT !.email = email]
    <2>1. scholar' = [scholar EXCEPT ![s] = x] /\ setting' = setting /\ writing' = writing
      BY <1>4 DEF PatchEmail
    <2>2. \/ x.restored \/ x.status # "active"
          \/ /\ x.status = scholar[s].status /\ x.lab = scholar[s].lab
             /\ x.id = scholar[s].id /\ x.restored = scholar[s].restored
      BY DEF Linked, RowsInv, RowsOK, Scholar
    <2> HIDE DEF x
    <2> QED BY <1>a, <2>1, <2>2, RowPlaces DEF places
  <1>5. ASSUME NEW s \in Scholars, Does("people"), Remove(s) PROVE WritesInv'
    <2> DEFINE x == Linked([scholar[s] EXCEPT !.status = "removed"], "none", NoItem)
    <2>1. scholar' = [scholar EXCEPT ![s] = x] /\ setting' = setting /\ writing' = writing
      BY <1>5 DEF Remove
    <2>2. \/ x.restored \/ x.status # "active"
          \/ /\ x.status = scholar[s].status /\ x.lab = scholar[s].lab
             /\ x.id = scholar[s].id /\ x.restored = scholar[s].restored
      BY DEF Linked, RowsInv, RowsOK, Scholar
    <2> HIDE DEF x
    <2> QED BY <1>a, <2>1, <2>2, RowPlaces DEF places
  <1>6. ASSUME NEW s \in Scholars, Does("people"), Restore(s) PROVE WritesInv'
    <2> DEFINE x == [scholar[s] EXCEPT !.status = "active", !.restored = TRUE]
    <2>1. scholar' = [scholar EXCEPT ![s] = x] /\ setting' = setting /\ writing' = writing
      BY <1>6 DEF Restore
    <2>2. \/ x.restored \/ x.status # "active"
          \/ /\ x.status = scholar[s].status /\ x.lab = scholar[s].lab
             /\ x.id = scholar[s].id /\ x.restored = scholar[s].restored
      BY DEF Linked, RowsInv, RowsOK, Scholar
    <2> HIDE DEF x
    <2> QED BY <1>a, <2>1, <2>2, RowPlaces DEF places
  <1>7. ASSUME NEW s \in Scholars, Does("people"), Purge(s) PROVE WritesInv'
    <2> DEFINE x == Linked([scholar[s] EXCEPT !.status = "purged"], "none", NoItem)
    <2>1. scholar' = [scholar EXCEPT ![s] = x] /\ setting' = setting /\ writing' = writing
      BY <1>7 DEF Purge
    <2>2. \/ x.restored \/ x.status # "active"
          \/ /\ x.status = scholar[s].status /\ x.lab = scholar[s].lab
             /\ x.id = scholar[s].id /\ x.restored = scholar[s].restored
      BY DEF Linked, RowsInv, RowsOK, Scholar
    <2> HIDE DEF x
    <2> QED BY <1>a, <2>1, <2>2, RowPlaces DEF places
  <1>8. ASSUME NEW s \in Scholars, NEW i \in Items, Does("link"), Link(s, "listed", i) PROVE WritesInv'
    <2> DEFINE x == Linked(scholar[s], "listed", i)
    <2>1. scholar' = [scholar EXCEPT ![s] = x] /\ setting' = setting /\ writing' = writing
      BY <1>8 DEF Link
    <2>2. \/ x.restored \/ x.status # "active"
          \/ /\ x.status = scholar[s].status /\ x.lab = scholar[s].lab
             /\ x.id = scholar[s].id /\ x.restored = scholar[s].restored
      BY DEF Linked, RowsInv, RowsOK, Scholar
    <2> HIDE DEF x
    <2> QED BY <1>a, <2>1, <2>2, RowPlaces DEF places
  <1>9. ASSUME NEW s \in Scholars, NEW kind \in {"none", "non_list"}, Does("link"), Link(s, kind, NoItem) PROVE WritesInv'
    <2> DEFINE x == Linked(scholar[s], kind, NoItem)
    <2>1. scholar' = [scholar EXCEPT ![s] = x] /\ setting' = setting /\ writing' = writing
      BY <1>9 DEF Link
    <2>2. \/ x.restored \/ x.status # "active"
          \/ /\ x.status = scholar[s].status /\ x.lab = scholar[s].lab
             /\ x.id = scholar[s].id /\ x.restored = scholar[s].restored
      BY DEF Linked, RowsInv, RowsOK, Scholar
    <2> HIDE DEF x
    <2> QED BY <1>a, <2>1, <2>2, RowPlaces DEF places
  <1>10. ASSUME NEW s \in Scholars, NEW i \in Items, Does("link"), LinkSend(s, i) PROVE WritesInv'
    BY <1>10, <1>b DEF LinkSend
  <1>11. ASSUME NEW r \in Requests, NEW s \in Scholars, NEW k \in DOMAIN codes, EnrollConfirm(r, k, s) PROVE WritesInv'
    <2> DEFINE c == codes[k]
    <2>1. c.purpose = "enroll" /\ c \in Code
      BY <1>11, CodesShape DEF EnrollConfirm, CodesInv
    <2>2. c.lab \in Labs /\ c.to \in Emails /\ Does("confirm") /\ (~Does("link") => c.items = {})
      BY <2>1 DEF CodesInv, CodesNamed
    <2>3. PICK i \in IF c.items = {} THEN {NoItem} ELSE c.items : Enrolls(r, s, c.lab, c.id, c.to, i, k)
      BY <1>11 DEF EnrollConfirm
    <2>4. i \in Items \cup {NoItem} /\ (~Does("link") => i = NoItem)
      BY <2>1, <2>2, <2>3 DEF Code
    <2>5. k \in 0 .. MaxCodes /\ c.id \in Ids \cup {NoId}
      BY <2>1, CodesShape, Constants DEF Code, CodesInv, CodesOK
    <2> DEFINE lab == c.lab  id == c.id  email == c.to  w == Insertion(s, lab, id, email, i, k)
    <2>6. Begin(r, w) /\ Unused(lab, id, NoOne)
      BY <2>3 DEF Enrolls
    <2>7. lab \in Labs /\ id \in Ids \cup {NoId} /\ email \in Emails
      BY <2>2, <2>5
    <2> HIDE DEF lab, id, email
    <2>8. w \in Write /\ w.item = i /\ w.code = k /\ w.lab = lab /\ w.id = id /\ w.scholar = s
      BY <2>4, <2>5, <2>7 DEF Insertion, Write
    <2> HIDE DEF w
    <2>9. Free(w)
      BY <2>6, <2>8, Constants DEF Free, Unused, Clash
    <2>10. ~Pages
      BY <2>2 DEF Pages, Does
    <2> QED BY <2>1, <2>4, <2>6, <2>8, <2>9, <2>10, BeginKeeps
  <1>12. ASSUME NEW batch \in SUBSET Items, NEW s \in Scholars, IssueSend(batch, s) PROVE WritesInv'
    BY <1>12, <1>b DEF IssueSend
  <1>13. ASSUME NEW batch \in SUBSET Items, NEW s \in Scholars, Does("document"), IssueByDocument(batch, s) PROVE WritesInv'
    <2>1. Issue(batch, s) /\ setting' = setting /\ writing' = writing
      BY <1>13 DEF IssueByDocument
    <2> QED BY <1>a, <2>1, IssuePlaces DEF places
  <1>14. ASSUME NEW batch \in SUBSET Items, NEW lab \in Labs, RevokeSend(batch, lab) PROVE WritesInv'
    BY <1>14, <1>b DEF RevokeSend
  <1>15. ASSUME NEW lab \in Labs, NEW id \in Ids \cup {NoId}, NEW email \in Addresses, NEW i \in Inventory, Does("confirm"), EnrollSend(lab, id, email, i) PROVE WritesInv'
    BY <1>15, <1>b DEF EnrollSend
  <1>16. ASSUME NEW k \in DOMAIN codes, IssueConfirm(k) PROVE WritesInv'
    <2>1. /\ Present(k, "issue") /\ Issue(codes[k].items, codes[k].scholar)
          /\ setting' = setting /\ writing' = writing
      BY <1>16 DEF IssueConfirm
    <2>2. codes[k] \in Code /\ codes[k].purpose = "issue"
      BY <2>1, CodesShape DEF Present, CodesInv
    <2>3. codes[k].items \in SUBSET Items /\ codes[k].scholar \in Scholars
      BY <2>2 DEF Code, CodesInv, CodesNamed
    <2> QED BY <1>a, <2>1, <2>3, IssuePlaces DEF places
  <1>17. ASSUME NEW k \in DOMAIN codes, RevokeConfirm(k) PROVE WritesInv'
    <2> DEFINE still == {i \in codes[k].items : item[i].holder # NoOne}
    <2>1. AfterRevoke(still) /\ setting' = setting /\ writing' = writing
      BY <1>17 DEF RevokeConfirm
    <2>2. still \in SUBSET Items
      BY CodesShape DEF CodesInv, Code
    <2> HIDE DEF still
    <2> QED BY <1>a, <2>1, <2>2, RevokePlaces DEF places
  <1>18. ASSUME NEW k \in DOMAIN codes, LinkConfirm(k) PROVE WritesInv'
    <2> DEFINE s == codes[k].scholar
    <2>1. PICK i \in codes[k].items : scholar' = [scholar EXCEPT ![s] = Linked(scholar[s], "listed", i)]
      BY <1>18 DEF LinkConfirm
    <2>2. Present(k, "link") /\ setting' = setting /\ writing' = writing
      BY <1>18 DEF LinkConfirm
    <2>3. s \in Scholars
      BY <2>2 DEF Present, CodesInv, CodesNamed
    <2> DEFINE x == Linked(scholar[s], "listed", i)
    <2> HIDE DEF s
    <2>4. /\ x.status = scholar[s].status /\ x.lab = scholar[s].lab
          /\ x.id = scholar[s].id /\ x.restored = scholar[s].restored
      BY <2>3 DEF Linked, RowsInv, RowsOK, Scholar
    <2>5. scholar' = [scholar EXCEPT ![s] = x]
      BY <2>1
    <2> HIDE DEF x
    <2> QED BY <1>a, <2>2, <2>3, <2>4, <2>5, RowPlaces DEF places
  <1>19. ASSUME NEW k \in DOMAIN codes, CodeExpires(k) PROVE WritesInv'
    BY <1>19, <1>b DEF CodeExpires
  <1>20. ASSUME NEW i \in Items, Does("items"), ItemBack(i) PROVE WritesInv'
    BY <1>20, <1>b DEF ItemBack
  <1>21. ASSUME NEW i \in Items, Does("items"), ItemRemove(i) PROVE WritesInv'
    BY <1>21, <1>b DEF ItemRemove
  <1>22. ASSUME NEW i \in Items, Does("items"), ItemPurge(i) PROVE WritesInv'
    <2>1. /\ setting' = setting /\ writing' = writing
          /\ scholar' = [t \in Scholars |-> IF scholar[t].item = i THEN [scholar[t] EXCEPT !.item = NoItem]
                                            ELSE scholar[t]]
      BY <1>22 DEF ItemPurge
    <2>2. \A t \in Scholars :
             /\ scholar'[t].status = scholar[t].status /\ scholar'[t].lab = scholar[t].lab
             /\ scholar'[t].id = scholar[t].id /\ scholar'[t].restored = scholar[t].restored
      BY <2>1 DEF RowsInv, RowsOK, Scholar
    <2>3. places
      BY <2>2 DEF places, Place
    <2> QED BY <1>a, <2>1, <2>3
  <1>23. ASSUME NEW r \in Requests, Insert(r) PROVE WritesInv'
    <2>1. PICK x : Fits(writing[r].scholar, x) /\ Commit(r, writing[r].scholar, x)
      BY <1>23, InsertFits
    <2>2. writing[r].scholar \in Scholars /\ x \in Scholar
      BY <1>23, <2>1, InsertFits DEF Fits, Write
    <2> QED BY <1>c, <2>1, <2>2, CommitKeeps DEF purposes
  <1>24. ASSUME NEW r \in Requests, Update(r) PROVE WritesInv'
    <2>1. PICK x : Fits(writing[r].scholar, x) /\ Commit(r, writing[r].scholar, x)
      BY <1>24, UpdateFits
    <2>2. writing[r].scholar \in Scholars /\ x \in Scholar
      BY <1>24, <2>1, UpdateFits DEF Fits, Write
    <2> QED BY <1>c, <2>1, <2>2, CommitKeeps DEF purposes
  <1>25. ASSUME NEW r \in Requests, Fail(r) PROVE WritesInv'
    <2>1. /\ writing' = [writing EXCEPT ![r] = Idle] /\ scholar' = scholar /\ setting' = setting
          /\ writing \in [Requests -> Write \cup {Idle}]
      BY <1>25 DEF Fail, WritesInv, WritesOK
    <2>2. /\ \A q \in Requests : writing'[q] \in {writing[q], Idle}
          /\ writing' = [q \in Requests |-> writing'[q]]
      BY <2>1
    <2> QED BY <1>c, <2>1, <2>2, SamePlaces, WritesStay DEF purposes
  <1> QED BY <1>1, <1>2, <1>3, <1>4, <1>5, <1>6, <1>7, <1>8, <1>9, <1>10, <1>11, <1>12, <1>13, <1>14, <1>15, <1>16, <1>17, <1>18, <1>19, <1>20, <1>21, <1>22, <1>23, <1>24, <1>25
         DEF Next, ScholarNext, WriteNext, PageNext, CodeNext, ItemNext

-----------------------------------------------------------------------------
(* The theorems.                                                           *)

LEMMA AssignInit == Init => AssignInv
  <1> SUFFICES ASSUME Init PROVE AssignInv
    OBVIOUS
  <1> USE Constants
  <1>1. ASSUME NEW status \in {"absent", "active"}, NEW l \in Labs, NEW e \in Emails
        PROVE  /\ Fresh(status, l, e) \in Scholar /\ Fresh(status, l, e).item = NoItem
               /\ Fresh(status, l, e).kind = "none" /\ Fresh(status, l, e).id = NoId
               /\ Fresh(status, l, e).status = status
    BY DEF Fresh, Scholar, Life, Kinds
  <1>2. \A s \in Scholars : \E status \in {"absent", "active"}, l \in Labs, e \in Emails :
           /\ scholar[s] = Fresh(status, l, e)
           /\ ~Does("enroll") => status = "active"
    <2>1. CASE Does("enroll")
      BY <2>1 DEF Init
    <2>2. CASE ~Does("enroll")
      <3>1. \A s \in Scholars : scholar[s] \in {Fresh("active", l, e) : l \in Labs, e \in Addresses}
        BY <2>2 DEF Init
      <3> QED BY <2>2, <3>1, AddressType
    <2> QED BY <2>1, <2>2
  <1>3. \A s \in Scholars :
           /\ scholar[s] \in Scholar /\ scholar[s].item = NoItem /\ scholar[s].kind = "none"
           /\ scholar[s].id = NoId /\ (~Does("enroll") => scholar[s].status = "active")
    BY <1>1, <1>2
  <1>4. /\ item \in [Items -> Item] /\ \A i \in Items : item[i].holder = NoOne
        /\ \A i \in Items : ~Does("items") => item[i].status = "active"
        /\ \A i \in Items : item[i].status # "purged"
    BY DEF Init, Item, Life
  <1>5. scholar \in [Scholars -> Scholar]
    <2>1. scholar = [s \in Scholars |-> scholar[s]]
      BY DEF Init
    <2> QED BY <1>3, <2>1
  <1>6. codes = <<>> /\ setting \in Settings
    BY DEF Init
  <1>7. TypeOK
    <2>1. writing \in [Requests -> Write \cup {Idle}]
      BY DEF Init
    <2> QED BY <1>3, <1>4, <1>5, <1>6, <2>1 DEF TypeOK
  <1>8. CodesNamed /\ NewestOpen /\ WritesKnown
    BY <1>6 DEF Init, CodesNamed, NewestOpen, WritesKnown
  <1>9. SharedIdHasAReason
    BY <1>3 DEF SharedIdHasAReason, SameId
  <1>10. GoneHaveNone /\ PointerIsIssuedUnlessMoved
    BY <1>3 DEF GoneHaveNone, PointerIsIssuedUnlessMoved
  <1>11. AllPresent
    BY <1>3, <1>4 DEF AllPresent, Pages, Does
  <1>12. MirrorsAgree
    <2>1. \A s \in Scholars : Held(s) = {}
      BY <1>4 DEF Held
    <2> QED BY <1>3, <2>1 DEF MirrorsAgree
  <1> QED BY <1>7, <1>8, <1>9, <1>10, <1>11, <1>12 DEF AssignInv

\* The inductive invariant of scholars, items and codes.
THEOREM AssignCorrect == Spec => []AssignInv
  <1>1. AssignInv /\ Next => AssignInv'
    <2>1. RowsInv' /\ CodesInv' /\ WritesInv' => AssignInv'
      BY InvParts, PTL
    <2> QED BY <2>1, InvParts, StepKeeps, WritesStep
  <1>2. AssignInv /\ UNCHANGED vars => AssignInv'
    <2>1. RowsInv' /\ CodesInv' /\ WritesInv' => AssignInv'
      BY InvParts, PTL
    <2>2. ASSUME AssignInv, UNCHANGED vars PROVE WritesInv'
      BY <2>2, InvParts DEF vars, WritesInv, WritesOK, WritesKnown, Free, Pages, Does
    <2> QED BY <2>1, <2>2, InvParts, SameRows, SameCodes DEF vars
  <1> QED BY <1>1, <1>2, AssignInit, PTL DEF Spec

\* Rows, items and codes have their types; a pointer belongs to listed inventory,
\* and an item that is purged is pointed to by nobody.
THEOREM AssignTypeCorrect == Spec => []TypeOK
  <1>1. AssignInv => TypeOK
    BY DEF AssignInv
  <1> QED BY <1>1, AssignCorrect, PTL

\* Two active scholars of a lab share an ID only after a restoration, or after a
\* request that another overtook between its look and its commit (scholars.py:81-97
\* is a SELECT; neither a constraint nor a lock holds its answer).
THEOREM SharedIdsAreExplained == Spec => []SharedIdHasAReason
  <1>1. AssignInv => SharedIdHasAReason
    BY DEF AssignInv
  <1> QED BY <1>1, AssignCorrect, PTL

\* Under the Assign and Revoke pages a pointer names an item issued to its
\* scholar, but for scholars who lost another item to someone else.
THEOREM PointersAreIssued == Spec => []PointerIsIssuedUnlessMoved
  <1>1. AssignInv => PointerIsIssuedUnlessMoved
    BY DEF AssignInv
  <1> QED BY <1>1, AssignCorrect, PTL

\* Where nothing is removed the pointer and the items' holders agree.
THEOREM RecordsAgree == Spec => []MirrorsAgree
  <1>1. AssignInv => MirrorsAgree
    BY DEF AssignInv
  <1> QED BY <1>1, AssignCorrect, PTL

-----------------------------------------------------------------------------
(* Codes that are accepted.                                                *)

\* A request that looks an ID up with a code finds the code open.
LEMMA LookWasOpen ==
    ASSUME CodesInv, WritesInv, Next, NEW k \in DOMAIN codes, NEW q \in Requests,
           writing[q] = Idle, writing'[q] # Idle, writing'[q].code = k
    PROVE  codes[k].state = "open"
  <1>a. /\ writing \in [Requests -> Write \cup {Idle}] /\ k # 0
          /\ \A r \in Requests : \A w : writing' = [writing EXCEPT ![r] = w] => writing'[q] = (IF q = r THEN w ELSE Idle)
    BY CodesShape DEF WritesInv, WritesOK, CodesInv
  <1>1. ASSUME NEW r \in Requests, NEW s \in Scholars, NEW lab \in Labs, NEW id \in Ids \cup {NoId}, NEW email \in Addresses, NEW i \in Inventory, Does("enroll") \/ Does("import"), Enroll(r, s, lab, id, email, i) PROVE codes[k].state = "open"
    <2> DEFINE w == Insertion(s, lab, id, email, i, 0)
    <2>1. writing' = [writing EXCEPT ![r] = w] /\ w.code = 0
      BY <1>1 DEF Enroll, Enrolls, Begin, Insertion
    <2> HIDE DEF w
    <2> QED BY <1>a, <2>1
  <1>2. ASSUME NEW s \in Scholars, NEW lab \in Labs, NEW id \in Ids \cup {NoId}, NEW email \in Addresses, NEW i \in Inventory, Does("import"), ImportUpdate(s, lab, id, email, i) PROVE codes[k].state = "open"
    BY <1>2 DEF ImportUpdate
  <1>3. ASSUME NEW r \in Requests, NEW s \in Scholars, NEW lab \in Labs, NEW id \in Ids \cup {NoId}, Does("patch"), Patch(r, s, lab, id) PROVE codes[k].state = "open"
    <2> DEFINE changed == {c \in {"lab", "id"} : IF c = "lab" THEN lab # scholar[s].lab ELSE id # scholar[s].id}
               w == [Insertion(s, lab, id, scholar[s].email, NoItem, 0) EXCEPT !.insert = FALSE, !.columns = changed]
    <2>1. writing' = [writing EXCEPT ![r] = w] /\ w.code = 0
      BY <1>3 DEF Patch, Begin, Insertion
    <2> HIDE DEF w
    <2> QED BY <1>a, <2>1
  <1>4. ASSUME NEW s \in Scholars, NEW email \in Addresses, PatchEmail(s, email) PROVE codes[k].state = "open"
    BY <1>4 DEF PatchEmail
  <1>5. ASSUME NEW s \in Scholars, Does("people"), Remove(s) PROVE codes[k].state = "open"
    BY <1>5 DEF Remove
  <1>6. ASSUME NEW s \in Scholars, Does("people"), Restore(s) PROVE codes[k].state = "open"
    BY <1>6 DEF Restore
  <1>7. ASSUME NEW s \in Scholars, Does("people"), Purge(s) PROVE codes[k].state = "open"
    BY <1>7 DEF Purge
  <1>8. ASSUME NEW s \in Scholars, NEW i \in Items, Does("link"), Link(s, "listed", i) PROVE codes[k].state = "open"
    BY <1>8 DEF Link
  <1>9. ASSUME NEW s \in Scholars, NEW kind \in {"none", "non_list"}, Does("link"), Link(s, kind, NoItem) PROVE codes[k].state = "open"
    BY <1>9 DEF Link
  <1>10. ASSUME NEW s \in Scholars, NEW i \in Items, Does("link"), LinkSend(s, i) PROVE codes[k].state = "open"
    BY <1>10 DEF LinkSend
  <1>11. ASSUME NEW r \in Requests, NEW s \in Scholars, NEW m \in DOMAIN codes, EnrollConfirm(r, m, s) PROVE codes[k].state = "open"
    <2>1. PICK i : Enrolls(r, s, codes[m].lab, codes[m].id, codes[m].to, i, m)
      BY <1>11 DEF EnrollConfirm
    <2> DEFINE w == Insertion(s, codes[m].lab, codes[m].id, codes[m].to, i, m)
    <2>2. writing' = [writing EXCEPT ![r] = w] /\ w.code = m
      BY <2>1 DEF Enrolls, Begin, Insertion
    <2> HIDE DEF w
    <2>3. codes[m].state = "open"
      BY <1>11 DEF EnrollConfirm, Good
    <2> QED BY <1>a, <2>2, <2>3
  <1>12. ASSUME NEW batch \in SUBSET Items, NEW s \in Scholars, IssueSend(batch, s) PROVE codes[k].state = "open"
    BY <1>12 DEF IssueSend
  <1>13. ASSUME NEW batch \in SUBSET Items, NEW s \in Scholars, Does("document"), IssueByDocument(batch, s) PROVE codes[k].state = "open"
    BY <1>13 DEF IssueByDocument
  <1>14. ASSUME NEW batch \in SUBSET Items, NEW lab \in Labs, RevokeSend(batch, lab) PROVE codes[k].state = "open"
    BY <1>14 DEF RevokeSend
  <1>15. ASSUME NEW lab \in Labs, NEW id \in Ids \cup {NoId}, NEW email \in Addresses, NEW i \in Inventory, Does("confirm"), EnrollSend(lab, id, email, i) PROVE codes[k].state = "open"
    BY <1>15 DEF EnrollSend
  <1>16. ASSUME NEW m \in DOMAIN codes, IssueConfirm(m) PROVE codes[k].state = "open"
    BY <1>16 DEF IssueConfirm
  <1>17. ASSUME NEW m \in DOMAIN codes, RevokeConfirm(m) PROVE codes[k].state = "open"
    BY <1>17 DEF RevokeConfirm
  <1>18. ASSUME NEW m \in DOMAIN codes, LinkConfirm(m) PROVE codes[k].state = "open"
    BY <1>18 DEF LinkConfirm
  <1>19. ASSUME NEW m \in DOMAIN codes, CodeExpires(m) PROVE codes[k].state = "open"
    BY <1>19 DEF CodeExpires
  <1>20. ASSUME NEW i \in Items, Does("items"), ItemBack(i) PROVE codes[k].state = "open"
    BY <1>20 DEF ItemBack
  <1>21. ASSUME NEW i \in Items, Does("items"), ItemRemove(i) PROVE codes[k].state = "open"
    BY <1>21 DEF ItemRemove
  <1>22. ASSUME NEW i \in Items, Does("items"), ItemPurge(i) PROVE codes[k].state = "open"
    BY <1>22 DEF ItemPurge
  <1>23. ASSUME NEW r \in Requests, Insert(r) PROVE codes[k].state = "open"
    BY <1>23 DEF Insert, Commit
  <1>24. ASSUME NEW r \in Requests, Update(r) PROVE codes[k].state = "open"
    BY <1>24 DEF Update, Commit
  <1>25. ASSUME NEW r \in Requests, Fail(r) PROVE codes[k].state = "open"
    BY <1>25, <1>a DEF Fail
  <1> QED BY <1>1, <1>2, <1>3, <1>4, <1>5, <1>6, <1>7, <1>8, <1>9, <1>10, <1>11, <1>12, <1>13, <1>14, <1>15, <1>16, <1>17, <1>18, <1>19, <1>20, <1>21, <1>22, <1>23, <1>24, <1>25
         DEF Next, ScholarNext, WriteNext, PageNext, CodeNext, ItemNext

\* Only the newest code for a purpose and an address is accepted (email_otp.py
\* expires the open ones whenever it sends another).
THEOREM OnlyNewestAccepted == Spec => NewestCodeOnly
  <1>1. AssignInv /\ [Next]_vars =>
          [\A k \in DOMAIN codes : Accepted(k) =>
              \A n \in DOMAIN codes : n > k => codes[n].purpose # codes[k].purpose \/ codes[n].to # codes[k].to]_vars
    <2> SUFFICES ASSUME AssignInv, Next, NEW k \in DOMAIN codes, Accepted(k), NEW n \in DOMAIN codes, n > k
                 PROVE  codes[n].purpose # codes[k].purpose \/ codes[n].to # codes[k].to
      OBVIOUS
    <2>1. codes[k].state = "open"
      <3>1. CASE \E r \in Requests : writing[r] = Idle /\ writing'[r] # Idle /\ writing'[r].code = k
        BY <3>1, InvParts, LookWasOpen
      <3>2. CASE codes[k].purpose # "enroll" /\ codes[k].state # codes'[k].state /\ codes'[k].state = "spent"
        BY <3>2, InvParts, CodesStay DEF Stays
      <3> QED BY <3>1, <3>2 DEF Accepted
    <2>2. k < n
      BY InvParts, CodesShape DEF CodesInv
    <2> QED BY <2>1, <2>2, InvParts DEF CodesInv, NewestOpen
  <1> QED BY <1>1, AssignCorrect, PTL DEF Spec, NewestCodeOnly

-----------------------------------------------------------------------------
(* Items that change hands.                                                *)

\* The step by which an item gets another holder.
LEMMA MoveIsConfirmed ==
    ASSUME RowsInv, CodesInv, WritesInv, Next, NEW i \in Items,
           item[i].holder # item'[i].holder, item'[i].status # "purged"
    PROVE  Does("document") \/ Confirmed(i, item'[i].holder)
  <1>1. ASSUME NEW r \in Requests, NEW s \in Scholars, NEW lab \in Labs, NEW id \in Ids \cup {NoId}, NEW email \in Addresses, NEW j \in Inventory, Does("enroll") \/ Does("import"), Enroll(r, s, lab, id, email, j) PROVE Does("document") \/ Confirmed(i, item'[i].holder)
    BY <1>1 DEF Enroll, Enrolls, Begin
  <1>2. ASSUME NEW s \in Scholars, NEW lab \in Labs, NEW id \in Ids \cup {NoId}, NEW email \in Addresses, NEW j \in Inventory, Does("import"), ImportUpdate(s, lab, id, email, j) PROVE Does("document") \/ Confirmed(i, item'[i].holder)
    BY <1>2 DEF ImportUpdate
  <1>3. ASSUME NEW r \in Requests, NEW s \in Scholars, NEW lab \in Labs, NEW id \in Ids \cup {NoId}, Does("patch"), Patch(r, s, lab, id) PROVE Does("document") \/ Confirmed(i, item'[i].holder)
    BY <1>3 DEF Patch, Begin
  <1>4. ASSUME NEW s \in Scholars, NEW email \in Addresses, PatchEmail(s, email) PROVE Does("document") \/ Confirmed(i, item'[i].holder)
    BY <1>4 DEF PatchEmail
  <1>5. ASSUME NEW s \in Scholars, Does("people"), Remove(s) PROVE Does("document") \/ Confirmed(i, item'[i].holder)
    BY <1>5 DEF Remove
  <1>6. ASSUME NEW s \in Scholars, Does("people"), Restore(s) PROVE Does("document") \/ Confirmed(i, item'[i].holder)
    BY <1>6 DEF Restore
  <1>7. ASSUME NEW s \in Scholars, Does("people"), Purge(s) PROVE Does("document") \/ Confirmed(i, item'[i].holder)
    BY <1>7 DEF Purge
  <1>8. ASSUME NEW s \in Scholars, NEW j \in Items, Does("link"), Link(s, "listed", j) PROVE Does("document") \/ Confirmed(i, item'[i].holder)
    BY <1>8 DEF Link
  <1>9. ASSUME NEW s \in Scholars, NEW kind \in {"none", "non_list"}, Does("link"), Link(s, kind, NoItem) PROVE Does("document") \/ Confirmed(i, item'[i].holder)
    BY <1>9 DEF Link
  <1>10. ASSUME NEW s \in Scholars, NEW j \in Items, Does("link"), LinkSend(s, j) PROVE Does("document") \/ Confirmed(i, item'[i].holder)
    BY <1>10 DEF LinkSend
  <1>11. ASSUME NEW r \in Requests, NEW s \in Scholars, NEW k \in DOMAIN codes, EnrollConfirm(r, k, s) PROVE Does("document") \/ Confirmed(i, item'[i].holder)
    BY <1>11 DEF EnrollConfirm, Enrolls, Begin
  <1>12. ASSUME NEW batch \in SUBSET Items, NEW s \in Scholars, IssueSend(batch, s) PROVE Does("document") \/ Confirmed(i, item'[i].holder)
    BY <1>12 DEF IssueSend
  <1>13. ASSUME NEW batch \in SUBSET Items, NEW s \in Scholars, Does("document"), IssueByDocument(batch, s) PROVE Does("document") \/ Confirmed(i, item'[i].holder)
    BY <1>13
  <1>14. ASSUME NEW batch \in SUBSET Items, NEW lab \in Labs, RevokeSend(batch, lab) PROVE Does("document") \/ Confirmed(i, item'[i].holder)
    BY <1>14 DEF RevokeSend
  <1>15. ASSUME NEW lab \in Labs, NEW id \in Ids \cup {NoId}, NEW email \in Addresses, NEW j \in Inventory, Does("confirm"), EnrollSend(lab, id, email, j) PROVE Does("document") \/ Confirmed(i, item'[i].holder)
    BY <1>15 DEF EnrollSend
  <1>16. ASSUME NEW k \in DOMAIN codes, IssueConfirm(k) PROVE Does("document") \/ Confirmed(i, item'[i].holder)
    <2>1. Present(k, "issue") /\ Issue(codes[k].items, codes[k].scholar)
      BY <1>16 DEF IssueConfirm
    <2>2. codes[k].state = "open" /\ codes'[k].state = "spent" /\ codes[k].purpose = "issue"
      BY <2>1, PresentSpends DEF CodesInv
    <2>3. codes[k].scholar \in Scholars
      BY <2>2 DEF CodesInv, CodesNamed
    <2>4. i \in codes[k].items /\ item'[i].holder = codes[k].scholar
      BY <2>1 DEF Issue, RowsInv, RowsOK, Item
    <2> QED BY <2>2, <2>3, <2>4, Constants DEF Confirmed
  <1>17. ASSUME NEW k \in DOMAIN codes, RevokeConfirm(k) PROVE Does("document") \/ Confirmed(i, item'[i].holder)
    <2> DEFINE still == {x \in codes[k].items : item[x].holder # NoOne}
    <2>1. /\ Present(k, "revoke")
          /\ item' = [x \in Items |-> IF x \in still THEN [item[x] EXCEPT !.holder = NoOne] ELSE item[x]]
      BY <1>17 DEF RevokeConfirm
    <2>2. codes[k].state = "open" /\ codes'[k].state = "spent" /\ codes[k].purpose = "revoke"
      BY <2>1, PresentSpends DEF CodesInv
    <2>3. codes[k].scholar = NoOne
      BY <2>2 DEF CodesInv, CodesNamed
    <2>4. i \in still /\ item'[i].holder = NoOne
      BY <2>1 DEF RowsInv, RowsOK, Item
    <2> QED BY <2>2, <2>3, <2>4 DEF Confirmed
  <1>18. ASSUME NEW k \in DOMAIN codes, LinkConfirm(k) PROVE Does("document") \/ Confirmed(i, item'[i].holder)
    BY <1>18 DEF LinkConfirm
  <1>19. ASSUME NEW k \in DOMAIN codes, CodeExpires(k) PROVE Does("document") \/ Confirmed(i, item'[i].holder)
    BY <1>19 DEF CodeExpires
  <1>20. ASSUME NEW j \in Items, Does("items"), ItemBack(j) PROVE Does("document") \/ Confirmed(i, item'[i].holder)
    <2>1. item'[i].holder = item[i].holder
      BY <1>20 DEF ItemBack, RowsInv, RowsOK, Item
    <2> QED BY <2>1
  <1>21. ASSUME NEW j \in Items, Does("items"), ItemRemove(j) PROVE Does("document") \/ Confirmed(i, item'[i].holder)
    <2>1. item'[i].holder = item[i].holder
      BY <1>21 DEF ItemRemove, RowsInv, RowsOK, Item
    <2> QED BY <2>1
  <1>22. ASSUME NEW j \in Items, Does("items"), ItemPurge(j) PROVE Does("document") \/ Confirmed(i, item'[i].holder)
    <2>1. item' = [item EXCEPT ![j] = [status |-> "purged", holder |-> NoOne]]
      BY <1>22 DEF ItemPurge
    <2>2. CASE i = j
      BY <2>1, <2>2 DEF RowsInv, RowsOK
    <2>3. CASE i # j
      BY <2>1, <2>3 DEF RowsInv, RowsOK
    <2> QED BY <2>2, <2>3
  <1>23. ASSUME NEW r \in Requests, Insert(r) PROVE Does("document") \/ Confirmed(i, item'[i].holder)
    BY <1>23 DEF Insert, Commit
  <1>24. ASSUME NEW r \in Requests, Update(r) PROVE Does("document") \/ Confirmed(i, item'[i].holder)
    BY <1>24 DEF Update, Commit
  <1>25. ASSUME NEW r \in Requests, Fail(r) PROVE Does("document") \/ Confirmed(i, item'[i].holder)
    BY <1>25 DEF Fail
  <1> QED BY <1>1, <1>2, <1>3, <1>4, <1>5, <1>6, <1>7, <1>8, <1>9, <1>10, <1>11, <1>12, <1>13, <1>14, <1>15, <1>16, <1>17, <1>18, <1>19, <1>20, <1>21, <1>22, <1>23, <1>24, <1>25
         DEF Next, ScholarNext, WriteNext, PageNext, CodeNext, ItemNext

\* An item changes hands by a document, or by an open code that names it and was
\* sent for its new holder, or to the owner of a lab for a revocation.
THEOREM MovesAreConfirmed == Spec => MovesOnlyByConsent
  <1>1. AssignInv /\ [Next]_vars =>
          [\A i \in Items : item[i].holder # item'[i].holder /\ item'[i].status # "purged" =>
              Does("document") \/ Confirmed(i, item'[i].holder)]_vars
    BY InvParts, MoveIsConfirmed
  <1> QED BY <1>1, AssignCorrect, PTL DEF Spec, MovesOnlyByConsent
=============================================================================
