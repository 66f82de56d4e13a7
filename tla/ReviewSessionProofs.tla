------------------------- MODULE ReviewSessionProofs -------------------------
(***************************************************************************)
(* What the review page keeps for every pack, page, tab and gesture: the   *)
(* types, the safety invariants of ReviewSession and the content of a      *)
(* final file.                                                             *)
(*                                                                         *)
(* Every tab is looked at alone (Good).  Storage is the one thing tabs     *)
(* share: a tab whose envelope is stored has nothing unsaved that it has   *)
(* not said (Truth), and a save of another tab makes the envelope another's*)
(* (Saved), which is why no interleaving can disturb it.                   *)
(***************************************************************************)
EXTENDS ReviewSession, TLAPS

Drafts == UNION {[S -> Item] : S \in SUBSET Entries}

Session ==
  [open : BOOLEAN, mem : [Entries -> Kept], drafts : Drafts, undo : Undo,
   current : Entries, page : Pages, selected : SUBSET Entries,
   timer : BOOLEAN, warned : BOOLEAN, importing : Files \union {NoFile}]

Fits(s) == s.undo # NoUndo => Matches(s.undo, s.mem)

\* A draft is of an entry whose decision is edit, which the next conjunct
\* carries over to memory.
DraftsAgree(s) ==
  \A r \in DOMAIN s.drafts :
    /\ s.drafts[r].decision = "edit" /\ s.mem[r].decision = "edit"
    /\ s.drafts[r].note = s.mem[r].note
    /\ Valid(s.drafts[r]) => s.drafts[r] = s.mem[r]

SelectionFits(s) == \A r \in s.selected : r \in s.page /\ Eligible(s, r)

Good(s) == s \in Session /\ Fits(s) /\ DraftsAgree(s) /\ SelectionFits(s)

\* Storage d holds what the tab t, at s, has, unless something is pending.
Truth(t, s, d) ==
  /\ s.open /\ ~s.timer /\ ~s.warned
  /\ d # NoEnvelope /\ d.by = t
  => d.items = s.mem /\ d.undo = s.undo

DiskGood(d) ==
  d # NoEnvelope =>
    /\ d \in Envelopes(Tab \union {Outside})
    /\ d.by \in Tab => d.version = 3 /\ Loadable(d)

\* What the tab t may have done to the storage d.
Saved(t, d, after) == after = d \/ after = NoEnvelope \/ after.by = t

Core(vw, d) ==
  /\ DOMAIN vw = Tab /\ vw = [t \in Tab |-> vw[t]]
  /\ \A t \in Tab : Good(vw[t]) /\ Truth(t, vw[t], d)
  /\ DiskGood(d)

IInv ==
  /\ Core(view, stored)
  /\ file \in Files \union {NoFile}
  /\ gestures \in 0 .. MaxGestures

-----------------------------------------------------------------------------
(* Items, envelopes and drafts.                                            *)

LEMMA KeptItems ==
  \A i : i \in Kept <=>
    /\ i \in Item /\ i.text # Bad
    /\ i.decision # "edit" => i.text = Candidate
<1>1. ASSUME NEW i \in Item
      PROVE  Written(i) = i <=> (i.decision # "edit" => i.text = Candidate)
  BY <1>1 DEF Item, Written
<1> QED BY <1>1 DEF Kept, Valid

LEMMA DefaultKept == Default \in Kept
  BY KeptItems, ReviewAssumption DEF Default, Item, Decision

LEMMA AfterKept ==
  ASSUME NEW i \in Kept, NEW d \in {"accept", "reject"}
  PROVE  After(d, i) \in Kept /\ After(d, i).decision = d
<1>1. i \in Item
  BY KeptItems
<1>2. /\ After(d, i) \in Item
      /\ After(d, i).decision = d /\ After(d, i).text = Candidate
  BY <1>1 DEF After, Item, Decision
<1> QED BY <1>2, KeptItems, ReviewAssumption

LEMMA NoDrafts == <<>> \in Drafts /\ DOMAIN <<>> = {}
<1>1. <<>> \in [{} -> Item]
  OBVIOUS
<1>2. {} \in SUBSET Entries
  OBVIOUS
<1> QED BY <1>1, <1>2 DEF Drafts

LEMMA DraftsShape ==
  \A f : f \in Drafts <=> DOMAIN f \subseteq Entries /\ f \in [DOMAIN f -> Item]
  BY DEF Drafts

LEMMA Restricted ==
  ASSUME NEW f \in Drafts, NEW S \in SUBSET DOMAIN f
  PROVE  /\ Restrict(f, S) \in Drafts /\ DOMAIN Restrict(f, S) = S
         /\ \A r \in S : Restrict(f, S)[r] = f[r]
  BY DraftsShape DEF Restrict

LEMMA UndoShape ==
  \A u : u \in Undo <=>
    \/ u = NoUndo
    \/ /\ u \in [decision : {"accept", "reject"}, before : {u.before}]
       /\ u.before \in [DOMAIN u.before -> Kept]
       /\ DOMAIN u.before \subseteq Entries /\ DOMAIN u.before # {}
  BY DEF Undo

\* An envelope loses nothing of what a tab holds.
LEMMA EnvelopeIsWhole ==
  ASSUME NEW t \in Tab, NEW s \in Session, Fits(s)
  PROVE  /\ Envelope(t, s).by = t /\ Envelope(t, s).version = 3
         /\ Envelope(t, s).items = s.mem /\ Envelope(t, s).undo = s.undo
         /\ DiskGood(Envelope(t, s))
<1>1. WrittenAll(s.mem) = s.mem
  BY DEF Session, WrittenAll, Kept
<1>2. WrittenUndo(s.undo) = s.undo
  <2>1. CASE s.undo = NoUndo
    BY <2>1 DEF WrittenUndo
  <2>2. CASE s.undo # NoUndo
    <3> DEFINE b == s.undo.before
    <3>1. /\ s.undo \in [decision : {"accept", "reject"}, before : {b}]
          /\ b \in [DOMAIN b -> Kept]
      BY <2>2, UndoShape DEF Session
    <3>2. [r \in DOMAIN b |-> Written(b[r])] = b
      BY <3>1 DEF Kept
    <3>3. [s.undo EXCEPT !.before = b] = s.undo
      BY <3>1
    <3> QED BY <2>2, <3>2, <3>3 DEF WrittenUndo
  <2> QED BY <2>1, <2>2
<1>3. Envelope(t, s) = [by |-> t, version |-> 3, items |-> s.mem, undo |-> s.undo]
  BY <1>1, <1>2 DEF Envelope
<1>4. Envelope(t, s) \in Envelopes(Tab \union {Outside})
  BY <1>3 DEF Envelopes, Session
<1>5. Loadable(Envelope(t, s))
  BY <1>3 DEF Loadable, Fits
<1> QED BY <1>3, <1>4, <1>5 DEF DiskGood

-----------------------------------------------------------------------------
(* The helpers keep a tab good.                                            *)

\* Nothing typed and nothing selected leaves only the undo to look at.
LEMMA FreshGood ==
  ASSUME NEW s \in Session, s.drafts = <<>>, s.selected = {}, Fits(s)
  PROVE  Good(s)
  BY NoDrafts DEF Good, DraftsAgree, SelectionFits

LEMMA ClosedFields ==
  /\ Closed \in Session /\ Closed.mem = Blank /\ Closed.undo = NoUndo
  /\ Closed.drafts = <<>> /\ Closed.selected = {}
  /\ ~Closed.open /\ ~Closed.timer /\ ~Closed.warned
<1>1. Blank \in [Entries -> Kept]
  BY DefaultKept DEF Blank
<1>2. NoUndo \in Undo
  BY DEF Undo
<1>3. (CHOOSE r \in Entries : TRUE) \in Entries /\ (CHOOSE p \in Pages : TRUE) \in Pages
  BY ReviewAssumption
<1> QED BY <1>1, <1>2, <1>3, NoDrafts DEF Closed, Session

LEMMA ClosedGood == Good(Closed)
  BY ClosedFields, FreshGood DEF Fits

LEMMA SettledGood ==
  ASSUME NEW s, Good(s)
  PROVE  /\ Good(Settled(s))
         /\ Settled(s).mem = s.mem /\ Settled(s).undo = s.undo
         /\ Settled(s).open = s.open /\ Settled(s).warned = s.warned
         /\ Settled(s).current = s.current /\ Settled(s).page = s.page
         /\ Settled(s).selected = s.selected /\ Settled(s).importing = s.importing
         /\ ~Settled(s).timer
         /\ DOMAIN Settled(s).drafts = {r \in DOMAIN s.drafts : ~Valid(s.drafts[r])}
         /\ \A r \in DOMAIN Settled(s).drafts : Settled(s).drafts[r] = s.drafts[r]
<1> DEFINE bad == {r \in DOMAIN s.drafts : ~Valid(s.drafts[r])}
           d == Restrict(s.drafts, bad)
<1>1. s \in Session
  BY DEF Good
<1>2. /\ d \in Drafts /\ DOMAIN d = bad /\ \A r \in bad : d[r] = s.drafts[r]
  <2>1. s.drafts \in Drafts /\ bad \in SUBSET DOMAIN s.drafts
    BY <1>1 DEF Session
  <2> QED BY <2>1, Restricted
<1>3. Settled(s) = [s EXCEPT !.timer = FALSE, !.drafts = d]
  BY DEF Settled
<1> HIDE DEF d
<1>4. /\ Settled(s) \in Session
      /\ Settled(s).mem = s.mem /\ Settled(s).undo = s.undo
      /\ Settled(s).open = s.open /\ Settled(s).warned = s.warned
      /\ Settled(s).current = s.current /\ Settled(s).page = s.page
      /\ Settled(s).selected = s.selected /\ Settled(s).importing = s.importing
      /\ ~Settled(s).timer /\ Settled(s).drafts = d
  BY <1>1, <1>2, <1>3 DEF Session
<1>5. Fits(Settled(s)) /\ DraftsAgree(Settled(s)) /\ SelectionFits(Settled(s))
  BY <1>2, <1>4 DEF Good, Fits, DraftsAgree, SelectionFits, Eligible, HasInvalidDraft
<1> QED BY <1>2, <1>4, <1>5 DEF Good

\* One entry of memory changes; the undo goes when the entry is of its batch.
LEMMA SetMemoryFits ==
  ASSUME NEW s \in Session, Fits(s), NEW r \in Entries, NEW item \in Kept
  PROVE  /\ SetMemory(s, r, item) \in Session /\ Fits(SetMemory(s, r, item))
         /\ SetMemory(s, r, item).mem = [s.mem EXCEPT ![r] = item]
         /\ SetMemory(s, r, item).drafts = s.drafts
         /\ SetMemory(s, r, item).open = s.open
         /\ SetMemory(s, r, item).current = s.current
         /\ SetMemory(s, r, item).page = s.page
         /\ SetMemory(s, r, item).selected = s.selected
         /\ SetMemory(s, r, item).timer = s.timer
         /\ SetMemory(s, r, item).warned = s.warned
         /\ SetMemory(s, r, item).importing = s.importing
<1> DEFINE batch == IF s.undo = NoUndo THEN {} ELSE DOMAIN s.undo.before
           u == IF r \in batch /\ s.mem[r] # item THEN NoUndo ELSE s.undo
           m == [s.mem EXCEPT ![r] = item]
<1>1. SetMemory(s, r, item) = [s EXCEPT !.mem[r] = item, !.undo = u]
  BY DEF SetMemory, Session
<1>2. u \in Undo /\ m \in [Entries -> Kept]
  BY DEF Undo, Session
<1>3. u # NoUndo => Matches(u, m)
  <2>1. SUFFICES ASSUME u # NoUndo PROVE Matches(u, m)
    OBVIOUS
  <2>2. u = s.undo /\ Matches(s.undo, s.mem)
    BY <2>1 DEF Fits
  <2>3. DOMAIN s.undo.before \subseteq Entries
    BY <2>1, <2>2, UndoShape DEF Session
  <2>4. \A q \in DOMAIN s.undo.before : m[q] = s.mem[q]
    <3>1. batch = DOMAIN s.undo.before
      BY <2>1, <2>2
    <3>2. r \notin DOMAIN s.undo.before \/ s.mem[r] = item
      BY <2>1, <3>1
    <3> QED BY <2>3, <3>2 DEF Session
  <2> QED BY <2>2, <2>4 DEF Matches
<1> HIDE DEF u
<1>4. SetMemory(s, r, item) = [s EXCEPT !.mem = m, !.undo = u]
  BY <1>1 DEF Session
<1> HIDE DEF m
<1>5. /\ SetMemory(s, r, item) \in Session
      /\ SetMemory(s, r, item).mem = m /\ SetMemory(s, r, item).undo = u
      /\ SetMemory(s, r, item).drafts = s.drafts
      /\ SetMemory(s, r, item).open = s.open
      /\ SetMemory(s, r, item).current = s.current
      /\ SetMemory(s, r, item).page = s.page
      /\ SetMemory(s, r, item).selected = s.selected
      /\ SetMemory(s, r, item).timer = s.timer
      /\ SetMemory(s, r, item).warned = s.warned
      /\ SetMemory(s, r, item).importing = s.importing
  BY <1>2, <1>4 DEF Session
<1>6. Fits(SetMemory(s, r, item))
  BY <1>3, <1>5 DEF Fits
<1> QED BY <1>5, <1>6 DEF m

LEMMA WithDraftFields ==
  ASSUME NEW s \in Session, NEW r \in Entries, NEW item \in Item
  PROVE  LET w == WithDraft(s, r, item)
         IN  /\ w \in Session /\ w.mem = s.mem /\ w.undo = s.undo
             /\ w.open = s.open /\ w.page = s.page /\ w.current = s.current
             /\ w.selected = s.selected /\ w.timer = s.timer
             /\ w.warned = s.warned /\ w.importing = s.importing
             /\ DOMAIN w.drafts = DOMAIN s.drafts \union {r}
             /\ w.drafts[r] = item
             /\ \A q \in DOMAIN s.drafts \ {r} : w.drafts[q] = s.drafts[q]
<1> DEFINE d == [q \in DOMAIN s.drafts \union {r} |->
                   IF q = r THEN item ELSE s.drafts[q]]
<1>1. d \in Drafts
  <2>1. DOMAIN s.drafts \subseteq Entries /\ s.drafts \in [DOMAIN s.drafts -> Item]
    BY DraftsShape DEF Session
  <2>2. DOMAIN d \subseteq Entries /\ d \in [DOMAIN d -> Item]
    BY <2>1
  <2> QED BY <2>2, DraftsShape
<1>2. /\ DOMAIN d = DOMAIN s.drafts \union {r} /\ d[r] = item
      /\ \A q \in DOMAIN s.drafts \ {r} : d[q] = s.drafts[q]
  OBVIOUS
<1>3. WithDraft(s, r, item) = [s EXCEPT !.drafts = d]
  BY DEF WithDraft, Session
<1> HIDE DEF d
<1> QED BY <1>1, <1>2, <1>3 DEF Session

LEMMA WithoutFields ==
  ASSUME NEW s \in Session, NEW r \in Entries
  PROVE  LET w == Without(s, r)
         IN  /\ w \in Session /\ w.mem = s.mem /\ w.undo = s.undo
             /\ w.open = s.open /\ w.page = s.page /\ w.current = s.current
             /\ w.selected = s.selected /\ w.timer = s.timer
             /\ w.warned = s.warned /\ w.importing = s.importing
             /\ DOMAIN w.drafts = DOMAIN s.drafts \ {r}
             /\ \A q \in DOMAIN w.drafts : w.drafts[q] = s.drafts[q]
<1> DEFINE d == Restrict(s.drafts, DOMAIN s.drafts \ {r})
<1>1. /\ d \in Drafts /\ DOMAIN d = DOMAIN s.drafts \ {r}
      /\ \A q \in DOMAIN d : d[q] = s.drafts[q]
  BY Restricted DEF Session
<1>2. Without(s, r) = [s EXCEPT !.drafts = d]
  BY DEF Without, Session
<1> HIDE DEF d
<1> QED BY <1>1, <1>2 DEF Session

\* A save that works or throws: the tab is as it was but for the warning,
\* and storage is as it was or holds what the tab has.
LEMMA SavesGood ==
  ASSUME NEW t \in Tab, NEW s, Good(s), NEW disk, DiskGood(disk),
         NEW o \in Saves(t, s, disk)
  PROVE  /\ Good(o.tab) /\ DiskGood(o.disk) /\ Truth(t, o.tab, o.disk)
         /\ o.disk = disk \/ o.disk.by = t
         /\ o.tab.mem = s.mem /\ o.tab.undo = s.undo /\ o.tab.drafts = s.drafts
         /\ o.tab.open = s.open /\ o.tab.timer = s.timer
         /\ o.tab.current = s.current /\ o.tab.page = s.page
         /\ o.tab.selected = s.selected /\ o.tab.importing = s.importing
         /\ s.warned => o.tab.warned
         /\ o = [tab |-> o.tab, disk |-> o.disk]
<1>1. s \in Session /\ Fits(s)
  BY DEF Good
<1>2. CASE o = [tab |-> s, disk |-> Envelope(t, s)]
  BY <1>1, <1>2, EnvelopeIsWhole DEF Truth
<1>3. CASE o = [tab |-> [s EXCEPT !.warned = TRUE], disk |-> disk]
  <2> DEFINE w == [s EXCEPT !.warned = TRUE]
  <2>1. /\ w \in Session /\ w.mem = s.mem /\ w.undo = s.undo /\ w.drafts = s.drafts
        /\ w.open = s.open /\ w.timer = s.timer
        /\ w.current = s.current /\ w.page = s.page
        /\ w.selected = s.selected /\ w.importing = s.importing /\ w.warned
    BY <1>1 DEF Session
  <2> HIDE DEF w
  <2>2. Good(w)
    BY <2>1 DEF Good, Fits, DraftsAgree, SelectionFits, Eligible, HasInvalidDraft
  <2>3. o.tab = w /\ o.disk = disk
    BY <1>3 DEF w
  <2>4. o = [tab |-> o.tab, disk |-> o.disk]
    BY <1>3
  <2> QED BY <2>1, <2>2, <2>3, <2>4 DEF Truth
<1> QED BY <1>2, <1>3 DEF Saves

\* Rendering only moves the page, the current entry and the selection.
LEMMA RendersGood ==
  ASSUME NEW t \in Tab, NEW s \in Session, Fits(s), DraftsAgree(s),
         NEW p \in Pages, NEW d, Truth(t, s, d), NEW n \in Renders(s, p)
  PROVE  /\ Good(n) /\ Truth(t, n, d) /\ n.open = s.open /\ n.mem = s.mem
<1>1. p # {} /\ p \subseteq Entries
  BY ReviewAssumption
<1>2. (CHOOSE r \in p : TRUE) \in Entries
  BY <1>1
<1>3. PICK c \in Entries :
        n = [s EXCEPT !.page = p, !.current = c,
                      !.selected = {r \in s.selected \intersect p : Eligible(s, r)}]
  BY <1>2 DEF Renders, Session
<1> DEFINE sel == {r \in s.selected \intersect p : Eligible(s, r)}
<1>4. sel \in SUBSET Entries /\ \A r \in sel : r \in p /\ Eligible(s, r)
  BY <1>1
<1> HIDE DEF sel
<1>5. n = [s EXCEPT !.page = p, !.current = c, !.selected = sel]
  BY <1>3 DEF sel
<1>6. /\ n \in Session /\ n.mem = s.mem /\ n.undo = s.undo /\ n.drafts = s.drafts
      /\ n.open = s.open /\ n.timer = s.timer /\ n.warned = s.warned
      /\ n.page = p /\ n.selected = sel
  BY <1>4, <1>5 DEF Session
<1>7. Fits(n) /\ DraftsAgree(n) /\ Truth(t, n, d)
  BY <1>6 DEF Fits, DraftsAgree, Truth
<1>8. SelectionFits(n)
  BY <1>4, <1>6 DEF SelectionFits, Eligible, HasInvalidDraft
<1> QED BY <1>6, <1>7, <1>8 DEF Good

-----------------------------------------------------------------------------
(* One tab steps.                                                          *)

LEMMA OthersStayTrue ==
  ASSUME Core(view, stored), NEW t \in Tab, NEW s, Show(t, s), Good(s),
         DiskGood(stored'), Truth(t, s, stored'), Saved(t, stored, stored')
  PROVE  Core(view', stored')
<1>1. view' = [view EXCEPT ![t] = s]
  BY DEF Show
<1>2. /\ DOMAIN view' = Tab /\ view' = [u \in Tab |-> view'[u]] /\ view'[t] = s
      /\ \A u \in Tab \ {t} : view'[u] = view[u]
  BY <1>1 DEF Core
<1>3. ASSUME NEW u \in Tab PROVE Good(view'[u]) /\ Truth(u, view'[u], stored')
  <2>1. CASE u = t
    BY <1>2, <2>1
  <2>2. CASE u # t
    BY <1>2, <2>2 DEF Core, Truth, Saved
  <2> QED BY <2>1, <2>2
<1> QED BY <1>2, <1>3 DEF Core

\* A render after whatever the handler did.
LEMMA SettleStep ==
  ASSUME Core(view, stored), NEW t \in Tab, NEW s \in Session, NEW d,
         NEW p \in Pages, Settle(t, [tab |-> s, disk |-> d], p),
         Fits(s), DraftsAgree(s), Truth(t, s, d), DiskGood(d), Saved(t, stored, d)
  PROVE  Core(view', stored')
<1>1. PICK n \in Renders(s, p) : Show(t, n) /\ stored' = d
  BY DEF Settle
<1>2. Good(n) /\ Truth(t, n, d)
  BY RendersGood
<1> QED BY <1>1, <1>2, OthersStayTrue

LEMMA TabFacts ==
  ASSUME Core(view, stored), NEW t \in Tab
  PROVE  /\ Good(view[t]) /\ view[t] \in Session
         /\ Truth(t, view[t], stored) /\ DiskGood(stored)
  BY DEF Core, Good

LEMMA OpenTabStep ==
  ASSUME Core(view, stored), NEW t \in Tab, OpenTab(t)
  PROVE  Core(view', stored')
<1> DEFINE new == [Closed EXCEPT !.open = TRUE]
           restored == [new EXCEPT !.mem = stored.items, !.undo = stored.undo]
           warned == [new EXCEPT !.warned = TRUE]
           partial == [restored EXCEPT !.undo = NoUndo, !.warned = TRUE]
<1>1. /\ new \in Session /\ new.undo = NoUndo /\ new.drafts = <<>>
      /\ new.selected = {}
  BY ClosedFields DEF Session
<1>2. Good(new)
  BY <1>1, FreshGood DEF Fits
<1>3. Good(warned) /\ warned.warned
  <2>1. /\ warned \in Session /\ warned.undo = NoUndo /\ warned.drafts = <<>>
        /\ warned.selected = {} /\ warned.warned
    BY <1>1 DEF Session
  <2> QED BY <2>1, FreshGood DEF Fits
<1>4. stored # NoEnvelope =>
        stored.items \in [Entries -> Kept] /\ stored.undo \in Undo
  BY TabFacts DEF DiskGood, Envelopes
<1> HIDE DEF new
<1>5. stored # NoEnvelope =>
        /\ restored \in Session /\ restored.drafts = <<>> /\ restored.selected = {}
        /\ restored.mem = stored.items /\ restored.undo = stored.undo
  BY <1>1, <1>4 DEF Session
<1>6. stored # NoEnvelope /\ Loadable(stored) => Good(restored)
  BY <1>5, FreshGood DEF Loadable, Fits
<1>7. stored # NoEnvelope => Good(partial)
  <2> HIDE DEF restored
  <2>1. SUFFICES ASSUME stored # NoEnvelope PROVE Good(partial)
    OBVIOUS
  <2>2. /\ partial \in Session /\ partial.undo = NoUndo
        /\ partial.drafts = <<>> /\ partial.selected = {}
    BY <1>5, <2>1, ClosedFields DEF Session
  <2> QED BY <2>2, FreshGood DEF Fits
<1> HIDE DEF restored, warned, partial
<1>8. CASE Show(t, new) /\ stored = NoEnvelope /\ UNCHANGED stored
  BY <1>2, <1>8, TabFacts, OthersStayTrue DEF Truth, Saved
<1>9. CASE /\ stored # NoEnvelope /\ Loadable(stored)
           /\ Show(t, restored) /\ UNCHANGED stored
  BY <1>5, <1>6, <1>9, TabFacts, OthersStayTrue DEF Truth, Saved
<1>10. CASE Show(t, warned) /\ UNCHANGED stored
  BY <1>3, <1>10, TabFacts, OthersStayTrue DEF Truth, Saved
<1>11. ASSUME NEW s, Good(s), NEW o \in Saves(t, s, stored),
              Show(t, o.tab), stored' = o.disk
       PROVE  Core(view', stored')
  <2>1. /\ Good(o.tab) /\ DiskGood(o.disk) /\ Truth(t, o.tab, o.disk)
        /\ o.disk = stored \/ o.disk.by = t
    BY <1>11, TabFacts, SavesGood
  <2> QED BY <1>11, <2>1, OthersStayTrue DEF Saved
<1>12. CASE /\ stored # NoEnvelope
            /\ \E o \in Saves(t, IF Loadable(stored) THEN restored ELSE partial,
                              stored) :
                 Show(t, o.tab) /\ stored' = o.disk
  <2>1. Good(IF Loadable(stored) THEN restored ELSE partial)
    BY <1>6, <1>7, <1>12
  <2> QED BY <1>11, <1>12, <2>1
<1> QED BY <1>8, <1>9, <1>10, <1>12 DEF OpenTab, new, restored, warned, partial

LEMMA CloseTabStep ==
  ASSUME Core(view, stored), NEW t \in Tab, CloseTab(t)
  PROVE  Core(view', stored')
<1>1. PICK o \in Saves(t, Settled(view[t]), stored) : stored' = o.disk
  BY DEF CloseTab
<1>2. DiskGood(stored') /\ (stored' = stored \/ stored'.by = t)
  BY <1>1, TabFacts, SettledGood, SavesGood
<1>3. Show(t, Closed) /\ Good(Closed) /\ ~Closed.open
  BY ClosedFields, ClosedGood DEF CloseTab
<1> QED BY <1>2, <1>3, OthersStayTrue DEF Saved, Truth

LEMMA KillTabStep ==
  ASSUME Core(view, stored), NEW t \in Tab, KillTab(t)
  PROVE  Core(view', stored')
<1>1. Show(t, Closed) /\ Good(Closed) /\ ~Closed.open /\ stored' = stored
  BY ClosedFields, ClosedGood DEF KillTab
<1> QED BY <1>1, TabFacts, OthersStayTrue DEF Saved, Truth

LEMMA FlushStep ==
  ASSUME Core(view, stored), NEW t \in Tab,
         NEW o \in Saves(t, Settled(view[t]), stored),
         Show(t, o.tab), stored' = o.disk
  PROVE  Core(view', stored')
<1>1. Good(Settled(view[t])) /\ DiskGood(stored)
  BY TabFacts, SettledGood
<1>2. /\ Good(o.tab) /\ DiskGood(o.disk) /\ Truth(t, o.tab, o.disk)
      /\ o.disk = stored \/ o.disk.by = t
  BY <1>1, SavesGood
<1> QED BY <1>2, OthersStayTrue DEF Saved

LEMMA FilterStep ==
  ASSUME Core(view, stored), NEW t \in Tab, NEW p \in Pages, Filter(t, p)
  PROVE  Core(view', stored')
<1> DEFINE s == [view[t] EXCEPT !.selected = {}]
<1>1. /\ s \in Session /\ s.mem = view[t].mem /\ s.undo = view[t].undo
      /\ s.drafts = view[t].drafts /\ s.open = view[t].open
      /\ s.timer = view[t].timer /\ s.warned = view[t].warned
  BY TabFacts DEF Session
<1>2. PICK n \in Renders(s, p) : Show(t, n) /\ stored' = stored
  BY DEF Filter
<1> HIDE DEF s
<1>3. Fits(s) /\ DraftsAgree(s) /\ Truth(t, s, stored)
  BY <1>1, TabFacts DEF Good, Fits, DraftsAgree, Truth
<1>4. Good(n) /\ Truth(t, n, stored)
  BY <1>1, <1>2, <1>3, RendersGood
<1> QED BY <1>2, <1>4, TabFacts, OthersStayTrue DEF Saved

LEMMA MoveStep ==
  ASSUME Core(view, stored), NEW t \in Tab, NEW p \in Pages, NEW r \in p,
         Move(t, r, p)
  PROVE  Core(view', stored')
<1>1. PICK o \in Saves(t, Settled(view[t]), stored) :
        Settle(t, [o EXCEPT !.tab.current = r,
                            !.tab.selected = IF p = view[t].page THEN @ ELSE {}],
               p)
  BY DEF Move
<1>2. /\ Good(o.tab) /\ DiskGood(o.disk) /\ Truth(t, o.tab, o.disk)
      /\ o.disk = stored \/ o.disk.by = t
      /\ o = [tab |-> o.tab, disk |-> o.disk]
  BY <1>1, TabFacts, SettledGood, SavesGood
<1> DEFINE sel == IF p = view[t].page THEN o.tab.selected ELSE {}
           s == [o.tab EXCEPT !.current = r, !.selected = sel]
<1>3. o.tab \in Session /\ r \in Entries /\ sel \in SUBSET Entries
  BY <1>2, ReviewAssumption DEF Good, Session
<1> HIDE DEF sel
<1>4. /\ s \in Session /\ s.mem = o.tab.mem /\ s.undo = o.tab.undo
      /\ s.drafts = o.tab.drafts /\ s.open = o.tab.open
      /\ s.timer = o.tab.timer /\ s.warned = o.tab.warned
  BY <1>3 DEF Session
<1>5. Settle(t, [tab |-> s, disk |-> o.disk], p)
  <2>1. [o EXCEPT !.tab.current = r,
                  !.tab.selected = IF p = view[t].page THEN @ ELSE {}]
          = [tab |-> s, disk |-> o.disk]
    <3> DEFINE first == [o.tab EXCEPT !.current = r]
    <3>1. [o EXCEPT !.tab.current = r] = [tab |-> first, disk |-> o.disk]
      BY <1>2
    <3>2. first.selected = o.tab.selected
      BY <1>3 DEF Session
    <3>3. [[tab |-> first, disk |-> o.disk] EXCEPT !.tab.selected = sel]
            = [tab |-> [first EXCEPT !.selected = sel], disk |-> o.disk]
      OBVIOUS
    <3>4. [first EXCEPT !.selected = sel] = s
      BY <1>3 DEF Session
    <3> QED BY <3>1, <3>2, <3>3, <3>4 DEF sel
  <2> QED BY <1>1, <2>1
<1> HIDE DEF s
<1>6. Fits(s) /\ DraftsAgree(s) /\ Truth(t, s, o.disk)
  BY <1>2, <1>4 DEF Good, Fits, DraftsAgree, Truth
<1> QED BY <1>2, <1>4, <1>5, <1>6, SettleStep DEF Saved

LEMMA SelectStep ==
  ASSUME Core(view, stored), NEW t \in Tab, NEW chosen \in SUBSET Entries,
         Select(t, chosen)
  PROVE  Core(view', stored')
<1> DEFINE s == [view[t] EXCEPT !.selected = chosen]
<1>1. /\ s \in Session /\ s.mem = view[t].mem /\ s.undo = view[t].undo
      /\ s.drafts = view[t].drafts /\ s.open = view[t].open
      /\ s.timer = view[t].timer /\ s.warned = view[t].warned
      /\ s.page = view[t].page /\ s.selected = chosen
  BY TabFacts DEF Session
<1>2. Show(t, s) /\ stored' = stored
  BY DEF Select
<1>3. \A r \in chosen : r \in view[t].page /\ Eligible(view[t], r)
  BY TabFacts DEF Select, Good, SelectionFits
<1> HIDE DEF s
<1>4. Good(s) /\ Truth(t, s, stored)
  BY <1>1, <1>3, TabFacts
  DEF Good, Fits, DraftsAgree, SelectionFits, Eligible, HasInvalidDraft, Truth
<1> QED BY <1>2, <1>4, TabFacts, OthersStayTrue DEF Saved

LEMMA ChooseImportStep ==
  ASSUME Core(view, stored), file \in Files \union {NoFile}, NEW t \in Tab,
         ChooseImport(t)
  PROVE  Core(view', stored')
<1> DEFINE s == [view[t] EXCEPT !.importing = file]
<1>1. /\ s \in Session /\ s.mem = view[t].mem /\ s.undo = view[t].undo
      /\ s.drafts = view[t].drafts /\ s.open = view[t].open
      /\ s.timer = view[t].timer /\ s.warned = view[t].warned
      /\ s.page = view[t].page /\ s.selected = view[t].selected
  BY TabFacts DEF Session
<1>2. Show(t, s) /\ stored' = stored
  BY DEF ChooseImport
<1> HIDE DEF s
<1>3. Good(s) /\ Truth(t, s, stored)
  BY <1>1, TabFacts
  DEF Good, Fits, DraftsAgree, SelectionFits, Eligible, HasInvalidDraft, Truth
<1> QED BY <1>2, <1>3, TabFacts, OthersStayTrue DEF Saved

LEMMA DownloadStep ==
  ASSUME Core(view, stored), NEW t \in Tab, NEW final \in BOOLEAN,
         Download(t, final)
  PROVE  Core(view', stored')
  BY FlushStep DEF Download

\* A handler that saves and renders a good tab.
LEMMA SaveAndRender ==
  ASSUME Core(view, stored), NEW t \in Tab, NEW p \in Pages, NEW s, Good(s),
         NEW d, DiskGood(d), Saved(t, stored, d),
         NEW o \in Saves(t, s, d), Settle(t, o, p)
  PROVE  Core(view', stored')
<1>1. /\ Good(o.tab) /\ DiskGood(o.disk) /\ Truth(t, o.tab, o.disk)
      /\ o.disk = d \/ o.disk.by = t
      /\ o = [tab |-> o.tab, disk |-> o.disk]
  BY SavesGood
<1>2. Settle(t, [tab |-> o.tab, disk |-> o.disk], p)
  BY <1>1
<1>3. o.tab \in Session /\ Fits(o.tab) /\ DraftsAgree(o.tab)
  BY <1>1 DEF Good
<1>4. Saved(t, stored, o.disk)
  BY <1>1 DEF Saved
<1> QED BY <1>1, <1>2, <1>3, <1>4, SettleStep

LEMMA UndoBatchStep ==
  ASSUME Core(view, stored), NEW t \in Tab, NEW p \in Pages, UndoBatch(t, p)
  PROVE  Core(view', stored')
<1> DEFINE s == view[t]
           q == Settled(s)
           b == s.undo.before
           m == [r \in Entries |-> IF r \in DOMAIN b THEN b[r] ELSE q.mem[r]]
           back == [q EXCEPT !.mem = m, !.undo = NoUndo, !.selected = {}]
<1>1. Good(s) /\ s \in Session /\ s.undo # NoUndo /\ Matches(s.undo, s.mem)
  BY TabFacts DEF UndoBatch
<1>2. /\ Good(q) /\ q \in Session /\ q.mem = s.mem /\ q.undo = s.undo
  BY <1>1, SettledGood DEF Good
<1>3. /\ s.undo.decision \in {"accept", "reject"}
      /\ b \in [DOMAIN b -> Kept] /\ DOMAIN b \subseteq Entries
  BY <1>1, UndoShape DEF Session
<1>4. m \in [Entries -> Kept]
  BY SMTT(60), <1>2, <1>3 DEF Session
<1>5. PICK o \in Saves(t, back, stored) : Settle(t, o, p)
  BY DEF UndoBatch
<1>6. \A r \in DOMAIN q.drafts : r \in Entries /\ m[r] = q.mem[r]
  <2> SUFFICES ASSUME NEW r \in DOMAIN q.drafts PROVE r \in Entries /\ m[r] = q.mem[r]
    OBVIOUS
  <2>1. r \in Entries /\ q.mem[r].decision = "edit"
    BY <1>2, DraftsShape DEF Good, DraftsAgree, Session
  <2>2. r \notin DOMAIN b
    <3>1. SUFFICES ASSUME r \in DOMAIN b PROVE FALSE
      OBVIOUS
    <3>2. s.mem[r] = After(s.undo.decision, b[r]) /\ b[r] \in Kept
      BY <1>1, <1>3, <3>1 DEF Matches
    <3>3. s.mem[r].decision = s.undo.decision
      BY <1>3, <3>2, AfterKept
    <3> QED BY <1>2, <1>3, <2>1, <3>3
  <2> QED BY <2>1, <2>2
<1> HIDE DEF q, m, s
<1>7. /\ back \in Session /\ back.mem = m /\ back.undo = NoUndo
      /\ back.selected = {} /\ back.drafts = q.drafts
  BY <1>2, <1>4, ClosedFields DEF Session
<1> HIDE DEF back
<1>8. Good(back)
  BY <1>2, <1>6, <1>7 DEF Good, Fits, DraftsAgree, SelectionFits
<1> QED BY <1>5, <1>8, TabFacts, SaveAndRender DEF Saved

LEMMA ApplyBatchStep ==
  ASSUME Core(view, stored), NEW t \in Tab, NEW p \in Pages,
         NEW d \in {"accept", "reject"}, ApplyBatch(t, d, p)
  PROVE  Core(view', stored')
<1> DEFINE s == view[t]
           q == Settled(s)
           m == [r \in Entries |->
                   IF r \in s.selected THEN After(d, q.mem[r]) ELSE q.mem[r]]
           b == Restrict(s.mem, s.selected)
           u == [decision |-> d, before |-> b]
           done == [q EXCEPT !.mem = m, !.undo = u, !.selected = {}]
<1>1. /\ Good(s) /\ s \in Session /\ s.selected # {}
      /\ \A r \in s.selected : r \in Entries /\ Eligible(s, r)
  BY TabFacts DEF ApplyBatch, Session
<1>2. Good(q) /\ q \in Session /\ q.mem = s.mem
  BY <1>1, SettledGood DEF Good
<1>3. m \in [Entries -> Kept]
  BY <1>2, AfterKept DEF Session
<1>4. /\ b \in [s.selected -> Kept] /\ DOMAIN b = s.selected
      /\ \A r \in s.selected : b[r] = s.mem[r]
  BY <1>1 DEF Restrict, Session
<1>5. u \in Undo
  <2>1. b \in UNION {[S -> Kept] : S \in (SUBSET Entries) \ {{}}}
    BY <1>1, <1>4
  <2> HIDE DEF b
  <2> QED BY <2>1 DEF Undo
<1>6. Matches(u, m)
  <2> SUFFICES ASSUME NEW r \in DOMAIN u.before
               PROVE  /\ u.before[r].decision = "unreviewed"
                      /\ m[r] = After(u.decision, u.before[r])
    BY DEF Matches
  <2>1. r \in s.selected /\ u.before[r] = s.mem[r] /\ u.decision = d
    BY <1>4
  <2>2. s.mem[r].decision = "unreviewed"
    BY <1>1, <2>1 DEF Eligible
  <2>3. m[r] = After(d, s.mem[r])
    BY <1>1, <1>2, <2>1
  <2> QED BY <2>1, <2>2, <2>3
<1>7. PICK o \in Saves(t, done, stored) : Settle(t, o, p)
  BY DEF ApplyBatch
<1>8. \A r \in DOMAIN q.drafts : r \in Entries /\ m[r] = q.mem[r]
  BY <1>1, <1>2, DraftsShape DEF Good, DraftsAgree, Session, Eligible
<1> HIDE DEF q, m, s, u, b
<1>9. /\ done \in Session /\ done.mem = m /\ done.undo = u
      /\ done.selected = {} /\ done.drafts = q.drafts
  BY <1>2, <1>3, <1>5 DEF Session
<1> HIDE DEF done
<1>10. Good(done)
  BY <1>2, <1>6, <1>8, <1>9 DEF Good, Fits, DraftsAgree, SelectionFits
<1> QED BY <1>7, <1>10, TabFacts, SaveAndRender DEF Saved

\* A tab that only reports a failure.
LEMMA WarnedStep ==
  ASSUME Core(view, stored), NEW t \in Tab, NEW i \in Files \union {NoFile},
         Show(t, [[view[t] EXCEPT !.importing = i] EXCEPT !.warned = TRUE]),
         stored' = stored
  PROVE  Core(view', stored')
<1> DEFINE s == [[view[t] EXCEPT !.importing = i] EXCEPT !.warned = TRUE]
<1>1. /\ s \in Session /\ s.mem = view[t].mem /\ s.undo = view[t].undo
      /\ s.drafts = view[t].drafts /\ s.page = view[t].page
      /\ s.selected = view[t].selected /\ s.warned
  BY TabFacts DEF Session
<1> HIDE DEF s
<1>2. Good(s) /\ Truth(t, s, stored)
  BY <1>1, TabFacts
  DEF Good, Fits, DraftsAgree, SelectionFits, Eligible, HasInvalidDraft, Truth
<1>3. Show(t, s)
  BY DEF s
<1> QED BY <1>2, <1>3, TabFacts, OthersStayTrue DEF Saved

LEMMA FinishImportStep ==
  ASSUME Core(view, stored), NEW t \in Tab, NEW p \in Pages, FinishImport(t, p)
  PROVE  Core(view', stored')
<1> DEFINE s == [view[t] EXCEPT !.importing = NoFile]
           items == view[t].importing.items
           next == [s EXCEPT !.mem = items, !.drafts = <<>>,
                             !.undo = NoUndo, !.selected = {}]
<1>1. view[t] \in Session /\ items \in [Entries -> Kept]
  BY TabFacts DEF FinishImport, Session, Files
<1>2. s \in Session
  BY <1>1 DEF Session
<1> HIDE DEF items
<1>3. CASE Settle(t, [tab |-> next, disk |-> Envelope(t, next)], p)
  <2> HIDE DEF s
  <2>1. /\ next \in Session /\ next.mem = items /\ next.undo = NoUndo
        /\ next.drafts = <<>> /\ next.selected = {}
    BY <1>1, <1>2, NoDrafts, ClosedFields DEF Session
  <2> HIDE DEF next
  <2>2. Good(next)
    BY <2>1, FreshGood DEF Fits
  <2>3. /\ DiskGood(Envelope(t, next)) /\ Truth(t, next, Envelope(t, next))
        /\ Saved(t, stored, Envelope(t, next))
    BY <2>1, <2>2, EnvelopeIsWhole DEF Good, Truth, Saved
  <2> QED BY <1>3, <2>1, <2>2, <2>3, SettleStep DEF Good
<1>4. CASE Show(t, [s EXCEPT !.warned = TRUE]) /\ UNCHANGED stored
  BY <1>4, WarnedStep
<1> QED BY <1>3, <1>4 DEF FinishImport, items

LEMMA ClearStep ==
  ASSUME Core(view, stored), NEW t \in Tab, NEW p \in Pages, Clear(t, p)
  PROVE  Core(view', stored')
<1> DEFINE s == view[t]
           new == [Closed EXCEPT !.open = TRUE, !.current = s.current,
                                 !.importing = s.importing]
<1>1. s \in Session
  BY TabFacts
<1>2. CASE /\ stored' = NoEnvelope
           /\ \E c \in Renders(new, p) : Show(t, c)
  <2>1. /\ new \in Session /\ new.undo = NoUndo /\ new.drafts = <<>>
        /\ new.selected = {}
    BY <1>1, ClosedFields DEF Session
  <2> HIDE DEF new
  <2>2. Good(new) /\ Truth(t, new, NoEnvelope)
    BY <2>1, FreshGood DEF Fits, Truth
  <2>3. PICK c \in Renders(new, p) : Show(t, c)
    BY <1>2
  <2>4. Good(c) /\ Truth(t, c, NoEnvelope)
    BY <2>1, <2>2, <2>3, RendersGood DEF Good
  <2> QED BY <1>2, <2>3, <2>4, OthersStayTrue DEF DiskGood, Saved
<1>3. CASE Show(t, [s EXCEPT !.warned = TRUE]) /\ UNCHANGED stored
  <2>1. [s EXCEPT !.warned = TRUE]
          = [[s EXCEPT !.importing = s.importing] EXCEPT !.warned = TRUE]
    BY <1>1 DEF Session
  <2>2. s.importing \in Files \union {NoFile}
    BY <1>1 DEF Session
  <2> QED BY <1>3, <2>1, <2>2, WarnedStep
<1> QED BY <1>2, <1>3 DEF Clear

LEMMA DecidedGood ==
  ASSUME NEW s, Good(s), NEW d \in Decision
  PROVE  Good(Decided(s, d))
<1> DEFINE r == s.current
           item == [s.mem[r] EXCEPT !.decision = d]
           plain == [item EXCEPT !.text = Candidate]
           sel == s.selected \ {r}
           off == [s EXCEPT !.selected = sel]
<1>1. s \in Session /\ r \in Entries /\ s.mem[r] \in Kept /\ s.mem \in [Entries -> Kept]
  BY DEF Good, Session
<1>2. s.mem[r] \in Item
  BY <1>1, KeptItems
<1>3. /\ off \in Session /\ off.mem = s.mem /\ off.undo = s.undo
      /\ off.drafts = s.drafts /\ off.page = s.page /\ off.selected = sel
  BY <1>1 DEF Session
<1>4. Fits(off)
  BY <1>3 DEF Good, Fits
<1>5. item \in Item /\ item.decision = d /\ item.text = s.mem[r].text
      /\ item.note = s.mem[r].note
  BY <1>2 DEF Item
<1>6. plain \in Item /\ plain.text = Candidate
  BY <1>5 DEF Item
<1> HIDE DEF item, plain, sel, off
<1>7. CASE d = "edit"
  <2>1. item \in Kept
    BY <1>1, <1>5, <1>7, KeptItems
  <2> DEFINE n == SetMemory(off, r, item)
  <2>2. /\ n \in Session /\ Fits(n) /\ n.mem = [s.mem EXCEPT ![r] = item]
        /\ n.drafts = s.drafts /\ n.page = s.page /\ n.selected = sel
    BY <1>1, <1>3, <1>4, <2>1, SetMemoryFits
  <2>3. Decided(s, d) = n
    BY <1>7 DEF Decided, off, item, sel
  <2> HIDE DEF n
  <2>4. r \in DOMAIN s.drafts => item = s.mem[r]
    <3>1. SUFFICES ASSUME r \in DOMAIN s.drafts PROVE item = s.mem[r]
      OBVIOUS
    <3>2. s.mem[r].decision = "edit"
      BY <3>1 DEF Good, DraftsAgree
    <3> QED BY <1>2, <1>7, <3>2 DEF item, Item
  <2>5. DraftsAgree(n)
    BY <1>1, <2>2, <2>4, DraftsShape DEF Good, DraftsAgree, Session
  <2>6. SelectionFits(n)
    BY <1>1, <2>2 DEF Good, SelectionFits, Eligible, HasInvalidDraft, Session, sel
  <2> QED BY <2>2, <2>3, <2>5, <2>6 DEF Good
<1>8. CASE d # "edit"
  <2>1. plain \in Kept
    BY <1>6, KeptItems, ReviewAssumption
  <2> DEFINE w == Without(off, r)
             n == SetMemory(w, r, plain)
  <2>2. /\ w \in Session /\ w.mem = s.mem /\ w.undo = s.undo
        /\ w.page = s.page /\ w.selected = sel
        /\ DOMAIN w.drafts = DOMAIN s.drafts \ {r}
        /\ \A q \in DOMAIN w.drafts : w.drafts[q] = s.drafts[q]
    BY <1>1, <1>3, WithoutFields
  <2>3. Fits(w)
    BY <1>3, <1>4, <2>2 DEF Fits
  <2>4. Decided(s, d) = n
    BY <1>8 DEF Decided, off, item, plain, sel
  <2> HIDE DEF w
  <2>5. /\ n \in Session /\ Fits(n) /\ n.mem = [s.mem EXCEPT ![r] = plain]
        /\ n.drafts = w.drafts /\ n.page = s.page /\ n.selected = sel
    BY <1>1, <2>1, <2>2, <2>3, SetMemoryFits
  <2> HIDE DEF n
  <2>6. DraftsAgree(n)
    BY <1>1, <2>2, <2>5, DraftsShape DEF Good, DraftsAgree, Session
  <2>7. SelectionFits(n)
    BY <1>1, <2>2, <2>5 DEF Good, SelectionFits, Eligible, HasInvalidDraft, Session, sel
  <2> QED BY <2>4, <2>5, <2>6, <2>7 DEF Good
<1> QED BY <1>7, <1>8

LEMMA SetDecisionStep ==
  ASSUME Core(view, stored), NEW t \in Tab, NEW p \in Pages,
         NEW d \in Decision, SetDecision(t, d, p)
  PROVE  Core(view', stored')
<1>1. PICK flushed \in Saves(t, Settled(view[t]), stored) :
        \E o \in Saves(t, Decided(flushed.tab, d), flushed.disk) : Settle(t, o, p)
  BY DEF SetDecision
<1>2. /\ Good(flushed.tab) /\ DiskGood(flushed.disk)
      /\ flushed.disk = stored \/ flushed.disk.by = t
  BY TabFacts, SettledGood, SavesGood
<1>3. Good(Decided(flushed.tab, d)) /\ Saved(t, stored, flushed.disk)
  BY <1>2, DecidedGood DEF Saved
<1> QED BY <1>1, <1>2, <1>3, SaveAndRender

\* What the editor shows of an entry.
LEMMA ShownIsItem ==
  ASSUME NEW s, Good(s), NEW r \in Entries
  PROVE  /\ Shown(s, r) \in Item /\ s.mem[r] \in Item
         /\ Shown(s, r).decision = s.mem[r].decision
         /\ Shown(s, r).note = s.mem[r].note
         /\ r \in DOMAIN s.drafts => s.drafts[r] \in Item
<1>1. s \in Session
  BY DEF Good
<1>2. s.mem[r] \in Item
  BY <1>1, KeptItems DEF Session
<1>3. r \in DOMAIN s.drafts => s.drafts[r] \in Item
  BY <1>1, DraftsShape DEF Session
<1> QED BY <1>2, <1>3 DEF Good, DraftsAgree, Shown

\* The timer is armed: nothing is claimed of storage.
LEMMA ArmedStep ==
  ASSUME Core(view, stored), NEW t \in Tab, NEW s, Good(s),
         Show(t, [s EXCEPT !.timer = TRUE]), stored' = stored
  PROVE  Core(view', stored')
<1> DEFINE n == [s EXCEPT !.timer = TRUE]
<1>1. /\ n \in Session /\ n.mem = s.mem /\ n.undo = s.undo /\ n.drafts = s.drafts
      /\ n.page = s.page /\ n.selected = s.selected /\ n.timer
  BY DEF Good, Session
<1> HIDE DEF n
<1>2. Good(n) /\ Truth(t, n, stored)
  BY <1>1 DEF Good, Fits, DraftsAgree, SelectionFits, Eligible, HasInvalidDraft, Truth
<1>3. Show(t, n)
  BY DEF n
<1> QED BY <1>2, <1>3, TabFacts, OthersStayTrue DEF Saved

LEMMA TypeStep ==
  ASSUME Core(view, stored), NEW t \in Tab,
         NEW text \in {Candidate, Bad} \union Texts, Type(t, text)
  PROVE  Core(view', stored')
<1> DEFINE s == view[t]
           r == s.current
           item == [Shown(s, r) EXCEPT !.text = text]
           typed == IF Valid(item) THEN SetMemory(s, r, item)
                    ELSE [s EXCEPT !.selected = @ \ {r}]
           w == WithDraft(typed, r, item)
<1>1. /\ Good(s) /\ s \in Session /\ r \in Entries
      /\ Shown(s, r).decision = "edit" /\ s.mem \in [Entries -> Kept]
  BY TabFacts DEF Type, Session
<1>2. /\ item \in Item /\ item.decision = "edit" /\ item.text = text
      /\ item.note = s.mem[r].note /\ s.mem[r].decision = "edit"
  <2>1. /\ Shown(s, r) \in Item /\ Shown(s, r).decision = s.mem[r].decision
        /\ Shown(s, r).note = s.mem[r].note
    BY <1>1, ShownIsItem
  <2> QED BY <1>1, <2>1 DEF Item
<1>3. r \notin s.selected
  BY <1>1, <1>2 DEF Good, SelectionFits, Eligible
<1>4. /\ Show(t, [w EXCEPT !.timer = TRUE]) /\ stored' = stored
  BY DEF Type
<1> HIDE DEF s, r, item
<1>5. /\ typed \in Session /\ Fits(typed)
      /\ typed.mem = IF Valid(item) THEN [s.mem EXCEPT ![r] = item] ELSE s.mem
      /\ typed.drafts = s.drafts /\ typed.page = s.page
      /\ typed.selected = s.selected
  <2>1. CASE Valid(item)
    <3>1. item \in Kept
      BY <1>2, <2>1, KeptItems DEF Valid
    <3>2. s \in Session /\ Fits(s)
      BY <1>1 DEF Good
    <3> QED BY <1>1, <2>1, <3>1, <3>2, SetMemoryFits
  <2>2. CASE ~Valid(item)
    <3>1. typed = s
      BY <1>1, <1>3, <2>2 DEF Session
    <3> QED BY <1>1, <2>2, <3>1 DEF Good
  <2> QED BY <2>1, <2>2
<1> HIDE DEF typed
<1>6. /\ w \in Session /\ w.mem = typed.mem /\ w.undo = typed.undo
      /\ w.page = s.page /\ w.selected = s.selected
      /\ DOMAIN w.drafts = DOMAIN s.drafts \union {r}
      /\ w.drafts[r] = item
      /\ \A q \in DOMAIN s.drafts \ {r} : w.drafts[q] = s.drafts[q]
  BY <1>1, <1>2, <1>5, WithDraftFields
<1> HIDE DEF w
<1>7. Fits(w)
  BY <1>5, <1>6 DEF Fits
<1>8. /\ w.mem[r] = IF Valid(item) THEN item ELSE s.mem[r]
      /\ \A q \in Entries \ {r} : w.mem[q] = s.mem[q]
  BY <1>1, <1>5, <1>6
<1>9. DraftsAgree(w)
  <2> SUFFICES ASSUME NEW q \in DOMAIN w.drafts
               PROVE  /\ w.drafts[q].decision = "edit" /\ w.mem[q].decision = "edit"
                      /\ w.drafts[q].note = w.mem[q].note
                      /\ Valid(w.drafts[q]) => w.drafts[q] = w.mem[q]
    BY DEF DraftsAgree
  <2>1. CASE q = r
    BY <1>2, <1>6, <1>8, <2>1
  <2>2. CASE q # r
    <3>1. q \in DOMAIN s.drafts /\ q \in Entries /\ w.drafts[q] = s.drafts[q]
      BY <1>1, <1>6, <2>2, DraftsShape DEF Session
    <3> QED BY <1>1, <1>8, <2>2, <3>1 DEF Good, DraftsAgree
  <2> QED BY <2>1, <2>2
<1>10. SelectionFits(w)
  <2> SUFFICES ASSUME NEW q \in w.selected PROVE q \in w.page /\ Eligible(w, q)
    BY DEF SelectionFits
  <2>1. q \in Entries \ {r} /\ q \in s.page /\ Eligible(s, q)
    BY <1>1, <1>3, <1>6 DEF Good, SelectionFits, Session
  <2> QED BY <1>6, <1>8, <2>1 DEF Eligible, HasInvalidDraft
<1>11. Good(w)
  BY <1>6, <1>7, <1>9, <1>10 DEF Good
<1> QED BY <1>4, <1>11, ArmedStep

\* A note changes in memory and in the draft that shows it.
LEMMA AnnotatedGood ==
  ASSUME NEW s, Good(s), NEW note \in {Plain} \union Notes
  PROVE  LET r == s.current
             set == SetMemory(s, r, [s.mem[r] EXCEPT !.note = note])
         IN  Good(IF r \in DOMAIN s.drafts
                  THEN WithDraft(set, r, [s.drafts[r] EXCEPT !.note = note])
                  ELSE set)
<1> DEFINE r == s.current
           item == [s.mem[r] EXCEPT !.note = note]
           draft == [s.drafts[r] EXCEPT !.note = note]
           set == SetMemory(s, r, item)
           w == WithDraft(set, r, draft)
<1>1. s \in Session /\ Fits(s) /\ r \in Entries /\ s.mem \in [Entries -> Kept]
  BY DEF Good, Session
<1>2. s.mem[r] \in Item /\ s.mem[r] \in Kept
  BY <1>1, KeptItems
<1>3. /\ item \in Item /\ item.note = note /\ item.text = s.mem[r].text
      /\ item.decision = s.mem[r].decision
  BY <1>2 DEF Item
<1>4. item \in Kept
  BY <1>2, <1>3, KeptItems
<1>5. r \in DOMAIN s.drafts =>
        /\ draft \in Item /\ draft.note = note /\ draft.text = s.drafts[r].text
        /\ draft.decision = s.drafts[r].decision
        /\ Valid(draft) => draft = item
  <2>1. SUFFICES ASSUME r \in DOMAIN s.drafts
                 PROVE  /\ draft \in Item /\ draft.note = note
                        /\ draft.text = s.drafts[r].text
                        /\ draft.decision = s.drafts[r].decision
                        /\ Valid(draft) => draft = item
    OBVIOUS
  <2>2. s.drafts[r] \in Item
    BY <1>1, <2>1, ShownIsItem
  <2>3. /\ draft \in Item /\ draft.note = note /\ draft.text = s.drafts[r].text
        /\ draft.decision = s.drafts[r].decision
    BY <2>2 DEF Item
  <2>4. Valid(s.drafts[r]) => s.drafts[r] = s.mem[r]
    BY <2>1 DEF Good, DraftsAgree
  <2> QED BY <2>3, <2>4 DEF Valid
<1> HIDE DEF item, draft, r
<1>6. /\ set \in Session /\ Fits(set) /\ set.mem = [s.mem EXCEPT ![r] = item]
      /\ set.drafts = s.drafts /\ set.page = s.page /\ set.selected = s.selected
  BY <1>1, <1>4, SetMemoryFits
<1>7. /\ set.mem[r] = item /\ \A q \in Entries \ {r} : set.mem[q] = s.mem[q]
  BY <1>1, <1>6
<1> HIDE DEF set
<1>8. \A q \in DOMAIN s.drafts : q \in Entries
  BY <1>1, DraftsShape DEF Session
<1>9. CASE r \notin DOMAIN s.drafts
  <2>1. DraftsAgree(set)
    BY <1>6, <1>7, <1>8, <1>9 DEF Good, DraftsAgree
  <2>2. SelectionFits(set)
    BY <1>1, <1>3, <1>6, <1>7 DEF Good, SelectionFits, Eligible, HasInvalidDraft, Session
  <2>3. Good(set)
    BY <1>6, <2>1, <2>2 DEF Good
  <2> QED BY <1>9, <2>3 DEF set, item, r
<1>10. CASE r \in DOMAIN s.drafts
  <2>1. /\ w \in Session /\ w.mem = set.mem /\ w.undo = set.undo
        /\ w.page = s.page /\ w.selected = s.selected
        /\ DOMAIN w.drafts = DOMAIN s.drafts /\ w.drafts[r] = draft
        /\ \A q \in DOMAIN s.drafts \ {r} : w.drafts[q] = s.drafts[q]
    <3>1. draft \in Item /\ DOMAIN s.drafts \union {r} = DOMAIN s.drafts
      BY <1>5, <1>10
    <3>2. /\ w \in Session /\ w.mem = set.mem /\ w.undo = set.undo
          /\ w.page = set.page /\ w.selected = set.selected
          /\ DOMAIN w.drafts = DOMAIN set.drafts \union {r}
          /\ w.drafts[r] = draft
          /\ \A q \in DOMAIN set.drafts \ {r} : w.drafts[q] = set.drafts[q]
      BY <1>1, <1>6, <3>1, WithDraftFields
    <3> QED BY <1>6, <3>1, <3>2
  <2> HIDE DEF w
  <2>2. Fits(w)
    BY <1>6, <2>1 DEF Fits
  <2>3. DraftsAgree(w)
    BY <1>3, <1>5, <1>7, <1>8, <1>10, <2>1 DEF Good, DraftsAgree
  <2>4. SelectionFits(w)
    <3> SUFFICES ASSUME NEW q \in w.selected PROVE q \in w.page /\ Eligible(w, q)
      BY DEF SelectionFits
    <3>1. q \in Entries /\ q \in s.page /\ Eligible(s, q)
      BY <1>1, <2>1 DEF Good, SelectionFits, Session
    <3>2. CASE q = r
      BY <1>3, <1>5, <1>7, <1>10, <2>1, <3>1, <3>2 DEF Eligible, HasInvalidDraft, Valid
    <3>3. CASE q # r
      BY <1>7, <2>1, <3>1, <3>3 DEF Eligible, HasInvalidDraft
    <3> QED BY <3>2, <3>3
  <2>5. Good(w)
    BY <2>1, <2>2, <2>3, <2>4 DEF Good
  <2> QED BY <1>10, <2>5 DEF w, set, item, draft, r
<1> QED BY <1>9, <1>10

LEMMA AnnotateStep ==
  ASSUME Core(view, stored), NEW t \in Tab, NEW note \in {Plain} \union Notes,
         Annotate(t, note)
  PROVE  Core(view', stored')
<1> DEFINE s == view[t]
           r == s.current
           set == SetMemory(s, r, [s.mem[r] EXCEPT !.note = note])
           both == IF r \in DOMAIN s.drafts
                   THEN WithDraft(set, r, [s.drafts[r] EXCEPT !.note = note])
                   ELSE set
<1>1. Good(both)
  BY SMTT(60), TabFacts, AnnotatedGood
<1>2. \/ Show(t, [both EXCEPT !.timer = TRUE]) /\ stored' = stored
      \/ \E o \in Saves(t, both, stored) : Show(t, o.tab) /\ stored' = o.disk
  BY DEF Annotate
<1> HIDE DEF both
<1>3. CASE Show(t, [both EXCEPT !.timer = TRUE]) /\ stored' = stored
  BY <1>1, <1>3, ArmedStep
<1>4. CASE \E o \in Saves(t, both, stored) : Show(t, o.tab) /\ stored' = o.disk
  <2>1. PICK o \in Saves(t, both, stored) : Show(t, o.tab) /\ stored' = o.disk
    BY <1>4
  <2>2. /\ Good(o.tab) /\ DiskGood(o.disk) /\ Truth(t, o.tab, o.disk)
        /\ o.disk = stored \/ o.disk.by = t
    BY <1>1, TabFacts, SavesGood
  <2> QED BY <2>1, <2>2, OthersStayTrue DEF Saved
<1> QED BY <1>2, <1>3, <1>4

\* Somebody else's envelope is no tab's.
LEMMA WriteOutsideStep ==
  ASSUME Core(view, stored), NEW env \in Foreign, WriteOutside(env)
  PROVE  Core(view', stored')
<1>1. view' = view /\ stored' = env
  BY DEF WriteOutside
<1>2. env \in Envelopes({Outside}) /\ env.by = Outside /\ Outside \notin Tab
  BY ReviewAssumption DEF Envelopes
<1>3. DiskGood(env)
  BY <1>2 DEF DiskGood, Envelopes
<1>4. \A t \in Tab : Truth(t, view[t], env)
  BY <1>2 DEF Truth
<1> QED BY <1>1, <1>3, <1>4 DEF Core

\* The file a tab writes is what its memory holds after the flush.
LEMMA DownloadFile ==
  ASSUME Core(view, stored), NEW t \in Tab, NEW final \in BOOLEAN,
         Download(t, final)
  PROVE  \/ file' = file
         \/ /\ file' = [final |-> final, items |-> view[t].mem]
            /\ view[t].mem \in [Entries -> Kept]
            /\ final => \A r \in Entries :
                          /\ Shown(view[t], r) = view[t].mem[r]
                          /\ view[t].mem[r].decision # "unreviewed"
<1> DEFINE s == view[t]
<1>1. Good(s) /\ s \in Session /\ DiskGood(stored)
  BY TabFacts
<1>2. PICK o \in Saves(t, Settled(s), stored) :
        IF final => \A r \in Entries : /\ ~HasInvalidDraft(o.tab, r)
                                       /\ o.tab.mem[r].decision # "unreviewed"
        THEN file' = [final |-> final, items |-> WrittenAll(o.tab.mem)]
        ELSE UNCHANGED file
  BY DEF Download
<1> HIDE DEF s
<1>3. /\ Good(Settled(s)) /\ Settled(s).mem = s.mem
      /\ DOMAIN Settled(s).drafts = {r \in DOMAIN s.drafts : ~Valid(s.drafts[r])}
      /\ \A r \in DOMAIN Settled(s).drafts : Settled(s).drafts[r] = s.drafts[r]
  BY <1>1, SettledGood
<1>4. o.tab.mem = Settled(s).mem /\ o.tab.drafts = Settled(s).drafts
  BY <1>1, <1>2, <1>3, SavesGood
<1>5. s.mem \in [Entries -> Kept] /\ WrittenAll(s.mem) = s.mem
  BY <1>1 DEF Session, WrittenAll, Kept
<1>6. ASSUME \A r \in Entries : ~HasInvalidDraft(o.tab, r)
      PROVE  \A r \in Entries : Shown(s, r) = s.mem[r]
  BY <1>1, <1>3, <1>4, <1>6 DEF HasInvalidDraft, Shown, Good, DraftsAgree
<1>7. CASE file' = file
  BY <1>7
<1>8. CASE /\ file' = [final |-> final, items |-> WrittenAll(o.tab.mem)]
           /\ final => \A r \in Entries :
                         /\ ~HasInvalidDraft(o.tab, r)
                         /\ o.tab.mem[r].decision # "unreviewed"
  BY <1>3, <1>4, <1>5, <1>6, <1>8 DEF s
<1> QED BY <1>2, <1>7, <1>8

-----------------------------------------------------------------------------
(* All steps.                                                              *)

Step(t) ==
  \/ OpenTab(t) \/ CloseTab(t) \/ KillTab(t) \/ Flush(t) \/ ChooseImport(t)
  \/ \E p \in Pages : \/ Filter(t, p) \/ UndoBatch(t, p)
                      \/ FinishImport(t, p) \/ Clear(t, p)
                      \/ \E r \in p : Move(t, r, p)
                      \/ \E d \in Decision : SetDecision(t, d, p)
                      \/ \E d \in {"accept", "reject"} : ApplyBatch(t, d, p)
  \/ \E text \in {Candidate, Bad} \union Texts : Type(t, text)
  \/ \E note \in {Plain} \union Notes : Annotate(t, note)
  \/ \E chosen \in SUBSET Entries : Select(t, chosen)
  \/ \E final \in BOOLEAN : Download(t, final)

LEMMA NextIsStep ==
  Next => (\E env \in Foreign : WriteOutside(env)) \/ (\E t \in Tab : Step(t))
  BY SMTT(60) DEF Next, Step

LEMMA FileStep ==
  ASSUME NEW t \in Tab, Step(t)
  PROVE  file' = file \/ \E final \in BOOLEAN : Download(t, final)
  BY DEF Step, OpenTab, CloseTab, KillTab, Flush, ChooseImport, Filter, UndoBatch,
     FinishImport, Clear, Move, SetDecision, ApplyBatch, Type, Annotate, Select

LEMMA GestureStep ==
  ASSUME Next
  PROVE  gestures' = gestures \/ Gesture
<1>1. ASSUME NEW env \in Foreign, WriteOutside(env) PROVE gestures' = gestures \/ Gesture
  BY <1>1 DEF WriteOutside
<1>2. ASSUME NEW t \in Tab, Step(t) PROVE gestures' = gestures \/ Gesture
  <2>1. CASE OpenTab(t) \/ CloseTab(t) \/ KillTab(t) \/ Flush(t) \/ ChooseImport(t)
    BY SMTT(60), <2>1 DEF OpenTab, CloseTab, KillTab, Flush, ChooseImport
  <2>2. CASE \E p \in Pages : \/ Filter(t, p) \/ UndoBatch(t, p)
                              \/ FinishImport(t, p) \/ Clear(t, p)
                              \/ \E r \in p : Move(t, r, p)
    BY ZenonT(90), <2>2 DEF Filter, UndoBatch, FinishImport, Clear, Move
  <2>3. CASE \E p \in Pages : \/ \E d \in Decision : SetDecision(t, d, p)
                              \/ \E d \in {"accept", "reject"} : ApplyBatch(t, d, p)
    BY ZenonT(90), <2>3 DEF SetDecision, ApplyBatch
  <2>4. CASE \/ \E text \in {Candidate, Bad} \union Texts : Type(t, text)
             \/ \E note \in {Plain} \union Notes : Annotate(t, note)
             \/ \E chosen \in SUBSET Entries : Select(t, chosen)
             \/ \E final \in BOOLEAN : Download(t, final)
    BY <2>4 DEF Type, Annotate, Select, Download
  <2> QED BY <1>2, <2>1, <2>2, <2>3, <2>4 DEF Step
<1> QED BY <1>1, <1>2, NextIsStep

LEMMA TabStep ==
  ASSUME Core(view, stored), file \in Files \union {NoFile}, NEW t \in Tab, Step(t)
  PROVE  Core(view', stored')
<1>1. CASE OpenTab(t) \/ CloseTab(t) \/ KillTab(t) \/ Flush(t) \/ ChooseImport(t)
  BY <1>1, OpenTabStep, CloseTabStep, KillTabStep, FlushStep, ChooseImportStep
  DEF Flush
<1>2. CASE \E p \in Pages : Filter(t, p) \/ UndoBatch(t, p)
  BY <1>2, FilterStep, UndoBatchStep
<1>3. CASE \E p \in Pages : FinishImport(t, p) \/ Clear(t, p)
  BY <1>3, FinishImportStep, ClearStep
<1>4. CASE \E p \in Pages : \E r \in p : Move(t, r, p)
  BY <1>4, MoveStep
<1>5. CASE \E p \in Pages : \E d \in Decision : SetDecision(t, d, p)
  BY <1>5, SetDecisionStep
<1>6. CASE \E p \in Pages : \E d \in {"accept", "reject"} : ApplyBatch(t, d, p)
  BY <1>6, ApplyBatchStep
<1>7. CASE \E text \in {Candidate, Bad} \union Texts : Type(t, text)
  BY <1>7, TypeStep
<1>8. CASE \E note \in {Plain} \union Notes : Annotate(t, note)
  BY <1>8, AnnotateStep
<1>9. CASE \E chosen \in SUBSET Entries : Select(t, chosen)
  BY <1>9, SelectStep
<1>10. CASE \E final \in BOOLEAN : Download(t, final)
  BY <1>10, DownloadStep
<1> QED BY <1>1, <1>2, <1>3, <1>4, <1>5, <1>6, <1>7, <1>8, <1>9, <1>10 DEF Step

LEMMA Initial == Init => IInv
<1> SUFFICES ASSUME Init PROVE IInv
  OBVIOUS
<1>1. view = [t \in Tab |-> Closed] /\ stored = NoEnvelope
  BY DEF Init
<1>2. \A t \in Tab : Good(view[t]) /\ Truth(t, view[t], stored)
  BY <1>1, ClosedGood DEF Truth
<1>3. DiskGood(stored)
  BY <1>1 DEF DiskGood
<1>4. Core(view, stored)
  BY <1>1, <1>2, <1>3 DEF Core
<1>5. file = NoFile /\ gestures = 0 /\ MaxGestures \in Nat
  BY ReviewAssumption DEF Init
<1> QED BY <1>4, <1>5 DEF IInv

LEMMA Inductive == IInv /\ [Next]_vars => IInv'
<1> SUFFICES ASSUME IInv, [Next]_vars PROVE IInv'
  OBVIOUS
<1> USE DEF IInv
<1>1. CASE UNCHANGED vars
  BY <1>1 DEF vars, Core
<1>2. CASE Next
  <2>1. gestures' \in 0 .. MaxGestures
    BY <1>2, GestureStep, ReviewAssumption DEF Gesture
  <2>2. CASE \E env \in Foreign : WriteOutside(env)
    <3>1. Core(view', stored') /\ file' = file
      BY <2>2, WriteOutsideStep DEF WriteOutside
    <3> QED BY <2>1, <3>1 DEF Core
  <2>3. CASE \E t \in Tab : Step(t)
    <3>1. PICK t \in Tab : Step(t)
      BY <2>3
    <3>2. Core(view', stored')
      BY <3>1, TabStep
    <3>3. file' \in Files \union {NoFile}
      BY <3>1, FileStep, DownloadFile DEF Files
    <3> QED BY <2>1, <3>2, <3>3 DEF Core
  <2> QED BY <1>2, <2>2, <2>3, NextIsStep
<1> QED BY <1>1, <1>2

\* The inductive invariant holds throughout.
THEOREM Invariance == Spec => []IInv
<1> QED BY Initial, Inductive, PTL DEF Spec

\* Memory, envelopes and files hold what they are meant to hold, for every
\* pack, set of tabs and number of gestures.
THEOREM TypeCorrect == Spec => []TypeOK
<1>1. IInv => TypeOK
  <2> SUFFICES ASSUME IInv PROVE TypeOK
    OBVIOUS
  <2>1. \A t \in Tab : view[t] \in Session
    BY DEF IInv, Core, Good
  <2>2. ASSUME NEW t \in Tab
        PROVE  /\ DOMAIN view[t].drafts \subseteq Entries
               /\ \A r \in DOMAIN view[t].drafts : view[t].drafts[r] \in Item
    BY <2>1, DraftsShape DEF Session
  <2>3. ASSUME NEW t \in Tab
        PROVE  /\ {view[t].open, view[t].timer, view[t].warned} \subseteq BOOLEAN
               /\ view[t].mem \in [Entries -> Kept] /\ view[t].undo \in Undo
               /\ view[t].current \in Entries /\ view[t].page \in Pages
               /\ view[t].importing = NoFile \/ view[t].importing \in Files
    BY <2>1 DEF Session
  <2>4. stored = NoEnvelope \/ stored \in Envelopes(Tab \union {Outside})
    BY DEF IInv, Core, DiskGood
  <2>5. (file = NoFile \/ file \in Files) /\ gestures \in 0 .. MaxGestures
    BY DEF IInv
  <2> QED BY <2>2, <2>3, <2>4, <2>5 DEF TypeOK
<1> QED BY <1>1, Invariance, PTL

\* The undo on offer fits the decisions: undoLastBatch never takes back an
\* individual change.
THEOREM UndoAlwaysFits == Spec => []UndoFits
<1>1. IInv => UndoFits
  BY DEF IInv, Core, Good, Fits, UndoFits
<1> QED BY <1>1, Invariance, PTL

\* What a tab stored loads, whatever other tabs did in between.
THEOREM OwnEnvelopeLoads == Spec => []StoredLoads
<1>1. IInv => StoredLoads
  BY DEF IInv, Core, DiskGood, StoredLoads
<1> QED BY <1>1, Invariance, PTL

\* The editor shows what memory holds or segments it has refused.
THEOREM EditorIsMemory == Spec => []ShownIsKept
<1>1. IInv => ShownIsKept
  BY DEF IInv, Core, Good, DraftsAgree, ShownIsKept
<1> QED BY <1>1, Invariance, PTL

\* A tab whose envelope is stored has lost nothing it did not warn of.
THEOREM NothingLostUnsaid == Spec => []SavedOrWarned
<1>1. IInv => SavedOrWarned
  BY DEF IInv, Core, Truth, SavedOrWarned
<1> QED BY <1>1, Invariance, PTL

\* A selection holds only what a batch accepts.
THEOREM SelectionIsEligible == Spec => []SelectionEligible
<1>1. IInv => SelectionEligible
  BY DEF IInv, Core, Good, SelectionFits, SelectionEligible
<1> QED BY <1>1, Invariance, PTL

\* A final file decides every entry the way some tab showed it.
THEOREM FinalIsShown == Spec => FinalIsWhatWasShown
<1> DEFINE Final == file' # file /\ file'.final =>
             \E t \in Tab : \A r \in Entries :
               /\ file'.items[r] = Shown(view[t], r)
               /\ file'.items[r].decision # "unreviewed"
<1>1. IInv /\ [Next]_vars => [Final]_vars
  <2> SUFFICES ASSUME IInv, Next, file' # file, file'.final
               PROVE  \E t \in Tab : \A r \in Entries :
                        /\ file'.items[r] = Shown(view[t], r)
                        /\ file'.items[r].decision # "unreviewed"
    OBVIOUS
  <2>1. PICK t \in Tab : Step(t)
    BY NextIsStep DEF WriteOutside
  <2>2. PICK final \in BOOLEAN : Download(t, final)
    BY <2>1, FileStep
  <2>3. /\ file' = [final |-> final, items |-> view[t].mem]
        /\ final => \A r \in Entries :
                      /\ Shown(view[t], r) = view[t].mem[r]
                      /\ view[t].mem[r].decision # "unreviewed"
    BY <2>2, DownloadFile DEF IInv
  <2> QED BY <2>3
<1> QED BY <1>1, Invariance, PTL DEF Spec, FinalIsWhatWasShown
=============================================================================
