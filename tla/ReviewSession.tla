---------------------------- MODULE ReviewSession ----------------------------
(***************************************************************************)
(* The human review page of a candidate: the script build_review_html puts *)
(* in index.html (review_ui.py).  A tab keeps the decisions in memory,     *)
(* keystrokes in drafts, one batch that can be undone, and saves all of it *)
(* as one envelope in localStorage, whose setItem can fail.  Several tabs  *)
(* may show the same pack and share that key.                              *)
(***************************************************************************)
EXTENDS Functions, FiniteSets, Naturals

CONSTANTS
  Tab,          \* browser tabs on the pack
  Entries,      \* occurrence ids of the pack
  Pages,        \* the sets of entries the filters and paging can show
  Candidate,    \* the candidate segments of an entry
  Texts,        \* other segments that validateSegment accepts
  Bad,          \* segments it refuses
  Plain,        \* empty note, no tags, no glossary mark
  Notes,        \* other values of note, tags and glossary mark
  NoEnvelope,   \* getItem returned null
  NoUndo,       \* undoState === null
  NoFile,       \* no decisions file
  Outside,      \* whoever writes storage without the page's script
  Foreign,      \* the envelopes Outside can put there
  MaxGestures,  \* bound: what the reviewer does in all tabs together
  MaxShared     \* bound: the same while more than one tab is open

Decision == {"unreviewed", "accept", "edit", "reject"}
Item == [decision : Decision, text : {Candidate, Bad} \union Texts,
         note : {Plain} \union Notes]
Default == [decision |-> "unreviewed", text |-> Candidate, note |-> Plain]
Blank == [r \in Entries |-> Default]

VARIABLES
  view,      \* per tab: what its script holds
  stored,    \* the envelope under the pack's key
  file,      \* the decisions file last downloaded
  gestures   \* bound: gestures so far

vars == <<view, stored, file, gestures>>

-----------------------------------------------------------------------------
(* What the script computes.                                               *)

Valid(item) == item.text # Bad

(* A decisions record and a compact state carry segments only for edit.    *)
Written(item) ==
  IF item.decision = "edit" THEN item ELSE [item EXCEPT !.text = Candidate]

WrittenAll(mem) == [r \in Entries |-> Written(mem[r])]

(* What memory, envelopes and decisions files can hold.                    *)
Kept == {i \in Item : Valid(i) /\ Written(i) = i}

Undo ==
  {NoUndo} \union
  [decision : {"accept", "reject"},
   before : UNION {[S -> Kept] : S \in (SUBSET Entries) \ {{}}}]

Envelopes(writers) ==
  [by : writers, version : {2, 3}, items : [Entries -> Kept], undo : Undo]

Files == [final : BOOLEAN, items : [Entries -> Kept]]

(* A pack has entries, a page shows some of them (a filter that shows none *)
(* leaves nothing to act on), the candidate is a segment the page accepts  *)
(* and what others write has the shape of an envelope.                     *)
ASSUME ReviewAssumption ==
  /\ Entries # {}
  /\ Pages # {} /\ Pages \subseteq (SUBSET Entries) \ {{}}
  /\ Bad # Candidate /\ Bad \notin Texts
  /\ Outside \notin Tab /\ Foreign \subseteq Envelopes({Outside})
  /\ MaxGestures \in Nat

After(decision, before) ==
  [before EXCEPT !.decision = decision, !.text = Candidate]

(* validateUndoDocument and validateCompactUndoDocument against a state.   *)
Matches(undo, mem) ==
  \A r \in DOMAIN undo.before :
    /\ undo.before[r].decision = "unreviewed"
    /\ mem[r] = After(undo.decision, undo.before[r])

Loadable(env) == env.undo # NoUndo => Matches(env.undo, env.items)

WrittenUndo(undo) ==
  IF undo = NoUndo THEN NoUndo
  ELSE [undo EXCEPT !.before =
          [r \in DOMAIN undo.before |-> Written(undo.before[r])]]

Envelope(t, s) ==
  [by |-> t, version |-> 3, items |-> WrittenAll(s.mem),
   undo |-> WrittenUndo(s.undo)]

HasInvalidDraft(s, r) == r \in DOMAIN s.drafts /\ ~Valid(s.drafts[r])
Shown(s, r) == IF r \in DOMAIN s.drafts THEN s.drafts[r] ELSE s.mem[r]

Eligible(s, r) == s.mem[r].decision = "unreviewed" /\ ~HasInvalidDraft(s, r)

Closed ==
  [open |-> FALSE, mem |-> Blank, drafts |-> <<>>, undo |-> NoUndo,
   current |-> CHOOSE r \in Entries : TRUE, page |-> CHOOSE p \in Pages : TRUE,
   selected |-> {}, timer |-> FALSE, warned |-> FALSE, importing |-> NoFile]

(* settleDraftsInMemory: cancel the timer, forget the drafts that are kept *)
(* in memory, keep the refused ones.                                       *)
Settled(s) ==
  [s EXCEPT !.timer = FALSE,
            !.drafts = Restrict(@, {r \in DOMAIN @ : ~Valid(@[r])})]

SetMemoryKeepingUndo(s, r, item) == [s EXCEPT !.mem[r] = item]

(* setStateMemory: an individual change of an entry of the last batch      *)
(* forgets the undo.                                                       *)
SetMemory(s, r, item) ==
  LET batch == IF s.undo = NoUndo THEN {} ELSE DOMAIN s.undo.before
  IN  [s EXCEPT !.mem[r] = item,
                !.undo = IF r \in batch /\ s.mem[r] # item THEN NoUndo ELSE @]

WithDraft(s, r, item) ==
  [s EXCEPT !.drafts =
     [q \in DOMAIN @ \union {r} |-> IF q = r THEN item ELSE @[q]]]

Without(s, r) == [s EXCEPT !.drafts = Restrict(@, DOMAIN @ \ {r})]

SavesApart(t, s, disk) ==
  {[tab |-> s, disk |-> Envelope(t, s)],
   [tab |-> [s EXCEPT !.warned = TRUE], disk |-> disk]}
  \union (IF disk = NoEnvelope THEN {}
          ELSE {[tab |-> [s EXCEPT !.warned = TRUE],
                 disk |-> [Envelope(t, s) EXCEPT !.undo = disk.undo]]})

SavesSilently(t, s, disk) ==
  {[tab |-> s, disk |-> Envelope(t, s)], [tab |-> s, disk |-> disk]}

(* persistSparse: the tab and the storage after a setItem that works, and  *)
(* after one that throws.                                                  *)
Saves(t, s, disk) ==
  {[tab |-> s, disk |-> Envelope(t, s)],
   [tab |-> [s EXCEPT !.warned = TRUE], disk |-> disk]}

RendersAsSelected(s, p) ==
  {[s EXCEPT !.page = p, !.current = c] :
     c \in {s.current} \union
           (IF s.current \in p THEN {} ELSE {CHOOSE r \in p : TRUE})}

(* applyFilters and renderList: the page is what the filters now show, the *)
(* selection keeps what is still eligible on it, and an entry that is no   *)
(* longer shown stays current or gives way to one that is.                 *)
Renders(s, p) ==
  {[s EXCEPT !.page = p, !.current = c,
             !.selected = {r \in @ \intersect p : Eligible(s, r)}] :
     c \in {s.current} \union
           (IF s.current \in p THEN {} ELSE {CHOOSE r \in p : TRUE})}

-----------------------------------------------------------------------------
(* Gestures.                                                               *)

Shared == \E t, u \in Tab : t # u /\ view[t].open /\ view[u].open
Gesture == /\ gestures < MaxGestures /\ (Shared => gestures < MaxShared)
           /\ gestures' = gestures + 1

Show(t, s) == view' = [view EXCEPT ![t] = s]

Settle(t, o, p) ==
  (\E s \in Renders(o.tab, p) : Show(t, s)) /\ stored' = o.disk

(* The script starts: restore the envelope, or start empty and warn.  An   *)
(* older envelope keeps its decisions whatever its undo, and is saved      *)
(* again as version 3; version 1 is version 2 without an undo.             *)
OpenTab(t) ==
  LET new == [Closed EXCEPT !.open = TRUE]
      restored == [new EXCEPT !.mem = stored.items, !.undo = stored.undo]
  IN  /\ ~view[t].open /\ UNCHANGED <<file, gestures>>
      /\ \/ stored = NoEnvelope /\ Show(t, new) /\ UNCHANGED stored
         \/ /\ stored # NoEnvelope /\ stored.version = 3 /\ Loadable(stored)
            /\ Show(t, restored) /\ UNCHANGED stored
         \/ /\ stored # NoEnvelope /\ stored.version = 3 /\ ~Loadable(stored)
            /\ Show(t, [new EXCEPT !.warned = TRUE]) /\ UNCHANGED stored
         \/ /\ stored # NoEnvelope /\ stored.version = 2
            /\ \E o \in Saves(t,
                   IF Loadable(stored) THEN restored
                   ELSE [restored EXCEPT !.undo = NoUndo, !.warned = TRUE],
                   stored) :
                 Show(t, o.tab) /\ stored' = o.disk

(* pagehide flushes; a tab the browser kills does not.                     *)
CloseTab(t) ==
  /\ view[t].open /\ UNCHANGED <<file, gestures>>
  /\ \E o \in Saves(t, Settled(view[t]), stored) : stored' = o.disk
  /\ Show(t, Closed)

KillTab(t) ==
  /\ view[t].open /\ Show(t, Closed) /\ UNCHANGED <<stored, file, gestures>>

(* move, navigateToRecord, a click on a row, the page buttons: flush, show *)
(* another entry; the selection survives on the same page only.            *)
Move(t, r, p) ==
  /\ view[t].open /\ Gesture /\ UNCHANGED file
  /\ \E o \in Saves(t, Settled(view[t]), stored) :
       Settle(t, [o EXCEPT !.tab.current = r,
                           !.tab.selected = IF p = view[t].page THEN @ ELSE {}],
              p)

(* A search or a filter: the selection goes, nothing is flushed.           *)
Filter(t, p) ==
  /\ view[t].open /\ Gesture /\ UNCHANGED <<stored, file>>
  /\ \E s \in Renders([view[t] EXCEPT !.selected = {}], p) : Show(t, s)

(* The timer of scheduleTextSave, or a field losing focus.                 *)
Flush(t) ==
  /\ view[t].open /\ UNCHANGED <<file, gestures>>
  /\ \E o \in Saves(t, Settled(view[t]), stored) :
       Show(t, o.tab) /\ stored' = o.disk

(* updateDraft, from the editor that an edit decision shows.               *)
Type(t, text) ==
  LET s == view[t]
      r == s.current
      item == [Shown(s, r) EXCEPT !.text = text]
      typed == IF Valid(item) THEN SetMemory(s, r, item)
               ELSE [s EXCEPT !.selected = @ \ {r}]
  IN  /\ s.open /\ Shown(s, r).decision = "edit" /\ Gesture
      /\ Show(t, [WithDraft(typed, r, item) EXCEPT !.timer = TRUE])
      /\ UNCHANGED <<stored, file>>

(* updateDraftAwareField: the note is saved by the timer, tags and the     *)
(* glossary mark at once.                                                  *)
Annotate(t, note) ==
  LET s == view[t]
      r == s.current
      set == SetMemory(s, r, [s.mem[r] EXCEPT !.note = note])
      both == IF r \in DOMAIN s.drafts
              THEN WithDraft(set, r, [s.drafts[r] EXCEPT !.note = note])
              ELSE set
  IN  /\ s.open /\ Gesture /\ UNCHANGED file
      /\ \/ Show(t, [both EXCEPT !.timer = TRUE]) /\ UNCHANGED stored
         \/ \E o \in Saves(t, both, stored) :
              Show(t, o.tab) /\ stored' = o.disk

DecidedKeepingText(s, decision) ==
  LET r == s.current
      item == [s.mem[r] EXCEPT !.decision = decision]
      off == [s EXCEPT !.selected = @ \ {r}]
  IN  IF decision = "edit" THEN SetMemory(off, r, item)
      ELSE SetMemory(Without(off, r), r, item)

DecidedKeepingDraft(s, decision) ==
  LET r == s.current
      item == [s.mem[r] EXCEPT !.decision = decision]
      off == [s EXCEPT !.selected = @ \ {r}]
  IN  IF decision = "edit" THEN SetMemory(off, r, item)
      ELSE SetMemory(off, r, [item EXCEPT !.text = Candidate])

(* setDecision: flush, deselect, decide, save.                             *)
Decided(s, decision) ==
  LET r == s.current
      item == [s.mem[r] EXCEPT !.decision = decision]
      off == [s EXCEPT !.selected = @ \ {r}]
  IN  IF decision = "edit" THEN SetMemory(off, r, item)
      ELSE SetMemory(Without(off, r), r, [item EXCEPT !.text = Candidate])

SetDecision(t, decision, p) ==
  /\ view[t].open /\ Gesture /\ UNCHANGED file
  /\ \E flushed \in Saves(t, Settled(view[t]), stored) :
       \E o \in Saves(t, Decided(flushed.tab, decision), flushed.disk) :
         Settle(t, o, p)

(* Check boxes, select all unreviewed of the page, clear the selection.    *)
Select(t, chosen) ==
  LET s == view[t]
  IN  /\ s.open /\ Gesture /\ UNCHANGED <<stored, file>>
      /\ \A r \in chosen : r \in s.page /\ (r \in s.selected \/ Eligible(s, r))
      /\ Show(t, [s EXCEPT !.selected = chosen])

(* validateBatchSelection, then one state, one undo, one save.             *)
ApplyBatch(t, decision, p) ==
  LET s == view[t]
      done == [Settled(s) EXCEPT
                 !.mem = [r \in Entries |->
                            IF r \in s.selected THEN After(decision, @[r])
                                                ELSE @[r]],
                 !.undo = [decision |-> decision,
                           before |-> Restrict(s.mem, s.selected)],
                 !.selected = {}]
  IN  /\ s.open /\ Gesture /\ UNCHANGED file
      /\ s.selected # {} /\ s.selected \subseteq s.page
      /\ \A r \in s.selected : Eligible(s, r)
      /\ \E o \in Saves(t, done, stored) : Settle(t, o, p)

UndoBatch(t, p) ==
  LET s == view[t]
      back == [Settled(s) EXCEPT
                 !.mem = [r \in Entries |->
                            IF r \in DOMAIN s.undo.before THEN s.undo.before[r]
                                                          ELSE @[r]],
                 !.undo = NoUndo, !.selected = {}]
  IN  /\ s.open /\ s.undo # NoUndo /\ Matches(s.undo, s.mem) /\ Gesture
      /\ \E o \in Saves(t, back, stored) : Settle(t, o, p)
      /\ UNCHANGED file

(* The import handler waits for file.text(); the reviewer goes on.         *)
ChooseImport(t) ==
  /\ view[t].open /\ file # NoFile /\ view[t].importing = NoFile /\ Gesture
  /\ Show(t, [view[t] EXCEPT !.importing = file])
  /\ UNCHANGED <<stored, file>>

(* Save first, then replace everything in memory; a save that throws       *)
(* leaves memory and storage alone.                                        *)
FinishImport(t, p) ==
  LET s == [view[t] EXCEPT !.importing = NoFile]
      next == [s EXCEPT !.mem = view[t].importing.items, !.drafts = <<>>,
                        !.undo = NoUndo, !.selected = {}]
  IN  /\ view[t].open /\ view[t].importing # NoFile
      /\ \/ Settle(t, [tab |-> next, disk |-> Envelope(t, next)], p)
         \/ Show(t, [s EXCEPT !.warned = TRUE]) /\ UNCHANGED stored
      /\ UNCHANGED <<file, gestures>>

Clear(t, p) ==
  LET s == view[t]
  IN  /\ s.open /\ Gesture /\ UNCHANGED file
      /\ \/ /\ stored' = NoEnvelope
            /\ \E c \in Renders([Closed EXCEPT !.open = TRUE,
                                             !.current = s.current,
                                             !.importing = s.importing], p) :
                 Show(t, c)
         \/ Show(t, [s EXCEPT !.warned = TRUE]) /\ UNCHANGED stored

DownloadAnyDraft(t, final) ==
  /\ view[t].open /\ Gesture
  /\ \E o \in Saves(t, Settled(view[t]), stored) :
       /\ Show(t, o.tab) /\ stored' = o.disk
       /\ IF final => \A r \in Entries : o.tab.mem[r].decision # "unreviewed"
          THEN file' = [final |-> final, items |-> WrittenAll(o.tab.mem)]
          ELSE UNCHANGED file

(* downloadDocument: flush, then refuse a final file with a refused draft  *)
(* or an undecided entry.                                                  *)
Download(t, final) ==
  /\ view[t].open /\ Gesture
  /\ \E o \in Saves(t, Settled(view[t]), stored) :
       /\ Show(t, o.tab) /\ stored' = o.disk
       /\ IF final => \A r \in Entries : /\ ~HasInvalidDraft(o.tab, r)
                                         /\ o.tab.mem[r].decision # "unreviewed"
          THEN file' = [final |-> final, items |-> WrittenAll(o.tab.mem)]
          ELSE UNCHANGED file

(* Something other than the page writes the key: an older version of the   *)
(* page, an import of browser data, damage.                                *)
WriteOutside(env) ==
  /\ stored = NoEnvelope /\ Gesture /\ stored' = env /\ UNCHANGED <<view, file>>

-----------------------------------------------------------------------------
Init ==
  /\ view = [t \in Tab |-> Closed]
  /\ stored = NoEnvelope
  /\ file = NoFile
  /\ gestures = 0

Next ==
  \/ \E env \in Foreign : WriteOutside(env)
  \/ \E t \in Tab :
       \/ OpenTab(t) \/ CloseTab(t) \/ KillTab(t) \/ Flush(t) \/ ChooseImport(t)
       \/ \E p \in Pages : \/ Filter(t, p) \/ UndoBatch(t, p)
                           \/ FinishImport(t, p) \/ Clear(t, p)
                           \/ \E r \in p : Move(t, r, p)
                           \/ \E d \in Decision : SetDecision(t, d, p)
                           \/ \E d \in {"accept", "reject"} : ApplyBatch(t, d, p)
       \/ \E text \in {Candidate, Bad} \union Texts : Type(t, text)
       \/ \E note \in {Plain} \union Notes : Annotate(t, note)
       \/ \E chosen \in SUBSET Entries : Select(t, chosen)
       \/ \E final \in BOOLEAN : Download(t, final)

Spec == Init /\ [][Next]_vars

-----------------------------------------------------------------------------
(* Properties.                                                             *)

(* Types, and what the compact envelope relies on: only an edit decision   *)
(* has segments of its own, and memory never holds refused segments, so    *)
(* that leaving them out of the envelope loses nothing.                    *)
TypeOK ==
  /\ stored = NoEnvelope \/ stored \in Envelopes(Tab \union {Outside})
  /\ file = NoFile \/ file \in Files
  /\ gestures \in 0 .. MaxGestures
  /\ \A t \in Tab : LET s == view[t] IN
       /\ {s.open, s.timer, s.warned} \subseteq BOOLEAN
       /\ s.mem \in [Entries -> Kept] /\ s.undo \in Undo
       /\ DOMAIN s.drafts \subseteq Entries
       /\ \A r \in DOMAIN s.drafts : s.drafts[r] \in Item
       /\ s.current \in Entries /\ s.page \in Pages
       /\ s.importing = NoFile \/ s.importing \in Files

(* The undo a tab offers always fits its decisions: whatever the reviewer  *)
(* typed, imported, cleared or restored since the batch, undoLastBatch     *)
(* never refuses and never takes back an individual change.                *)
UndoFits ==
  \A t \in Tab : view[t].undo # NoUndo => Matches(view[t].undo, view[t].mem)

(* What any tab left in storage loads again: decisions and undo are one    *)
(* envelope, so a failed save cannot pair new decisions with an old undo,  *)
(* and no interleaving of tabs makes the page reject its own envelope.     *)
StoredLoads ==
  stored # NoEnvelope /\ stored.by \in Tab =>
    stored.version = 3 /\ Loadable(stored)

(* What the editor shows is what memory holds, except for the one thing    *)
(* the reviewer was told about: segments that were refused.                *)
ShownIsKept ==
  \A t \in Tab : \A r \in DOMAIN view[t].drafts :
    LET draft == view[t].drafts[r]
        kept == view[t].mem[r]
    IN  /\ draft.decision = kept.decision /\ draft.note = kept.note
        /\ Valid(draft) => draft = kept

(* Nothing is lost unsaid: when the envelope is this tab's, no save is     *)
(* pending and none was reported as failed, the envelope is what the tab   *)
(* holds.                                                                  *)
SavedOrWarned ==
  \A t \in Tab :
    /\ view[t].open /\ ~view[t].timer /\ ~view[t].warned
    /\ stored # NoEnvelope /\ stored.by = t
    => stored.items = view[t].mem /\ stored.undo = view[t].undo

(* A selection never holds what a batch would refuse: a decided entry, one *)
(* with a refused draft or one of another page.                            *)
SelectionEligible ==
  \A t \in Tab : \A r \in view[t].selected :
    r \in view[t].page /\ Eligible(view[t], r)

(* A final file is a decision for every entry, each as some tab showed it  *)
(* when the reviewer asked for the file.                                   *)
FinalIsWhatWasShown ==
  [][file' # file /\ file'.final =>
       \E t \in Tab : \A r \in Entries :
         /\ file'.items[r] = Shown(view[t], r)
         /\ file'.items[r].decision # "unreviewed"]_vars

(* README: decisions of a damaged envelope that are valid are loaded, only *)
(* an undo that does not fit them is dropped.                              *)
DecisionsLoad ==
  [][\A t \in Tab : ~view[t].open /\ view'[t].open /\ stored # NoEnvelope =>
       view'[t].mem = stored.items]_vars
=============================================================================
