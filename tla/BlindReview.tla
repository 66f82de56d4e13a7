----------------------------- MODULE BlindReview -----------------------------
(***************************************************************************)
(* The page of the blind comparison (context_ab.py, _SCRIPT): for every    *)
(* entry the reviewer picks which of two variants is better, then locks    *)
(* the choice, and only then is the reviewed reference shown. The draft is *)
(* kept in the browser's storage; documents of locked choices are exported *)
(* and imported. Notes are left out, not the writes they cause.            *)
(***************************************************************************)
EXTENDS Naturals, FiniteSets

CONSTANTS Entries, Choices,
          Tabs,        \* open pages of one pack in one browser
          Damaged      \* a stored draft that cleanStorage refuses

Draft == UNION {[S -> [choice : Choices, locked : BOOLEAN]] : S \in SUBSET Entries}
Documents == UNION {[S -> Choices] : S \in SUBSET Entries}
Empty == [e \in {} |-> Damaged]

VARIABLES stored,    \* the draft in the browser's storage
          page,      \* for every tab its draft in memory
          closed,    \* the tabs that are not open
          revealed   \* the choices made before their reference was shown,
                     \* while the stored draft lasts

vars == <<stored, page, closed, revealed>>

Init == /\ stored = Empty
        /\ page = [t \in Tabs |-> Empty]
        /\ closed = Tabs
        /\ revealed = Empty

Over(new, old) ==
  [e \in DOMAIN new \cup DOMAIN old |-> IF e \in DOMAIN new THEN new[e] ELSE old[e]]

Locked(draft) == {e \in DOMAIN draft : draft[e].locked}
LockedChoices(draft) == [e \in Locked(draft) |-> draft[e].choice]

\* Loading the page: a draft that is not valid is removed.
Open(t) ==
  /\ page' = [page EXCEPT ![t] = IF stored = Damaged THEN Empty ELSE stored]
  /\ stored' = IF stored = Damaged THEN Empty ELSE stored
  /\ closed' = closed \ {t}
  /\ UNCHANGED revealed

Close(t) == /\ t \notin closed /\ closed' = closed \cup {t}
            /\ UNCHANGED <<stored, page, revealed>>

\* commit: the storage first; when it refuses the write nothing changes. The
\* whole draft of the tab is written. Rendering shows the references of all
\* locked entries.
Commit(t, draft) ==
  /\ t \notin closed
  /\ stored' = draft
  /\ page' = [page EXCEPT ![t] = draft]
  /\ revealed' = Over(revealed, LockedChoices(draft))
  /\ UNCHANGED closed

Choose(t, e, c) ==
  /\ e \notin Locked(page[t])
  /\ Commit(t, Over([x \in {e} |-> [choice |-> c, locked |-> FALSE]], page[t]))

Lock(t, e) ==
  /\ e \in DOMAIN page[t] \ Locked(page[t])
  /\ Commit(t, [page[t] EXCEPT ![e].locked = TRUE])

Note(t, e) == e \in DOMAIN page[t] /\ Commit(t, page[t])

\* A document is taken as a whole or not at all; its choices are locked.
NoConflict(draft, document) == FALSE
Conflicts(draft, document) ==
  \E e \in Locked(draft) \cap DOMAIN document : draft[e].choice # document[e]

Import(t, document) ==
  /\ ~Conflicts(page[t], document)
  /\ Commit(t, Over([e \in DOMAIN document |->
                       [choice |-> document[e], locked |-> TRUE]], page[t]))

\* External: the browser's data are cleared, or damaged by another program.
Forget ==
  /\ stored' \in {Empty, Damaged}
  /\ closed' = Tabs
  /\ revealed' = Empty
  /\ UNCHANGED page

Next == \/ \E t \in Tabs :
             \/ Open(t) \/ Close(t)
             \/ \E e \in Entries : \/ \E c \in Choices : Choose(t, e, c)
                                   \/ Lock(t, e) \/ Note(t, e)
             \/ \E d \in Documents : Import(t, d)
        \/ Forget

Spec == Init /\ [][Next]_vars

----------------------------------------------------------------------------
BlindTypeOK ==
  /\ stored \in Draft \cup {Damaged}
  /\ page \in [Tabs -> Draft]
  /\ closed \subseteq Tabs
  /\ revealed \in Documents

Cleared == stored' \in {Empty, Damaged} /\ closed' = Tabs
Has(draft, e, decision) == e \in DOMAIN draft /\ draft[e] = decision

LockStep ==
  /\ stored # Damaged /\ ~Cleared =>
       \A e \in Locked(stored) :
         \/ Has(stored', e, stored[e])
         \/ \E t \in Tabs \ closed : page'[t] = stored' /\ ~Has(page[t], e, stored[e])
  /\ \A t \in Tabs \ closed : \A e \in Locked(page[t]) :
       \/ Has(page'[t], e, page[t][e])
       \/ page'[t] = stored' /\ stored \in {stored', Damaged}

\* A locked choice leaves the storage, or changes there, only when the storage is
\* cleared or a tab whose own draft does not have it writes that draft; and an open
\* page loses one only by being loaded again. So no handler and no document undoes
\* a lock that its own tab knows of.
LocksStay == [][LockStep]_vars

\* What README.md says of a locked choice: its radio buttons are blocked for good.
\* So a choice whose reference was shown is, until the storage is cleared, in the
\* storage as it was, and every page loaded from there shows it blocked.
LockKept ==
  stored # Damaged =>
    \A e \in DOMAIN revealed : Has(stored, e, [choice |-> revealed[e], locked |-> TRUE])
=============================================================================
