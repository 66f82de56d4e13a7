------------------------- MODULE WorkspaceJournalProofs -------------------------
(***************************************************************************)
(* Why a workspace file and its rollback journal are worth exactly the     *)
(* committed transactions, wherever a process is killed or fails, for any  *)
(* number of occurrences and runs: until the journal is synced the file is *)
(* untouched, from then on the journal has the originals of all pages that *)
(* may differ (Journaled), and deleting it is the only step that changes   *)
(* what a recovery would yield. WorkspaceJournal so implements             *)
(* WorkspaceStore, whose transactions keep count and rows together.        *)
(***************************************************************************)
EXTENDS WorkspaceJournal, FiniteSetTheorems, TLAPS

\* A content whose count and rows belong together.
Good(c) ==
  /\ c \in Store!Content
  /\ c.job.completed_count = Cardinality(c.ended)
  /\ c.job.finalization = "intent" => c.ended = Store!Occ

Pages == [job : Store!JobPage, ended : SUBSET Store!Occ]

Position == {"none", "load", "rollback", "reload", "ready", "update", "apply", "undo"}

Shapes ==
  /\ disk \in Pages /\ cache \in Pages
  /\ journal = [header |-> journal.header, saved |-> journal.saved]
  /\ journal.header \in Headers
  /\ DOMAIN journal.saved \subseteq Page
  /\ journal.saved = [g \in DOMAIN journal.saved |-> journal.saved[g]]
  /\ pc \in Position
  /\ loaded \in Store!Content \cup {Unread}

\* What the journal saved, against what is in the file.
Journaled ==
  /\ journal.header \in {"none", "empty"} => DOMAIN journal.saved = {}
  /\ ~Hot => \A g \in DOMAIN journal.saved : journal.saved[g] = disk[g]
  /\ pc \in {"ready", "reload"} => journal.header = "none"
  /\ pc = "rollback" => Hot
  /\ pc = "update" => ~Hot /\ cache \in Store!Transactions(disk)
  /\ pc = "apply" => /\ Hot /\ cache \in Store!Transactions(RolledBack)
                     /\ \A g \in Page \ DOMAIN journal.saved : cache[g] = disk[g]

Known ==
  /\ Good(Recovered)
  /\ loaded # Unread => Good(loaded)
  /\ pc \in {"ready", "update", "apply"} => loaded # Unread

IInv == Shapes /\ Journaled /\ Known

-----------------------------------------------------------------------------
(* The transactions of WorkspaceStore.                                     *)

LEMMA TransactionShape ==
  ASSUME NEW c \in Store!Content, NEW d \in Store!Transactions(c)
  PROVE  \/ /\ d = [c EXCEPT !.job.run_count = @ + 1]
            /\ Store!Translating(c.job) /\ c.job.run_count <= MaxRun
         \/ \E k \in Store!Occ \ c.ended :
              /\ d = [c EXCEPT !.ended = @ \cup {k}, !.job.completed_count = @ + 1]
              /\ Store!Translating(c.job) /\ c.job.completed_count < N
         \/ /\ d = [c EXCEPT !.job.finalization = "intent"]
            /\ c.ended = Store!Occ /\ Store!Translating(c.job)
            /\ c.job.completed_count = N
         \/ /\ d = [c EXCEPT !.job.state = "completed"]
            /\ c.ended = Store!Occ /\ c.job.finalization = "intent"
            /\ c.job.completed_count = N
<1>1. CASE d \in Store!StartResumeRun(c)
  BY ZenonT(90), <1>1 DEF Store!StartResumeRun
<1>2. CASE d \in Store!Checkpoint(c)
  BY <1>2 DEF Store!Checkpoint
<1>3. CASE d \in Store!Intent(c)
  BY <1>3 DEF Store!Intent
<1>4. CASE d \in Store!Complete(c)
  BY <1>4 DEF Store!Complete
<1> QED BY <1>1, <1>2, <1>3, <1>4 DEF Store!Transactions

LEMMA OccFinite ==
  /\ IsFiniteSet(Store!Occ) /\ Cardinality(Store!Occ) = N
  /\ \A S \in SUBSET Store!Occ : IsFiniteSet(S)
<1>1. 1 \in Int /\ N \in Int
  BY JournalAssumption
<1>2. IsFiniteSet(1..N) /\ Cardinality(1..N) = N
  BY <1>1, JournalAssumption, FS_Interval
<1> QED BY <1>2, FS_Subset DEF Store!Occ

\* A transaction keeps the types and the accounting.
LEMMA TransactionGood ==
  ASSUME NEW c, Good(c), NEW d \in Store!Transactions(c)
  PROVE  Good(d)
<1>. DEFINE j == c.job
<1>1. c \in Store!Content /\ c.job \in Store!JobPage /\ c.ended \in SUBSET Store!Occ
  BY DEF Good, Store!Content
<1>2. CASE /\ d = [c EXCEPT !.job.run_count = @ + 1]
           /\ Store!Translating(c.job) /\ c.job.run_count <= MaxRun
  <2>1. d.job = [c.job EXCEPT !.run_count = @ + 1] /\ d.ended = c.ended
        /\ d = [job |-> d.job, ended |-> d.ended]
    BY <1>1, <1>2 DEF Store!Content
  <2>2. d.job \in Store!JobPage
    BY <1>1, <1>2, <2>1, JournalAssumption DEF Store!JobPage
  <2> QED BY <1>1, <2>1, <2>2 DEF Good, Store!Content, Store!JobPage
<1>3. ASSUME NEW k \in Store!Occ \ c.ended,
             d = [c EXCEPT !.ended = @ \cup {k}, !.job.completed_count = @ + 1],
             Store!Translating(c.job), c.job.completed_count < N
      PROVE  Good(d)
  <2>1. d.job = [c.job EXCEPT !.completed_count = @ + 1] /\ d.ended = c.ended \cup {k}
        /\ d = [job |-> d.job, ended |-> d.ended]
    BY <1>1, <1>3 DEF Store!Content
  <2>2. d.job \in Store!JobPage /\ d.job.completed_count = c.job.completed_count + 1
        /\ d.job.finalization # "intent"
    BY <1>1, <1>3, <2>1, JournalAssumption DEF Store!JobPage, Store!Translating
  <2>3. Cardinality(d.ended) = Cardinality(c.ended) + 1
    BY <1>1, <1>3, <2>1, OccFinite, FS_AddElement
  <2>4. d \in Store!Content
    BY <1>1, <1>3, <2>1, <2>2 DEF Store!Content
  <2> QED BY <2>2, <2>3, <2>4 DEF Good
<1>4. CASE /\ d = [c EXCEPT !.job.finalization = "intent"]
           /\ c.ended = Store!Occ /\ Store!Translating(c.job)
           /\ c.job.completed_count = N
  <2>1. d.job = [c.job EXCEPT !.finalization = "intent"] /\ d.ended = c.ended
        /\ d = [job |-> d.job, ended |-> d.ended]
    BY <1>1, <1>4 DEF Store!Content
  <2>2. d.job \in Store!JobPage
    BY <1>1, <1>4, <2>1 DEF Store!JobPage, Store!Translating
  <2> QED BY <1>1, <1>4, <2>1, <2>2 DEF Good, Store!Content, Store!JobPage
<1>5. CASE /\ d = [c EXCEPT !.job.state = "completed"]
           /\ c.ended = Store!Occ /\ c.job.finalization = "intent"
           /\ c.job.completed_count = N
  <2>1. d.job = [c.job EXCEPT !.state = "completed"] /\ d.ended = c.ended
        /\ d = [job |-> d.job, ended |-> d.ended]
    BY <1>1, <1>5 DEF Store!Content
  <2>2. d.job \in Store!JobPage
    BY <1>1, <1>5, <2>1 DEF Store!JobPage
  <2> QED BY <1>1, <1>5, <2>1, <2>2 DEF Good, Store!Content, Store!JobPage
<1> QED BY <1>1, <1>2, <1>3, <1>4, <1>5, TransactionShape

LEMMA CreatedGood == Good(Store!Created)
<1>1. Store!Created.job \in Store!JobPage
  BY JournalAssumption DEF Store!Created, Store!JobPage
<1>2. Store!Created \in Store!Content
  BY <1>1 DEF Store!Created, Store!Content
<1> QED BY <1>2, FS_EmptySet DEF Good, Store!Created

-----------------------------------------------------------------------------
(* The steps. Each keeps the invariant and is a step of WorkspaceStore.    *)

LEMMA SamePages ==
  ASSUME NEW c \in Pages, NEW d \in Pages, c["job"] = d["job"], c["ended"] = d["ended"]
  PROVE  c = d
  BY DEF Pages

LEMMA PagesAreContent == Pages = Store!Content
  BY DEF Pages, Store!Content

LEMMA TransactionTyped ==
  ASSUME NEW c, Good(c), NEW d \in Store!Transactions(c) PROVE d \in Pages
  BY TransactionGood, PagesAreContent DEF Good

\* Steps that touch no file.
LEMMA FilesRest ==
  ASSUME IInv, UNCHANGED <<disk, journal>>, pc' \in Position, cache' \in Pages,
         loaded' \in {loaded, Unread} \/ loaded' = Recovered,
         pc' \in {"ready", "reload"} => journal.header = "none",
         pc' = "rollback" => Hot,
         pc' = "update" => ~Hot /\ cache' \in Store!Transactions(disk),
         pc' # "apply",
         pc' \in {"ready", "update"} => loaded' # Unread
  PROVE  IInv' /\ Recovered' = Recovered
<1>. USE DEF IInv
<1>1. (Hot <=> Hot') /\ RolledBack' = RolledBack /\ Recovered' = Recovered
  BY DEF Hot, RolledBack, Recovered
<1>2. Shapes'
  BY <1>1 DEF Shapes, Known, Good
<1>3. Journaled'
  BY <1>1 DEF Journaled
<1>4. Known'
  <2>1. Good(Recovered)'
    BY <1>1 DEF Known, Good
  <2>2. loaded' # Unread => Good(loaded)'
    BY DEF Known, Good
  <2> QED BY <2>1, <2>2 DEF Known
<1> QED BY <1>1, <1>2, <1>3, <1>4

\* Before the journal is synced the file is what counts.
LEMMA ColdStep ==
  ASSUME IInv, pc = "update", UNCHANGED <<disk, cache, loaded, pc>>, ~Hot',
         journal' = [header |-> journal'.header, saved |-> journal'.saved],
         journal'.header \in Headers, DOMAIN journal'.saved \subseteq Page,
         journal'.saved = [g \in DOMAIN journal'.saved |-> journal'.saved[g]],
         journal'.header \in {"none", "empty"} => DOMAIN journal'.saved = {},
         \A g \in DOMAIN journal'.saved : journal'.saved[g] = disk[g]
  PROVE  IInv' /\ Recovered' = Recovered
<1>. USE DEF IInv
<1>1. Recovered' = disk /\ Recovered = disk
  BY DEF Recovered, Journaled
<1>2. Shapes'
  BY DEF Shapes
<1>3. Journaled'
  BY DEF Journaled
<1>4. Known'
  BY <1>1 DEF Known, Good
<1> QED BY <1>1, <1>2, <1>3, <1>4

LEMMA CreateStep ==
  ASSUME IInv, CreateJournal PROVE IInv' /\ Recovered' = Recovered
<1>1. journal' = [header |-> "empty", saved |-> journal.saved]
  BY DEF CreateJournal, IInv, Shapes
<1> QED BY <1>1, ColdStep DEF CreateJournal, IInv, Shapes, Journaled, Hot, Headers

LEMMA HeaderStep ==
  ASSUME IInv, WriteHeader PROVE IInv' /\ Recovered' = Recovered
<1>1. journal' = [header |-> "zero", saved |-> journal.saved]
  BY DEF WriteHeader, IInv, Shapes
<1> QED BY <1>1, ColdStep DEF WriteHeader, IInv, Shapes, Journaled, Hot, Headers

LEMMA SaveStep ==
  ASSUME IInv, NEW g \in Page, SavePage(g) PROVE IInv' /\ Recovered' = Recovered
<1>1. journal' = [header |-> journal.header,
                  saved |-> [h \in DOMAIN journal.saved \cup {g} |->
                               IF h = g THEN disk[g] ELSE journal.saved[h]]]
  BY DEF SavePage, IInv, Shapes
<1>2. \A h \in DOMAIN journal.saved : journal.saved[h] = disk[h]
  BY DEF SavePage, IInv, Journaled, Hot
<1> QED BY <1>1, <1>2, ColdStep DEF SavePage, IInv, Shapes, Hot, Headers

\* Synced, the journal has the originals of all pages that will change.
LEMMA SyncStep ==
  ASSUME IInv, SyncJournal PROVE IInv' /\ Recovered' = Recovered
<1>. USE DEF IInv
<1>1. /\ journal' = [header |-> "magic", saved |-> journal.saved]
      /\ UNCHANGED <<disk, cache, loaded>> /\ pc' = "apply" /\ pc = "update"
      /\ ~Hot /\ Changed = DOMAIN journal.saved
  BY DEF SyncJournal, Shapes, Hot
<1>2. Hot' /\ Recovered' = RolledBack' /\ Recovered = disk
  BY <1>1 DEF Hot, Recovered
<1>3. RolledBack' = disk
  BY <1>1 DEF RolledBack, Journaled, Shapes, Pages
<1>4. Shapes'
  BY <1>1 DEF Shapes, Headers, Position
<1>5. Journaled'
  <2>1. cache' \in Store!Transactions(RolledBack')
    BY <1>1, <1>3 DEF Journaled
  <2>2. \A g \in Page \ DOMAIN journal.saved : cache[g] = disk[g]
    BY <1>1 DEF Changed
  <2> QED BY <1>1, <1>2, <2>1, <2>2 DEF Journaled
<1>6. Known'
  BY <1>1, <1>2, <1>3 DEF Known, Good
<1> QED BY <1>2, <1>3, <1>4, <1>5, <1>6

\* Once it is synced, writing a saved page changes nothing for a recovery.
LEMMA OverwriteStep ==
  ASSUME IInv, Hot, NEW g \in DOMAIN journal.saved, NEW v,
         disk' = [disk EXCEPT ![g] = v], disk' \in Pages,
         UNCHANGED <<journal, pc, cache, loaded>>
  PROVE  IInv' /\ Recovered' = Recovered
<1>. USE DEF IInv
<1>0. g \in {"job", "ended"}
  BY DEF Shapes, Page
<1>1. Hot' /\ RolledBack' = RolledBack
  <2>1. \A h \in Page : h # g => disk'[h] = disk[h]
    BY <1>0 DEF Shapes, Pages, Page
  <2> QED BY <2>1 DEF Hot, RolledBack, Page
<1>2. Recovered' = Recovered
  BY <1>1 DEF Recovered
<1>3. Shapes'
  BY DEF Shapes
<1>4. Journaled'
  <2>1. pc \notin {"ready", "reload", "update"}
    BY DEF Journaled, Hot
  <2>2. \A h \in Page \ DOMAIN journal.saved : disk'[h] = disk[h]
    BY <1>0 DEF Shapes, Pages, Page
  <2> QED BY <1>1, <2>1, <2>2 DEF Journaled, Hot
<1>5. Known'
  BY <1>2 DEF Known, Good
<1> QED BY <1>2, <1>3, <1>4, <1>5

LEMMA WriteStep ==
  ASSUME IInv, NEW g \in Page, WritePage(g) PROVE IInv' /\ Recovered' = Recovered
<1>1. g \in DOMAIN journal.saved /\ Hot
  BY DEF WritePage, IInv, Journaled, Changed
<1>2. disk' \in Pages
  BY DEF WritePage, IInv, Shapes, Pages, Page
<1> QED BY <1>1, <1>2, OverwriteStep DEF WritePage

LEMMA RestoreStep ==
  ASSUME IInv, NEW g \in Page, Restore(g) PROVE IInv' /\ Recovered' = Recovered
<1>1. g \in DOMAIN journal.saved /\ disk[g] # journal.saved[g]
  BY DEF Restore, Unrestored
<1>2. Hot
  BY <1>1 DEF IInv, Journaled
<1>3. RolledBack \in Pages
  BY <1>2, PagesAreContent DEF IInv, Known, Good, Recovered
<1>4. disk' \in Pages
  BY <1>1, <1>3 DEF Restore, IInv, Shapes, Pages, Page, RolledBack
<1> QED BY <1>1, <1>2, <1>4, OverwriteStep DEF Restore

\* The commit point.
LEMMA DeleteStep ==
  ASSUME IInv, DeleteJournal
  PROVE  IInv' /\ Recovered' \in Store!Transactions(Recovered)
           /\ loaded # Unread /\ loaded' = loaded
<1>. USE DEF IInv
<1>1. /\ journal' = NoJournal /\ pc' = "ready" /\ UNCHANGED <<disk, cache, loaded>>
      /\ pc = "apply" /\ Changed = {} /\ Hot
  BY DEF DeleteJournal, Journaled
<1>2. cache = disk
  BY <1>1, SamePages DEF Changed, Page, Shapes
<1>3. Recovered = RolledBack /\ Recovered' = disk /\ ~Hot'
  BY <1>1 DEF Recovered, Hot, NoJournal
<1>4. Recovered' \in Store!Transactions(Recovered) /\ loaded # Unread
  BY <1>1, <1>2, <1>3 DEF Journaled, Known
<1>5. Good(disk)
  BY <1>3, <1>4, TransactionGood DEF Known
<1>6. Shapes'
  BY <1>1 DEF Shapes, NoJournal, Headers, Position
<1>7. Journaled'
  BY <1>1, <1>3 DEF Journaled, NoJournal
<1>8. Known'
  BY <1>1, <1>3, <1>4, <1>5 DEF Known, Good
<1> QED BY <1>1, <1>4, <1>6, <1>7, <1>8

\* A rollback that is through has put the file where the journal said.
LEMMA RestoredStep ==
  ASSUME IInv, Restored
  PROVE  IInv' /\ Recovered' = Recovered /\ loaded' \in {loaded, Unread}
<1>. USE DEF IInv
<1>1. /\ journal' = NoJournal /\ UNCHANGED <<disk, cache>> /\ Unrestored = {}
      /\ \/ pc' = "none" /\ loaded' = Unread
         \/ pc' = "reload" /\ loaded' = loaded
  BY DEF Restored
<1>2. Recovered' = disk /\ ~Hot'
  BY <1>1 DEF Recovered, Hot, NoJournal
<1>3. Recovered = disk
  <2>1. \A g \in DOMAIN journal.saved : journal.saved[g] = disk[g]
    BY <1>1 DEF Unrestored
  <2>2. RolledBack = disk
    BY <2>1 DEF RolledBack, Shapes, Pages
  <2> QED BY <2>2 DEF Recovered
<1>4. Shapes'
  BY <1>1 DEF Shapes, NoJournal, Headers, Position
<1>5. Journaled'
  BY <1>1, <1>2 DEF Journaled, NoJournal
<1>6. Known'
  BY <1>1, <1>2, <1>3 DEF Known, Good
<1> QED BY <1>1, <1>2, <1>3, <1>4, <1>5, <1>6

-----------------------------------------------------------------------------
LEMMA Initially == Init => IInv /\ Store!Init
<1>1. SUFFICES ASSUME Init PROVE IInv /\ Store!Init
  OBVIOUS
<1>2. Recovered = Store!Created /\ ~Hot
  BY <1>1 DEF Init, Recovered, Hot, NoJournal
<1>3. Store!Created \in Pages
  BY CreatedGood, PagesAreContent DEF Good
<1>4. Shapes
  BY <1>1, <1>3 DEF Init, Shapes, NoJournal, Headers, Position
<1>5. Journaled
  BY <1>1, <1>2 DEF Init, Journaled, NoJournal
<1>6. Known
  BY <1>1, <1>2, CreatedGood DEF Init, Known
<1> QED BY <1>1, <1>2, <1>4, <1>5, <1>6 DEF IInv, Init, Store!Init

LEMMA Inductive == IInv /\ [Next]_journalVars => IInv' /\ [Store!Next]_(Store!storeVars)
<1>. SUFFICES ASSUME IInv, [Next]_journalVars
              PROVE  IInv' /\ [Store!Next]_(Store!storeVars)
  OBVIOUS
<1>. USE DEF Position
<1>0. /\ Recovered' = Recovered /\ loaded' \in {loaded, Unread}
           => [Store!Next]_(Store!storeVars)
      /\ Recovered' = Recovered /\ loaded' = Recovered => Store!Next
      /\ Recovered' \in Store!Transactions(Recovered) /\ loaded # Unread /\ loaded' = loaded
           => Store!Next
  BY DEF Store!Next, Store!Forget, Store!Load, Store!Commit, Store!storeVars
<1>1. cache \in Pages /\ pc \in Position
  BY DEF IInv, Shapes
<1>2. CASE Enter
  BY <1>0, <1>1, <1>2, FilesRest DEF Enter
<1>3. CASE Read
  <2>1. Recovered = disk
    BY <1>3 DEF Read, Recovered, Hot
  <2>2. loaded' # Unread
    BY <1>3, UnreadAssumption, PagesAreContent DEF Read, IInv, Shapes
  <2> QED BY <1>0, <1>1, <1>3, <2>1, <2>2, FilesRest DEF Read
<1>4. CASE Recover
  BY <1>0, <1>1, <1>4, FilesRest DEF Recover, Hot
<1>5. CASE RefuseJournal
  BY <1>0, <1>1, <1>5, FilesRest DEF RefuseJournal
<1>6. CASE LoadAgain
  BY <1>0, <1>1, <1>6, FilesRest DEF LoadAgain
<1>7. CASE Begin
  <2>1. ~Hot /\ Recovered = disk /\ loaded # Unread
    BY <1>7 DEF Begin, IInv, Journaled, Known, Hot, Recovered
  <2>2. cache' \in Pages
    BY <1>7, <2>1, TransactionTyped DEF Begin, IInv, Known
  <2> QED BY <1>0, <1>7, <2>1, <2>2, FilesRest DEF Begin
<1>8. CASE Fail
  BY <1>0, <1>1, <1>8, FilesRest DEF Fail
<1>9. CASE Leave
  BY <1>0, <1>1, <1>9, FilesRest DEF Leave
<1>10. CASE UNCHANGED journalVars
  <2>1. IInv'
    <3>1. Recovered' = Recovered /\ RolledBack' = RolledBack /\ (Hot <=> Hot')
      BY <1>10 DEF journalVars, Recovered, RolledBack, Hot
    <3>2. Shapes'
      BY <1>10 DEF journalVars, IInv, Shapes
    <3>3. Journaled'
      BY <1>10, <3>1 DEF journalVars, IInv, Journaled
    <3>4. Known'
      BY <1>10, <3>1 DEF journalVars, IInv, Known, Good
    <3> QED BY <3>2, <3>3, <3>4 DEF IInv
  <2>2. Recovered' = Recovered /\ loaded' = loaded
    BY <1>10 DEF journalVars, Recovered, RolledBack, Hot
  <2> QED BY <1>0, <2>1, <2>2
<1>11. CASE CreateJournal
  BY <1>0, <1>11, CreateStep DEF CreateJournal
<1>12. CASE WriteHeader
  BY <1>0, <1>12, HeaderStep DEF WriteHeader
<1>13. CASE SyncJournal
  BY <1>0, <1>13, SyncStep DEF SyncJournal
<1>14. CASE DeleteJournal
  BY <1>0, <1>14, DeleteStep
<1>15. ASSUME NEW g \in Page, SavePage(g) PROVE IInv' /\ [Store!Next]_(Store!storeVars)
  BY <1>0, <1>15, SaveStep DEF SavePage
<1>16. ASSUME NEW g \in Page, WritePage(g) PROVE IInv' /\ [Store!Next]_(Store!storeVars)
  BY <1>0, <1>16, WriteStep DEF WritePage
<1>17. ASSUME NEW g \in Page, Restore(g) PROVE IInv' /\ [Store!Next]_(Store!storeVars)
  BY <1>0, <1>17, RestoreStep DEF Restore
<1>18. CASE Restored
  BY <1>0, <1>18, RestoredStep
<1> QED
  BY <1>2, <1>3, <1>4, <1>5, <1>6, <1>7, <1>8, <1>9, <1>10, <1>11, <1>12, <1>13, <1>14,
     <1>15, <1>16, <1>17, <1>18 DEF Next

LEMMA Invariance == Spec => []IInv
<1>1. Init => IInv
  BY Initially
<1>2. IInv /\ [Next]_journalVars => IInv'
  BY Inductive
<1> QED BY <1>1, <1>2, PTL DEF Spec

\* Every page, the journal and every snapshot keep their types.
THEOREM TypeCorrect == Spec => []TypeOK
<1>1. IInv => TypeOK
  BY DEF IInv, Shapes, TypeOK, Pages, Position
<1> QED BY <1>1, Invariance, PTL

\* A snapshot that a load returns has as many ended occurrences as its job row
\* counts, and all of them once an intent is recorded.
THEOREM SnapshotsAgree == Spec => []CountersAgree
<1>1. IInv => CountersAgree
  BY DEF IInv, Known, Good, CountersAgree
<1> QED BY <1>1, Invariance, PTL

\* Pages, journal, kills and recoveries implement atomic durable transactions.
THEOREM ImplementsStore == Spec => KeepsStore
<1>1. Init => Store!Init
  BY Initially
<1>2. IInv /\ [Next]_journalVars => [Store!Next]_(Store!storeVars)
  BY Inductive
<1> QED BY <1>1, <1>2, Invariance, PTL DEF Spec, KeepsStore, Store!Spec
=============================================================================
