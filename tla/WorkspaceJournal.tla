-------------------------- MODULE WorkspaceJournal --------------------------
(***************************************************************************)
(* One workspace file and its rollback journal (workspace.py): the steps   *)
(* of a transaction that reach the disk, a process that may be killed or   *)
(* fail between any two of them, and the load of the next process, which   *)
(* looks at the journal before it lets SQLite touch the file.              *)
(*                                                                         *)
(* The workspace lease keeps other processes out (ResumableTranslation),   *)
(* so one process at a time is running here.  SQLite is modelled from how  *)
(* workspace.py uses it: journal_mode DELETE, synchronous FULL, one short  *)
(* transaction at a time, no cache spill.  A journal is created empty, its *)
(* header stays zero until the commit has synced the saved pages, and      *)
(* deleting it is the commit.  A kill loses nothing already written: power *)
(* loss, which also needs the kernel's write order, is not modelled.       *)
(***************************************************************************)
EXTENDS Naturals, FiniteSets

CONSTANTS
  N,       \* occurrences of the job
  MaxRun,  \* bound: runs that start on the workspace
  Unread   \* no snapshot loaded

ASSUME JournalAssumption == N \in Nat /\ MaxRun \in Nat

Page == {"job", "ended"}

Headers == {"none", "empty", "zero", "magic"}

NoJournal == [header |-> "none", saved |-> <<>>]

VARIABLES disk,     \* the pages of the workspace file
          journal,  \* its -journal file: the header and the pages it saves
          pc,       \* what the running process is doing, "none" without one
          cache,    \* the pages as the open transaction wants them
          loaded    \* the snapshot the process loaded last, or Unread

journalVars == <<disk, journal, pc, cache, loaded>>

Hot == journal.header = "magic"

\* The pages with what the journal saved of them put back.
RolledBack ==
  [job   |-> IF "job" \in DOMAIN journal.saved
             THEN journal.saved["job"] ELSE disk["job"],
   ended |-> IF "ended" \in DOMAIN journal.saved
             THEN journal.saved["ended"] ELSE disk["ended"]]

\* What a recovery of the two files would yield.
Recovered == IF Hot THEN RolledBack ELSE disk

Store == INSTANCE WorkspaceStore WITH content <- Recovered

ASSUME UnreadAssumption == Unread \notin Store!Content

Changed == {g \in Page : cache[g] # disk[g]}

TypeOK ==
  /\ disk \in [job : Store!JobPage, ended : SUBSET Store!Occ]
  /\ cache \in [job : Store!JobPage, ended : SUBSET Store!Occ]
  /\ journal.header \in Headers
  /\ DOMAIN journal.saved \subseteq Page
  /\ pc \in {"none", "load", "rollback", "reload", "ready", "update",
             "apply", "undo"}
  /\ loaded \in Store!Content \cup {Unread}

Init ==
  /\ disk = Store!Created
  /\ cache = Store!Created
  /\ journal = NoJournal
  /\ pc = "none"
  /\ loaded = Unread

-----------------------------------------------------------------------------
(* Loading.                                                                *)

\* A process takes the lease and calls load_workspace.
Enter ==
  /\ pc = "none"
  /\ pc' = "load"
  /\ UNCHANGED <<disk, journal, cache, loaded>>

\* Mutant of Read: the read-only open does not look at the journal.
ReadPastJournal ==
  /\ pc \in {"load", "reload"}
  /\ loaded' = disk
  /\ pc' = "ready"
  /\ UNCHANGED <<disk, journal, cache>>

\* _load_workspace_read_only: preflight found no journal, the read-only
\* connection sees the file as it is.
Read ==
  /\ pc \in {"load", "reload"}
  /\ journal.header = "none"
  /\ loaded' = disk
  /\ pc' = "ready"
  /\ UNCHANGED <<disk, journal, cache>>

\* A structurally valid journal: SQLite answers the read-only connection with
\* SQLITE_READONLY and _recover_hot_delete_journal opens the file for writing.
Recover ==
  /\ pc = "load"
  /\ journal.header = "magic"
  /\ pc' = "rollback"
  /\ UNCHANGED <<disk, journal, cache, loaded>>

\* _validate_hot_delete_journal: an empty or malformed journal is refused and
\* left where it is.
RefuseJournal ==
  /\ pc = "load"
  /\ journal.header \in {"empty", "zero"}
  /\ pc' = "none"
  /\ loaded' = Unread
  /\ UNCHANGED <<disk, journal, cache>>

\* The running process loads again: before sealing, after the intent.
LoadAgain ==
  /\ pc = "ready"
  /\ pc' = "load"
  /\ UNCHANGED <<disk, journal, cache, loaded>>

-----------------------------------------------------------------------------
(* A transaction of WorkspaceWriter.                                       *)

\* BEGIN IMMEDIATE and the updates, in the page cache of the connection.
Begin ==
  /\ pc = "ready"
  /\ cache' \in Store!Transactions(disk)
  /\ pc' = "update"
  /\ UNCHANGED <<disk, journal, loaded>>

\* The first changed page makes SQLite create the journal file ...
CreateJournal ==
  /\ pc = "update"
  /\ journal.header = "none"
  /\ journal' = [journal EXCEPT !.header = "empty"]
  /\ UNCHANGED <<disk, pc, cache, loaded>>

\* ... write a header without magic ...
WriteHeader ==
  /\ pc = "update"
  /\ journal.header = "empty"
  /\ journal' = [journal EXCEPT !.header = "zero"]
  /\ UNCHANGED <<disk, pc, cache, loaded>>

\* ... and append the original of every page before it changes.
SavePage(g) ==
  /\ pc = "update"
  /\ journal.header = "zero"
  /\ g \in Changed \ DOMAIN journal.saved
  /\ journal' = [journal EXCEPT !.saved =
                   [h \in DOMAIN @ \cup {g} |->
                      IF h = g THEN disk[g] ELSE journal.saved[h]]]
  /\ UNCHANGED <<disk, pc, cache, loaded>>

\* COMMIT syncs the journal, then its header.
SyncJournal ==
  /\ pc = "update"
  /\ journal.header = "zero"
  /\ Changed = DOMAIN journal.saved
  /\ journal' = [journal EXCEPT !.header = "magic"]
  /\ pc' = "apply"
  /\ UNCHANGED <<disk, cache, loaded>>

WritePage(g) ==
  /\ pc = "apply"
  /\ g \in Changed
  /\ disk' = [disk EXCEPT ![g] = cache[g]]
  /\ UNCHANGED <<journal, pc, cache, loaded>>

\* The commit point; connection.commit() returns.
DeleteJournal ==
  /\ pc = "apply"
  /\ Changed = {}
  /\ journal' = NoJournal
  /\ pc' = "ready"
  /\ UNCHANGED <<disk, cache, loaded>>

-----------------------------------------------------------------------------
(* Undoing.                                                                *)

\* An exception inside the transaction: _rollback_safely.
Fail ==
  /\ pc \in {"update", "apply"}
  /\ pc' = "undo"
  /\ UNCHANGED <<disk, journal, cache, loaded>>

Unrestored == {g \in DOMAIN journal.saved : disk[g] # journal.saved[g]}

Restore(g) ==
  /\ pc \in {"undo", "rollback"}
  /\ g \in Unrestored
  /\ disk' = [disk EXCEPT ![g] = journal.saved[g]]
  /\ UNCHANGED <<journal, pc, cache, loaded>>

\* The failed process ends; a recovering load goes on to read the file.
Restored ==
  /\ pc \in {"undo", "rollback"}
  /\ Unrestored = {}
  /\ journal' = NoJournal
  /\ \/ pc = "undo" /\ pc' = "none" /\ loaded' = Unread
     \/ pc = "rollback" /\ pc' = "reload" /\ UNCHANGED loaded
  /\ UNCHANGED <<disk, cache>>

\* The process returns, or SIGKILL ends it between any two steps.
Leave ==
  /\ pc # "none"
  /\ pc' = "none"
  /\ loaded' = Unread
  /\ UNCHANGED <<disk, journal, cache>>

Next ==
  \/ Enter \/ Read \/ Recover \/ RefuseJournal \/ LoadAgain
  \/ Begin \/ CreateJournal \/ WriteHeader \/ SyncJournal \/ DeleteJournal
  \/ \E g \in Page : SavePage(g) \/ WritePage(g) \/ Restore(g)
  \/ Fail \/ Restored \/ Leave

Spec == Init /\ [][Next]_journalVars

-----------------------------------------------------------------------------
\* A snapshot that a load hands out satisfies _validate_snapshot_counters:
\* wherever a process was killed, the count and the rows belong together.
CountersAgree ==
  loaded # Unread =>
    /\ loaded.job.completed_count = Cardinality(loaded.ended)
    /\ loaded.job.finalization = "intent" => loaded.ended = Store!Occ

\* Killed, failed or recovering at any step, the two files are at every moment
\* worth exactly the committed transactions, and a load returns these.
KeepsStore == Store!Spec

\* What README.md:276-278 says: a stop before the commit costs at most the
\* one call in flight, so that the next load finds nothing to refuse.
EveryStopResumes == pc = "load" => journal.header \in {"none", "magic"}
=============================================================================
