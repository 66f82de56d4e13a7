--------------------------- MODULE WorkspaceStore ---------------------------
(***************************************************************************)
(* A workspace file as its callers see it: the transactions of             *)
(* workspace.py are atomic and durable, and a load hands out exactly what  *)
(* the last of them left.  ResumableTranslation relies on this; how files  *)
(* and a rollback journal provide it is WorkspaceJournal.                  *)
(***************************************************************************)
EXTENDS Naturals

CONSTANTS N,       \* occurrences of the job
          MaxRun,  \* bound: runs that start on the workspace
          Unread   \* no snapshot loaded

Occ == 1..N

VARIABLES content,  \* what is durable: the job row and the ended occurrences
          loaded    \* the snapshot the running process loaded last, or Unread

storeVars == <<content, loaded>>

\* The job row, with the CHECK constraints of its table.
JobPage ==
  {j \in [state           : {"in_progress", "completed"},
          completed_count : 0..N,
          run_count       : 1..MaxRun + 1,
          finalization    : {"none", "intent"}] :
     j.state = "completed" =>
       j.finalization = "intent" /\ j.completed_count = N}

Content == [job : JobPage, ended : SUBSET Occ]

Created ==
  [job   |-> [state |-> "in_progress", completed_count |-> 0, run_count |-> 1,
              finalization |-> "none"],
   ended |-> {}]

Translating(j) == j.state = "in_progress" /\ j.finalization = "none"

(***************************************************************************)
(* The transactions: what each may turn the content c into.  A condition   *)
(* is a WHERE clause whose row count the code requires to be one.          *)
(***************************************************************************)
StartResumeRun(c) ==
  {[c EXCEPT !.job.run_count = @ + 1] :
     i \in {x \in {1} : Translating(c.job) /\ c.job.run_count <= MaxRun}}

\* Mutant of Checkpoint: the occurrence may have ended before.
CheckpointAgain(c) ==
  {[c EXCEPT !.ended = @ \cup {k}, !.job.completed_count = @ + 1] :
     k \in {i \in Occ : Translating(c.job) /\ c.job.completed_count < N}}

Checkpoint(c) ==
  {[c EXCEPT !.ended = @ \cup {k}, !.job.completed_count = @ + 1] :
     k \in {i \in Occ : /\ i \notin c.ended
                        /\ Translating(c.job)
                        /\ c.job.completed_count < N}}

Intent(c) ==
  {[c EXCEPT !.job.finalization = "intent"] :
     i \in {x \in {1} : /\ c.ended = Occ
                        /\ Translating(c.job)
                        /\ c.job.completed_count = N}}

\* Mutant of Complete: an intent is not required.
CompleteEarly(c) ==
  {[c EXCEPT !.job.state = "completed"] :
     i \in {x \in {1} : c.ended = Occ /\ c.job.state = "in_progress"}}

Complete(c) ==
  {[c EXCEPT !.job.state = "completed"] :
     i \in {x \in {1} : /\ c.ended = Occ
                        /\ c.job.state = "in_progress"
                        /\ c.job.finalization = "intent"
                        /\ c.job.completed_count = N}}

Transactions(c) ==
  StartResumeRun(c) \cup Checkpoint(c) \cup Intent(c) \cup Complete(c)

-----------------------------------------------------------------------------
Init ==
  /\ content = Created
  /\ loaded = Unread

\* A process works on a workspace only after it has loaded it.
Commit ==
  /\ loaded # Unread
  /\ content' \in Transactions(content)
  /\ UNCHANGED loaded

Load ==
  /\ loaded' = content
  /\ UNCHANGED content

\* The process returns or is stopped.
Forget ==
  /\ loaded' = Unread
  /\ UNCHANGED content

Next == Commit \/ Load \/ Forget

Spec == Init /\ [][Next]_storeVars
=============================================================================
