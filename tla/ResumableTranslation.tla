------------------------ MODULE ResumableTranslation ------------------------
(***************************************************************************)
(* The resumable mode of translate-mod (engine.py,                         *)
(* _translate_mod_resumable and _translate_mod_resumable_locked) together  *)
(* with the durable workspace it writes (workspace.py), the directory it   *)
(* publishes (publication.py) and the provider it calls (ollama.py).       *)
(*                                                                         *)
(* Several processes run the command at once, on one or several workspaces *)
(* that may name the same output path.  A process may be interrupted (an   *)
(* exception unwinds it) or killed between any two steps; the source tree, *)
(* the installed model and the output path change under it.  One step of   *)
(* this module is one durable effect or one check whose answer another     *)
(* actor can change before the next step.                                  *)
(***************************************************************************)
EXTENDS Naturals, FiniteSets

CONSTANTS
  Proc,      \* operating-system processes running the command
  Ws,        \* workspace paths
  Out,       \* output paths
  OutOf,     \* workspace -> the output path its operator names
  N,         \* number of reviewable occurrences of the source mod
  Content,   \* the byte contents the source tree may have
  Digest,    \* the digests the model tag may resolve to
  Text,      \* the translations a model may return
  None,      \* no process, no tree, no value
  Foreign,   \* a tree at an output path that this program did not write
  MaxStop,   \* bound: interruptions and kills, provider failures included
  MaxEdit,   \* bound: edits of the source tree
  MaxSwap,   \* bound: changes of the installed model
  MaxTouch   \* bound: foreign changes of an output path

Occ == 1..N

(***************************************************************************)
(* An occurrence row.  state and text are the columns the workspace keeps; *)
(* content and digest are history: which source bytes were sent, and which *)
(* model answered.                                                         *)
(***************************************************************************)
Row ==
  [state   : {"pending", "accepted_changed", "accepted_unchanged",
              "model_fallback"},
   text    : Text \cup {None},
   content : Content \cup {None},
   digest  : Digest \cup {None}]

Pending == [state |-> "pending", text |-> None,
            content |-> None, digest |-> None]

Ended(r) == r.state # "pending"

\* Every way one model call on the source bytes c answered by the model d can
\* end: a changed span, an echo of the source, or an unusable answer.
Answers(c, d) ==
  {[state |-> "accepted_changed", text |-> t, content |-> c, digest |-> d] :
     t \in Text}
  \cup
  {[state |-> s, text |-> None, content |-> c, digest |-> d] :
     s \in {"accepted_unchanged", "model_fallback"}}

\* What an output tree shows of a row.
Shown == [state : {"pending", "accepted_changed", "accepted_unchanged",
                   "model_fallback"},
          text  : Text \cup {None}]

Rendered(rows) ==
  [k \in Occ |-> [state |-> rows[k].state, text |-> rows[k].text]]

(***************************************************************************)
(* An output tree: the rendered localisation and the report, which names   *)
(* the workspace, the source, the model and the counters of the run.       *)
(***************************************************************************)
Tree ==
  [ws : Ws, content : Content, digest : Digest, rows : [Occ -> Shown],
   run_count : Nat, reused : Nat, calls : Nat]

\* The job row of a workspace file, and the file's own existence: "absent"
\* before create_workspace, "torn" while its schema is written but its only
\* transaction has not committed.
Job ==
  [state           : {"absent", "torn", "in_progress", "completed"},
   content         : Content \cup {None},
   digest          : Digest \cup {None},
   completed_count : Nat,
   run_count       : Nat,
   finalization    : {"none", "intent"},
   tree            : Tree \cup {None}]

NoJob == [state |-> "absent", content |-> None, digest |-> None,
          completed_count |-> 0, run_count |-> 0,
          finalization |-> "none", tree |-> None]

FreshJob(c, d) ==
  [state |-> "in_progress", content |-> c, digest |-> d,
   completed_count |-> 0, run_count |-> 1,
   finalization |-> "none", tree |-> None]

\* A snapshot of the source tree: its bytes, and its stat identities, which
\* differ after every edit even when the bytes come back.
Files == [content : Content, stamp : Nat]

(***************************************************************************)
(* The locals of one invocation: its workspace and --resume flag, the      *)
(* source snapshot it works from, the job row it loaded last, the          *)
(* occurrences of the loop still to send, the reuse and call counters, the *)
(* verified model identity, the answer in hand and the expected tree.      *)
(***************************************************************************)
Run ==
  [ws : Ws \cup {None}, resume : BOOLEAN, files : Files \cup {None},
   seen : Job, todo : SUBSET Occ, reused : Nat, calls : Nat,
   identity : Digest \cup {None}, answer : Row, tree : Tree \cup {None}]

IdleRun ==
  [ws |-> None, resume |-> FALSE, files |-> None, seen |-> NoJob,
   todo |-> {}, reused |-> 0, calls |-> 0, identity |-> None,
   answer |-> Pending, tree |-> None]

\* The positions at which an invocation holds the workspace lease.
Held == {"open", "check", "reconcile", "identify", "create", "fill", "created",
         "ready", "translate", "commit", "seal", "recheck", "intend", "publish",
         "confirm", "complete"}

\* The distinctness of the sentinels is all that is assumed of the constants.
ASSUME ConstantsAssumption ==
  /\ N \in Nat \ {0}
  /\ OutOf \in [Ws -> Out]
  /\ None \notin Proc
  /\ None \notin Ws
  /\ None \notin Content
  /\ None \notin Digest
  /\ None \notin Tree
  /\ Foreign \notin Tree
  /\ Foreign # None
  /\ {MaxStop, MaxEdit, MaxSwap, MaxTouch} \subseteq Nat

VARIABLES
  source,     \* the source mod on disk
  provider,   \* the digest the model tag resolves to now
  output,     \* output path -> what is there
  job,        \* workspace -> the job row of its file
  rows,       \* workspace -> its occurrence rows
  lease,      \* workspace -> the process whose descriptor holds the flock
  pc,         \* process -> the step it is about to take
  run,        \* process -> the locals of its invocation
  delivered,  \* history: workspace -> its intended tree was renamed in place
  spent       \* how much of each bound the environment has used

durable == <<output, job, rows, delivered>>
world   == <<source, provider, spent>>
vars    == <<source, provider, output, job, rows, lease, pc, run, delivered,
             spent>>

Event == {"stop", "edit", "swap", "touch"}

TypeOK ==
  /\ source \in Files
  /\ provider \in Digest
  /\ output \in [Out -> Tree \cup {None, Foreign}]
  /\ job \in [Ws -> Job]
  /\ rows \in [Ws -> [Occ -> Row]]
  /\ lease \in [Ws -> Proc \cup {None}]
  /\ pc \in [Proc -> Held \cup {"idle", "lock"}]
  /\ run \in [Proc -> Run]
  /\ delivered \in [Ws -> BOOLEAN]
  /\ spent \in [Event -> Nat]

Init ==
  /\ source \in [content : Content, stamp : {0}]
  /\ provider \in Digest
  /\ output = [o \in Out |-> None]
  /\ job = [w \in Ws |-> NoJob]
  /\ rows = [w \in Ws |-> [k \in Occ |-> Pending]]
  /\ lease = [w \in Ws |-> None]
  /\ pc = [p \in Proc |-> "idle"]
  /\ run = [p \in Proc |-> IdleRun]
  /\ delivered = [w \in Ws |-> FALSE]
  /\ spent = [e \in Event |-> 0]

-----------------------------------------------------------------------------
(* The checks of an invocation.                                            *)

ws(p)  == run[p].ws
out(p) == OutOf[run[p].ws]

\* _verify_snapshot: bytes and stat identities are those of the snapshot.
SourceUnmoved(p) == source = run[p].files

NonePending(w) == \A k \in Occ : Ended(rows[w][k])

\* _build_workspace_candidate_tree over the committed rows.
BuildTree(p, run_count, reused, calls) ==
  [ws |-> ws(p), content |-> run[p].files.content, digest |-> run[p].identity,
   rows |-> Rendered(rows[ws(p)]), run_count |-> run_count,
   reused |-> reused, calls |-> calls]

\* _validate_intended_output_identity.
Intended(j, t) == j.finalization = "intent" /\ j.tree = t

OpenAllowed(p) ==
  LET j == job[ws(p)] IN
  IF run[p].resume
  THEN /\ j.state \in {"in_progress", "completed"}
       /\ output[out(p)] # None => j.finalization = "intent"
  ELSE /\ j.state = "absent"
       /\ output[out(p)] = None

\* Mutant of CheckAllowed: a resumed run does not compare the source bytes.
CheckAnySource(p) == run[p].resume \/ SourceUnmoved(p)

\* load_workspace's counters, then _validate_workspace_semantics: of the
\* compared identities only the source bytes can have changed here.
CheckAllowed(p) ==
  IF run[p].resume
  THEN source.content = run[p].seen.content
  ELSE SourceUnmoved(p)

\* Mutant of ReconcileAllowed: what is at the output path is not compared.
ReconcileUnseen(p) == SourceUnmoved(p)

ReconcileAllowed(p) ==
  LET j == run[p].seen
      t == j.tree
  IN /\ Intended(j, BuildTree(p, t.run_count, t.reused, t.calls))
     /\ output[out(p)] = t
     /\ SourceUnmoved(p)

ReadyAllowed(p) ==
  /\ SourceUnmoved(p)
  /\ run[p].seen.finalization = "none" => run[p].identity = run[p].seen.digest

\* The tree of the committed rows, with the counters of the intent if there is
\* one and otherwise those of this run.
SealedTree(p) ==
  LET j == job[ws(p)] IN
  IF j.finalization = "intent"
  THEN BuildTree(p, j.tree.run_count, j.tree.reused, j.tree.calls)
  ELSE BuildTree(p, j.run_count, run[p].reused, run[p].calls)

SealAllowed(p) ==
  LET j == job[ws(p)] IN
  /\ j.state \in {"in_progress", "completed"}
  /\ NonePending(ws(p))
  /\ SourceUnmoved(p)
  /\ j.finalization = "intent" => Intended(j, SealedTree(p))

\* The conditions of the UPDATE statements of checkpoint,
\* set_finalization_intent and mark_workspace_completed.
CheckpointAllowed(w, k) ==
  /\ rows[w][k].state = "pending"
  /\ job[w].state = "in_progress"
  /\ job[w].finalization = "none"
  /\ job[w].completed_count < N

IntentAllowed(w) ==
  /\ NonePending(w)
  /\ job[w].state = "in_progress"
  /\ job[w].finalization = "none"
  /\ job[w].completed_count = N

CompletionAllowed(w, t) ==
  /\ NonePending(w)
  /\ job[w].state = "in_progress"
  /\ job[w].completed_count = N
  /\ Intended(job[w], t)

-----------------------------------------------------------------------------
(* The steps of an invocation.                                             *)

Goto(p, l) == pc' = [pc EXCEPT ![p] = l]

\* Mutant of Leave: the lease is a file that only its owner would remove.
LeaveLocked(p) ==
  /\ Goto(p, "idle")
  /\ run' = [run EXCEPT ![p] = IdleRun]
  /\ UNCHANGED lease

Leave(p) ==
  /\ Goto(p, "idle")
  /\ run' = [run EXCEPT ![p] = IdleRun]
  /\ lease' = [w \in Ws |-> IF lease[w] = p THEN None ELSE lease[w]]

\* The command starts: --resume needs an existing workspace file, a first run
\* an absent one, and a first run takes its source snapshot before the lease.
Start(p, w, resume) ==
  /\ pc[p] = "idle"
  /\ resume <=> job[w].state # "absent"
  /\ run' = [run EXCEPT ![p] =
               [IdleRun EXCEPT !.ws = w, !.resume = resume,
                               !.files = IF resume THEN None ELSE source]]
  /\ Goto(p, "lock")
  /\ UNCHANGED <<durable, lease, world>>

\* Mutant of Acquire: a shared lock.
AcquireShared(p) ==
  /\ pc[p] = "lock"
  /\ lease' = [lease EXCEPT ![ws(p)] = p]
  /\ Goto(p, "open")
  /\ UNCHANGED <<durable, run, world>>

\* WorkspaceRunLock.__enter__: a non-blocking exclusive flock.
Acquire(p) ==
  /\ pc[p] = "lock"
  /\ lease[ws(p)] = None
  /\ lease' = [lease EXCEPT ![ws(p)] = p]
  /\ Goto(p, "open")
  /\ UNCHANGED <<durable, run, world>>

\* Mutant of Open: the expected tree is whatever the output path holds.
OpenAdopting(p) ==
  /\ pc[p] = "open"
  /\ OpenAllowed(p)
  /\ run' = [run EXCEPT ![p].seen = job[ws(p)], ![p].tree = output[out(p)]]
  /\ Goto(p, "check")
  /\ UNCHANGED <<durable, lease, world>>

\* load_workspace and the first look at the output path.
Open(p) ==
  /\ pc[p] = "open"
  /\ OpenAllowed(p)
  /\ run' = [run EXCEPT
       ![p].seen = job[ws(p)],
       ![p].todo = IF run[p].resume
                   THEN {k \in Occ : ~Ended(rows[ws(p)][k])} ELSE {},
       ![p].tree = IF output[out(p)] = None THEN None ELSE job[ws(p)].tree]
  /\ Goto(p, "check")
  /\ UNCHANGED <<durable, lease, world>>

\* Mutant of Check: the reuse counter of a resumed run starts at zero.
CheckForgetful(p) ==
  /\ pc[p] = "check"
  /\ CheckAllowed(p)
  /\ run[p].tree = None => run[p].seen.state # "completed"
  /\ run' = [run EXCEPT
       ![p].files = source, ![p].identity = run[p].seen.digest]
  /\ Goto(p, IF run[p].tree = None THEN "identify" ELSE "reconcile")
  /\ UNCHANGED <<durable, lease, world>>

\* The source is read (again, on a first run) and compared with the job row.
Check(p) ==
  /\ pc[p] = "check"
  /\ CheckAllowed(p)
  /\ run[p].tree = None => run[p].seen.state # "completed"
  /\ run' = [run EXCEPT
       ![p].files = source,
       ![p].reused = run[p].seen.completed_count,
       ![p].identity = IF run[p].seen.finalization = "intent"
                       THEN run[p].seen.digest ELSE None]
  /\ Goto(p, IF run[p].tree = None THEN "identify" ELSE "reconcile")
  /\ UNCHANGED <<durable, lease, world>>

\* The output is already there: it must be the tree this workspace intends.
Reconcile(p) ==
  /\ pc[p] = "reconcile"
  /\ ReconcileAllowed(p)
  /\ IF run[p].seen.state = "in_progress"
     THEN /\ Goto(p, "complete")
          /\ UNCHANGED <<run, lease>>
     ELSE Leave(p)
  /\ UNCHANGED <<durable, world>>

\* client.exact_model, or the saved identity once an intent is recorded.
Identify(p) ==
  /\ pc[p] = "identify"
  /\ SourceUnmoved(p)
  /\ run' = [run EXCEPT ![p].identity =
               IF run[p].seen.finalization = "intent"
               THEN run[p].seen.digest ELSE provider]
  /\ Goto(p, IF run[p].resume THEN "ready" ELSE "create")
  /\ UNCHANGED <<durable, lease, world>>

\* create_workspace, first half: the O_EXCL file and its autocommitted schema.
Create(p) ==
  /\ pc[p] = "create"
  /\ job[ws(p)].state = "absent"
  /\ job' = [job EXCEPT ![ws(p)].state = "torn"]
  /\ Goto(p, "fill")
  /\ UNCHANGED <<output, rows, delivered, run, lease, world>>

\* create_workspace, second half: one transaction inserts the job, the
\* inventory and every occurrence.  Its commit is the last statement of a try
\* block whose handlers unlink the file.
Fill(p) ==
  /\ pc[p] = "fill"
  /\ job' = [job EXCEPT ![ws(p)] =
               FreshJob(run[p].files.content, run[p].identity)]
  /\ rows' = [rows EXCEPT ![ws(p)] = [k \in Occ |-> Pending]]
  /\ Goto(p, "created")
  /\ UNCHANGED <<output, delivered, run, lease, world>>

\* create_workspace leaves the try block, closes the file and returns, and the
\* new workspace is loaded back.
Load(p) ==
  /\ pc[p] = "created"
  /\ run' = [run EXCEPT
       ![p].seen = job[ws(p)],
       ![p].todo = {k \in Occ : ~Ended(rows[ws(p)][k])},
       ![p].reused = 0]
  /\ Goto(p, "ready")
  /\ UNCHANGED <<durable, lease, world>>

\* The last checks before the loop; start_resume_run opens a resumed run.
Ready(p) ==
  /\ pc[p] = "ready"
  /\ ReadyAllowed(p)
  /\ IF run[p].seen.finalization = "none"
     THEN /\ Goto(p, "translate")
          /\ IF run[p].resume
             THEN /\ job[ws(p)].state = "in_progress"
                  /\ job[ws(p)].finalization = "none"
                  /\ job' = [job EXCEPT ![ws(p)].run_count = @ + 1]
             ELSE UNCHANGED job
     ELSE Goto(p, "seal") /\ UNCHANGED job
  /\ UNCHANGED <<output, rows, delivered, run, lease, world>>

\* The loop body up to the answer: the lowest occurrence that was pending in
\* the snapshot is sent to whatever model the tag resolves to now.
CallModel(p) ==
  /\ pc[p] = "translate"
  /\ run[p].todo # {}
  /\ \E a \in Answers(run[p].files.content, provider) :
       run' = [run EXCEPT ![p].answer = a, ![p].calls = @ + 1]
  /\ Goto(p, "commit")
  /\ UNCHANGED <<durable, lease, world>>

NextPending(s) == CHOOSE k \in s : \A i \in s : k <= i

\* WorkspaceWriter.checkpoint: one transaction ends the row and counts it.
Checkpoint(p) ==
  /\ pc[p] = "commit"
  /\ LET w == ws(p)
         k == NextPending(run[p].todo)
     IN /\ CheckpointAllowed(w, k)
        /\ rows' = [rows EXCEPT ![w][k] = run[p].answer]
        /\ job' = [job EXCEPT ![w].completed_count = @ + 1]
        /\ run' = [run EXCEPT ![p].todo = @ \ {k}, ![p].answer = Pending]
  /\ Goto(p, "translate")
  /\ UNCHANGED <<output, delivered, lease, world>>

\* The workspace and the source are read again, nothing may be pending, and
\* the whole output tree is built in memory.
Seal(p) ==
  /\ \/ pc[p] = "translate" /\ run[p].todo = {}
     \/ pc[p] = "seal"
  /\ SealAllowed(p)
  /\ run' = [run EXCEPT ![p].seen = job[ws(p)], ![p].tree = SealedTree(p)]
  /\ Goto(p, IF job[ws(p)].finalization = "none"
             THEN "recheck" ELSE "publish")
  /\ UNCHANGED <<durable, lease, world>>

\* Mutant of Recheck: publication does not wait for the intent.
RecheckHasty(p) ==
  /\ pc[p] = "recheck"
  /\ provider = run[p].identity
  /\ SourceUnmoved(p)
  /\ Goto(p, "publish")
  /\ UNCHANGED <<durable, run, lease, world>>

\* The model identity is asked for once more before the intent.
Recheck(p) ==
  /\ pc[p] = "recheck"
  /\ provider = run[p].identity
  /\ SourceUnmoved(p)
  /\ Goto(p, "intend")
  /\ UNCHANGED <<durable, run, lease, world>>

\* Mutant of Intend: intent and completion are one transaction.
IntendFinished(p) ==
  /\ pc[p] = "intend"
  /\ IntentAllowed(ws(p))
  /\ job' = [job EXCEPT ![ws(p)].finalization = "intent",
                        ![ws(p)].tree = run[p].tree,
                        ![ws(p)].state = "completed"]
  /\ Goto(p, "publish")
  /\ UNCHANGED <<output, rows, delivered, run, lease, world>>

\* set_finalization_intent records the tree identity and the counters, and
\* the workspace is loaded back.
Intend(p) ==
  /\ pc[p] = "intend"
  /\ IntentAllowed(ws(p))
  /\ job' = [job EXCEPT ![ws(p)].finalization = "intent",
                        ![ws(p)].tree = run[p].tree]
  /\ Goto(p, "publish")
  /\ UNCHANGED <<output, rows, delivered, run, lease, world>>

\* Mutant of Publish: a rename that replaces its destination.
PublishReplacing(p) ==
  /\ pc[p] = "publish"
  /\ SourceUnmoved(p)
  /\ output' = [output EXCEPT ![out(p)] = run[p].tree]
  /\ delivered' = [delivered EXCEPT ![ws(p)] = TRUE]
  /\ Goto(p, "confirm")
  /\ UNCHANGED <<job, rows, run, lease, world>>

\* The tree is materialised in a temporary directory next to the output and
\* renamed in place; the rename fails when anything is already there.
Publish(p) ==
  /\ pc[p] = "publish"
  /\ SourceUnmoved(p)
  /\ output[out(p)] = None
  /\ output' = [output EXCEPT ![out(p)] = run[p].tree]
  /\ delivered' = [delivered EXCEPT ![ws(p)] = TRUE]
  /\ Goto(p, "confirm")
  /\ UNCHANGED <<job, rows, run, lease, world>>

\* The published tree is scanned, the workspace loaded and the two compared.
Confirm(p) ==
  /\ pc[p] = "confirm"
  /\ output[out(p)] = run[p].tree
  /\ Intended(job[ws(p)], run[p].tree)
  /\ Goto(p, "complete")
  /\ UNCHANGED <<durable, run, lease, world>>

\* mark_workspace_completed, and the invocation returns its report.
Complete(p) ==
  /\ pc[p] = "complete"
  /\ CompletionAllowed(ws(p), run[p].tree)
  /\ job' = [job EXCEPT ![ws(p)].state = "completed"]
  /\ Leave(p)
  /\ UNCHANGED <<output, rows, delivered, world>>

\* A check fails: the exception unwinds the invocation, which has written
\* nothing since its last transaction.
Refused(p) ==
  \/ pc[p] = "lock" /\ lease[ws(p)] # None
  \/ pc[p] = "open" /\ ~OpenAllowed(p)
  \/ /\ pc[p] = "check"
     /\ \/ ~CheckAllowed(p)
        \/ run[p].tree = None /\ run[p].seen.state = "completed"
  \/ pc[p] = "reconcile" /\ ~ReconcileAllowed(p)
  \/ pc[p] = "identify" /\ ~SourceUnmoved(p)
  \/ pc[p] = "create" /\ job[ws(p)].state # "absent"
  \/ /\ pc[p] = "ready"
     /\ \/ ~ReadyAllowed(p)
        \/ /\ run[p].resume
           /\ run[p].seen.finalization = "none"
           /\ \/ job[ws(p)].state # "in_progress"
              \/ job[ws(p)].finalization # "none"
  \/ pc[p] = "commit" /\ ~CheckpointAllowed(ws(p), NextPending(run[p].todo))
  \/ /\ pc[p] = "seal" \/ (pc[p] = "translate" /\ run[p].todo = {})
     /\ ~SealAllowed(p)
  \/ pc[p] = "recheck" /\ (provider # run[p].identity \/ ~SourceUnmoved(p))
  \/ pc[p] = "intend" /\ ~IntentAllowed(ws(p))
  \/ pc[p] = "publish" /\ (~SourceUnmoved(p) \/ output[out(p)] # None)
  \/ /\ pc[p] = "confirm"
     /\ \/ output[out(p)] # run[p].tree
        \/ ~Intended(job[ws(p)], run[p].tree)
  \/ pc[p] = "complete" /\ ~CompletionAllowed(ws(p), run[p].tree)

Refuse(p) ==
  /\ Refused(p)
  /\ Leave(p)
  /\ UNCHANGED <<durable, world>>

-----------------------------------------------------------------------------
(* The environment.                                                        *)

Spend(e, bound) ==
  /\ spent[e] < bound
  /\ spent' = [spent EXCEPT ![e] = @ + 1]

\* Mutant of Interrupt: unwinding also unlinks a workspace whose creation has
\* returned.
InterruptUnlinking(p) ==
  /\ pc[p] # "idle"
  /\ Spend("stop", MaxStop)
  /\ job' = IF pc[p] \in {"fill", "created", "ready"}
            THEN [job EXCEPT ![ws(p)] = NoJob] ELSE job
  /\ Leave(p)
  /\ UNCHANGED <<output, rows, delivered, source, provider>>

\* An exception that is no check of the program: KeyboardInterrupt, a disk
\* error, OllamaSystemError.  It unwinds: an open transaction rolls back, and
\* create_workspace unlinks its file, also when its transaction is committed
\* and the exception is raised as commit() returns.  From the end of the try
\* block on the file stays: an exception there is one at "ready".
Interrupt(p) ==
  /\ pc[p] # "idle"
  /\ Spend("stop", MaxStop)
  /\ job' = IF pc[p] \in {"fill", "created"}
            THEN [job EXCEPT ![ws(p)] = NoJob] ELSE job
  /\ Leave(p)
  /\ UNCHANGED <<output, rows, delivered, source, provider>>

\* SIGKILL between two transactions: nothing unwinds and the kernel drops the
\* flock.  A kill inside a transaction is the subject of WorkspaceJournal.
Kill(p) ==
  /\ pc[p] # "idle"
  /\ Spend("stop", MaxStop)
  /\ Leave(p)
  /\ UNCHANGED <<durable, source, provider>>

EditSource(c) ==
  /\ Spend("edit", MaxEdit)
  /\ source' = [content |-> c, stamp |-> source.stamp + 1]
  /\ UNCHANGED <<durable, lease, pc, run, provider>>

SwapModel(d) ==
  /\ d # provider
  /\ Spend("swap", MaxSwap)
  /\ provider' = d
  /\ UNCHANGED <<durable, lease, pc, run, source>>

\* Somebody else puts a tree at an output path, replaces one, or removes it.
TouchOutput(o, t) ==
  /\ output[o] # t
  /\ Spend("touch", MaxTouch)
  /\ output' = [output EXCEPT ![o] = t]
  /\ UNCHANGED <<job, rows, delivered, lease, pc, run, source, provider>>

Environment ==
  \/ \E c \in Content : EditSource(c)
  \/ \E d \in Digest : SwapModel(d)
  \/ \E o \in Out, t \in {None, Foreign} : TouchOutput(o, t)

Step(p) ==
  \/ Acquire(p) \/ Open(p) \/ Check(p) \/ Reconcile(p) \/ Identify(p)
  \/ Create(p) \/ Fill(p) \/ Load(p) \/ Ready(p) \/ CallModel(p) \/ Checkpoint(p)
  \/ Seal(p) \/ Recheck(p) \/ Intend(p) \/ Publish(p) \/ Confirm(p)
  \/ Complete(p) \/ Refuse(p)

Next ==
  \/ \E p \in Proc :
       \/ \E w \in Ws, resume \in BOOLEAN : Start(p, w, resume)
       \/ Step(p)
       \/ Interrupt(p)
       \/ Kill(p)
  \/ Environment

Spec == Init /\ [][Next]_vars

(***************************************************************************)
(* Fairness.  The code is sequential: an invocation that can take its next *)
(* step takes it unless it is stopped.  The operator is assumed to resume  *)
(* a workspace again and again while some process is free.                 *)
(***************************************************************************)
Fairness ==
  /\ \A p \in Proc : WF_vars(Step(p))
  /\ \A w \in Ws : WF_vars(\E p \in Proc : Start(p, w, TRUE))

FairSpec == Spec /\ Fairness

-----------------------------------------------------------------------------
(* Safety.                                                                 *)

\* An occurrence is sent to the model only while its row is pending, and the
\* checkpoint that follows finds it still pending in a translating job, so
\* no answer is paid for twice and none is refused: the lease taken before
\* the snapshot and kept through the loop is what the snapshot stands on
\* (engine.py, the translating loop; workspace.py, checkpoint).
SentOncePerCheckpoint ==
  \A p \in Proc :
    pc[p] = "commit" => CheckpointAllowed(ws(p), NextPending(run[p].todo))

\* The counters an intent makes durable account for the whole plan: every row
\* has ended, each was either reused from an earlier run or sent by the run
\* that recorded the intent, and the tree can be rebuilt from the rows alone.
IntentAccountsForPlan ==
  \A w \in Ws :
    job[w].finalization = "intent" =>
      /\ NonePending(w)
      /\ job[w].completed_count = N
      /\ job[w].tree.reused + job[w].tree.calls = N
      /\ job[w].tree.run_count = job[w].run_count
      /\ job[w].tree.rows = Rendered(rows[w])

\* However the source is edited between and during runs, every result of a
\* job and every tree it intends comes from one generation of source bytes.
OneSourceGeneration ==
  \A w \in Ws :
    /\ \A k \in Occ :
         Ended(rows[w][k]) => rows[w][k].content = job[w].content
    /\ job[w].finalization = "intent" =>
         /\ job[w].tree.content = job[w].content
         /\ job[w].tree.digest = job[w].digest

\* A tree of this program at an output path is the one a workspace naming
\* that path durably intends, byte for byte; a half-finished job never shows.
PublishedIsIntended ==
  \A o \in Out :
    output[o] \notin {None, Foreign} =>
      LET w == output[o].ws IN
      /\ OutOf[w] = o
      /\ Intended(job[w], output[o])
      /\ delivered[w]

\* A completed job delivered its tree, also when completion was recorded by a
\* later run that only found the tree in place.
CompletedWasDelivered ==
  \A w \in Ws :
    job[w].state = "completed" =>
      delivered[w] /\ job[w].finalization = "intent"

\* Two workspaces that name one output path never both deliver to it, unless
\* somebody else emptied the path in between.
OneDeliveryPerOutput ==
  \A v, w \in Ws :
    /\ v # w
    /\ OutOf[v] = OutOf[w]
    /\ delivered[v]
    /\ delivered[w]
    => spent["touch"] > 0

(* Action properties.                                                      *)

\* No step of the program replaces or removes what is at an output path: the
\* only writer is the no-replace rename (publication.py).
NeverClobbers ==
  [][\A o \in Out :
       output[o] # None /\ output'[o] # output[o] =>
         spent'["touch"] # spent["touch"]]_vars

\* A process is still inside create_workspace for the workspace w, its
\* transaction committed.
BeingCreated(w) == \E p \in Proc : pc[p] = "created" /\ ws(p) = w

\* Nothing undoes a durable step, whatever fails afterwards: an ended row, a
\* job whose creation has returned or was killed, a recorded intent and a
\* completion stay as they are.  A job that create_workspace has committed and
\* not yet returned is either left alone or, by an interruption, taken away as
\* a whole (workspace.py, the handlers after the commit).
DurableStepsAreFinal ==
  [][\A w \in Ws :
       /\ BeingCreated(w) =>
            \/ job'[w] = job[w]
            \/ job'[w] = NoJob /\ spent'["stop"] # spent["stop"]
       /\ job[w].state \in {"in_progress", "completed"} /\ ~BeingCreated(w) =>
            /\ job'[w].state \in {"in_progress", "completed"}
            /\ job'[w].content = job[w].content
            /\ job'[w].digest = job[w].digest
            /\ \A k \in Occ :
                 Ended(rows[w][k]) => rows'[w][k] = rows[w][k]
       /\ job[w].finalization = "intent" =>
            /\ job'[w].finalization = "intent"
            /\ job'[w].tree = job[w].tree
            /\ job'[w].run_count = job[w].run_count
       /\ job[w].state = "completed" => job'[w] = job[w]]_vars

(* Refinement.                                                             *)

Phase(j) ==
  CASE j.state \in {"absent", "torn"}                          -> "none"
    [] j.state = "in_progress" /\ j.finalization = "none"      -> "translating"
    [] j.state = "in_progress" /\ j.finalization = "intent"    -> "promised"
    [] j.state = "completed"                                   -> "finished"

\* A job begins when its creation can no longer be taken back.
PhaseOf(w) == IF BeingCreated(w) THEN "none" ELSE Phase(job[w])

PromisedRows(w) ==
  IF job[w].finalization = "intent" THEN job[w].tree.rows ELSE None

Contract == INSTANCE TranslationJob WITH
  Jobs     <- Ws,
  Result   <- Shown,
  Pending  <- [state |-> "pending", text |-> None],
  Nothing  <- None,
  phase    <- [w \in Ws |-> PhaseOf(w)],
  results  <- [w \in Ws |-> Rendered(rows[w])],
  promised <- [w \in Ws |-> PromisedRows(w)],
  handed   <- [w \in Ws |-> IF delivered[w] THEN PromisedRows(w) ELSE None]

\* Every workspace, whatever the processes around it do, is a translation job
\* as TranslationJob describes it.
KeepsPromise == Contract!Spec

(* Liveness.                                                               *)

\* What only somebody else can undo: the source is not the one the job was
\* made from, the model is another one while it is still needed, or the
\* output path holds a tree that is not the intended one.
Blocked(w) ==
  \/ source.content # job[w].content
  \/ job[w].finalization = "none" /\ provider # job[w].digest
  \/ /\ output[OutOf[w]] # None
     /\ ~Intended(job[w], output[OutOf[w]])

\* A created job that is not blocked for good is completed, whatever was
\* interrupted, or killed between transactions, on the way: every position such
\* a stop can leave the workspace and the output in can be resumed from.  A job
\* taken away by the interruption of its own creation has no content left and
\* counts as blocked.
UnblockedJobCompletes ==
  \A w \in Ws :
    <>[]~Blocked(w) =>
      (job[w].state = "in_progress" ~> job[w].state = "completed")

\* What README.md:300-303 says of workspace mode: model digest drift stops the
\* run at once, so that no committed row comes from another model.
DriftStopsRun ==
  \A w \in Ws, k \in Occ :
    Ended(rows[w][k]) => rows[w][k].digest = job[w].digest
=============================================================================
