# Verification of the Stellaris mod translator

These modules model the parts of `stellaris_mod_translator` whose correctness
depends on order or on boundaries: processes that resume one job, a SQLite file
and its journal, a review page with drafts and a batch undo, directories that
are published, verified and taken back, trees that are read while they change,
and the pure algorithms on texts, files, reports, memories and ratings that the
commands of the program repeat to one another. TLC checks all of them on small
instances; eight modules also have proofs that TLAPS checks for every value of
their constants.

Paths below are relative to `src/src/stellaris_mod_translator/` unless they begin
with `tools/`.

## The system

A user translates the English localisation of a Stellaris mod with a local
Ollama model, reviews the result in a browser page, applies the decisions,
packages the outcome, and may consolidate it with a replace layer made by hand.
A vanilla memory built from the game's own files gives context. Every command is
one synchronous process. The commands communicate through directories on disk
only, and each hands its result over by renaming a private temporary directory
onto a path that must not exist. Offline tools under `tools/research` build and
judge a benchmark.

| Component | State it keeps | Operations | Modules | Status |
|---|---|---|---|---|
| Resumable translation (`engine.py` 537-1996) | a workspace file; locals of one invocation | start, lease, load, check, reconcile, identify, create, translate loop, seal, intend, publish, confirm, complete | ResumableTranslation, ReportAlgebra | all but the vanilla context |
| Durable workspace (`workspace.py`) | job row, occurrence rows, `-journal` file, flock | lease, create, load with hot-journal recovery, start_resume_run, checkpoint, set_finalization_intent, mark_workspace_completed | WorkspaceJournal, WorkspaceStore | modelled |
| Atomic publication (`publication.py`) | none | no-replace rename | inside its callers | modelled |
| Single-pass translation (`engine.py` 402-535) | none before its rename | snapshot, plan, translate, verify, report, publish | SealedPublication, TreeSnapshot, LocalisationFile, ReportAlgebra, LocalisationPaths | partly |
| Localisation parser (`parser.py`) | none | parse, protect, restore, render | ProtectedText, LocalisationFile | modelled |
| Review pack (`review.py`) | none before its rename | validate, align, count, build, verify, publish | SealedPublication, LocalisationFile, ReportAlgebra, TreeSnapshot | partly |
| Review page (`review_ui.py`) | decisions, drafts, undo, selection, timer; the localStorage envelope | typing, deciding, batches, undo, flush, import, export, clear | ReviewSession | modelled |
| Review application (`review_application.py`) | none before its rename | read decisions, check, plan replacements, re-verify, publish | SealedPublication, ProtectedText, ReportAlgebra | partly |
| Package (`package_reviewed_mod.py`) | none before its rename | validate, snapshot, materialise, re-verify, publish | SealedPublication, TreeSnapshot, ReportAlgebra, LocalisationPaths | partly |
| Consolidation (`consolidate_reviewed_mod.py`) | none before its rename | snapshot of all inputs, bindings, materialise, re-verify, publish, verify again | SealedPublication, TreeSnapshot, LocalisationPaths, LocalisationFile | partly |
| Vanilla memory (`vanilla_memory.py`) | a published SQLite corpus and its report | build with one retry, verify, roll back; derive and validate rows | MemoryPublication, MemoryAlignment | partly |
| Vanilla retrieval (`vanilla_retrieval.py`) | a batch index in memory | snapshot with a retry, index under a budget, retrieve | VanillaRetrieval, TreeSnapshot, SealedPublication | partly |
| Context A/B (`context_ab.py`) | a pack; a draft in localStorage | read, bind, verify, publish; choose, lock, import, reload | SealedPublication, BlindReview | partly |
| Ollama client (`ollama.py`) | none | exact_model, translate | inside ResumableTranslation | partly |
| Command line (`cli.py`) | none | dispatch | SealedPublication | partly |
| M1A harness (`tools/research/m1a_harness.py`) | a candidate root | build a candidate, classify and validate it | CandidateBuild, LocalisationPaths | partly |
| M1B analysis (`tools/research/m1b_contract.py`, `m1b_1a1_candidate/`) | none | agreement, strata, critical false accepts, aggregate, in three programs | AnalysisPolicy | partly |
| Other research tools | none | closed-schema validators, fixtures, a local probe | | not modelled |

What makes each hard, and what makes it correct:

* **Resumable translation.** Runs last hours, are stopped anywhere and resumed
  by other processes, while the source, the model tag and the output path may
  change. An answer must be paid for once, results of two source generations
  must not mix, the delivered tree must be the one promised durably before, and
  nothing at the output path may be replaced.
* **Workspace file.** A process can be killed between any two disk steps of a
  transaction. A load must return what was committed, nothing else.
* **Review page.** Keystrokes are drafts until a debounce timer, a blur or a
  decision saves them; `setItem` may throw; an import completes after an
  `await`; a second tab may write the same key. The decisions, the drafts, the
  undo and the stored envelope must remain one generation, or the reviewer must
  be told.
* **Sealed publications** (single pass, pack, application, package,
  consolidation, coverage, comparison). Inputs are read part by part, checked
  against one another and verified again while other programs write to them; the
  last verification and the rename are separate steps. What is published must be
  made from a state the disk was in as a whole, and must belong together from
  the source to the last report of a chain of commands.
* **Trees.** A tree of files is not read at one moment: files and directories
  are opened one after the other, and another program can write, replace, remove
  and set times back in between.
* **Vanilla memory.** A drift found after the rename takes the publication back
  and may start a second attempt; the rollback renames whatever is at the output
  path before it knows whose it is. In the rows, a damaged file may still define
  a key, so what may be paired depends on what could not be parsed.
* **Texts and files.** Placeholders are restored one after the other in the text
  restored so far; the translator, the review and the application each take a
  value apart by rules of their own and must agree.
* **Reports.** Four commands repeat overlapping counts in several schemas and
  refuse one another's reports when they do not add up.
* **Blind page.** Once a reference is shown the choice must be final, through
  reloads, imports and refused writes; two tabs share one storage unaware of each other.
* **Candidate root.** Builders share a root without a lock and may be killed
  between any two files; only the manifest says what is complete.
* **Analysis.** Three programs compute the same statistics in different ways and
  must agree at every boundary.

`PROJECT.json` lists the hazards one by one with the line where each bites and
the property that would notice.

## Modules

```
TranslationJob            what a job promises            (abstract)
   ^ refined by
ResumableTranslation      processes, leases, transactions, rename
   |- ResumableTranslationProofs, MCResumable
   | relies on atomic transactions:
WorkspaceStore            atomic durable transactions    (abstract)
   ^ refined by
WorkspaceJournal          pages, rollback journal, kills
   |- WorkspaceJournalProofs, MCJournal
ReviewSession             tabs, drafts, undo, storage
   |- ReviewSessionProofs, MCReview
MemoryPublication         build, verify, retry, rollback
   |- VanillaMemoryProofs (with VanillaRetrieval), MCMemory
MCWorkflow                everything around the resumable translation
   |- WorkflowProofs
   |- SealedPublication   chains of commands among other programs
   |     |- SealedPublicationProofs
   |- TreeSnapshot        what makes a tree one part of such a chain
   |     |- TreeSnapshotProofs
   |- CandidateBuild      builders in one root
   |- BlindReview         locks of the blind page
   |- LocalisationFile    lines, headers, rendering, alignment
   |     |- ProtectedText tokens, placeholders, restoring, editing
   |- MemoryAlignment     rows, pairs, quarantine  (uses LocalisationFile)
   |- VanillaRetrieval    index and budget         (uses ProtectedText)
   |- ReportAlgebra       counts from command to command
   |- LocalisationPaths   collisions and separate directories
   |- AnalysisPolicy      statistics of the benchmark
   |- AlgorithmProofs     about ReportAlgebra, LocalisationPaths, AnalysisPolicy
```

### TranslationJob and ResumableTranslation

`TranslationJob` says what an operator may rely on: results are recorded one by
one and are final; the output is promised once, when every occurrence has a
result; exactly the promised tree is delivered, and only then is the job
finished.

`ResumableTranslation` is `_translate_mod_resumable` and its locked half for any
number of processes, workspaces and output paths. Its variables are what is on
disk (`source`, `output`, `job`, `rows`), the flock (`lease`), what the model tag
resolves to (`provider`), and for each process its position `pc` and its locals
`run`. Two histories are kept: `delivered` (a workspace's tree was renamed in
place) and `spent` (how much of each bound the environment used).

| Action | Code |
|---|---|
| `Start` | path checks; a first run snapshots its source before the lease |
| `Acquire` | `WorkspaceRunLock.__enter__`, non-blocking |
| `Open`, `Check` | `load_workspace`, the first look at the output, `_validate_workspace_semantics` |
| `Reconcile` | the branch for an output that is already there |
| `Identify` | `exact_model`, or the saved identity after an intent |
| `Create`, `Fill` | `create_workspace`: the schema autocommits, then one transaction, whose commit is still inside the `try` |
| `Load` | `create_workspace` leaves the `try` and returns; the workspace is loaded back |
| `Ready` | last checks, `start_resume_run` |
| `CallModel`, `Checkpoint` | the loop body: the call, then the transaction |
| `Seal`, `Recheck`, `Intend` | the tree in memory, the identity once more, the intent |
| `Publish`, `Confirm`, `Complete` | rename, scan of what was published, completion |
| `Refuse` | any failed check: unwinds, writes nothing |
| `Interrupt` | an exception between checks: unwinds; `create_workspace` unlinks its file, also when its commit has just been made |
| `Kill` | SIGKILL between transactions: nothing unwinds, the flock goes |
| `EditSource`, `SwapModel`, `TouchOutput` | other programs |

`source.stamp` stands for the stat identities that `_verify_snapshot` compares
next to the bytes: an edit that restores the old bytes still changes it. A row
records which source content and which model digest produced its answer; neither is
in the database, they are what the properties are about. An answer is a
translated text or a fallback; text is a member of a small set.

### WorkspaceStore and WorkspaceJournal

`WorkspaceStore` is the interface `ResumableTranslation` assumes: transactions
are atomic and durable, loads return the last committed content.
`WorkspaceJournal` is how the file provides it: two pages (the job row, the
occurrence rows), a `-journal` that is created empty, has a zero header until it
is synced and is deleted to commit. Every disk step is an action (`CreateJournal`,
`WriteHeader`, `SavePage`, `SyncJournal`, `WritePage`, `DeleteJournal`), so a
`Leave` (exit or kill) or `Fail` (an exception, answered by a rollback) can come
between any two. `Read`, `Recover` and `RefuseJournal` are the load: a read-only
look, a recovering connection when the journal is hot, and the refusal of a
journal that is not structurally valid. The SQLite pager is external, modelled from the
pragmas the code sets (`journal_mode=DELETE`, `synchronous=FULL`).

### ReviewSession

One record per tab (`view`): decisions in memory, drafts, undo, current entry,
page, selection, pending timer, whether a failure was shown, and the import in
flight. `stored` is the envelope in localStorage, `file` the last downloaded
document. Each event handler is one action, with every `persistSparse` it
makes: `Saves` yields the outcome of a `setItem` that works and of one that
throws, so a handler that flushes and then saves has four outcomes. An import
is two actions, because `file.text()` is awaited. `CloseTab` flushes
(`pagehide`), `KillTab` does not. `Written` is the compact form, which stores
segments only for edits. Validation of text is reduced to accepted or refused.

### MemoryPublication

`_build_vanilla_memory` for several builders of one output. The two source
trees are a sequence of parts, read and verified one after the other. A
directory records its owner and attempt (its inode), the source generation in
it, the files left and whether somebody changed it: `_published_tree_identity`
compares all of these, while the validation after the rename (`ReadsAsBuilt`)
compares only contents. The rollback is four actions: `Isolate` renames whatever
is there into a private directory, `Compare` looks whose it is, `Remove` or
`GiveBack` follows, and `Prove` looks at the output path again.

### SealedPublication

The seven commands that turn one sealed directory into the next. `disk` holds
for every part (a file or a set of files) its data and a stamp, the stat identity
the code compares next to the bytes. Data say what they were made from: a
reviewed text names its candidate, its source and the decisions; a digest is
modelled as the data it is a digest of. A command is a record: the parts in
the order in which it reads them, in the order in which it verifies them, the
parts it writes and its stages, each taken from the code of that command.
`Read`, `Verify` and `Inspect` go part by part, `Check` is everything the command
compares (`RawSealed`, `DecisionsFit`, `ReviewedSealed`, `InputsBound`, ...: one
operator per validator), `Publish` is the no-replace rename, `Retry` the second
attempt of the coverage, `Fail` any check that does not hold, any error or a kill.
`Meddle` and `Discard` are other programs; `Resume` (a full candidate appears),
`Decide` (the reviewer downloads decisions) and `Supplement` (the hand-made layer
and its evidence) are what happens outside these commands. `pins` are the digests
the operator passes on the command line, taken when the command begins. `moment`
and `made` are histories: the disk at the last read, and what was published.

### TreeSnapshot

Why `SealedPublication` may treat a tree of files as one part: the reader that
lists two directories and reads two files, once to take and once to verify, as
`engine.py`, `review.py`, `package_reviewed_mod.py`, `consolidate_reviewed_mod.py`
(two of them) and `vanilla_retrieval.py` do it. They differ in the order of
steps, in whether directory identities are taken, and in whether `ctime` is part
of an identity; a reader is a record that says so. A file has two halves that are
read one after the other. Other programs write halves, replace files through new
inodes, remove names and set `mtime` back.

### CandidateBuild

`build_candidate` of the harness for any number of builders in one root. Every
exclusive creation, fill, check and the final `os.replace` of the manifest is a
step, and a builder can stop before any of them. A second build finds what is
there (`State`).

### BlindReview

The script of the blind page: choose, lock, note, import, load, close, and the
storage it writes before it changes its memory, in any number of tabs that share
the storage and do not listen to it. `revealed` remembers the choices that were
locked when their reference was shown.

### ProtectedText and LocalisationFile

Texts are sequences of symbols, one for each class of characters the rules tell
apart: visible, space, control, the letter of the escape, the delimiters, the
placeholder literal and its digits. `TokenSpans`, `ModelText`, `RestoreAccepts`,
`Restore`, `Segments`, `EditAccepted` and `FinalValue` are the functions of
`parser.py`, `review.py` and `review_application.py`. A file is a sequence of
lines, each with the kind its expressions match; `ParseOutcome` gives the
outcome or the refusal in the order of the code, `Rendered` and `Reread` go to
Russian and back, `FileAligned` and `SupplementAligned` are the comparisons of the
review and of the consolidation.

### ReportAlgebra

What the translation reports (`WorkspaceReport`, `SinglePassReport`), what the
review demands (`ReviewAccepts`, `PilotReviewAccepts`), what the application
reports and what the package demands (`PackageAccepts`), each from its own code,
over mods with skipped files, unsupported entries and fallbacks.

### LocalisationPaths

Three checks that no two files of a mod meet on a disk that ignores case
(`Mapped` of `engine.py`, `LaidOut` of the harness, `Portable` of the
consolidation), each file after file as written, against one definition
(`Distinct`); and the check that named directories lie apart (`PathsSeparate`)
over disks with links, against where the paths really lead.

### MemoryAlignment and VanillaRetrieval

`ReadTrees` reads both trees under the budgets of the build, `Database` derives
occurrences, quarantine, occupied keys, pairs and counts (`_build_memory_rows`),
and `Accepts` is the independent validation that reads rows back
(`_validate_alignment_semantics` and the checks around it). A hash stands for what
it hashes. `Index` is the one scan of a memory for a batch under a shared budget,
`ByKey` and `ByText` the two ways a query is answered. `MCWorkflow` feeds the
memories that `Database` makes to `Reference`.

### AnalysisPolicy

The statistics of the benchmark in whole numbers: kappa of source-weighted
ratings, leave-one-source-out robustness, an exact binomial bound, the power
bound of the critical false accepts, the aggregate. The contract
(`m1b_contract.py`), the engine (`analysis_engine.py`) and the validator
(`contract_validator.py`) each have operators of their own.

## What the runs check

| Run | Question | Bounds |
|---|---|---|
| `resumable_one_job` | all safety and action properties and the refinement of `TranslationJob` | 2 processes, 1 workspace, 2 occurrences, 2 contents, 2 digests, 1 stop, 1 edit, 1 swap, 1 foreign change |
| `resumable_shared_output` | two workspaces name one output | 2 processes, 2 workspaces, 1 occurrence, 1 stop, 1 foreign change |
| `resumable_restarts` | a job that nothing blocks for good completes | 2 processes, 1 occurrence, 2 stops, 1 edit, 1 foreign change, fairness |
| `resumable_model_drift` | *violated:* drift stops the run at once | 1 process, 2 occurrences, 1 swap |
| `journal_crashes` | a kill between any two disk steps; refinement of `WorkspaceStore` | 3 occurrences, 2 resumed runs, any number of kills |
| `journal_resumes` | *violated:* every stop can be resumed | 1 occurrence |
| `review_session` | two tabs that share the key, all gestures, failing saves, older and damaged envelopes | 2 tabs, 2 entries, 2 pages, 5 gestures, 3 while both tabs are open |
| `review_damaged` | *violated:* valid decisions load whatever the undo | 2 entries, 3 gestures |
| `memory_build` | builders that race, drift and roll back | 2 builders, 2 source parts, 2 edits, 1 foreign change, 1 stop |
| `workflow` | what is published comes from one moment and one lineage; trees, candidates and the blind page; the pure algorithms against their references | see below |
| `blind_tabs` | *violated:* a locked choice stays blocked | 2 tabs, 2 entries |
| `review_packaging` | *violated:* a fully reviewed mod can be packaged | mods of at most 2 files and 2 occurrences |

A behaviour of `workflow` has one subject, so that the machines do not multiply:

* *chain*: one of four menus of commands (`Chains`), up to 4 invocations one at a
  time, 2 writes or removals by other programs between any two steps, 2
  generations of the English files, 1 set of decisions. Four invocations are what
  it takes to get from the review pack to a consolidation. One at a time is no
  loss: no command reads what another has not published yet, and the proof
  below covers any number at a time;
* *tree*: six readers, 2 files of 2 halves, 3 edits (write, replace, remove, set
  the time back);
* *candidate*: 2 builders, 3 builds, 4 sets of blobs, 1 foreign entry, kills
  anywhere;
* *blind review*: 2 tabs, 2 entries, 2 choices, damaged or cleared storage,
  imports, reloads. A refused write changes nothing and is no step;
* *sample*: one input of a pure algorithm: every value of `Values` with every
  answer of up to three chunks and every edit of up to three pieces; files of
  up to four lines; mods of two files and two occurrences; vanilla trees of two
  lines with damaged lines and files; memories of two pairs with batches of two
  queries at every budget up to the cost of the largest batch; pairs and triples of paths;
  disks with links; up to three rated rows and four trials.

Why the bounds are enough to be of use. Two processes suffice for any race on
the lease, because at most one is past it. Two occurrences distinguish the first
from the last and let a run stop between them; with one stop, one run has reused rows
and called rows. Edits, swaps and foreign changes are each needed once to go
wrong and a second time only to come back, which `stamp` makes irrelevant for the
source. The two pages of the journal are the smallest torn commit. Five
gestures reach download, import and an edit during it, or a final export; three while
both tabs are open, then two more in either, reach a batch, the other tab's change and
the undo of the first. Two edits let both attempts
of a memory build drift, and two writes let a sealed input change and come back,
or two inputs change together. The pure algorithms decide by neighbours (this
token and the last one, this row and the row of its key, this line and the line above),
so two or three of each reach every branch. Where the policy of the benchmark
has large numbers (32 units, 10,000 mass units) `MCWorkflow` uses small ones, so that all
outcomes can be counted.

Every property is also checked against a mutated definition that stands for a
plausible bug (`OpenAdopting`, `PublishReplacing`, `CompareNothing`,
`UnchangedBytes`, `DecisionsOfAnyPack`, `SameBytes`, `InDoubtRecords` and so on,
each marked "Mutant of"), and its run finds it.

Deadlock is checked in all runs but those of `MCWorkflow`: `MemoryPublication`
ends in `Ended`, and the other systems can always start another command, load or
tab. In `MCWorkflow` a sample is drawn once and a chain ends with its
invocations.

### Properties worth naming

* `SentOncePerCheckpoint`: with the lease taken before the snapshot and held
  through the loop, every answer paid for finds its row pending.
* `IntentAccountsForPlan`: reused and called occurrences of the recording run add
  up to the plan, although counters span interrupted runs.
* `OneSourceGeneration`: rows and intended tree come from one source content,
  also when bytes are changed and restored.
* `PublishedIsIntended`, `CompletedWasDelivered`, `NeverClobbers`,
  `OneDeliveryPerOutput`: what is at an output path was durably intended before,
  was delivered by its own workspace, and replaced nothing.
* `KeepsStore`, `CountersAgree`: disk plus journal always amount to the
  committed transactions.
* `UndoFits`, `StoredLoads`, `ShownIsKept`, `SavedOrWarned`,
  `SelectionEligible`, `FinalIsWhatWasShown`: the page's memory, screen,
  storage and export agree.
* `SuccessIsOneGeneration`, `FailureLeavesNothing`, `OneTreeAtATime`,
  `OneSuccess`, `OnlyOwnTreesGo`: a reported build is one generation of the
  sources, a reported failure leaves nothing, and no rollback removes a
  directory that is somebody else's.
* `MadeFromOneMoment`, `SnapshotIsOneMoment`: what a command publishes was made
  from a state its inputs were in together, although they are read one after the
  other; the second says the same of the files of one tree.
* `OneLineage`: a reviewed text, a package, a consolidation and a comparison hold
  together back to the source, through commands that each check their neighbours only.
* `CandidateIsExact`: what a builder reports is exactly what was asked.
* `LocksStay`: no handler of the blind page and no document undoes a lock that its
  own tab knows of; a lock is lost only with the storage, or to a tab that was loaded
  before it and writes its whole draft (which `blind_tabs` shows to happen).
* `TextSurvives`: an answer or an edit that is accepted reads back as one line with
  the same protected tokens, and the review accepts the rendered file.
* `EveryReportIsReviewable`: the review accepts each report the translation can
  write and none with a count changed; the package accepts its application if
  and only if it should.
* `MemoryIsExact`: nothing is paired or retrieved for a key that a damaged line
  or file may define as well, and a budget only ever makes a query abstain.
* `PathsKeptApart`, `AgreementIsSound`: three collision checks against one
  definition; three implementations of the statistics against one another and
  against counting.

### Fairness

Safety runs assume none. `FairSpec`, used by `resumable_restarts` alone, assumes
that an invocation takes its next step when it can (the code is sequential
and its lock does not wait), and that the operator resumes a workspace again
and again while a process is free. The second is an assumption about people,
not about code: nothing in the program restarts it. Stops are not fair and are
bounded, as are edits and foreign changes. `UnblockedJobCompletes` is
conditional on what only somebody else can undo (`Blocked`). The other commands
run once to an end or fail; nothing in the code waits for anything, so there is no
progress to claim for them.

## Where code and documentation disagree

1. `resumable_model_drift`. `README.md:300-303` says that digest drift stops a
   workspace run immediately. The digest is compared when a run starts and once
   before the intent (`engine.py:942`); in between the loop checkpoints answers
   of whatever the tag resolves to. Rows of another model are committed into the
   job, and delivered if the first model is back by then.
2. `journal_resumes`. `README.md:276-278` says that a stop after the model call
   and before the commit repeats only that call. A kill between the first page
   change and the sync of the journal leaves a journal that is empty or has a
   zero header; `_validate_hot_delete_journal` refuses it and every later
   resume, although SQLite would ignore it. `README.md:288-290` documents that empty
   and zero-filled journals are refused, not that a stop of the program leaves one.
3. `review_damaged`. `README.md:383-385` says that valid decisions load when
   only the undo is incompatible. The version 2 branch does that; for version 3
   the whole load fails (`review_ui.py:380`, caught at 577) and the next flush
   overwrites the stored decisions.
4. `blind_tabs`. `README.md:638-640` says that the radio controls of a locked choice
   are blocked for good. A tab writes its whole draft (`context_ab.py:594`) and reads
   the storage only when it loads, so one that was open before a choice was locked
   in another tab writes over the lock, and pages loaded later offer the choice again.
5. `review_packaging`. `README.md:445-447` says that a complete application can be
   packaged, and that a residue needs an explicit consent. The package demands a base status
   `technical_safe` whenever nothing is unsupported or skipped
   (`package_reviewed_mod.py:937-943`), but a translation with a single fallback
   reports `technical_safe_partial` (`engine.py:1802`, `README.md:200-201`), so such a
   mod is refused although its reviewer has decided every entry.

## What is proved

Eight modules, each for every value of its constants.

**`ResumableTranslationProofs`** proves, for all numbers of processes,
workspaces, outputs and occurrences, all source contents and digests and all bounds,
`TypeOK`, `OneSourceGeneration`, `IntentAccountsForPlan`, `PublishedIsIntended`,
`CompletedWasDelivered`, `DurableStepsAreFinal` and `NeverClobbers`. The only
assumption is `ConstantsAssumption`: at least one occurrence, an output for every
workspace, natural bounds, and sentinels (`None`, `Foreign`) that are no
members of the sets they are added to.

None of these invariants but the type invariant is inductive. That a completed
job was delivered depends on what the process about to record the completion
knows, which depends on nobody else having written to its workspace since.
The inductive invariant is

```
IInv == TypeOK /\ LocalsOK /\ LeaseOK /\ JobsOK /\ PublishedIsIntended
```

* `LocalsOK`: what an invocation knows at each position (`Local`), for example
  that from `translate` to `intend` its reuse and call counters add up to the
  committed count, or that at `publish` its tree is the durable intent;
* `LeaseOK`: a process past `Acquire` holds the lease of its workspace, which is
  why another process's step cannot invalidate what it knows;
* `JobsOK`: what is true of a workspace alone (`JobGood`).

The proof looks at one process and one workspace per action. `Advance` carries a
step of one process over to the whole invariant, using `LeaseOK` for the
others; `Withdraw` does so for a process that leaves. `QuietStep` and `DurableStep`
specialise them to steps that change nothing durable and steps that write the
own workspace, and one lemma per action (`CheckStep`, `PublishStep`, ...)
supplies what they ask for. `Inductive` splits on `Next`, and the theorems follow
with temporal steps. `Finality` and `NoClobber` use `Invariance` for the
state before the step.

The second half of the module stands on that invariant and proves
`SentOncePerCheckpoint`, `OneDeliveryPerOutput` and the refinement `KeepsPromise`
of `TranslationJob`. It adds `Owed`: what an invocation still has in hand is pending in
the workspace it leases (`InHand`), the committed count is the cardinality of
the ended rows (`RowsGood`), what was delivered is there unless somebody else
touched an output (`Deliveries`), and it was promised before (`PromisedFirst`).
The last is what the refinement needs. A job that `Fill` has committed is not yet
promised, for an interruption still takes it away: the contract's `Begin` is `Load`,
or the kill that keeps `create_workspace` from unlinking it (`PhaseOf`).
`Checkpoint` is its `Record`, `Intend` its `Promise`, `Publish` its `Deliver` (or nothing,
when the output was taken), `Complete` its `Finish`, and every other step is a stutter,
kills and restarts included.

**`WorkspaceJournalProofs`** proves `TypeOK`, `CountersAgree` and the refinement
`KeepsStore` for any number of occurrences, answers and runs, from
`JournalAssumption` and `UnreadAssumption`. The inductive invariant has three
parts: `Shapes` (types of pages, journal and connection), `Journaled` (at every position
of a transaction, which page is on disk, which is saved, and that disk plus
journal amount to the committed content) and `Known` (a snapshot that was read is the
committed content until this process changes it). The refinement then goes
action by action: `DeleteJournal` is the commit, every other step stutters.

**`VanillaMemoryProofs`** proves all six properties of the memory build for any
number of builders, parts and edits, from `PublicationAssumption` and
`SentinelAssumption`. Per builder: `Reads` (what was read and verified so far was one
generation), `Places` (where a directory of its own can be), `Alone` (at most one
tree of an attempt exists) and `Claims` (what a reported end implies).

It also proves the retrieval half of `MemoryIsExact`, `RetrievalIsExact`, for every
memory whose pairs have the same tokens in both texts, every batch and every budget. A
batch is answered from one scan of the database, and `Found` is what an index holds of a
query after any number of rows, unless the budget ran out on the query. Each step keeps
that (`ScanStep`); that the scan is defined row by row at all, and that its last index
has what every step keeps, both go by the first row where it would fail (`LeastIn`).
What the finished index knows of a query (`Known`) mentions neither the other queries
nor the budget, so the answer is that of the query alone or none (`SameAnswer`), and
what is returned is exact (`KeyIsExact`, `TextIsExact`). That the pairs of a memory that
was built have the same tokens in both texts is part of what the run checks of it
(`StrictPairs`).

**`SealedPublicationProofs`** proves `MadeFromOneMoment` for any number of texts,
invocations, commands at a time and writes by others, from `SealedAssumption` and
`MenuAssumption`, and `SealedTyped`. `Good` says what an invocation may rely on at each stage: the
parts it took (`Progress`), and that a part whose stamp is still the one it read
has not changed since it was read (`Kept`), because no stamp is used twice. The
first verification, which comes after the last read (`Plan` shows this for all
seven commands), turns that into a fact about the past. `OneLineage` is proved by a
second induction, `LineInv`: a delivered report binds the texts it names
(`Genuine`), the parts of an invocation that has passed its checks satisfy them
together until it ends (`Vouched`), and a product is then tied to what
the first command made (`Chained`), one lemma per command.

**`ReviewSessionProofs`** proves the type invariant and the six properties of the
review page for any entries, texts, pages, tabs and gestures, from
`ReviewAssumption` (there is an entry; a page shows some entry, since a filter
that shows none offers no gesture; the refused text is neither a candidate nor
an accepted text). A tab is looked at alone (`Good`: its undo fits, a
draft exists only for an edit decision and agrees with memory unless it was refused, and a
selection is eligible). Tabs meet in the storage only: `Truth` says that a tab
whose envelope is stored with nothing pending and no warning has everything in
it, and `Saved` that a save of another tab makes the envelope another's, so
that it never speaks for a tab it does not hold.

**`TreeSnapshotProofs`** proves `SnapshotTypeOK` and `SnapshotIsOneMoment` for any
number of writes, replacements, removals and resets of a time between the steps of a
reader. The tree is the module's, two files in two directories; of a reader the proof
only uses that it lists a directory after it has taken its identity (`KindOK`), which
is checked for the six of the code. `IInv` has six parts: `TreeOK` and `ReaderOK` are types and the order of the looks;
`Fresh` says that an inode or a directory whose stamps are still those that were seen
still holds what was seen; `Kept` that in the second pass what is still as the first
pass saw it was so when that pass ended; `Found` that what the second pass has
found unchanged was so at that moment; `Settled` that an
accepted reader found everything unchanged. The moment of the property is the end
of the first pass. `Trusted` is where a time set back comes in: without `ctime` in the
identity nothing follows once one was.

**`AlgorithmProofs`** is about three of the pure algorithms, for inputs of any size.

*Paths* (`FilesAreApart`, `PlacesAreApart`). The three collision checks are folds over a list with a table of
names seen so far; for each there is a closed form, what its state is after any
prefix of the list, shown to be the fold by the least place where the two
could differ (`SameFunctions`; the library's induction cannot be used). From the closed forms
each check is a statement about pairs of files (`MappingIsPairwise`,
`LayoutIsPairwise`, `PortableIsPairwise`), and the pairs are those whose paths
meet. So for every list of files of any names, in either order, each check accepts
exactly what it should. `PlacesAreApart` is about any disk whose links and
directories are as `DiskOK` says: a place is the deepest directory that exists and
the names below it (`PlaceFacts`), so that two accepted places never meet
(`PlacesMeet`), and of those that do not meet only two missing below one directory
are refused. A file whose path cannot be
mapped refuses the mod (`engine.py:2030`), so only lists without one have
candidates to keep apart (`MappedLists`).

*Reports* (`EveryReportHolds`). Of every mod whatsoever: its files, occurrences, fallbacks,
what a resumed job reused and what a pilot was limited to. The counts are
cardinalities of sets that split one another (`TwoParts`), so the review accepts each
report, refuses each with one count changed, and the package accepts an
application exactly when it should.

*Statistics* (`AgreementIsUnique`, `ConfidenceIsTail`, `StratumPassIsEarned`,
`CfaGateIsExact`, `AggregatePassIsExact`). Each is about any rows or counts.

* Sums of a function over a finite set (`SumFacts` and what follows it) may be split,
  renamed and exchanged. The library defines them by a fold; that a fold over a set is
  the same whichever element it starts with goes by the first size at which it would not be.
* The engine's confidence carries a binomial coefficient from term to term with exact
  divisions. `Pascal` and `WaysRatio` show that it counts the sets of successes, so each
  term is a part of the tail (`TermsAre`), and the early end of the loop changes nothing
  because the terms are not negative.
* For the agreement it is said what each source has of its own, without an order: its
  pairs rated by both reviewers, and whether it counts. The vectors list the sources that
  count once each (`VectorsAre`), the contract's and the engine's matrices are both their
  mass (`ListedSources`), a matrix less one source is that of the others (`WithoutOne`),
  reversed rows have the same sources (`ReverseKeeps`), and rows without a source
  the others' (`LeavingOut`). That kappa is undefined or a fraction with a positive
  denominator is an inequality between the rows and columns of a matrix
  (`KappaIsFraction`).

The hypotheses are what the frozen policy of the repository has. `AgreementPolicy`: the floor is a
fraction, the minimum and the limit of units are natural numbers, and `None` is neither a
score nor a fraction. `UnitsDivide(rows)`: the masses are counted in a unit that each
source's number of ratings divides, which is how the model writes Python's exact `Fraction`.
`RatePolicy`, `StratumPolicy`: rates between nought and one, a positive minimum.
`CfaPolicy`: the engine's frozen minimum of sources (`CFA_MINIMUM_N`) is the first number that
suffices for the ceiling and the confidence (`minimum_power_bound_n` of the contract). `workflow` evaluates the theorems' formulas on rows that
meet the hypotheses.

**`WorkflowProofs`** is about the composition, and about the parts that have no
module of proofs of their own.

* A behaviour of `WorkflowSpec` is a behaviour of each of its machines
  (`ChainBehaves`, `TreeBehaves`, and for the builders and the page the
  steps of the invariants themselves), so `MadeFromOneMoment`, `OneLineage` and
  `SnapshotIsOneMoment` hold in the workflow for all its constants.
* `CandidateIsExact` for any number of builders, builds and foreign entries and any
  sets of up to two blobs. `BuildInv` has to say who may write what: files are created
  exclusively, so one build of blobs at most has claimed the root (`Claims`), it writes
  only what it created (`FillsOwn`), one build at most holds the pending name
  (`Holds`), and a manifest of a build of blobs ends every claim (`ClaimsEnd`).
* `LocksStay` for any tabs, entries and choices: each handler writes a draft that has
  every lock of its own tab as it was (`KeepsLocks`, `TabWrites`), so what such a write
  takes from the storage its tab did not have (`WritingKeeps`).
* `WorkflowReportsAreReviewable`, `WorkflowAgreementIsSound` and `WorkflowKeepsPathsApart`
  say of the samples of the workflow what `AlgorithmProofs` proves of every report,
  scope and path. What has to be shown is that each sample is an input of those theorems and
  that its bounds are small enough (`SampledPolicy`, `SampleHasRows`). `MCWorkflow` has the
  operators as instances, so a few lemmas show that these are the operators
  proved about (`SameCounts`, `SameReports`, `SameAggregate`).
* `TypeOK` (`WorkflowTyped`), under the hypothesis that the value which stands for
  a part that is not there is not a record or another function (`IsRecord`). Nothing
  else is assumed of it; in the code it is the absence of a file, which no command writes into
  a file. `SealedTyped` needs `TypeInv`: what is placed on disk is never the
  absence of a part, which is plain of a record that was made and not of the
  supplement, a part taken out of another (`Filled`).

The constants of `MCWorkflow` obey `WorkflowAssumption`: bounds are natural
numbers, a builder is asked for at most two blobs, and the sentinels (`Torn`,
`Foreign`, `Damaged`, and `None` beside scores and fractions) are none of the contents they
stand beside.

Only model-checked:

* `TextSurvives`, and of `MemoryIsExact` what is about the memory as it is built (what
  is retrieved from one is proved): what the parsers, the restoring and the rows
  compute is defined by recursion over texts, files and lines, and the properties
  compare two such computations. A proof for every input is an induction over
  data that the installed provers cannot instantiate; the one by a least counterexample
  that serves the paths and the scan would be needed for each function.
* `UnblockedJobCompletes`: liveness, with the `ENABLED` in its fairness, is outside
  what the proof system handles.

## Limits of the inputs

Where a sample is restricted, the algorithm does not have the property beyond
the restriction. None of these contradicts a document of the repository.

* A protected token that contains the literal of a later placeholder is not
  restored correctly: `restore_translation` replaces one after the other in
  what was restored so far. For such a value `TextSurvives` says only that the review
  takes no damaged one (`Restored`); one of the samples is damaged into an entry that
  parses, which the comparison of the tokens refuses.
* A value that ends in `§` and a space cuts a placeholder of the prompt short, so
  every answer is rejected and the entry is a fallback.
* A token `§\` can be followed by text that turns the pair into another escape;
  the line may then not parse.
* An answer in which removing one placeholder makes another can leave a literal
  `__SMT_TOKEN_`. The review refuses such a file, and a source that contains
  `__SMT_` can be translated but not reviewed.
* `engine.py:2181` and `review.py` leave `ctime` out of a stat identity, and the
  listings of the translation and the review leave out the identity of
  directories. `TreeSnapshot` therefore exempts, for these readers, a program
  that sets a time back.

## What is not modelled

* Power loss and the kernel's write order; a kill loses nothing written.
* A kill *inside* a transaction in `ResumableTranslation`: there transactions are
  atomic. `WorkspaceJournal` has those kills, and `journal_resumes` shows the one
  after which a resume is refused, so `UnblockedJobCompletes` speaks of
  stops between transactions.
* The vanilla context of a translation (`_verify_translation_context_identity`):
  its checks have the shape of the source checks that are modelled.
* The branch of a resumable run with no reviewable occurrence (it falls back to
  the single pass; the model takes at least one occurrence).
* Temporary directories left by a kill: unique names that no code path reads.
* SQLite internals beyond the journal; HTTP; JSON and HTML files, inventories,
  digests (a digest is the data it is of), schemas, the manifest of a pack.
* Search, counters and rendering of the review page, and texts beyond
  accepted or refused.
* In the memory build, limits per language are totals, and row order and
  sequence numbers are left out; so is `inspect-vanilla-memory`.
* In the consolidation, the fixed residue its inputs must have, descriptors and
  slugs, equal source paths, and the refusal of duplicate keys and versions in
  `SupplementAligned`. A verification that fails after the rename leaves the published
  directory; `Fail` has that outcome too.
* In the comparison, model identities, the expected entries and which side is
  shown left.
* The research tools other than the harness and the analysis: validators of closed schemas over
  fixed fixtures, custody records, and a probe of a local server. They are
  long lists of field checks without state.

## Plan

What is left, by weight:

1. The identity of the vanilla context and the branch without reviewable
   occurrences in `ResumableTranslation`.
2. The descriptors and the residue of the consolidation.
3. The part of the memory as it is built that needs no recursion over two structures at
   once: that a mention is single.

## Running

```
tlc -workers 2 -config resumable_one_job.cfg MCResumable
tlc -workers 2 -config journal_crashes.cfg MCJournal
tlc -workers 2 -config review_session.cfg MCReview
tlc -workers 2 -config memory_build.cfg MCMemory
tlc -workers 2 -config workflow.cfg MCWorkflow
tlapm ResumableTranslationProofs.tla
tlapm WorkspaceJournalProofs.tla
tlapm VanillaMemoryProofs.tla
tlapm SealedPublicationProofs.tla
tlapm ReviewSessionProofs.tla
tlapm TreeSnapshotProofs.tla
tlapm AlgorithmProofs.tla
tlapm WorkflowProofs.tla
```

Each `.cfg` belongs to the MC module of its family: `resumable_*` to
`MCResumable`, `journal_*` to `MCJournal`, `review_session` and
`review_damaged` to `MCReview`, `memory_build` to `MCMemory`, `workflow`, `blind_tabs` and
`review_packaging` to `MCWorkflow`. A run takes at most about four minutes on two cores.
