-------------------------- MODULE MemoryPublication --------------------------
(***************************************************************************)
(* build-vanilla-memory (vanilla_memory.py, _build_vanilla_memory): two    *)
(* source trees are read, a private directory is built beside the output   *)
(* and renamed in place, everything is verified again, and when that fails *)
(* the publication is taken back without touching what is not its own.     *)
(* One drift of the sources is answered by a second full attempt.          *)
(*                                                                         *)
(* Several builders may name one output path; the sources and the output   *)
(* change under them; a builder may be interrupted or killed at any step.  *)
(***************************************************************************)
EXTENDS Naturals, FiniteSets, Functions

CONSTANTS
  Proc,      \* builders of one game version, all naming one output path
  K,         \* parts of the two source trees, in the order they are read
  Others,    \* trees that other programs put at the output path
  None,      \* nothing there
  MaxEdit,   \* bound: edits of a source part
  MaxTouch,  \* bound: what others do at the output path
  MaxStop    \* bound: interruptions and kills

ASSUME PublicationAssumption ==
  K \in Nat \ {0} /\ {MaxEdit, MaxTouch, MaxStop} \subseteq Nat

Part == 1..K
File == {"report", "database"}
Generation == [Part -> Nat]

(* A directory: whose it is and from which attempt (its inode), the source *)
(* generation in it, the files left, and whether somebody changed one.     *)
Directory ==
  [owner : Proc \cup Others, attempt : 0..2, of : Generation,
   files : SUBSET File, changed : BOOLEAN]

Alien(f) ==
  [owner |-> f, attempt |-> 0, of |-> [k \in Part |-> 0],
   files |-> {}, changed |-> FALSE]

ASSUME SentinelAssumption == None \notin Directory /\ Proc \cap Others = {}

Outcome == {"none", "success", "refused", "drift", "mismatch", "unproven",
            "stopped", "killed"}

VARIABLES
  source,    \* the generation of every source part
  output,    \* the directory at the output path
  temp,      \* builder -> its temporary directory
  isolated,  \* builder -> what it moved into its rollback directory
  pc,        \* builder -> the step it is about to take
  at,        \* builder -> the source part it reads or verifies next
  attempt,   \* builder -> 1, then 2 after a drift
  seen,      \* builder -> the generations its snapshot read
  cause,     \* builder -> why it rolls back
  outcome,   \* builder -> how the command ended
  fresh,     \* history: builder -> its snapshot was current when it renamed
  spent      \* how much of each bound is used

local == <<pc, at, attempt, seen, cause, outcome, fresh>>
vars  == <<source, output, temp, isolated, local, spent>>

Own(p) ==
  [owner |-> p, attempt |-> attempt[p], of |-> seen[p],
   files |-> File, changed |-> FALSE]

TypeOK ==
  /\ source \in Generation
  /\ output \in Directory \cup {None}
  /\ temp \in [Proc -> Directory \cup {None}]
  /\ isolated \in [Proc -> Directory \cup {None}]
  /\ pc \in [Proc -> {"idle", "again", "snapshot", "build", "before", "publish",
                      "after", "validate", "terminal", "isolate", "compare",
                      "giveback", "remove", "prove", "end"}]
  /\ at \in [Proc -> Part] /\ attempt \in [Proc -> 1..2]
  /\ seen \in [Proc -> Generation]
  /\ cause \in [Proc -> Outcome] /\ outcome \in [Proc -> Outcome]
  /\ fresh \in [Proc -> BOOLEAN]
  /\ spent \in [{"edit", "touch", "stop"} -> Nat]

Init ==
  /\ source = [k \in Part |-> 0]
  /\ output = None
  /\ temp = [p \in Proc |-> None] /\ isolated = [p \in Proc |-> None]
  /\ pc = [p \in Proc |-> "idle"]
  /\ at = [p \in Proc |-> 1] /\ attempt = [p \in Proc |-> 1]
  /\ seen = [p \in Proc |-> source]
  /\ cause = [p \in Proc |-> "none"] /\ outcome = [p \in Proc |-> "none"]
  /\ fresh = [p \in Proc |-> FALSE]
  /\ spent = [e \in {"edit", "touch", "stop"} |-> 0]

-----------------------------------------------------------------------------
(* Moves between the steps.                                                *)

Goto(p, l) == pc' = [pc EXCEPT ![p] = l]

End(p, o) ==
  /\ Goto(p, "end")
  /\ outcome' = [outcome EXCEPT ![p] = o]
  /\ UNCHANGED <<at, attempt, seen, cause, fresh>>

\* Mutant of Retry: the loop retries as long as the sources drift.
RetryAgain(p) ==
  /\ Goto(p, "again")
  /\ attempt' = [attempt EXCEPT ![p] = @ + 1]
  /\ UNCHANGED <<at, seen, cause, outcome, fresh>>

\* _SourceGenerationChanged reaches the loop of _build_vanilla_memory.
Retry(p) ==
  IF attempt[p] = 1
  THEN /\ Goto(p, "again")
       /\ attempt' = [attempt EXCEPT ![p] = 2]
       /\ UNCHANGED <<at, seen, cause, outcome, fresh>>
  ELSE End(p, "drift")

\* An exception after the rename starts the rollback.
TakeBack(p, why) ==
  /\ Goto(p, "isolate")
  /\ cause' = [cause EXCEPT ![p] = why]
  /\ UNCHANGED <<at, attempt, seen, outcome, fresh>>

NextPart(p, done) ==
  /\ at' = [at EXCEPT ![p] = IF @ = K THEN 1 ELSE @ + 1]
  /\ IF at[p] = K THEN done ELSE UNCHANGED <<pc, outcome>>

-----------------------------------------------------------------------------
(* The steps of a builder.                                                 *)

\* _validated_output, and before a second attempt _require_output_absent.
Begin(p) ==
  /\ pc[p] \in {"idle", "again"}
  /\ IF output = None
     THEN /\ Goto(p, "snapshot")
          /\ at' = [at EXCEPT ![p] = 1]
          /\ UNCHANGED <<attempt, seen, cause, outcome, fresh>>
     ELSE End(p, "refused")
  /\ UNCHANGED <<source, output, temp, isolated, spent>>

\* _snapshot_source_tree, English then Russian.
Snapshot(p) ==
  /\ pc[p] = "snapshot"
  /\ seen' = [seen EXCEPT ![p][at[p]] = source[at[p]]]
  /\ NextPart(p, Goto(p, "build") /\ UNCHANGED outcome)
  /\ UNCHANGED <<attempt, cause, fresh>>
  /\ UNCHANGED <<source, output, temp, isolated, spent>>

\* A snapshot may notice an edit of what it has read while it is still reading.
SnapshotDrift(p) ==
  /\ pc[p] = "snapshot"
  /\ \E k \in 1 .. at[p] - 1 : source[k] # seen[p][k]
  /\ Retry(p)
  /\ UNCHANGED <<source, output, temp, isolated, spent>>

\* Rows, database and report, in a new private temporary directory.
Build(p) ==
  /\ pc[p] = "build"
  /\ temp' = [temp EXCEPT ![p] = Own(p)]
  /\ Goto(p, "before")
  /\ UNCHANGED <<at, attempt, seen, cause, outcome, fresh>>
  /\ UNCHANGED <<source, output, isolated, spent>>

Current(p) == source[at[p]] = seen[p][at[p]]

\* _verify_source_snapshot before the rename, after it, and last of all.
Verify(p) ==
  /\ pc[p] \in {"before", "after", "terminal"} /\ Current(p)
  /\ NextPart(p,
       CASE pc[p] = "before"   -> Goto(p, "publish") /\ UNCHANGED outcome
         [] pc[p] = "after"    -> Goto(p, "validate") /\ UNCHANGED outcome
         [] pc[p] = "terminal" -> /\ Goto(p, "end")
                                  /\ outcome' = [outcome EXCEPT ![p] = "success"])
  /\ UNCHANGED <<attempt, seen, cause, fresh>>
  /\ UNCHANGED <<source, output, temp, isolated, spent>>

\* Mutant of Drift: a drift found after the rename leaves the publication.
DriftUnrolled(p) ==
  /\ pc[p] \in {"before", "after", "terminal"} /\ ~Current(p)
  /\ temp' = [temp EXCEPT ![p] = None]
  /\ Retry(p)
  /\ UNCHANGED <<source, output, isolated, spent>>

\* Before the rename the temporary directory goes; after it, the rollback.
Drift(p) ==
  /\ pc[p] \in {"before", "after", "terminal"} /\ ~Current(p)
  /\ IF pc[p] = "before"
     THEN temp' = [temp EXCEPT ![p] = None] /\ Retry(p)
     ELSE TakeBack(p, "drift") /\ UNCHANGED temp
  /\ UNCHANGED <<source, output, isolated, spent>>

\* Mutant of Publish: the checks after the rename are left out.
PublishLast(p) ==
  /\ pc[p] = "publish"
  /\ output = None
  /\ output' = temp[p] /\ temp' = [temp EXCEPT ![p] = None]
  /\ Goto(p, "end")
  /\ outcome' = [outcome EXCEPT ![p] = "success"]
  /\ fresh' = [fresh EXCEPT ![p] = source = seen[p]]
  /\ UNCHANGED <<at, attempt, seen, cause>>
  /\ UNCHANGED <<source, isolated, spent>>

\* Mutant of Publish: a rename that replaces.
PublishReplacing(p) ==
  /\ pc[p] = "publish"
  /\ output' = temp[p] /\ temp' = [temp EXCEPT ![p] = None]
  /\ Goto(p, "after")
  /\ fresh' = [fresh EXCEPT ![p] = source = seen[p]]
  /\ UNCHANGED <<at, attempt, seen, cause, outcome>>
  /\ UNCHANGED <<source, isolated, spent>>

\* The no-replace rename.
Publish(p) ==
  /\ pc[p] = "publish"
  /\ temp' = [temp EXCEPT ![p] = None]
  /\ IF output = None
     THEN /\ output' = temp[p]
          /\ Goto(p, "after")
          /\ fresh' = [fresh EXCEPT ![p] = source = seen[p]]
          /\ UNCHANGED <<at, attempt, seen, cause, outcome>>
     ELSE End(p, "refused") /\ UNCHANGED output
  /\ UNCHANGED <<source, isolated, spent>>

(* The database and the report at the output path are read back. Only what *)
(* they say is compared: an equal tree of another builder passes as well.  *)
ReadsAsBuilt(p) ==
  /\ output # None
  /\ output.of = seen[p] /\ output.files = File /\ ~output.changed

Validate(p) ==
  /\ pc[p] = "validate"
  /\ IF ReadsAsBuilt(p)
     THEN /\ Goto(p, "terminal")
          /\ UNCHANGED <<at, attempt, seen, cause, outcome, fresh>>
     ELSE TakeBack(p, "mismatch")
  /\ UNCHANGED <<source, output, temp, isolated, spent>>

-----------------------------------------------------------------------------
(* _rollback_owned_publication.                                            *)

\* What is at the output path is first moved out of everybody's reach.
Isolate(p) ==
  /\ pc[p] = "isolate"
  /\ IF output = None
     THEN End(p, "unproven") /\ UNCHANGED <<output, isolated>>
     ELSE /\ isolated' = [isolated EXCEPT ![p] = output] /\ output' = None
          /\ Goto(p, "compare")
          /\ UNCHANGED <<at, attempt, seen, cause, outcome, fresh>>
  /\ UNCHANGED <<source, temp, spent>>

Continue(p, l) ==
  /\ Goto(p, l)
  /\ UNCHANGED <<at, attempt, seen, cause, outcome, fresh>>
  /\ UNCHANGED <<source, output, temp, isolated, spent>>

\* Mutant of Compare: what was moved is taken for the own publication.
CompareNothing(p) == pc[p] = "compare" /\ Continue(p, "remove")

\* Mutant of Compare: moved away is good enough.
CompareOnly(p) ==
  /\ pc[p] = "compare"
  /\ Continue(p, IF isolated[p] = Own(p) THEN "prove" ELSE "giveback")

\* Only there it is compared with the identity taken before the rename.
Compare(p) ==
  /\ pc[p] = "compare"
  /\ Continue(p, IF isolated[p] = Own(p) THEN "remove" ELSE "giveback")

\* Not the own publication: back to the output path, unless that is taken.
GiveBack(p) ==
  /\ pc[p] = "giveback"
  /\ IF output = None
     THEN output' = isolated[p] /\ isolated' = [isolated EXCEPT ![p] = None]
     ELSE UNCHANGED <<output, isolated>>
  /\ End(p, "unproven")
  /\ UNCHANGED <<source, temp, spent>>

\* _remove_isolated_owned_publication: file by file, then the directory.
Remove(p) ==
  /\ pc[p] = "remove"
  /\ LET left == IF "report" \in isolated[p].files
                 THEN isolated[p].files \ {"report"} ELSE {}
     IN  IF isolated[p].files = {}
         THEN /\ isolated' = [isolated EXCEPT ![p] = None]
              /\ Goto(p, "prove")
         ELSE isolated' = [isolated EXCEPT ![p].files = left] /\ UNCHANGED pc
  /\ UNCHANGED <<at, attempt, seen, cause, outcome, fresh>>
  /\ UNCHANGED <<source, output, temp, spent>>

\* The rollback is proved when the output path is empty; its exception goes on.
Prove(p) ==
  /\ pc[p] = "prove"
  /\ IF output # None THEN End(p, "unproven")
     ELSE IF cause[p] = "drift" THEN Retry(p)
     ELSE End(p, cause[p])
  /\ UNCHANGED <<source, output, temp, isolated, spent>>

-----------------------------------------------------------------------------
(* The environment.                                                        *)

Spend(e, bound) == spent[e] < bound /\ spent' = [spent EXCEPT ![e] = @ + 1]

Rolling == {"isolate", "compare", "giveback", "remove", "prove"}

\* An exception that is no check: before the rename the temporary directory
\* goes, after it the publication; inside the rollback nothing catches it, nor
\* right after the rename, before the flag "published" is set.
Interrupt(p) ==
  /\ pc[p] \notin {"idle", "end"}
  /\ Spend("stop", MaxStop)
  /\ temp' = [temp EXCEPT ![p] = None]
  /\ \/ pc[p] \in {"after", "validate", "terminal"} /\ TakeBack(p, "stopped")
     \/ /\ pc[p] \notin {"validate", "terminal"}
        /\ pc[p] = "after" => at[p] = 1
        /\ End(p, "stopped")
  /\ UNCHANGED <<source, output, isolated>>

Kill(p) ==
  /\ pc[p] \notin {"idle", "end"}
  /\ Spend("stop", MaxStop)
  /\ End(p, "killed")
  /\ UNCHANGED <<source, output, temp, isolated>>

Edit(k) ==
  /\ Spend("edit", MaxEdit)
  /\ source' = [source EXCEPT ![k] = @ + 1]
  /\ UNCHANGED <<output, temp, isolated, local>>

Directories ==
  ({output} \cup Range(temp) \cup Range(isolated)) \ {None}

Somewhere(o) == \E d \in Directories : d.owner = o

\* Others put a directory at the output path, replace or remove what is there,
\* or change a file of it.
Touch ==
  /\ Spend("touch", MaxTouch)
  /\ \/ \E f \in Others : ~Somewhere(f) /\ output' = Alien(f)
     \/ output # None /\ output' = None
     \/ output # None /\ output' = [output EXCEPT !.changed = TRUE]
  /\ UNCHANGED <<source, temp, isolated, local>>

Step(p) ==
  \/ Begin(p) \/ Snapshot(p) \/ SnapshotDrift(p) \/ Build(p) \/ Verify(p)
  \/ Drift(p) \/ Publish(p) \/ Validate(p) \/ Isolate(p) \/ Compare(p)
  \/ GiveBack(p) \/ Remove(p) \/ Prove(p)

Ended == (\A p \in Proc : pc[p] = "end") /\ UNCHANGED vars

Next ==
  \/ \E p \in Proc : Step(p) \/ Interrupt(p) \/ Kill(p)
  \/ \E k \in Part : Edit(k)
  \/ Touch
  \/ Ended

Spec == Init /\ [][Next]_vars

-----------------------------------------------------------------------------
(* Properties.                                                             *)

\* A reported build is one generation of both source trees: at the moment of
\* the rename every part was still what the snapshot had read, although the
\* parts are read and verified one after the other while others edit them.
SuccessIsOneGeneration ==
  \A p \in Proc : outcome[p] = "success" => fresh[p]

\* A build that reports a drift, a mismatch or a refusal has left nothing of
\* its own anywhere: no output, no temporary and no rollback directory.
FailureLeavesNothing ==
  \A p \in Proc :
    outcome[p] \in {"drift", "mismatch", "refused"} => ~Somewhere(p)

\* A second attempt starts only when the first publication is gone.
OneTreeAtATime ==
  \A p \in Proc : \A d, e \in Directories :
    d.owner = p /\ e.owner = p => d = e

\* No step of a builder makes a directory disappear that is not its own: what
\* the rollback moved by mistake is still at the output or put aside.
OnlyOwnTreesGo ==
  [][spent'["touch"] = spent["touch"] =>
       \A o \in Proc \cup Others :
         Somewhere(o) /\ ~Somewhere(o)' => o \in Proc /\ pc'[o] # pc[o]]_vars

\* Two builders of one output path do not both report a publication, unless
\* somebody else worked at the path.
OneSuccess ==
  \A p, q \in Proc :
    p # q /\ outcome[p] = "success" /\ outcome[q] = "success" =>
      spent["touch"] > 0
=============================================================================
