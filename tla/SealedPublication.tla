--------------------------- MODULE SealedPublication ---------------------------
(***************************************************************************)
(* The commands that turn one sealed directory into the next: the single   *)
(* pass translation, the review pack, the application of the decisions,    *)
(* the package, the consolidation, and the two that also read the vanilla  *)
(* memory: the context coverage and the blind comparison (engine.py,       *)
(* review.py, review_application.py, package_reviewed_mod.py,              *)
(* consolidate_reviewed_mod.py, vanilla_retrieval.py, context_ab.py). Each *)
(* reads its inputs part by part, checks them against what the operator    *)
(* pinned, builds a temporary directory beside the output, which no other  *)
(* command reads, verifies every input again and renames the directory     *)
(* onto a path that must not exist. Other programs edit, restore, replace  *)
(* and remove any part at any time.                                        *)
(*                                                                         *)
(* A part is a file or a set of files. The disk holds its data and a stamp,*)
(* the stat identity that the code compares next to the bytes: every write *)
(* gives a new one. TreeSnapshot is about what makes a set of files that is*)
(* read one after the other such a part, and about programs that set an    *)
(* identity back. A digest of data is modelled as the data. A record in a  *)
(* part names what the part was made from; whatever else another program   *)
(* writes there is Junk.                                                   *)
(***************************************************************************)
EXTENDS Naturals, Sequences, FiniteSets, TLC

CONSTANTS Texts,        \* generations of the English files
          Choices,      \* complete sets of a reviewer's decisions
          Absent, Junk, \* no part there; bytes that no command made
          Memory,       \* the vanilla memory the operator pinned
          Menus,        \* bound: the sets of commands that are used together
          MaxStarts,    \* bound: invocations of all commands
          MaxRunning,   \* bound: commands that run at a time
          MaxMeddles    \* bound: writes and removals by other programs

ASSUME SealedAssumption ==
  /\ Absent \notin Texts /\ Junk \notin Texts /\ Absent # Junk
  /\ Memory \notin {Absent, Junk}
  /\ MaxStarts \in Nat /\ MaxRunning \in Nat /\ MaxMeddles \in Nat

\* A command: the parts in the order in which it reads them and in the order in
\* which it verifies them, the parts it writes, and what it does one after the
\* other.
Translate ==
  [reads    |-> <<"text", "replace">>,
   verifies |-> <<"text", "replace">>,
   writes   |-> {"raw text", "raw report"},
   stages   |-> <<"read", "verify", "verify", "verify", "publish">>]

Review ==
  [reads    |-> <<"raw report", "text", "replace", "raw text">>,
   verifies |-> <<"text", "replace", "raw text", "raw report">>,
   writes   |-> {"page"},
   stages   |-> <<"read", "check", "verify", "publish">>]

Apply ==
  [reads    |-> <<"raw report", "text", "replace", "raw text", "decisions">>,
   verifies |-> <<"text", "replace", "raw text", "raw report", "decisions">>,
   writes   |-> {"reviewed text", "reviewed report"},
   stages   |-> <<"read", "check", "verify", "verify", "verify", "publish">>]

Package ==
  [reads    |-> <<"reviewed report", "reviewed text">>,
   verifies |-> <<"reviewed report", "reviewed text">>,
   writes   |-> {"package text", "package report"},
   stages   |-> <<"read", "check", "verify", "publish">>]

Consolidate ==
  [reads    |-> <<"reviewed report", "reviewed text", "package report",
                  "package text", "raw report", "supplement", "text", "replace",
                  "evidence">>,
   verifies |-> <<"reviewed report", "reviewed text", "package report",
                  "package text", "supplement", "text", "replace", "raw report",
                  "evidence">>,
   writes   |-> {"final text", "final replace", "final report"},
   stages   |-> <<"read", "check", "verify", "publish", "inspect", "verify">>]

Coverage ==
  [reads    |-> <<"text", "replace", "memory">>,
   verifies |-> <<"text", "replace", "memory", "text", "replace">>,
   writes   |-> {},
   stages   |-> <<"read", "check", "verify", "answer">>]

Compare ==
  [reads    |-> <<"text", "replace", "raw text", "raw report", "reviewed report",
                  "reviewed text", "memory">>,
   verifies |-> <<"text", "replace", "text", "replace", "raw text", "raw report",
                  "reviewed report", "reviewed text", "memory">>,
   writes   |-> {"ab pack"},
   stages   |-> <<"read", "check", "verify", "verify", "publish">>]

Script == [translate |-> Translate, review |-> Review, apply |-> Apply,
           package |-> Package, consolidate |-> Consolidate,
           coverage |-> Coverage, compare |-> Compare]

Commands == DOMAIN Script
Reads == [c \in Commands |-> Script[c].reads]
Verifies == [c \in Commands |-> Script[c].verifies]
Writes == [c \in Commands |-> Script[c].writes]
Stages == [c \in Commands |-> Script[c].stages]

ASSUME MenuAssumption == Menus \subseteq SUBSET Commands

Inputs(c) == {Reads[c][k] : k \in DOMAIN Reads[c]}
Parts == UNION ({Inputs(c) : c \in Commands} \cup {Writes[c] : c \in Commands})

VARIABLES offered,   \* the commands used in this behaviour
          disk,      \* for every part [data, stamp]
          proc,      \* for every command its current or last invocation
          delivered, \* for every part what was last delivered, for the pins
          clock,     \* the last stamp
          spent      \* invocations and meddling so far

vars == <<offered, disk, proc, delivered, clock, spent>>

----------------------------------------------------------------------------
\* The English localisation as the reports seal it: every file of the tree.
SourceOf(d) == [text |-> d["text"], replace |-> d["replace"]]

\* What is made: one part, or two.
One(p, x) == [r \in {p} |-> x]
Two(p, x, q, y) == [r \in {p, q} |-> IF r = p THEN x ELSE y]

\* What each command makes of the inputs d.
RawText(d) == [source |-> SourceOf(d)]
RawReport(d, schema) ==
  [schema |-> schema, source |-> SourceOf(d), output |-> RawText(d)]
TranslateMakes(d) == Two("raw text", RawText(d), "raw report", RawReport(d, 2))

PageOf(d) == [report |-> d["raw report"], source |-> SourceOf(d),
              candidate |-> d["raw text"]]
ReviewMakes(d) == One("page", PageOf(d))

ReviewedText(d) == [source |-> SourceOf(d), candidate |-> d["raw text"],
                    choice |-> d["decisions"].choice]
ReviewedReport(d) ==
  [schema    |-> IF d["raw report"].schema = 3 THEN 2 ELSE 1,
   base      |-> d["raw report"], source |-> SourceOf(d),
   candidate |-> d["raw text"], decisions |-> d["decisions"],
   output    |-> ReviewedText(d)]
ApplyMakes(d) ==
  Two("reviewed text", ReviewedText(d), "reviewed report", ReviewedReport(d))

PackageMakes(d) ==
  Two("package text", d["reviewed text"],
      "package report", [application |-> d["reviewed report"],
                         output |-> d["reviewed text"]])

ConsolidateMakes(d) ==
  [r \in {"final text", "final replace", "final report"} |->
     CASE r = "final text" -> d["reviewed text"]
       [] r = "final replace" -> d["supplement"].text
       [] r = "final report" -> [application |-> d["reviewed report"],
                                 supplement |-> d["supplement"]]]

CoverageMakes(d) == One("answer", [source |-> SourceOf(d), memory |-> d["memory"]])

CompareMakes(d) ==
  One("ab pack", [source |-> SourceOf(d), baseline |-> d["raw text"],
                  reviewed |-> d["reviewed text"], memory |-> d["memory"]])

Product(c, d) ==
  CASE c = "translate" -> TranslateMakes(d)
    [] c = "review" -> ReviewMakes(d)
    [] c = "apply" -> ApplyMakes(d)
    [] c = "package" -> PackageMakes(d)
    [] c = "consolidate" -> ConsolidateMakes(d)
    [] c = "coverage" -> CoverageMakes(d)
    [] c = "compare" -> CompareMakes(d)

----------------------------------------------------------------------------
\* _validated_review_inputs: the report is the pinned one and seals the source
\* and the candidate that were read.
RawSealed(d, pins) ==
  /\ d["raw report"] = pins["raw report"]
  /\ d["raw report"].source = SourceOf(d)
  /\ d["raw report"].output = d["raw text"]

\* validate_decisions_payload: decisions name the pack they were taken on.
DecisionsOfAnyPack(d) == d["decisions"] # Junk
DecisionsFit(d) == d["decisions"] # Junk /\ d["decisions"].page = PageOf(d)

\* _validate_application_report, without its counts.
ReviewedSealed(d, pins) ==
  /\ d["reviewed report"] = pins["reviewed report"]
  /\ d["reviewed report"].schema = 2
  /\ d["reviewed report"].output = d["reviewed text"]

\* _validate_main_package_binding: the pinned package holds what was reviewed.
PackageBound(d, pins) ==
  /\ d["package text"] = pins["package text"]
  /\ d["package report"] = pins["package report"]
  /\ d["package text"] = d["reviewed text"]

\* _validate_base_skip_authority: the report of the translation is the one the
\* application names, and was made of the same source and candidate.
BaseBound(d) ==
  LET application == d["reviewed report"]
  IN /\ d["raw report"] = application.base
     /\ d["raw report"].schema = 3
     /\ d["raw report"].source = application.source
     /\ d["raw report"].output = application.candidate

\* _validate_supplement_report: the pinned supplement was made for this package
\* and of the replace layer that is in the source now.
SupplementBound(d, pins) ==
  LET supplement == d["supplement"]
  IN /\ supplement = pins["supplement"]
     /\ supplement.main = d["package text"]
     /\ supplement.source = d["replace"]
     /\ supplement.text.of = d["replace"]

\* _validate_technical_smoke_evidence, _validate_owner_visual_confirmation.
EvidenceBound(d, pins) ==
  d["evidence"] = pins["evidence"] /\ d["evidence"].supplement = d["supplement"]

\* _snapshot_and_validate_inputs, and the source the application names is the one
\* that is there.
InputsBound(d, pins) ==
  /\ ReviewedSealed(d, pins) /\ PackageBound(d, pins)
  /\ d["reviewed report"].source = SourceOf(d)
  /\ SupplementBound(d, pins) /\ BaseBound(d) /\ EvidenceBound(d, pins)

\* _validated_baseline_pilot_inputs: a full report and what it seals.
BaselineBound(d, pins) == RawSealed(d, pins) /\ d["raw report"].schema = 3

\* _validated_reviewed_values: the reviewed candidate was made from the pinned
\* baseline and from the source.
ReviewedValuesBound(d, pins) ==
  LET application == d["reviewed report"]
  IN /\ ReviewedSealed(d, pins)
     /\ application.source = SourceOf(d)
     /\ application.base = d["raw report"] /\ application.candidate = d["raw text"]

\* _validate_memory_pins
MemoryPinned(d, pins) == d["memory"] = pins["memory"]

Checked(c, d, pins) ==
  CASE c = "review" -> RawSealed(d, pins)
    [] c = "apply" -> RawSealed(d, pins) /\ DecisionsFit(d)
    [] c = "package" -> ReviewedSealed(d, pins)
    [] c = "consolidate" -> InputsBound(d, pins)
    [] c = "coverage" -> MemoryPinned(d, pins)
    [] c = "compare" -> /\ BaselineBound(d, pins) /\ ReviewedValuesBound(d, pins)
                        /\ MemoryPinned(d, pins)

----------------------------------------------------------------------------
Nowhere == [data |-> Absent, stamp |-> 0]
NoSnapshot == [p \in {} |-> Nowhere]
Nothing == [p \in {} |-> Absent]
Idle == [pc |-> "idle", stage |-> 1, k |-> 1, pins |-> Nothing,
         tries |-> 1, snap |-> NoSnapshot, moment |-> Nothing, made |-> Nothing]

Data(view) == [p \in DOMAIN view |-> view[p].data]

Init ==
  /\ offered \in Menus
  /\ \E t \in Texts :
       disk = [p \in Parts |->
                 CASE p = "text" -> [data |-> t, stamp |-> 1]
                   [] p = "replace" -> [data |-> t, stamp |-> 1]
                   [] p = "memory" -> [data |-> Memory, stamp |-> 1]
                   [] OTHER -> Nowhere]
  /\ proc = [c \in Commands |-> Idle]
  /\ delivered = [p \in Parts |-> IF p = "memory" THEN Memory ELSE Absent]
  /\ clock = 1
  /\ spent = [starts |-> 0, meddles |-> 0]

Stage(c) == Stages[c][proc[c].stage]
Running(c) == proc[c].pc = "run"

\* What is left of an invocation: what it published, if it did, and from what.
Ended(p, pc) ==
  [Idle EXCEPT !.pc = pc, !.made = p.made,
               !.moment = IF p.made = Nothing THEN Nothing ELSE p.moment]

\* The invocation after a step that completes its stage.
NextStage(c, p) ==
  IF p.stage = Len(Stages[c]) THEN Ended(p, "done")
  ELSE [p EXCEPT !.stage = @ + 1, !.k = 1]

\* The next part of a stage that goes from part to part.
NextPart(c, p, order) ==
  IF p.k = Len(order) THEN NextStage(c, p) ELSE [p EXCEPT !.k = @ + 1]

\* The output must not exist; the pins are what the operator saw delivered.
Begin(c) ==
  /\ c \in offered /\ ~Running(c) /\ spent.starts < MaxStarts
  /\ Cardinality({o \in Commands : Running(o)}) < MaxRunning
  /\ \A p \in Writes[c] : disk[p].data = Absent
  /\ proc' = [proc EXCEPT ![c] = [Idle EXCEPT !.pc = "run", !.pins = delivered]]
  /\ spent' = [spent EXCEPT !.starts = @ + 1]
  /\ UNCHANGED <<disk, delivered, clock>>

\* A file is read between two equal stat identities. The history notes what was
\* on disk when the last part was read.
Taken(c, p, part) ==
  [p EXCEPT !.snap = [q \in DOMAIN p.snap \cup {part} |-> IF q = part THEN disk[q] ELSE p.snap[q]],
            !.moment = Data([q \in Inputs(c) |-> disk[q]])]

Read(c) ==
  LET part == Reads[c][proc[c].k]
  IN /\ Running(c) /\ Stage(c) = "read"
     /\ disk[part].data # Absent
     /\ proc' = [proc EXCEPT ![c] = NextPart(c, Taken(c, @, part), Reads[c])]
     /\ UNCHANGED <<disk, delivered, clock, spent>>

Check(c) ==
  /\ Running(c) /\ Stage(c) = "check"
  /\ Checked(c, Data(proc[c].snap), proc[c].pins)
  /\ proc' = [proc EXCEPT ![c] = NextStage(c, @)]
  /\ UNCHANGED <<disk, delivered, clock, spent>>

\* One part again: the bytes and the stat identity.
UnchangedBytes(c, part) == disk[part].data = proc[c].snap[part].data
Unchanged(c, part) == disk[part] = proc[c].snap[part]

Verify(c) ==
  /\ Running(c) /\ Stage(c) = "verify"
  /\ Unchanged(c, Verifies[c][proc[c].k])
  /\ proc' = [proc EXCEPT ![c] = NextPart(c, @, Verifies[c])]
  /\ UNCHANGED <<disk, delivered, clock, spent>>

\* The coverage begins again, once, when the source changed under it.
Retry(c) ==
  LET part == Verifies[c][proc[c].k]
  IN /\ c = "coverage" /\ Running(c) /\ Stage(c) = "verify"
     /\ part \in {"text", "replace"} /\ ~Unchanged(c, part)
     /\ proc[c].tries = 1
     /\ proc' = [proc EXCEPT ![c] = [Idle EXCEPT !.pc = "run", !.pins = proc[c].pins,
                                                 !.tries = 2]]
     /\ UNCHANGED <<disk, delivered, clock, spent>>

\* The coverage only prints its report.
Answer(c) ==
  /\ Running(c) /\ Stage(c) = "answer"
  /\ proc' = [proc EXCEPT ![c] =
                NextStage(c, [@ EXCEPT !.made = Product(c, Data(proc[c].snap))])]
  /\ UNCHANGED <<disk, delivered, clock, spent>>

\* atomic_publish_directory_no_replace
Place(made) ==
  /\ clock' = clock + 1
  /\ disk' = [p \in Parts |-> IF p \in DOMAIN made
                              THEN [data |-> made[p], stamp |-> clock + 1] ELSE disk[p]]
  /\ delivered' = [p \in Parts |-> IF p \in DOMAIN made THEN made[p] ELSE delivered[p]]

Publish(c) ==
  LET made == Product(c, Data(proc[c].snap))
  IN /\ Running(c) /\ Stage(c) = "publish"
     /\ \A p \in Writes[c] : disk[p].data = Absent
     /\ Place(made)
     /\ proc' = [proc EXCEPT ![c] = NextStage(c, [@ EXCEPT !.made = made])]
     /\ UNCHANGED spent

\* The consolidation looks at what it published.
Inspect(c) ==
  /\ Running(c) /\ Stage(c) = "inspect"
  /\ \A p \in Writes[c] : disk[p].data = proc[c].made[p]
  /\ proc' = [proc EXCEPT ![c] = NextStage(c, @)]
  /\ UNCHANGED <<disk, delivered, clock, spent>>

\* A check that does not hold, any error, or a kill: the temporary directory is
\* removed or stays, what was published stays.
Fail(c) ==
  /\ Running(c)
  /\ proc' = [proc EXCEPT ![c] = Ended(@, "failed")]
  /\ UNCHANGED <<disk, delivered, clock, spent>>

----------------------------------------------------------------------------
\* External. A full candidate comes from the resumable translation, whose own
\* module shows that it is made from one generation of the source.
Resume ==
  /\ disk["raw text"].data = Absent /\ disk["raw report"].data = Absent
  /\ LET d == Data(disk)
     IN /\ d["text"] # Absent /\ d["replace"] # Absent
        /\ Place(Two("raw text", RawText(d), "raw report", RawReport(d, 3)))
  /\ UNCHANGED <<proc, spent>>

\* The reviewer downloads the decisions taken on the page that is there; a
\* second download replaces the file.
Decide ==
  /\ disk["page"].data \notin {Absent, Junk}
  /\ spent.meddles < MaxMeddles
  /\ \E choice \in Choices :
       Place(One("decisions", [page |-> disk["page"].data, choice |-> choice]))
  /\ spent' = [spent EXCEPT !.meddles =
                 IF disk["decisions"].data = Absent THEN @ ELSE @ + 1]
  /\ UNCHANGED proc

\* A replace layer translated by hand for a package, and the evidence that it
\* was seen in the game.
Supplement ==
  /\ disk["package text"].data \notin {Absent, Junk}
  /\ disk["replace"].data \in Texts
  /\ disk["supplement"].data = Absent
  /\ LET replace == disk["replace"].data
         made == [text |-> [of |-> replace], source |-> replace,
                  main |-> disk["package text"].data]
     IN Place(Two("supplement", made, "evidence", [supplement |-> made]))
  /\ UNCHANGED <<proc, spent>>

\* Another program writes a part: another English text, bytes of its own, or
\* what a command had put there; two writes can restore the bytes, but never the
\* stat identity.
Variants(p) ==
  IF p \in {"text", "replace"} THEN Texts ELSE {Junk, delivered[p]} \ {Absent}

Meddle(p) ==
  /\ spent.meddles < MaxMeddles
  /\ disk[p].data # Absent
  /\ \E v \in Variants(p) \ {disk[p].data} :
       disk' = [disk EXCEPT ![p] = [data |-> v, stamp |-> clock + 1]]
  /\ clock' = clock + 1
  /\ spent' = [spent EXCEPT !.meddles = @ + 1]
  /\ UNCHANGED <<proc, delivered>>

\* Somebody removes a published directory.
DiscardDataOnly(c) ==
  /\ spent.meddles < MaxMeddles
  /\ \E p \in Writes[c] : disk[p].data # Absent
  /\ disk' = [p \in Parts |-> IF p \in Writes[c] THEN [disk[p] EXCEPT !.data = Absent] ELSE disk[p]]
  /\ spent' = [spent EXCEPT !.meddles = @ + 1]
  /\ UNCHANGED <<proc, delivered, clock>>

Discard(c) ==
  /\ spent.meddles < MaxMeddles
  /\ \E p \in Writes[c] : disk[p].data # Absent
  /\ disk' = [p \in Parts |-> IF p \in Writes[c] THEN Nowhere ELSE disk[p]]
  /\ spent' = [spent EXCEPT !.meddles = @ + 1]
  /\ UNCHANGED <<proc, delivered, clock>>

Step(c) == \/ Begin(c) \/ Read(c) \/ Check(c) \/ Verify(c)
           \/ Retry(c) \/ Answer(c) \/ Publish(c) \/ Inspect(c) \/ Fail(c)

\* What the commands of this behaviour read or write.
Watched == UNION {Inputs(c) \cup Writes[c] : c \in offered}

Next == /\ \/ \E c \in offered : Step(c) \/ Discard(c)
           \/ Resume \/ Decide \/ Supplement
           \/ \E p \in Watched : Meddle(p)
        /\ UNCHANGED offered

Spec == Init /\ [][Next]_vars

----------------------------------------------------------------------------
\* Types: a part that is not there has no stamp, and stamps do not repeat what
\* is still to come.
SealedTypeOK ==
  /\ \A p \in Parts : /\ disk[p].stamp \in 0..clock
                      /\ disk[p].stamp = 0 <=> disk[p].data = Absent
  /\ \A c \in Commands :
       /\ proc[c].pc \in {"idle", "run", "done", "failed"}
       /\ proc[c].stage \in DOMAIN Stages[c]
       /\ DOMAIN proc[c].snap \subseteq Inputs(c)
       /\ DOMAIN proc[c].made \in {{}, Writes[c], {"answer"}}
       /\ proc[c].tries \in 1..2
  /\ clock \in Nat /\ spent.starts \in 0..MaxStarts /\ spent.meddles \in 0..MaxMeddles

\* Every published directory is made from a state that the disk was in as a
\* whole, although the inputs were read and verified one after the other while
\* other programs wrote to them.
MadeFromOneMoment ==
  \A c \in Commands : proc[c].made # Nothing =>
    proc[c].made = Product(c, proc[c].moment)

\* What is published belongs together from end to end: a reviewed text is made
\* of the translation of its own source by decisions taken on exactly those
\* texts; a package holds a reviewed text as it was delivered; the consolidated
\* replace layer translates the replace layer of the source that was reviewed.
Coherent(application) ==
  LET text == application.output
  IN /\ text.candidate.source = text.source
     /\ application.base.source = text.source
     /\ application.decisions.page =
          [report |-> application.base, source |-> text.source,
           candidate |-> text.candidate]

OneLineage ==
  LET made(c) == proc[c].made
  IN /\ made("compare") # Nothing =>
          LET pack == made("compare")["ab pack"]
          IN /\ pack.reviewed.source = pack.source
             /\ pack.baseline = pack.reviewed.candidate
             /\ pack.baseline.source = pack.source
     /\ made("apply") # Nothing => Coherent(made("apply")["reviewed report"])
     /\ made("package") # Nothing =>
          LET application == made("package")["package report"].application
          IN Coherent(application) /\ application.output = made("package")["package text"]
     /\ made("consolidate") # Nothing =>
          LET application == made("consolidate")["final report"].application
          IN /\ Coherent(application)
             /\ application.output = made("consolidate")["final text"]
             /\ made("consolidate")["final replace"].of
                  = application.output.source.replace
=============================================================================
