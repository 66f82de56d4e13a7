------------------------------ MODULE MCWorkflow ------------------------------
(***************************************************************************)
(* Model checking of what surrounds the resumable translation. A behaviour *)
(* has one subject: the chain of sealed directories, a tree of files that  *)
(* is read twice, the harness that builds a candidate, the page of the     *)
(* blind comparison, or a sample of the inputs of one of the pure          *)
(* algorithms, which is drawn in one step.                                 *)
(***************************************************************************)
EXTENDS SealedPublication, Integers

CONSTANTS NoLimit, NoKey, NoRow, None, \* sentinels
          Torn, Foreign, Damaged,
          Builders, BlobSets, MaxBuilds, MaxForeign,    \* the harness
          BlindEntries, BlindChoices, BlindTabs,  \* the blind comparison
          MaxEdits,                    \* the tree
          Blob, OtherBlob              \* two blobs

VARIABLES subject, entry, inodes, dirs, time, edits, restored, reader,
          root, build, begun, stored, page, closed, revealed, sample

sealedVars == vars
treeVars == <<entry, inodes, dirs, time, edits, restored, reader>>
buildVars == <<root, build, begun>>
blindVars == <<stored, page, closed, revealed>>

----------------------------------------------------------------------------
\* The commands that are used together.
Chains == {{"translate", "review", "apply"},
           {"review", "apply", "package", "consolidate"},
           {"review", "apply", "compare"},
           {"translate", "coverage"}}

TextSymmetry == Permutations(Texts)

Blobs == {<<>>, <<Blob>>, <<Blob, OtherBlob>>, <<OtherBlob>>}

T == INSTANCE TreeSnapshot
B == INSTANCE CandidateBuild
V == INSTANCE BlindReview WITH
       Entries <- BlindEntries, Choices <- BlindChoices, Tabs <- BlindTabs

S == INSTANCE SequencesExt
F == INSTANCE LocalisationFile
R == INSTANCE ReportAlgebra
P == INSTANCE LocalisationPaths
M == INSTANCE MemoryAlignment
Q == INSTANCE VanillaRetrieval

\* The frozen policy with numbers small enough to count every outcome.
A == INSTANCE AnalysisPolicy WITH
       MassUnits <- 12, MinimumN <- 2, Floor <- [num |-> 3, den |-> 5],
       DimensionFloor <- [num |-> 1, den |-> 2], DimensionN <- 2,
       Alpha <- [num |-> 1, den |-> 3], Ceiling <- [num |-> 1, den |-> 2],
       CfaAlpha <- [num |-> 1, den |-> 8], CfaN <- 3, MaxUnits <- 9

ASSUME WorkflowAssumption ==
  /\ B!BuildBounds /\ Damaged \notin V!Draft /\ MaxEdits \in Nat
  /\ None \notin A!Scores /\ None \notin [num : Int, den : Nat \ {0}]

----------------------------------------------------------------------------
\* Values, and answers of the model made of chunks.
Values ==
  {<<"h">>, <<" ", "h">>, <<"h", " ", " ">>, <<" ", " ">>, <<>>,
   <<"$", "n", "$">>, <<"h", "$", "n", "$", " ">>,
   <<"\\", "n", "h">>, <<"h", "\\", "q">>, <<"[", "h", "]", "[", "h", "]">>,
   <<"S", "n", "h", "S", "h">>, <<"$", "n", "$", "h", "\\", "\\">>,
   <<"$", "L", "1", "$", "h", "\\", "n">>, <<"$", "L", "0", "$", "h">>}

Chunks == {<<"h">>, <<" ">>, F!Placeholder(1), F!Placeholder(2), <<"L">>, <<"$">>, <<"c">>}
Answers == {S!FlattenSeq(a) : a \in S!SeqOf(Chunks, 3)}

Edits == {S!FlattenSeq(a) : a \in S!SeqOf({<<"h">>, <<" ">>, <<"$", "n", "$">>, <<"\\", "n">>,
                                       <<"S", "n">>, <<"$">>, <<"c">>, <<"n">>}, 3)}

\* A file: what is above the header, and two lines that may be entries.
FileSamples ==
  {[above |-> a, header |-> h, body |-> b, value |-> v, limit |-> l] :
     a \in {"blank", "other", "none"}, h \in {"english", "russian"},
     b \in [1..2 -> {"entry", "like", "blank", "english"}],
     v \in {<<"h">>, <<"$", "n", "$", " ">>, <<"S", "n">>}, l \in {NoLimit, 0, 1}}

FileOf(x) ==
  [bytes |-> "clean",
   lines |-> (IF x.above = "none" THEN <<>> ELSE <<F!Line(x.above, <<"h">>)>>)
               \o <<F!Line(x.header, <<"h">>)>>
               \o [i \in 1..2 |-> F!Line(x.body[i], IF x.body[i] = "entry" THEN x.value
                                                    ELSE <<"h", "$">>)]]

----------------------------------------------------------------------------
\* A mod and what was done with it.
ModFiles ==
  LET File(k, n) == [kind |-> k, unsupported |-> n]
  IN {<<File("english", 0)>>, <<File("english", 2)>>,
      <<File("english", 0), File("foreign", 0)>>,
      <<File("english", 0), File("english", 1)>>,
      <<File("english", 0), File("file_skipped", 0)>>,
      <<File("english", 1), File("replace_layer_unsupported", 0)>>}

OccurrenceSamples ==
  {[file |-> 1, state |-> s, decision |-> d[1], alters |-> d[2], whitespace |-> s = "unchanged"] :
     s \in {"changed", "unchanged", "fallback"},
     d \in {<<"accept", FALSE>>, <<"edit", TRUE>>, <<"edit", FALSE>>, <<"reject", FALSE>>}}

Mods == {[files |-> f, occurrences |-> o] : f \in ModFiles, o \in S!SeqOf(OccurrenceSamples, 2)}
ReportSamples == {[mod |-> m, reused |-> r, limit |-> l] :
                    m \in Mods, r \in 0..1, l \in {NoLimit, 1}}

----------------------------------------------------------------------------
\* Vanilla trees of a few lines, damaged lines and damaged files among them.
K == <<"k", "k">>
AliasK == <<"k", "K">>
OtherK == <<"m", "m">>
H == <<"h">>
HN == <<"h", "$", "n", "$">>
Keyed(kind, key, suffix, text) ==
  [kind |-> kind, text |-> text, key |-> key, suffix |-> suffix]
Tree(stem, tail, bytes, header, lines) ==
  [path |-> [stem |-> stem, tail |-> tail], bytes |-> bytes,
   lines |-> <<Keyed(header, <<"l", "l">>, "", <<>>)>> \o lines]

E1 == Keyed("entry", K, "0", H)
E2 == Keyed("entry", OtherK, "0", H)
Bad == Keyed("like", K, "0", H)
VanillaLines ==
  {Keyed("entry", k, "0", t) : k \in {K, AliasK, OtherK}, t \in {H, HN}}
  \cup {Keyed("entry", K, "1", H), Keyed("entry", K, "0", <<"n">>), Bad,
        Keyed("like", NoKey, "0", H)}
EnglishTrees ==
  {<<Tree("a", "english", b, "english", l)>> :
     b \in {"clean", "nul_control"},
     l \in {<<x>> : x \in VanillaLines}
           \cup {<<x, y>> : x \in {E1, E2, Bad}, y \in VanillaLines}}
RussianTrees ==
  LET Russian(l) == Tree("a", "russian", "clean", "russian", l)
  IN {<<Russian(<<E1>>)>>, <<Russian(<<E1, E1>>)>>,
      <<Russian(<<E1, Keyed("entry", OtherK, "0", <<"n">>)>>)>>,
      <<Russian(<<Keyed("entry", AliasK, "0", H), E2>>)>>,
      <<Russian(<<Keyed("entry", K, "0", HN)>>), Tree("b", "", "hidden_bom", "russian", <<E2>>)>>,
      <<Tree("b", "", "clean", "russian", <<Keyed("like", OtherK, "0", H), E1>>)>>,
      <<Tree("a", "russian", "clean", "english", <<E1>>),
        Tree("c", "russian", "clean", "russian", <<Keyed("entry", K, "0", <<"n">>)>>)>>}
Boundless == [lines |-> NoLimit, entries |-> NoLimit, tokens |-> NoLimit,
              diagnostics |-> NoLimit, files |-> NoLimit, candidates |-> NoLimit]
MemorySamples ==
  {[english |-> e, russian |-> r, limits |-> l] :
     e \in EnglishTrees, r \in RussianTrees,
     l \in {Boundless, [Boundless EXCEPT !.entries = 3, !.candidates = 1, !.diagnostics = 1]}}

\* A memory of one or two strict pairs, a batch of one or two queries, a budget.
\* The text HN and its translations have one token each.
Pair(k, p, t, r, a, m) ==
  [key |-> k, path |-> p, suffix |-> "0", text |-> t, russian |-> r, alias |-> a,
   ambiguous |-> m, tokens |-> IF t = H THEN 0 ELSE 2]
Catalogue ==
  <<Pair("k1", "f", H, <<"n">>, FALSE, FALSE),
    Pair("k1", "g", HN, <<"n", "$", "n", "$">>, FALSE, FALSE),
    Pair("k2", "f", HN, <<"$", "n", "$">>, FALSE, TRUE),
    Pair("k2", "g", H, <<"h">>, TRUE, FALSE),
    Pair("k2", "g", HN, <<"n", "n", "$", "n", "$">>, FALSE, FALSE)>>
Row(k, s, a) == [key |-> k, strict |-> s, alias |-> a]
Memories ==
  {LET pairs == [i \in DOMAIN c |-> Catalogue[c[i]]]
       own == [i \in DOMAIN pairs |-> Row(pairs[i].key, TRUE, pairs[i].alias)]
   IN [rows |-> own \o own \o e.rows, occupied |-> e.occupied, pairs |-> pairs] :
     c \in {<<i>> : i \in 1..5} \cup {d \in (1..5) \X (1..5) : d[1] < d[2]},
     e \in {[rows |-> <<>>, occupied |-> <<>>],
            [rows |-> <<Row("k1", FALSE, FALSE)>>, occupied |-> <<"k2">>]}}
Query(k, t) == [key |-> k, path |-> "f", suffix |-> "0", text |-> t]
Queries == {Query(k, t) : k \in {"k1", "k2", "k4"}, t \in {H, HN}}
Batches == {<<q>> : q \in Queries} \cup {<<Query("k4", H), q>> : q \in Queries}
             \cup {<<q, Query("k1", HN)>> : q \in Queries}
Budget(batch, examined, units) ==
  [batch |-> batch, examined |-> examined, returned |-> 1, units |-> units]
RetrievalSamples ==
  [memory : Memories, queries : Batches,
   limits : {Budget(2, 2, u) : u \in 1..7} \cup {Budget(2, 1, 7), Budget(1, 2, NoLimit)}]

----------------------------------------------------------------------------
\* Paths of a mod, and named paths on a disk with two links.
N(fold, spelling, kind) == P!Name(fold, spelling, kind)
English(spelling) == N("english", spelling, IF spelling = "english" THEN "english" ELSE "plain")
ModPaths ==
  {<<N("a", s, k)>> : s \in {"a", "A"}, k \in {"plain", "l_english"}}
  \cup {<<d, N("a", s, "l_english")>> : d \in {N("d", "d", "plain"), N("d", "D", "plain"),
                                             N("a", "a", "plain"), English("english"),
                                             English("English")}, s \in {"a", "A"}}
  \cup {<<English("english"), N("d", "d", "plain"), N("a", "a", "l_english")>>,
        <<English("english"), N("replace", "replace", "replace"), N("a", "a", "l_english")>>,
        <<N("replace", "replace", "replace"), N("a", "a", "l_english")>>,
        <<English("English"), N("replace", "replace", "replace"), N("a", "a", "l_english")>>}
PathSamples == {p \in S!SeqOf(ModPaths, 2) : Len(p) = 2}
                 \cup {<<p, q, r>> : p, q \in ModPaths, r \in {<<N("d", "D", "plain"), N("b", "b", "plain")>>}}

LinkedTo(link, dir) == [l \in {link} |-> dir]
Disks == {[dirs |-> {<<>>, <<"a">>, <<"a", "b">>, <<"c">>}, links |-> l] :
            l \in {LinkedTo(<<"c", "b">>, <<"a", "b">>), LinkedTo(<<"a", "c">>, <<"a">>),
                   LinkedTo(<<"l">>, <<"a", "b">>)}}
NamedPaths == {<<>>, <<"a">>, <<"a", "b">>, <<"c">>, <<"l">>, <<"n">>, <<"a", "n">>, <<"c", "b">>,
               <<"c", "b", "n">>, <<"a", "c", "b">>, <<"l", "n">>, <<"a", "b", "n">>, <<"n", "a">>}
PlaceSamples == {[disk |-> d, named |-> <<[path |-> p, exists |-> e], [path |-> q, exists |-> FALSE]>>] :
                   d \in Disks, p, q \in NamedPaths, e \in BOOLEAN}

----------------------------------------------------------------------------
\* Rows of the benchmark.
Ratings == {<<0, 0>>, <<4, 4>>, <<4, 3>>, <<None, None>>, <<0, None>>}
RatingRows ==
  (UNION {[1..n -> [source : {"s1", "s2"}, pair : Ratings]] : n \in 1..2})
  \cup {<<[source |-> "s1", pair |-> p], [source |-> "s2", pair |-> q],
          [source |-> s, pair |-> r]>> : p, q, r \in {<<0, 0>>, <<4, 4>>, <<4, 3>>, <<4, 0>>},
                                         s \in {"s1", "s2", "s3"}}
OutcomeRows ==
  UNION {[1..n -> [source : {"s1", "s2", "s3"}, stratum : {"a", "b"}, applicable : BOOLEAN,
                   success : BOOLEAN]] : n \in 0..2}
TrialRows ==
  (UNION {[1..n -> [source : {"s1", "s2", "s3", "s4"}, event : BOOLEAN]] : n \in 1..3})
  \cup [1..4 -> [source : {"s1", "s2", "s3", "s4"}, event : {FALSE}]]
Aggregates ==
  [agreement : {<<"AGREEMENT_PASS">>, <<"AGREEMENT_PASS", "AGREEMENT_INSUFFICIENT_UNITS">>},
   cfa : {<<"CFA_PASS">>, <<"CFA_EVENT_OBSERVED">>},
   d1 : {"DIMENSION_PASS", "DIMENSION_FAIL"}, editorial : {"DIMENSION_PASS", "DIMENSION_FAIL"},
   results : 1..2, safe : 0..2, approved : 0..2, d1Defects : 0..1, critical : 0..1,
   missing : 0..1]

----------------------------------------------------------------------------
\* The composition: one subject moves, the others rest.
NoSample == [kind |-> "none"]
Drawn(kind, samples) == \E x \in samples : sample' = [kind |-> kind, x |-> x]

Draw == \/ \E v \in Values : Drawn("answer", {[value |-> v, answer |-> a] : a \in Answers})
        \/ \E v \in Values : Drawn("edit", {[value |-> v, edited |-> e] : e \in Edits})
        \/ Drawn("file", FileSamples)
        \/ Drawn("report", ReportSamples)
        \/ Drawn("memory", MemorySamples)
        \/ Drawn("retrieval", RetrievalSamples)
        \/ Drawn("paths", PathSamples)
        \/ Drawn("places", PlaceSamples)
        \/ Drawn("ratings", RatingRows)
        \/ Drawn("outcomes", OutcomeRows)
        \/ Drawn("trials", TrialRows)
        \/ Drawn("tail", {x \in (0..6) \X (1..6) : x[1] <= x[2]})
        \/ Drawn("aggregate", Aggregates)

WorkflowInit ==
  /\ subject \in {"chain", "tree", "candidate", "blind review", "sample"}
  /\ Init /\ (subject # "chain" => offered = CHOOSE c \in Menus : TRUE)
  /\ T!Init /\ (subject # "tree" =>
                  /\ reader.kind = T!EngineReader /\ \A f \in T!Files : entry[f] = 0)
  /\ B!Init /\ V!Init
  /\ sample = NoSample

WorkflowNext ==
  /\ UNCHANGED subject
  /\ \/ subject = "chain" /\ Next
        /\ UNCHANGED <<treeVars, buildVars, blindVars, sample>>
     \/ subject = "tree" /\ T!Next
        /\ UNCHANGED <<sealedVars, buildVars, blindVars, sample>>
     \/ subject = "candidate" /\ B!Next
        /\ UNCHANGED <<sealedVars, treeVars, blindVars, sample>>
     \/ subject = "blind review" /\ V!Next
        /\ UNCHANGED <<sealedVars, treeVars, buildVars, sample>>
     \/ /\ subject = "sample" /\ sample = NoSample /\ Draw
        /\ UNCHANGED <<sealedVars, treeVars, buildVars, blindVars>>

WorkflowSpec == WorkflowInit /\ [][WorkflowNext]_<<subject, sealedVars, treeVars, buildVars,
                                                     blindVars, sample>>

----------------------------------------------------------------------------
\* Types of all four machines.
TypeOK == SealedTypeOK /\ T!SnapshotTypeOK /\ B!BuildTypeOK /\ V!BlindTypeOK

\* What a command takes from a tree of files was there at one moment, although it
\* lists and reads them one after the other while other programs write, replace
\* and remove them (_snapshot and _verify_snapshot of engine.py and their
\* counterparts in the other commands).
SnapshotIsOneMoment == T!SnapshotIsOneMoment

\* The candidate that a builder of the harness reports as complete holds exactly
\* what was asked of it, whatever was killed and whoever else built there
\* (build_candidate).
CandidateIsExact == B!CandidateIsExact

\* A lock of the blind comparison is lost only to a tab that does not know of it,
\* or with the storage itself (_SCRIPT of context_ab.py).
LocksStay == V!LocksStay

\* What README.md says: the radio buttons of a locked choice are blocked for good.
\* A second tab that was loaded before writes its whole draft over the lock.
LockKept == V!LockKept

Is(kind) == sample.kind = kind

\* What the translator writes and the reviewer edits stays readable as the same
\* entry with the same protected tokens, and the review accepts the candidate
\* file line by line. (Entry.restore_translation, _split_edited_translation,
\* _planned_replacements, ParsedFile.render, _validate_file_alignment.)
TextSurvives ==
  /\ Is("answer") => F!AnswerSurvives(sample.x.value, sample.x.answer)
  /\ Is("edit") => F!EditSurvives(sample.x.value, sample.x.edited)
  /\ Is("file") => F!FileSurvives(FileOf(sample.x), sample.x.limit)

\* Every report the translation makes of a mod is one the review accepts, none
\* with one count changed, and a package accepts the application of any complete
\* decisions exactly when it should. (_workspace_translation_report,
\* _validate_full_report_counts, _validate_application_report.)
EveryReportIsReviewable ==
  Is("report") => R!ReportsHold(sample.x.mod, sample.x.reused, sample.x.limit)

\* The view of a memory that a retrieval scans.
MemoryOf(db) ==
  LET occurrences == S!SetToSeq(db.occurrences)
      occupied == S!SetToSeq({q \in db.quarantines : q.key # NoKey} \cup db.occupied)
      references == S!SetToSeq(db.references)
      Occurrence(id) == CHOOSE o \in db.occurrences : M!Id(o) = id
  IN [rows |-> [i \in DOMAIN occurrences |->
                  [key |-> occurrences[i].key, alias |-> occurrences[i].alias,
                   strict |-> occurrences[i].state = "strict_reference"]],
      occupied |-> [i \in DOMAIN occupied |-> occupied[i].key],
      pairs |-> [i \in DOMAIN references |->
                   LET e == Occurrence(references[i].english)
                       r == Occurrence(references[i].russian)
                   IN [key |-> e.key, path |-> M!Family(e.path, "english"),
                       suffix |-> e.suffix, text |-> e.value, russian |-> r.value,
                       tokens |-> Len(e.tokens) + Len(r.tokens),
                       alias |-> e.alias, ambiguous |-> references[i].ambiguous]]]

\* The lines of the English trees, asked of the memory that was built.
FreshQueries ==
  {[key |-> k, path |-> <<"a", "">>, suffix |-> "0", text |-> t] :
     k \in {K, AliasK, OtherK, <<"z", "z">>}, t \in {H, HN}}

AnswersAreSingle(memory, sources) ==
  \A q \in FreshQueries :
    Q!Reference(memory, q).candidates # <<>> =>
      \A l \in {"english", "russian"} : Cardinality(M!Mentions(sources, l, q.key)) <= 1

DatabaseHolds(db, read, limits) ==
  /\ M!MemoryRowsHold(db, read, limits)
  /\ \A memory \in {MemoryOf(db)} :
       Q!StrictPairs(memory) /\ AnswersAreSingle(memory, read.sources)

ReadHolds(read, limits) ==
  read.refused \/ DatabaseHolds(M!Database(read.sources), read, limits)

ResultsHold(memory, queries, results) ==
  /\ Q!BudgetOnlyAbstains(memory, queries, results)
  /\ Q!ReturnedIsExact(memory, queries, results)

\* A vanilla memory reads back as it was built, nothing derived in it can be
\* changed unnoticed, and a reference pairs only lines that are the single
\* mention of their key in both trees, damaged files and lines included. What is
\* retrieved from a memory answers exactly the query, never a key that more than
\* one line may define, and a budget shared by a batch only ever makes it
\* abstain. (_build_memory_rows, _validate_alignment_semantics,
\* _extract_batch_index, _retrieve_one.)
MemoryIsExact ==
  /\ Is("memory") =>
       ReadHolds(M!ReadTrees(sample.x.english, sample.x.russian, sample.x.limits),
                 sample.x.limits)
  /\ Is("retrieval") =>
       ResultsHold(sample.x.memory, sample.x.queries,
                   Q!RetrieveBatch(sample.x.memory, sample.x.queries, sample.x.limits))

\* No two files of a mod meet on a disk that ignores case, whatever the order in
\* which they are found, and no two named directories are one inside the other
\* through any link (_validate_candidate_path_mappings,
\* _validate_path_relationships).
PathsKeptApart ==
  /\ Is("paths") => P!FilesApart(sample.x)
  /\ Is("places") => P!PlacesApart(sample.x.disk, sample.x.named)

\* The contract and the analysis engine find the same results in the same rows,
\* the validator accepts them, and nothing passes a gate that should not
\* (m1b_contract.py, analysis_engine.py, contract_validator.py).
AgreementIsSound ==
  /\ Is("ratings") => A!AgreementIsOne(sample.x)
  /\ Is("outcomes") => \A d1 \in BOOLEAN : A!StratumIsSound(d1, sample.x, "a")
  /\ Is("trials") => A!CfaIsSound(sample.x)
  /\ Is("tail") => \A rate \in {[num |-> 3, den |-> 5], [num |-> 1, den |-> 2]} :
                     A!ConfidenceIsExact(sample.x[1], sample.x[2], rate)
  /\ Is("aggregate") => A!AggregateIsSound(sample.x)

\* What README.md and the tests of the package say: a mod whose decisions are
\* complete can be packaged, with a residue only on purpose. The code asks for a
\* base status that no translation with a rejected answer of the model has.
ReviewedIsPackageable ==
  Is("report") /\ sample.x.reused = 0 =>
    R!Packageable(sample.x.mod, R!WorkspaceReport(sample.x.mod, 0), TRUE)
=============================================================================
