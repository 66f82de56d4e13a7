---------------------------- MODULE ReportAlgebra ----------------------------
(***************************************************************************)
(* The counts a mod carries from command to command: the translation       *)
(* report (engine.py), its check and summary for the review pack           *)
(* (review.py), the application report (review_application.py) and its     *)
(* check before packaging (package_reviewed_mod.py).                       *)
(*                                                                         *)
(* A mod is [files, occurrences]: a file is [kind, unsupported], kind      *)
(* being "english", "foreign", or the reason it was skipped; an occurrence *)
(* is a supported entry, [file, state, decision, alters, whitespace]: what *)
(* the translation made of it, what the reviewer decided, whether an edit  *)
(* alters the text, whether its boundary spaces differ from the source's.  *)
(***************************************************************************)
EXTENDS Integers, Sequences, FiniteSets

CONSTANTS NoLimit

Skips == {"replace_layer_unsupported", "file_skipped"}
FilesOf(mod, kinds) == {f \in DOMAIN mod.files : mod.files[f].kind \in kinds}
Occurring(mod, states) == {i \in DOMAIN mod.occurrences : mod.occurrences[i].state \in states}
Decided(mod, decisions) ==
  {i \in DOMAIN mod.occurrences : mod.occurrences[i].decision \in decisions}
Num(S) == Cardinality(S)

\* The entries of the English files that are not supported, counted one by one.
UnsupportedOf(mod, f) == {f} \X (1..mod.files[f].unsupported)
UnsupportedIn(mod) == Num(UNION {UnsupportedOf(mod, f) : f \in FilesOf(mod, {"english"})})

----------------------------------------------------------------------------
\* _inspect_report: what the source holds, whatever is made of it.
InspectSupported(mod) ==
  [discovered |-> Len(mod.files), english |-> Num(FilesOf(mod, {"english"})),
   occurrences|-> Len(mod.occurrences), fallback |-> UnsupportedIn(mod),
   skipped    |-> Num(FilesOf(mod, Skips))]

InspectCounts(mod) ==
  [discovered |-> Len(mod.files),
   english    |-> Num(FilesOf(mod, {"english"})),
   occurrences|-> Len(mod.occurrences) + UnsupportedIn(mod),
   fallback   |-> UnsupportedIn(mod),
   skipped    |-> Num(FilesOf(mod, Skips))]

\* _translation_plan_counts: the first occurrences of each file up to the limit.
Selected(mod, limit) ==
  {i \in DOMAIN mod.occurrences :
     \/ limit = NoLimit
     \/ Num({j \in 1..i : mod.occurrences[j].file = mod.occurrences[i].file}) <= limit}

\* _translation_status
Status(counts, dryRun) ==
  IF counts.fallback > 0 \/ counts.deferred > 0 \/ counts.skipped > 0
  THEN IF dryRun THEN "dry_run_partial" ELSE "technical_safe_partial"
  ELSE IF counts.occurrences = 0
  THEN IF dryRun THEN "dry_run_no_translatable_content" ELSE "no_translatable_content"
  ELSE IF dryRun THEN "dry_run_plan" ELSE "technical_safe"

\* The report of a run without a workspace: a plan when it is dry.
SinglePassReport(mod, limit, dryRun) ==
  LET chosen == Selected(mod, limit)
      done(states) == IF dryRun THEN 0 ELSE Num(chosen \cap Occurring(mod, states))
      inspect == InspectCounts(mod)
      counts ==
        [discovered |-> inspect.discovered, english |-> inspect.english,
         occurrences|-> inspect.occurrences, fallback |-> inspect.fallback,
         skipped    |-> inspect.skipped,
         planned    |-> Num(chosen),
         translated |-> done({"changed", "unchanged"}),
         unchanged  |-> done({"unchanged"}),
         deferred   |-> Num(DOMAIN mod.occurrences \ chosen)]
      final == [counts EXCEPT !.fallback = @ + done({"fallback"})]
  IN [schema |-> 2, status |-> Status(final, dryRun), limit |-> limit,
      dryRun |-> dryRun, counts |-> final]

\* _validate_count_invariant
CountsBalance(report) ==
  LET c == report.counts
  IN /\ c.unchanged <= c.translated
     /\ report.dryRun => (c.translated = 0 /\ c.unchanged = 0)
     /\ c.occurrences = (IF report.dryRun THEN c.planned ELSE c.translated)
                        + c.fallback + c.deferred

\* _workspace_translation_report, once no occurrence is pending; reused of the
\* occurrences were committed by earlier runs. Each count that the report holds
\* under two names is a pair.
WorkspaceReport(mod, reused) ==
  LET all == Len(mod.occurrences)
      accepted == Num(Occurring(mod, {"changed", "unchanged"}))
      unchanged == Num(Occurring(mod, {"unchanged"}))
      failed == UnsupportedIn(mod) + Num(Occurring(mod, {"fallback"}))
      inspect == InspectCounts(mod)
      twice(n) == <<n, n>>
      counts ==
        [discovered |-> inspect.discovered, english |-> inspect.english,
         skipped    |-> inspect.skipped,    deferred |-> 0,
         planned    |-> all,                calls |-> all - reused,
         occurrences|-> inspect.occurrences,
         total      |-> twice(inspect.occurrences),
         completed  |-> twice(inspect.occurrences),
         translated |-> twice(accepted),    unchanged |-> twice(unchanged),
         fallback   |-> twice(failed),      unsupported |-> twice(UnsupportedIn(mod)),
         pending    |-> twice(0),           reused |-> twice(reused)]
  IN [schema |-> 3, counts |-> counts,
      status |-> Status([fallback |-> failed, deferred |-> 0,
                         skipped |-> inspect.skipped,
                         occurrences |-> inspect.occurrences], FALSE),
      resumability |-> [reused |-> reused, calls |-> all - reused]]

----------------------------------------------------------------------------
\* _validate_full_report_counts: the report of the candidate against what the
\* review finds in the source and the candidate themselves.
Paired == {"total", "completed", "translated", "unchanged", "fallback",
           "unsupported", "pending", "reused"}

ReviewAccepts(mod, report) ==
  LET c == report.counts
      selected == Len(mod.occurrences)
      accepted == Num(Occurring(mod, {"changed", "unchanged"}))
      unsupported == UnsupportedIn(mod)
      failed == Num(Occurring(mod, {"fallback"}))
  IN /\ report.schema = 3
     /\ \A p \in Paired : c[p][1] = c[p][2]
     /\ c.occurrences = c.total[1]
     /\ c.pending[1] = 0 /\ c.deferred = 0
     /\ c.completed[1] = c.total[1]
     /\ c.discovered = Len(mod.files)
     /\ c.english = Num(FilesOf(mod, {"english"}))
     /\ c.skipped = Num(FilesOf(mod, Skips))
     /\ c.occurrences = selected + unsupported
     /\ c.planned = selected
     /\ c.translated[1] = accepted
     /\ c.unchanged[1] = Num(Occurring(mod, {"unchanged"}))
     /\ c.fallback[1] = failed + unsupported
     /\ c.unsupported[1] = unsupported
     /\ accepted + failed = selected
     /\ c.reused[1] + c.calls = selected
     /\ c.reused[1] = report.resumability.reused
     /\ c.calls = report.resumability.calls
     /\ report.status = Status([fallback |-> c.fallback[1], deferred |-> c.deferred,
                                skipped |-> c.skipped, occurrences |-> c.occurrences],
                               FALSE)

\* _validate_report_counts: the same for the pilot's report, which may defer.
PilotReviewAccepts(mod, report) ==
  LET c == report.counts
      chosen == Selected(mod, report.limit)
      count(states) == Num(chosen \cap Occurring(mod, states))
  IN /\ report.schema = 2 /\ ~report.dryRun /\ report.limit # NoLimit
     /\ c.discovered = Len(mod.files)
     /\ c.english = Num(FilesOf(mod, {"english"}))
     /\ c.planned = Num(chosen)
     /\ c.translated = count({"changed", "unchanged"})
     /\ c.fallback = UnsupportedIn(mod) + count({"fallback"})
     /\ c.deferred = Num(DOMAIN mod.occurrences \ chosen)
     /\ c.skipped = Num(FilesOf(mod, Skips))
     /\ c.occurrences = Num(chosen) + UnsupportedIn(mod) + c.deferred
     /\ c.unchanged = count({"unchanged"})
     /\ report.status \in {"technical_safe", "technical_safe_partial"}

\* The summary of a review pack (_validated_review_entries).
Summary(mod, report) ==
  [total     |-> Len(mod.occurrences) + UnsupportedIn(mod),
   entries   |-> Len(mod.occurrences),
   changed   |-> Num(Occurring(mod, {"changed"})),
   unchanged |-> Num(Occurring(mod, {"unchanged"})),
   fallback  |-> Num(Occurring(mod, {"fallback"})),
   unsupported |-> UnsupportedIn(mod),
   deferred  |-> report.counts.deferred,
   skipped   |-> Num(FilesOf(mod, Skips)),
   pending   |-> report.counts.pending[2],
   whitespace |-> Num({i \in DOMAIN mod.occurrences : mod.occurrences[i].whitespace})]

----------------------------------------------------------------------------
\* _planned_replacements: an accepted text stays, an edited one changes if the
\* edit alters it, a rejected one goes back to English, which the candidate
\* already holds unless the translation changed it.
ChangedSpans(mod) ==
  {i \in Decided(mod, {"edit"}) : mod.occurrences[i].alters}
    \cup (Decided(mod, {"reject"}) \cap Occurring(mod, {"changed"}))

\* The report of apply_review_decisions over a full candidate.
ApplicationReport(mod, report) ==
  LET summary == Summary(mod, report)
  IN [decisions |-> [total  |-> Len(mod.occurrences),
                     accept |-> Num(Decided(mod, {"accept"})),
                     edit   |-> Num(Decided(mod, {"edit"})),
                     reject |-> Num(Decided(mod, {"reject"})),
                     changed |-> Num(ChangedSpans(mod)),
                     restored |-> Num(ChangedSpans(mod) \cap Decided(mod, {"reject"}))],
      approved |-> summary.unsupported = 0 /\ summary.skipped = 0,
      residue  |-> [unsupported |-> summary.unsupported, skipped |-> summary.skipped],
      summary |-> summary, base |-> report.counts, baseStatus |-> report.status]

\* _validate_decision_count_algebra
DecisionCountsHold(d) ==
  /\ d.total > 0 /\ d.accept + d.edit + d.reject = d.total
  /\ d.restored <= d.changed /\ d.changed <= d.edit + d.restored
  /\ d.restored <= d.reject

\* _validate_application_report
PackageAccepts(app, allowResidue) ==
  LET s == app.summary
      b == app.base
      residue == s.unsupported > 0 \/ s.skipped > 0
  IN /\ DecisionCountsHold(app.decisions)
     /\ s.pending = 0 /\ s.deferred = 0
     /\ s.entries = app.decisions.total
     /\ s.changed + s.unchanged + s.fallback = s.entries
     /\ s.entries + s.unsupported = s.total
     /\ s.whitespace <= s.entries
     /\ app.residue = [unsupported |-> s.unsupported, skipped |-> s.skipped]
     /\ \A p \in Paired : b[p][1] = b[p][2]
     /\ b.total[1] = s.total /\ b.occurrences = s.total /\ b.completed[1] = s.total
     /\ b.planned = s.entries /\ b.unsupported[1] = s.unsupported
     /\ b.skipped = s.skipped /\ b.pending[1] = 0 /\ b.deferred = 0
     /\ b.unchanged[1] = s.unchanged
     /\ b.translated[1] = s.changed + s.unchanged
     /\ b.fallback[1] = s.fallback + s.unsupported
     /\ b.translated[1] + b.fallback[1] = s.total
     /\ b.reused[1] + b.calls = s.entries
     /\ b.english <= b.discovered /\ b.skipped <= b.discovered
     /\ app.baseStatus = (IF residue THEN "technical_safe_partial" ELSE "technical_safe")
     /\ app.approved <=> ~residue
     /\ residue => allowResidue

----------------------------------------------------------------------------
\* A report with one count changed, under both of its names where it has two.
Shifted(report, name) ==
  [report EXCEPT !.counts[name] = IF report.schema = 3 /\ name \in Paired
                                  THEN <<@[1] + 1, @[2] + 1>> ELSE @ + 1]

ReportAccepted(mod, report) ==
  /\ ReviewAccepts(mod, report)
  /\ \A name \in DOMAIN report.counts : ~ReviewAccepts(mod, Shifted(report, name))

PilotAccepted(mod, report) ==
  /\ CountsBalance(report)
  /\ ~report.dryRun /\ report.limit # NoLimit /\ mod.occurrences # <<>> =>
       /\ PilotReviewAccepts(mod, report)
       /\ \A name \in DOMAIN report.counts : ~PilotReviewAccepts(mod, Shifted(report, name))

\* What a reviewer may package: everything decided, and anything that was not
\* translatable allowed on purpose.
Packageable(mod, report, allowResidue) ==
  mod.occurrences # <<>> =>
    (PackageAccepts(ApplicationReport(mod, report), allowResidue)
       <=> (ApplicationReport(mod, report).approved \/ allowResidue))

ReportsHold(mod, reused, limit) ==
  reused <= Len(mod.occurrences) =>
    LET report == WorkspaceReport(mod, reused)
    IN /\ ReportAccepted(mod, report)
       /\ \A dry \in BOOLEAN : PilotAccepted(mod, SinglePassReport(mod, limit, dry))
       /\ \A allow \in BOOLEAN :
            (\A i \in DOMAIN mod.occurrences : mod.occurrences[i].state # "fallback")
              => Packageable(mod, report, allow)
=============================================================================
