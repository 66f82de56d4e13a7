--------------------------- MODULE LocalisationFile ---------------------------
(***************************************************************************)
(* A localisation file as parser.py reads it, as engine.py renders it in   *)
(* Russian, and as review.py compares a candidate with its source.         *)
(*                                                                         *)
(* A file is [bytes, lines]: bytes is "clean" or names what stops the      *)
(* parser before it looks at a line (encoding, controls, line ends); a     *)
(* line is [kind, text], kind being what the line's expressions match:     *)
(*   "entry"     the entry expression; text is the quoted value            *)
(*   "like"      looks like an entry without being one                     *)
(*   "blank"     blank or a comment                                        *)
(*   "english", "russian"  a language header                               *)
(*   "malformed" looks like a language header without being one            *)
(*   "other"     none of these                                             *)
(* A line whose kind is "entry" and whose value does not match is "like".  *)
(***************************************************************************)
EXTENDS ProtectedText, FiniteSets

CONSTANTS NoLimit

Line(kind, text) == [kind |-> kind, text |-> text]
Unlimited == [lines |-> NoLimit, entries |-> NoLimit,
              diagnostics |-> NoLimit, tokens |-> NoLimit]
Exceeds(n, limit) == limit # NoLimit /\ n > limit

Matching(file, kinds) == {i \in DOMAIN file.lines : file.lines[i].kind \in kinds}
Headers(file) == Matching(file, {"english", "russian"})
HeaderLine(file) == Min(Headers(file))
IsEnglish(file) == file.lines[HeaderLine(file)].kind = "english"

\* The occurrences of a file, and the lines reported as unsupported.
Entries(file) == {i \in Matching(file, {"entry"}) : Supported(file.lines[i].text)}
Beside(file, entries) == Matching(file, {"entry", "like"}) \ entries
Diagnostics(file) == Beside(file, Entries(file))
TokensOf(file, lines) ==
  FoldSet(LAMBDA i, n : n + Len(Protected(file.lines[i].text)), 0, lines)

\* The first line at which a materialisation budget is exhausted stops the
\* parser: a matching line when as many entries are kept as allowed, a token
\* beyond the budget, a diagnostic beyond the budget.
Exhausted(file, entries, limits) ==
  \E i \in DOMAIN file.lines :
    LET before == {j \in entries : j < i}
        reported == Beside(file, entries)
    IN \/ /\ i \in Matching(file, {"entry"})
          /\ \/ Exceeds(Cardinality(before) + 1, limits.entries)
             \/ Exceeds(TokensOf(file, before \cup {i}), limits.tokens)
       \/ /\ i \in reported
          /\ Exceeds(Cardinality({j \in reported : j <= i}), limits.diagnostics)

BudgetExhausted(file, limits) == Exhausted(file, Entries(file), limits)

\* parse_localisation: "parsed", or why the whole file is refused.
ParseOutcome(file, limits) ==
  CASE file.bytes # "clean" -> file.bytes
    [] Exceeds(Len(file.lines), limits.lines) -> "resource_limit"
    [] Matching(file, {"malformed"}) # {} -> "malformed_language_header"
    [] Headers(file) = {} -> "missing_language_header"
    [] Cardinality(Headers(file)) > 1 -> "multiple_language_headers"
    [] IsEnglish(file)
       /\ \E i \in 1..(HeaderLine(file) - 1) : file.lines[i].kind # "blank" ->
         "unsafe_content_before_english_header"
    [] BudgetExhausted(file, limits) -> "resource_limit"
    [] OTHER -> "parsed"

\* _snapshot: what a file of the source counts as, under either parser order;
\* a misnamed replace layer is refused although it parses.
ParsedOutcome(file, order, replaceLayer, parse) ==
  CASE parse # "parsed" -> parse
    [] ~IsEnglish(file) -> "parsed"
    [] order = "legacy" /\ HeaderLine(file) # 1 -> "english_header_not_first_line"
    [] replaceLayer -> "replace_layer_unsupported"
    [] OTHER -> "parsed"

SnapshotOutcome(file, order, replaceLayer) ==
  ParsedOutcome(file, order, replaceLayer, ParseOutcome(file, Unlimited))

\* The first n occurrences, or all of them.
FirstOf(entries, n) ==
  {i \in entries : ~Exceeds(Cardinality({j \in entries : j <= i}), n)}
SelectedEntries(file, n) == FirstOf(Entries(file), n)

\* ParsedFile.render: the replaced values in place, and the Russian header.
Rendered(file, replacements, russian) ==
  [file EXCEPT !.lines =
     [i \in DOMAIN file.lines |->
        CASE russian /\ i = HeaderLine(file) -> Line("russian", file.lines[i].text)
          [] i \in DOMAIN replacements /\ i \in Entries(file) ->
               Line("entry", replacements[i])
          [] OTHER -> file.lines[i]]]

\* The same bytes read again: a line whose value stopped matching is no entry.
Reread(file) ==
  [file EXCEPT !.lines =
     [i \in DOMAIN file.lines |->
        IF file.lines[i].kind = "entry" /\ ~WellEscaped(file.lines[i].text)
        THEN Line("like", file.lines[i].text) ELSE file.lines[i]]]

\* _validate_file_alignment: the candidate is the source line by line, its
\* header in Russian, its occurrences in the same places with the same tokens,
\* those that were not selected unchanged, and no placeholder anywhere.
ParsedAs(file, english) ==
  ParseOutcome(file, Unlimited) = "parsed" /\ IsEnglish(file) = english

LinesAligned(source, candidate, entries, limit) ==
  \A i \in DOMAIN source.lines :
    LET old == source.lines[i].text
        new == candidate.lines[i].text
    IN /\ ~Has(new, {"L"})
       /\ IF i \in entries
          THEN /\ Protected(old) = Protected(new)
               /\ i \notin FirstOf(entries, limit) => new = old
          ELSE i # HeaderLine(source) => candidate.lines[i] = source.lines[i]

FileAligned(source, candidate, limit) ==
  /\ \A side \in {<<source, TRUE>>, <<candidate, FALSE>>} : ParsedAs(side[1], side[2])
  /\ HeaderLine(source) = HeaderLine(candidate)
  /\ Len(source.lines) = Len(candidate.lines)
  /\ candidate.lines[HeaderLine(source)].text = source.lines[HeaderLine(source)].text
  /\ Diagnostics(source) = Diagnostics(candidate)
  /\ Entries(source) = Entries(candidate)
  /\ LinesAligned(source, candidate, Entries(source), limit)

\* _validate_source_target_mapping: a replace layer made by hand is its source
\* rendered with its own values, without a line that is not understood. It also
\* refuses two entries with one key and version; keys are left out here.
Whole(file) ==
  /\ \A i \in 1..(HeaderLine(file) - 1) : file.lines[i].kind = "blank"
  /\ Diagnostics(file) = {}
  /\ \A i \in DOMAIN file.lines : ~Has(file.lines[i].text, {"L"})

ValuesSupplement(source, target, entries) ==
  /\ entries = Entries(target)
  /\ \A i \in entries :
       Protected(source.lines[i].text) = Protected(target.lines[i].text)
  /\ target = Rendered(source, [i \in entries |-> target.lines[i].text], TRUE)

SupplementAligned(source, target) ==
  /\ \A side \in {<<source, TRUE>>, <<target, FALSE>>} :
       ParsedAs(side[1], side[2]) /\ Whole(side[1])
  /\ ValuesSupplement(source, target, Entries(source))

----------------------------------------------------------------------------
\* A file that is translated, each selected value to itself or to another text
\* around its tokens, is one the review accepts against the source; and the
\* review accepts no other header, value or line in its place. The consolidation
\* accepts it as a supplement exactly when every line of it is understood, and
\* nothing that the review would not.
Translations(file, limit) ==
  [SelectedEntries(file, limit) -> {"same", "longer"}]
Values(file, chosen) ==
  [i \in DOMAIN chosen |->
     LET v == file.lines[i].text
     IN Restore(v, (IF chosen[i] = "same" THEN <<>> ELSE <<"h">>) \o ModelText(v))]

Meddled(done, kept) == {[done EXCEPT !.lines[i].text = @ \o <<"h">>] : i \in kept}

Judged(file, candidate, done, limit, supplement) ==
  /\ \A n \in {limit, NoLimit} :
       FileAligned(file, candidate, n) \in
         {aligned \in BOOLEAN : /\ n = limit => aligned = (candidate = done)
                               /\ n = NoLimit /\ supplement => aligned}
  /\ candidate = done => supplement = (Diagnostics(file) = {})
  /\ candidate = file => ~supplement

DoneSurvives(file, done, limit) ==
  \A candidate \in {done, file}
                    \cup Meddled(done, DOMAIN file.lines \ SelectedEntries(file, limit)) :
    Judged(file, candidate, done, limit, SupplementAligned(file, candidate))

FileSurvives(file, limit) ==
  SnapshotOutcome(file, "current", FALSE) = "parsed" /\ IsEnglish(file) =>
    \A chosen \in Translations(file, limit) :
      DoneSurvives(file, Reread(Rendered(file, Values(file, chosen), TRUE)), limit)
=============================================================================
