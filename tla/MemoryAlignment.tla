--------------------------- MODULE MemoryAlignment ---------------------------
(***************************************************************************)
(* What a vanilla memory holds (vanilla_memory.py): the rows built from an *)
(* English and a Russian tree, which occurrences are paired, and the       *)
(* validation that reads the same rows back from a database.               *)
(*                                                                         *)
(* A tree is a sequence of [path, bytes, lines]. path is [stem, tail], tail*)
(* being "english" or "russian" for a name that ends with _l_<language>,   *)
(* "" otherwise. A line is a line of LocalisationFile with the key and the *)
(* version suffix at its beginning; NoKey when nothing there reads as a    *)
(* key. A key is <<folded, exact>>. A hash stands for what it hashes, so an*)
(* occurrence is identified by where it is, its key and its suffix.        *)
(***************************************************************************)
EXTENDS LocalisationFile

CONSTANTS NoKey, NoRow

KeyOf(file, i) == file.lines[i].key
KeyLines(file) == {i \in DOMAIN file.lines : KeyOf(file, i) # NoKey}
SumOf(f(_), S) == FoldSet(LAMBDA x, n : f(x) + n, 0, S)

----------------------------------------------------------------------------
\* What the snapshot of a tree makes of a file: "parsed", or the reason for
\* which the whole file is quarantined.
StateParsed(file, language, parse) ==
  CASE parse # "parsed" -> parse
    [] parse = "parsed" /\ IsEnglish(file) # (language = "english") ->
         "unexpected_language_header"
    [] OTHER -> IF \E i \in Diagnostics(file) : KeyOf(file, i) = NoKey
                THEN "unattributed_malformed_record" ELSE "parsed"

FileState(file, language, limits) ==
  StateParsed(file, language, ParseOutcome(file, limits))

\* The parser is given what is left of the budget of the build.
Left(limit, spent) == IF limit = NoLimit THEN NoLimit ELSE limit - spent
LimitsLeft(limits, spent) ==
  [lines |-> Left(limits.lines, spent.lines),
   entries |-> Left(limits.entries, spent.entries),
   tokens |-> Left(limits.tokens, spent.tokens),
   diagnostics |-> Left(limits.diagnostics, spent.diagnostics)]

\* Files are read one after the other; a budget that is exhausted refuses the
\* build. A quarantined file costs its key candidates, a parsed one its rows.
Materialised(spent, file, entries) ==
  [spent EXCEPT !.lines = @ + Len(file.lines),
                !.entries = @ + Cardinality(entries),
                !.tokens = @ + TokensOf(file, entries),
                !.diagnostics = @ + Cardinality(Beside(file, entries))]

SpentOn(spent, s) ==
  IF s.state = "parsed" THEN Materialised(spent, s.file, Entries(s.file))
  ELSE [spent EXCEPT !.files = @ + 1,
                     !.candidates = @ + Cardinality(KeyLines(s.file))]

Within(read, s, spent, limits) ==
  IF \/ read.refused \/ s.state = "resource_limit"
     \/ Exceeds(spent.files, limits.files)
     \/ Exceeds(spent.candidates, limits.candidates)
  THEN [read EXCEPT !.refused = TRUE]
  ELSE [refused |-> FALSE, spent |-> spent, sources |-> read.sources \cup {s}]

Spend(read, s, limits) == Within(read, s, SpentOn(read.spent, s), limits)

ReadFile(read, language, file, limits) ==
  Spend(read, [language |-> language, path |-> file.path, file |-> file,
               state |-> FileState(file, language, LimitsLeft(limits, read.spent))],
        limits)

ReadTrees(english, russian, limits) ==
  LET In(language, tree) == [i \in DOMAIN tree |-> [language |-> language, file |-> tree[i]]]
      none == [lines |-> 0, entries |-> 0, tokens |-> 0, diagnostics |-> 0,
               files |-> 0, candidates |-> 0]
  IN FoldLeft(LAMBDA r, f : ReadFile(r, f.language, f.file, limits),
              [refused |-> FALSE, spent |-> none, sources |-> {}],
              In("english", english) \o In("russian", russian))

----------------------------------------------------------------------------
\* The rows a source gives: its occurrences, its quarantined records or itself,
\* and, when it is quarantined, how often it may mention each key.
Occurrence(s, i) ==
  [language |-> s.language, path |-> s.path, line |-> i,
   ordinal |-> Cardinality({j \in Entries(s.file) : j < i}),
   key |-> KeyOf(s.file, i), suffix |-> s.file.lines[i].suffix,
   value |-> s.file.lines[i].text, tokens |-> Protected(s.file.lines[i].text)]

QuarantinedRecord(s, i) ==
  [language |-> s.language, path |-> s.path, scope |-> "record", line |-> i,
   ordinal |-> Cardinality(Entries(s.file))
                 + Cardinality({j \in Diagnostics(s.file) : j < i}),
   key |-> KeyOf(s.file, i), reason |-> "malformed_syntax"]

QuarantinedFile(s) ==
  [language |-> s.language, path |-> s.path, scope |-> "file", line |-> 0,
   ordinal |-> 0, key |-> NoKey, reason |-> s.state]

Candidates(s) ==
  {[language |-> s.language, path |-> s.path, key |-> KeyOf(s.file, i),
    count |-> Cardinality({j \in KeyLines(s.file) : KeyOf(s.file, j) = KeyOf(s.file, i)})]
     : i \in KeyLines(s.file)}

BareRows(sources) ==
  LET parsed == {s \in sources : s.state = "parsed"}
      damaged == sources \ parsed
  IN [occurrences |-> UNION {{Occurrence(s, i) : i \in Entries(s.file)} : s \in parsed},
      quarantines |-> {QuarantinedFile(s) : s \in damaged}
        \cup UNION {{QuarantinedRecord(s, i) : i \in Diagnostics(s.file)} : s \in parsed},
      occupied |-> UNION {Candidates(s) : s \in damaged}]

\* How the rows of a language use a key, and how often it may be used in all.
Using(rows, language, key) ==
  {o \in rows.occurrences : o.language = language /\ o.key = key}
InDoubtRecords(rows, language, key) ==
  Cardinality({q \in rows.quarantines : q.language = language /\ q.key = key})
InDoubt(rows, language, key) ==
  Cardinality({q \in rows.quarantines : q.language = language /\ q.key = key})
    + SumOf(LAMBDA c : c.count,
            {c \in rows.occupied : c.language = language /\ c.key = key})
Occupancy(rows, language, key) ==
  Cardinality(Using(rows, language, key)) + InDoubt(rows, language, key)

Family(path, language) ==
  IF path.tail = language THEN <<path.stem, "">> ELSE <<path.stem, path.tail>>
SameFamily(e, r) == Family(e.path, "english") = Family(r.path, "russian")

Id(o) == [language |-> o.language, path |-> o.path, ordinal |-> o.ordinal,
          key |-> o.key, suffix |-> o.suffix]

DuplicateReason(rows, key) ==
  CASE \A l \in {"english", "russian"} : Occupancy(rows, l, key) > 1 ->
         "duplicate_key_both"
    [] OTHER -> IF Occupancy(rows, "english", key) > 1
                THEN "duplicate_key_english" ELSE "duplicate_key_russian"

PairState(e, r) ==
  CASE e.suffix # r.suffix -> "version_mismatch"
    [] e.suffix = r.suffix /\ e.tokens # r.tokens -> "protected_atom_mismatch"
    [] OTHER -> "strict_reference"

\* The verdict on a key, and the pair it makes when both sides are certain.
Verdict(rows, key) ==
  LET english == Using(rows, "english", key)
      russian == Using(rows, "russian", key)
      doubt == InDoubt(rows, "english", key) + InDoubt(rows, "russian", key)
  IN CASE \E l \in {"english", "russian"} : Occupancy(rows, l, key) > 1 ->
            [state |-> "duplicate_key", reason |-> DuplicateReason(rows, key), pair |-> {}]
       [] OTHER ->
            IF english = {} \/ russian = {} \/ doubt > 0
            THEN [state |-> "missing_counterpart", pair |-> {},
                  reason |-> IF doubt > 0 THEN "counterpart_quarantined"
                             ELSE "missing_counterpart"]
            ELSE LET state == PairState(CHOOSE e \in english : TRUE,
                                        CHOOSE r \in russian : TRUE)
                 IN [state |-> state, pair |-> english \cup russian,
                     reason |-> IF state = "strict_reference" THEN "" ELSE state]

KeysOf(rows) == {o.key : o \in rows.occurrences}

AliasKeys(rows) ==
  {k \in KeysOf(rows) : \E other \in KeysOf(rows) : other # k /\ other[1] = k[1]}

\* The pairs of a set of rows, and the English values with more than one
\* Russian value among the strict pairs.
English(pair) == CHOOSE o \in pair : o.language = "english"
RussianOf(pair) == CHOOSE o \in pair : o.language = "russian"
PairsOf(rows) == {Verdict(rows, k).pair : k \in KeysOf(rows)} \ {{}}
StrictPairs(rows) ==
  {p \in PairsOf(rows) : PairState(English(p), RussianOf(p)) = "strict_reference"}
AmbiguousValues(rows) ==
  {English(p).value : p \in {q \in StrictPairs(rows) :
     \E other \in StrictPairs(rows) :
       /\ English(other).value = English(q).value
       /\ RussianOf(other).value # RussianOf(q).value}}
Ambiguous(rows, pair) ==
  pair \in StrictPairs(rows) /\ English(pair).value \in AmbiguousValues(rows)

MarkedBy(verdict, rows, o) ==
  LET paired == verdict.pair # {}
  IN o @@ [state |-> verdict.state, reason |-> verdict.reason,
           counterpart |-> IF paired
                           THEN Id(CHOOSE x \in verdict.pair : x.language # o.language)
                           ELSE NoRow,
           family |-> paired /\ SameFamily(English(verdict.pair), RussianOf(verdict.pair)),
           ambiguous |-> paired /\ Ambiguous(rows, verdict.pair),
           alias |-> o.key \in AliasKeys(rows)]
Marked(rows, o) == MarkedBy(Verdict(rows, o.key), rows, o)

Alignment(rows, pair) ==
  [english |-> Id(English(pair)), russian |-> Id(RussianOf(pair)),
   state |-> PairState(English(pair), RussianOf(pair)),
   family |-> SameFamily(English(pair), RussianOf(pair)),
   ambiguous |-> Ambiguous(rows, pair)]

ReferenceOf(alignment) ==
  [english |-> alignment.english, russian |-> alignment.russian,
   family |-> alignment.family, ambiguous |-> alignment.ambiguous]

SourceRow(rows, s) ==
  [language |-> s.language, path |-> s.path, state |-> s.state,
   candidates |-> SumOf(LAMBDA c : c.count,
     {c \in rows.occupied : c.language = s.language /\ c.path = s.path}),
   occurrences |-> Cardinality({o \in rows.occurrences :
                                  o.language = s.language /\ o.path = s.path}),
   quarantines |-> Cardinality({q \in rows.quarantines :
                                  q.language = s.language /\ q.path = s.path})]

\* The counts of the rows of a database.
Counts(db) ==
  LET In(state) == Cardinality({o \in db.occurrences : o.state = state})
      Pairs(state) == Cardinality({a \in db.alignments : a.state = state})
      Scoped(scope) == Cardinality({q \in db.quarantines : q.scope = scope})
  IN [english |-> Cardinality({o \in db.occurrences : o.language = "english"}),
      russian |-> Cardinality({o \in db.occurrences : o.language = "russian"}),
      strict |-> Pairs("strict_reference"),
      duplicate |-> In("duplicate_key"), missing |-> In("missing_counterpart"),
      version |-> Pairs("version_mismatch"), atom |-> Pairs("protected_atom_mismatch"),
      records |-> Scoped("record"), files |-> Scoped("file"),
      total |-> In("duplicate_key") + In("missing_counterpart")
                  + 2 * Pairs("version_mismatch") + 2 * Pairs("protected_atom_mismatch")
                  + Cardinality(db.quarantines),
      paths |-> Cardinality({a \in db.alignments : ~a.family}),
      groups |-> Cardinality({English(p).value : p \in
                   {q \in StrictPairs(db) : Ambiguous(db, q)}}),
      aliases |-> Cardinality({k[1] : k \in AliasKeys(db)})]

CountAlgebra(c) ==
  /\ c.english + c.russian
       = 2 * (c.strict + c.version + c.atom) + c.duplicate + c.missing
  /\ c.total = c.duplicate + c.missing + 2 * (c.version + c.atom) + c.records + c.files
  /\ c.paths <= c.strict + c.version + c.atom

\* _build_memory_rows and _create_database.
Counted(tables) == tables @@ [counts |-> Counts(tables)]

Tables(sources, rows, alignments) ==
  [sources |-> {SourceRow(rows, s) : s \in sources},
   occurrences |-> {Marked(rows, o) : o \in rows.occurrences},
   quarantines |-> rows.quarantines, occupied |-> rows.occupied,
   alignments |-> alignments,
   references |-> {ReferenceOf(a) : a \in
     {x \in alignments : x.state = "strict_reference"}}]

Database(sources) ==
  LET Derived(rows) == Counted(Tables(sources, rows,
                                      {Alignment(rows, p) : p \in PairsOf(rows)}))
  IN Derived(BareRows(sources))

----------------------------------------------------------------------------
\* _validate_alignment_semantics and the checks before it, on the rows alone.
Of(rows, s) == {x \in rows : x.language = s.language /\ x.path = s.path}
Ordinals(rows) == {x.ordinal : x \in rows}

\* What a row must be by itself.
SourceWellFormed(s) ==
  IF s.state = "parsed" THEN s.candidates = 0
  ELSE s.occurrences = 0 /\ s.quarantines = 1
OccupiedWellFormed(c) == c.key # NoKey /\ c.count >= 1
QuarantineWellFormed(q) ==
  IF q.scope = "file" THEN q.key = NoKey /\ q.line = 0 /\ q.ordinal = 0
  ELSE q.scope = "record" /\ q.key # NoKey /\ q.line >= 1

RowsWellFormed(db) ==
  /\ \A s \in db.sources : SourceWellFormed(s)
  /\ \A c \in db.occupied : OccupiedWellFormed(c)
  /\ \A q \in db.quarantines : QuarantineWellFormed(q)

SourceRowsHold(db) ==
  \A s \in db.sources :
    LET own == Of(db.occurrences, s)
        bad == Of(db.quarantines, s)
    IN /\ Cardinality(own) = s.occurrences
       /\ Cardinality(bad) = s.quarantines
       /\ Ordinals(own) = 0..(Cardinality(own) - 1)
       /\ \A x, y \in own : x.ordinal < y.ordinal => x.line <= y.line
       /\ IF s.state = "parsed"
          THEN /\ \A q \in bad : q.scope = "record"
               /\ Ordinals(bad) = Cardinality(own)..(Cardinality(own) + Cardinality(bad) - 1)
          ELSE \E q \in bad : q.scope = "file" /\ q.reason = s.state

\* _validate_quarantined_key_occupancy_semantics
OccupancyHolds(db) ==
  /\ \A c \in db.occupied :
       \E s \in db.sources : c \in Of(db.occupied, s) /\ s.state # "parsed"
  /\ \A s \in db.sources :
       SumOf(LAMBDA c : c.count, Of(db.occupied, s)) = s.candidates

RowsHaveSources(db) ==
  /\ \A o \in db.occurrences :
       \E s \in db.sources : o \in Of(db.occurrences, s) /\ s.state = "parsed"
  /\ \A q \in db.quarantines : \E s \in db.sources : q \in Of(db.quarantines, s)
  /\ \A x, y \in db.occurrences : Id(x) = Id(y) => x = y

\* The occurrences a database pairs: the only ones of their key on each side,
\* with no doubt on either.
Certain(db, e, r) ==
  /\ e.language = "english" /\ r.language = "russian" /\ e.key = r.key
  /\ \A l \in {"english", "russian"} :
       Occupancy(db, l, e.key) = 1 /\ InDoubt(db, l, e.key) = 0

Unclear(db, e) ==
  \E e2, r, r2 \in db.occurrences :
    /\ Certain(db, e, r) /\ PairState(e, r) = "strict_reference"
    /\ Certain(db, e2, r2) /\ PairState(e2, r2) = "strict_reference"
    /\ e2.value = e.value /\ r2.value # r.value

OccurrenceHolds(db, o) ==
  LET partners == {x \in db.occurrences : Certain(db, o, x) \/ Certain(db, x, o)}
      crowded == \E l \in {"english", "russian"} : Occupancy(db, l, o.key) > 1
      doubt == \E l \in {"english", "russian"} : InDoubt(db, l, o.key) > 0
  IN /\ o.tokens = Protected(o.value)
     /\ o.alias = (\E x \in db.occurrences : x.key[1] = o.key[1] /\ x.key # o.key)
     /\ partners = {} =>
          /\ o.counterpart = NoRow /\ ~o.family /\ ~o.ambiguous
          /\ o.state = IF crowded THEN "duplicate_key" ELSE "missing_counterpart"
          /\ o.reason = CASE crowded -> DuplicateReason(db, o.key)
                          [] ~crowded /\ doubt -> "counterpart_quarantined"
                          [] OTHER -> "missing_counterpart"
     /\ \A x \in partners :
          LET e == IF o.language = "english" THEN o ELSE x
              r == IF o.language = "english" THEN x ELSE o
          IN /\ o.counterpart = Id(x)
             /\ o.state = PairState(e, r)
             /\ o.reason = IF o.state = "strict_reference" THEN "" ELSE o.state
             /\ o.family = SameFamily(e, r)
             /\ o.ambiguous = Unclear(db, e)

ExpectedAlignments(db) ==
  {[english |-> Id(e), russian |-> e.counterpart, state |-> e.state,
    family |-> e.family, ambiguous |-> e.ambiguous]
     : e \in {o \in db.occurrences : o.language = "english" /\ o.counterpart # NoRow}}

Accepts(db) ==
  /\ RowsWellFormed(db)
  /\ OccupancyHolds(db)
  /\ RowsHaveSources(db)
  /\ SourceRowsHold(db)
  /\ \A o \in db.occurrences : OccurrenceHolds(db, o)
  /\ db.alignments = ExpectedAlignments(db)
  /\ db.references = {ReferenceOf(a) : a \in
       {x \in db.alignments : x.state = "strict_reference"}}
  /\ db.counts = Counts(db)
  /\ CountAlgebra(db.counts)

----------------------------------------------------------------------------
\* One derived field of one row is not what was built, or one row is missing,
\* the counts being those of the rows as they are; or a count is wrong.
With(S, old, new) == (S \ {old}) \cup {new}
Recounted(db) == [db EXCEPT !.counts = Counts(db)]

Altered(o) ==
  {[o EXCEPT !.state = "strict_reference", !.reason = ""],
   [o EXCEPT !.state = "missing_counterpart"], [o EXCEPT !.counterpart = NoRow],
   [o EXCEPT !.tokens = <<>>], [o EXCEPT !.family = ~@], [o EXCEPT !.ambiguous = ~@],
   [o EXCEPT !.alias = ~@], [o EXCEPT !.ordinal = @ + 1]} \ {o}

Forgeries(db) ==
  {Recounted(forged) : forged \in
     (UNION {{[db EXCEPT !.occurrences = With(@, o, f)] : f \in Altered(o)}
             \cup {[db EXCEPT !.occurrences = @ \ {o}]} : o \in db.occurrences})
     \cup {[db EXCEPT !.quarantines = @ \ {q}] : q \in db.quarantines}
     \cup {[db EXCEPT !.occupied = @ \ {c}] : c \in db.occupied}
     \cup {[db EXCEPT !.references = @ \ {r}] : r \in db.references}
     \cup {[db EXCEPT !.references = @ \cup {ReferenceOf(a)}] :
             a \in {x \in db.alignments : x.state # "strict_reference"}}
     \cup {[db EXCEPT !.alignments = With(@, a, [a EXCEPT !.ambiguous = ~@])] :
             a \in db.alignments}}
  \cup {[db EXCEPT !.counts[c] = @ + 1] : c \in DOMAIN db.counts}

\* What the trees themselves say of a key: the lines that may give it a value.
Mentions(sources, language, key) ==
  UNION {{[path |-> s.path, line |-> i] : i \in
            {j \in KeyLines(s.file) : KeyOf(s.file, j) = key
               /\ (s.state = "parsed" => s.file.lines[j].kind \in {"entry", "like"})}}
         : s \in {x \in sources : x.language = language}}

\* A build that is not refused gives a database the validator accepts, of which
\* no derived field can be changed unnoticed; a pair is a reference only if, in
\* each whole tree, damaged files and lines included, a single line mentions its
\* key; and no budget of the build was exceeded.
OnlyBuiltAccepted(db, forgeries) ==
  db \notin forgeries /\ \A x \in forgeries \cup {db} : Accepts(x) = (x = db)

SingleMentions(db, sources) ==
  \A r \in db.references : \A l \in {"english", "russian"} :
    Cardinality(Mentions(sources, l, r.english.key)) = 1

MemoryRowsHold(db, read, limits) ==
  /\ OnlyBuiltAccepted(db, Forgeries(db))
  /\ SingleMentions(db, read.sources)
  /\ \A l \in {"entries", "tokens", "diagnostics", "files", "candidates"} :
       limits[l] # NoLimit => read.spent[l] <= limits[l]
=============================================================================
