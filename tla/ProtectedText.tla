---------------------------- MODULE ProtectedText ----------------------------
(***************************************************************************)
(* The values of localisation entries, the tokens the parser protects in   *)
(* them, what the model is shown, how its answer is restored, and how a    *)
(* reviewer's edit is split around the tokens and joined again (parser.py, *)
(* review.py, review_application.py).                                      *)
(*                                                                         *)
(* A text is a sequence of symbols: "h" is any visible character, " " a    *)
(* horizontal space, "c" a control or format character, "n" the letter n;  *)
(* "$" stands for both paired delimiters, "S" is the section sign.         *)
(* "L" is the literal __SMT_TOKEN_ and a digit the rest of a placeholder:  *)
(* the number of a token and the underscores that close it.                *)
(***************************************************************************)
EXTENDS Integers, Sequences, FiniteSets, SequencesExt

Digits == <<"0", "1", "2", "3">>
Space == " "
Delimiters == {"$", "[", "]", "S"}
UnsafeSymbols == Delimiters \cup {"\\", "q"}
Invisible == {Space, "c"}

\* The first position of symbol s of text t after i whose symbol is in S, or 0.
NextOf(S, t, i) == SelectInSubSeq(t, i + 1, Len(t), LAMBDA s : s \in S)

Has(t, S) == \E i \in DOMAIN t : t[i] \in S

----------------------------------------------------------------------------
\* Where s occurs in t, and t with every occurrence of s replaced by r, from
\* the left.
Occurrences(s, t) ==
  {i \in 1..(Len(t) - Len(s) + 1) : SubSeq(t, i, i + Len(s) - 1) = s}

ReplaceEvery(s, r, t) ==
  LET from[i \in 1..(Len(t) + 1)] ==
        IF i > Len(t) THEN <<>>
        ELSE IF i \in Occurrences(s, t)
             THEN r \o from[i + Len(s)]
             ELSE <<t[i]>> \o from[i + 1]
  IN from[1]

FirstAfter(s, t, i) ==
  LET at == {j \in Occurrences(s, t) : j > i} IN IF at = {} THEN 0 ELSE Min(at)

RemoveOnce(s, t) ==
  LET i == FirstAfter(s, t, 0)
  IN IF i = 0 THEN t ELSE SubSeq(t, 1, i - 1) \o SubSeq(t, i + Len(s), Len(t))

----------------------------------------------------------------------------
\* The quoted value of an entry: quotes and backslashes occur only in the three
\* escapes, read from the left.
EscapeAt(t, i) == t[i] = "\\" /\ i < Len(t) /\ t[i + 1] \in {"q", "\\", "n"}

WellEscaped(t) ==
  LET ok[i \in 1..(Len(t) + 1)] ==
        \/ i > Len(t)
        \/ EscapeAt(t, i) /\ ok[i + 2]
        \/ t[i] \notin {"\\", "q"} /\ ok[i + 1]
  IN ok[1]

\* The end of the token that begins at i, or 0: an escape, a pair of dollars or
\* of brackets around something, the section sign with any symbol.
TokenEnd(t, i) ==
  LET close == NextOf(IF t[i] = "$" THEN {"$"} ELSE {"[", "]"}, t, i)
  IN CASE EscapeAt(t, i) -> i + 1
       [] t[i] = "$" -> IF close > i + 1 THEN close ELSE 0
       [] t[i] = "[" -> IF close > i + 1 /\ t[close] = "]" THEN close ELSE 0
       [] t[i] = "S" -> IF i < Len(t) THEN i + 1 ELSE 0
       [] OTHER -> 0

\* The tokens of a value in order, as pairs of positions.
TokenSpans(t) ==
  LET scan[i \in 1..(Len(t) + 1)] ==
        IF i > Len(t) THEN <<>>
        ELSE LET e == TokenEnd(t, i)
             IN IF e = 0 THEN scan[i + 1] ELSE <<<<i, e>>>> \o scan[e + 1]
  IN scan[1]

Cut(t, spans) == [k \in DOMAIN spans |-> SubSeq(t, spans[k][1], spans[k][2])]
Protected(t) == Cut(t, TokenSpans(t))

\* What is left after every token has been removed once, in order; the entry is
\* unsupported when a backslash or a delimiter is left.
Residue(t) == FoldLeft(LAMBDA r, token : RemoveOnce(token, r), t, Protected(t))

Supported(t) == ~Has(Residue(t), Delimiters \cup {"\\"})

\* An entry the parser accepts: its line matches and its value is supported.
IsEntry(t) == WellEscaped(t) /\ Supported(t)

----------------------------------------------------------------------------
\* The spaces at both ends, all of them at the front of a value of spaces only.
LeadingSpaces(t) ==
  LET body == {i \in DOMAIN t : t[i] # Space}
  IN IF body = {} THEN Len(t) ELSE Min(body) - 1

TrailingSpaces(t) ==
  LET body == {i \in DOMAIN t : t[i] # Space}
  IN IF body = {} THEN 0 ELSE Len(t) - Max(body)

Placeholder(k) == <<"L", Digits[k]>>

\* A text with its tokens given way to their placeholders, and Entry.model_text:
\* as many symbols are cut at both ends of it as the value has spaces there.
RedactedAt(v, spans) ==
  LET shown[k \in 0..Len(spans)] ==
        IF k = 0 THEN SubSeq(v, 1, IF spans = <<>> THEN Len(v) ELSE spans[1][1] - 1)
        ELSE shown[k - 1] \o Placeholder(k)
             \o SubSeq(v, spans[k][2] + 1,
                       IF k = Len(spans) THEN Len(v) ELSE spans[k + 1][1] - 1)
  IN shown[Len(spans)]
Redacted(v) == RedactedAt(v, TokenSpans(v))

Trimmed(text, v) ==
  SubSeq(text, LeadingSpaces(v) + 1, Len(text) - TrailingSpaces(v))
ModelText(v) == Trimmed(Redacted(v), v)

\* A text without its placeholders, removed one after the other.
Without(tokens, t) ==
  FoldLeft(LAMBDA r, k : ReplaceEvery(Placeholder(k), <<>>, r), t,
           [k \in DOMAIN tokens |-> k])

Visible(t) == \E i \in DOMAIN t : t[i] \notin Invisible

\* Entry.restore_translation: whether the answer is accepted, and the value it
\* becomes, the placeholders replaced one after the other in the text so far.
HumanTextSafe(human, shown) ==
  /\ ~Has(human, {"L"} \cup UnsafeSymbols)
  /\ Visible(shown) => Visible(human)

TokensReadable(tokens, shown, answer) ==
  /\ HumanTextSafe(Without(tokens, answer), Without(tokens, shown))
  /\ ~Has(answer, {"c"})
  /\ \A k \in DOMAIN tokens : Cardinality(Occurrences(Placeholder(k), answer)) = 1

InOrder(tokens, answer) ==
  \A k \in 2..Len(tokens) :
    \A i \in Occurrences(Placeholder(k - 1), answer),
       j \in Occurrences(Placeholder(k), answer) : i < j

AnswerReadable(v, answer) == TokensReadable(Protected(v), ModelText(v), answer)
RestoreAccepts(v, answer) ==
  AnswerReadable(v, answer) /\ InOrder(Protected(v), answer)

WithTokens(tokens, answer) ==
  FoldLeft(LAMBDA r, k : ReplaceEvery(Placeholder(k), tokens[k], r), answer,
           [k \in DOMAIN tokens |-> k])

Restore(v, answer) ==
  SubSeq(v, 1, LeadingSpaces(v)) \o WithTokens(Protected(v), answer)
    \o SubSeq(v, Len(v) - TrailingSpaces(v) + 1, Len(v))

----------------------------------------------------------------------------
\* _segments_and_atoms: each token is looked for after the one before it.
AtomEnds(atoms, t) ==
  LET end[k \in 0..Len(atoms)] ==
        IF k = 0 THEN 0
        ELSE LET i == FirstAfter(atoms[k], t, end[k - 1])
             IN IF end[k - 1] = -1 \/ i = 0 THEN -1 ELSE i + Len(atoms[k]) - 1
  IN end

Segments(atoms, t) ==
  LET end == AtomEnds(atoms, t)
  IN [k \in 1..(Len(atoms) + 1) |->
        SubSeq(t, end[k - 1] + 1,
               IF k > Len(atoms) THEN Len(t) ELSE end[k] - Len(atoms[k]))]

AtomsFound(atoms, t) == AtomEnds(atoms, t)[Len(atoms)] # -1

\* _join_segments_atoms
Join(segments, atoms) ==
  FlattenSeq([k \in DOMAIN segments |->
                segments[k] \o (IF k \in DOMAIN atoms THEN atoms[k] ELSE <<>>)])

\* _split_edited_translation: no control, every token in order, and nothing
\* between them that could be read as one.
EditAccepted(atoms, edited) ==
  /\ ~Has(edited, {"c"})
  /\ AtomsFound(atoms, edited)
  /\ \A k \in 1..(Len(atoms) + 1) : ~Has(Segments(atoms, edited)[k], UnsafeSymbols)

\* What a decision makes of an occurrence (_planned_replacements).
Resegmented(text, found, atoms) == Join(Segments(found, text), atoms)
FinalValue(source, candidate, decision, edited) ==
  CASE decision = "accept" -> candidate
    [] decision = "edit" ->
         LET Edited(atoms) == Resegmented(edited, atoms, atoms)
         IN Edited(Protected(candidate))
    [] decision = "reject" ->
         Resegmented(source, Protected(source), Protected(candidate))

\* _validate_file_alignment, for the line of one entry: the candidate's line is
\* an entry as well, with the source's tokens and no placeholder.
EntryAligned(source, candidate) ==
  /\ IsEntry(candidate)
  /\ ~Has(candidate, {"L"})
  /\ Protected(candidate) = Protected(source)

----------------------------------------------------------------------------
\* Texts for which the placeholders work as meant: no token looks like one, or
\* is a section sign before a space or a backslash.
Regular(t) ==
  \A token \in ToSet(Protected(t)) :
    ~Has(token, {"L"}) /\ (token[1] = "S" => token[2] \notin {Space, "\\"})

\* An accepted answer with every placeholder replaced at once.
Meant(v, answer) ==
  LET tokens == Protected(v)
      placeholders == [k \in DOMAIN tokens |-> Placeholder(k)]
  IN SubSeq(v, 1, LeadingSpaces(v)) \o Resegmented(answer, placeholders, tokens)
       \o SubSeq(v, Len(v) - TrailingSpaces(v) + 1, Len(v))

\* Whatever the review takes is what the answer means, although the placeholders
\* are replaced one after the other and a token may hold the literal of a later
\* one. Of a regular value any accepted answer becomes an entry with the same
\* tokens in the same order; placeholders nested in one another can leave a piece
\* of one, which the review refuses. The text the model was shown, given back,
\* restores a regular value.
Restored(v, shown, accepted, value, meant) ==
  /\ accepted /\ EntryAligned(v, value) => value = meant
  /\ Regular(v) => /\ accepted /\ ~Has(value, {"L"}) => EntryAligned(v, value)
                   /\ shown => accepted /\ value = v

AnswerSurvives(v, answer) ==
  \A shown \in {ModelText(v)} : \A given \in {answer, shown} :
    Restored(v, given = shown, RestoreAccepts(v, given), Restore(v, given), Meant(v, given))

\* A reviewed value keeps the tokens of its occurrence, and an edit is written as
\* it was typed.
EditSurvives(candidate, edited) ==
  Regular(candidate) =>
    \A decision \in {"reject"}
                     \cup {d \in {"edit"} : EditAccepted(Protected(candidate), edited)} :
      /\ FinalValue(candidate, candidate, decision, edited)
           = (IF decision = "edit" THEN edited ELSE candidate)
      /\ decision = "edit" => EntryAligned(candidate, edited)
=============================================================================
