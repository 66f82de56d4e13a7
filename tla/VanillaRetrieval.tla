--------------------------- MODULE VanillaRetrieval ---------------------------
(***************************************************************************)
(* Exact-context retrieval from the vanilla memory (vanilla_retrieval.py): *)
(* one scan of the database builds an index of what a batch of queries     *)
(* needs, under one budget for the whole batch, and each query is then     *)
(* answered from the index.                                                *)
(*                                                                         *)
(* A query is [key, path, suffix, text]; the memory is                     *)
(*   rows    the occurrences in the order of the scan: [key, strict, alias]*)
(*   occupied  the keys of the two quarantine tables, in their order       *)
(*   pairs   the strict reference pairs by pair_id: [key, path, suffix,    *)
(*           text, russian, tokens, alias, ambiguous]                      *)
(* path stands for the family of a path, tokens for the number of tokens   *)
(* stored of both texts. A pair in the index is the number of its pair_id. *)
(***************************************************************************)
EXTENDS ProtectedText, FiniteSets

CONSTANT NoLimit

NoBudget == [batch |-> NoLimit, examined |-> NoLimit, returned |-> 1,
             units |-> NoLimit]
Above(n, limit) == limit # NoLimit /\ n > limit

----------------------------------------------------------------------------
\* The queries of the batch that are looked at, and those that a key or a pair
\* concerns: they ask for the key or for the text and suffix.
Active(queries, limits) ==
  {i \in DOMAIN queries : ~Above(i, limits.batch)}

KeyQueries(queries, limits, key) ==
  {i \in Active(queries, limits) : queries[i].key = key}

PairQueries(queries, limits, pair) ==
  KeyQueries(queries, limits, pair.key)
    \cup {i \in Active(queries, limits) :
            queries[i].text = pair.text /\ queries[i].suffix = pair.suffix}

\* An index under construction. A unit of the budget is taken for each key
\* fact, each pair and each token; the queries concerned overflow when there is
\* none left, and the units taken for the first of several tokens stay taken.
Spare(index, limits, count) ==
  limits.units = NoLimit \/ index.units + count <= limits.units

ReserveSilently(index, limits, concerned, count) ==
  IF Spare(index, limits, count) THEN [index EXCEPT !.units = @ + count]
  ELSE [index EXCEPT !.units = limits.units]

Reserve(index, limits, concerned, count) ==
  IF Spare(index, limits, count) THEN [index EXCEPT !.units = @ + count]
  ELSE [index EXCEPT !.units = limits.units, !.overflow = @ \cup concerned]

\* What is known of a key grows with every row that has it.
KeyFact(index, queries, limits, row) ==
  LET concerned == KeyQueries(queries, limits, row.key)
      known == row.key \in DOMAIN index.facts
      fact == IF known THEN index.facts[row.key]
              ELSE [quarantined |-> FALSE, alias |-> FALSE]
      grown == [k \in DOMAIN index.facts \cup {row.key} |->
                  IF k # row.key THEN index.facts[k]
                  ELSE [quarantined |-> fact.quarantined \/ ~row.strict,
                        alias |-> fact.alias \/ row.alias]]
  IN IF concerned = {} THEN index
     ELSE IF known THEN [index EXCEPT !.facts = grown]
     ELSE IF Spare(index, limits, 1)
     THEN [Reserve(index, limits, concerned, 1) EXCEPT !.facts = grown]
     ELSE Reserve(index, limits, concerned, 1)

Seed(index, pairs, queries, limits, j) ==
  LET concerned == PairQueries(queries, limits, pairs[j])
  IN IF concerned = {} THEN index
     ELSE IF Spare(index, limits, 1)
     THEN [Reserve(index, limits, concerned, 1) EXCEPT !.seeds = @ \cup {j}]
     ELSE Reserve(index, limits, concerned, 1)

\* The tokens of both texts of a pair; a pair some token of which has no unit
\* left is dropped.
Tokens(index, pairs, queries, limits, j) ==
  LET concerned == PairQueries(queries, limits, pairs[j])
      count == pairs[j].tokens
  IN IF j \notin index.seeds THEN index
     ELSE IF Spare(index, limits, count)
     THEN [Reserve(index, limits, concerned, count) EXCEPT !.references = @ \cup {j}]
     ELSE Reserve(index, limits, concerned, count)

\* The rows of the scan: of the occurrences and quarantines, of the pairs, and of
\* the pairs once more for their tokens.
KeyRows(memory) ==
  memory.rows \o [i \in DOMAIN memory.occupied |->
                    [key |-> memory.occupied[i], strict |-> FALSE, alias |-> FALSE]]

ScanLength(memory) == Len(KeyRows(memory)) + 2 * Len(memory.pairs)

Scan(index, memory, queries, limits, n) ==
  LET rows == KeyRows(memory)
      pairs == memory.pairs
  IN IF n <= Len(rows) THEN KeyFact(index, queries, limits, rows[n])
     ELSE IF n <= Len(rows) + Len(pairs)
     THEN Seed(index, pairs, queries, limits, n - Len(rows))
     ELSE Tokens(index, pairs, queries, limits, n - Len(rows) - Len(pairs))

Empty(queries, limits) ==
  [units |-> 0, facts |-> <<>>, seeds |-> {}, references |-> {},
   overflow |-> DOMAIN queries \ Active(queries, limits)]

Index(memory, queries, limits) ==
  LET after[n \in 0..ScanLength(memory)] ==
        IF n = 0 THEN Empty(queries, limits)
        ELSE Scan(after[n - 1], memory, queries, limits, n)
  IN after[ScanLength(memory)]

----------------------------------------------------------------------------
SameText(pair, query) == pair.text = query.text /\ pair.suffix = query.suffix

\* The Russian text shown to the model: placeholders for its tokens, found one
\* after the other, and no spaces around it.
Stripped(whole) == Trimmed(whole, whole)
SafeText(t) == Stripped(Redacted(t))

\* A reference the translator could restore as an answer for the query.
Compatible(query, pair) == RestoreAccepts(query.text, SafeText(pair.russian))

\* References of the query's own path family come first, then by pair_id.
Ranked(query, pairs, some) ==
  LET near == {j \in some : pairs[j].path = query.path}
  IN Min(IF near = {} THEN some ELSE near)

Terminal(status) == [status |-> status, candidates |-> <<>>]

Returned(status, pair, limits) ==
  IF 1 > limits.returned THEN Terminal("excluded_candidate_overflow")
  ELSE [status |-> status, candidates |-> <<pair>>]

\* A key the memory knows: only its own references count.
ByKey(index, pairs, query, limits) ==
  LET fact == index.facts[query.key]
      own == {j \in index.references : pairs[j].key = query.key}
      usable == {j \in own : SameText(pairs[j], query) /\ Compatible(query, pairs[j])}
  IN IF fact.quarantined THEN Terminal("excluded_quarantined_key")
     ELSE IF fact.alias THEN Terminal("excluded_key_alias")
     ELSE IF Above(Cardinality(own), limits.examined)
     THEN Terminal("excluded_candidate_overflow")
     ELSE IF usable = {} THEN Terminal("excluded_key_conflict")
     ELSE Returned("exact_key_context", pairs[Ranked(query, pairs, usable)], limits)

\* A key the memory does not know: the references of the same text, when all of
\* them agree.
ByText(index, pairs, query, limits) ==
  LET same == {j \in index.references : SameText(pairs[j], query)}
      first == pairs[Ranked(query, pairs, same)]
  IN IF same = {} THEN Terminal("no_match")
     ELSE IF Above(Cardinality(same), limits.examined)
     THEN Terminal("excluded_candidate_overflow")
     ELSE IF \E j \in same : pairs[j].alias THEN Terminal("excluded_key_alias")
     ELSE IF \/ \E j \in same : pairs[j].ambiguous
             \/ \E j, k \in same : pairs[j].russian # pairs[k].russian
     THEN Terminal("excluded_ambiguous_text")
     ELSE IF ~Compatible(query, first) THEN Terminal("no_match")
     ELSE Returned("exact_text_consensus", first, limits)

Retrieve(index, pairs, queries, i, limits) ==
  IF i \in index.overflow THEN Terminal("excluded_candidate_overflow")
  ELSE IF queries[i].key \in DOMAIN index.facts
  THEN ByKey(index, pairs, queries[i], limits)
  ELSE ByText(index, pairs, queries[i], limits)

RetrieveBatch(memory, queries, limits) ==
  LET index == Index(memory, queries, limits)
  IN [i \in DOMAIN queries |-> Retrieve(index, memory.pairs, queries, i, limits)]

----------------------------------------------------------------------------
\* Both texts of a strict pair have the same tokens.
StrictPairs(memory) ==
  \A j \in DOMAIN memory.pairs :
    Protected(memory.pairs[j].russian) = Protected(memory.pairs[j].text)

\* What a query should get: the answer it gets alone and without a budget.
Reference(memory, query) == RetrieveBatch(memory, <<query>>, NoBudget)[1]

\* A budget shared by the whole batch only ever makes a query abstain; it never
\* turns its answer into another answer, a conflict or "no match".
BudgetOnlyAbstains(memory, queries, results) ==
  \A i \in DOMAIN queries :
    \/ results[i].status = "excluded_candidate_overflow"
    \/ results[i] = Reference(memory, queries[i])

\* A reference that is returned answers exactly this query: its English text,
\* suffix and tokens are the query's, its key is in no quarantine and no alias,
\* and every other strict pair of a text returned by consensus has the same
\* Russian.
ReturnedIsExact(memory, queries, results) ==
  \A i \in DOMAIN queries : \A c \in ToSet(results[i].candidates) :
    /\ SameText(c, queries[i])
    /\ Protected(c.russian) = Protected(queries[i].text)
    /\ \A r \in ToSet(memory.rows) :
         r.key = queries[i].key => r.strict /\ ~r.alias
    /\ queries[i].key \notin ToSet(memory.occupied)
    /\ results[i].status = "exact_text_consensus" =>
         \A p \in ToSet(memory.pairs) :
           SameText(p, queries[i]) => p.russian = c.russian
=============================================================================
