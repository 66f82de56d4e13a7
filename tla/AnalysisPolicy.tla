---------------------------- MODULE AnalysisPolicy ----------------------------
(***************************************************************************)
(* The frozen statistics of the quality benchmark: what the contract makes *)
(* of the rows of a scope (m1b_contract.py), what the analysis engine      *)
(* computes again from the vectors (m1b_1a1_candidate/analysis_engine.py), *)
(* and what the validator accepts of the payload and of the result         *)
(* (m1b_1a1_candidate/contract_validator.py).                              *)
(*                                                                         *)
(* A fraction is [num, den]. A source's ratings have mass one in total;    *)
(* masses are counted in units of one over MassUnits, a multiple of every  *)
(* number of ratings that occurs.                                          *)
(***************************************************************************)
EXTENDS Integers, Sequences, FiniteSets, SequencesExt, FiniteSetsExt

CONSTANTS None,          \* no rating, no value
          MassUnits,
          MinimumN,      \* AGREEMENT_MINIMUM_N
          Floor,         \* AGREEMENT_FLOOR
          DimensionFloor, DimensionN, \* _DIMENSION_FLOORS, _DIMENSION_MINIMUM_N
          Alpha,         \* CANDIDATE_TAIL_ALPHA
          Ceiling, CfaAlpha, CfaN,    \* CFA_CEILING, CFA_ALPHA, CFA_MINIMUM_N
          MaxUnits       \* MAX_UNITS

Scores == 0..4
Cells == Scores \X Scores
Below(a, b) == a.num * b.den < b.num * a.den

\* Quadratic weighted kappa of a matrix of masses, or None when the expected
\* disagreement is zero.
KappaFrom(total, observed, expected) ==
  LET den == 16 * total * total - expected
  IN IF total = 0 \/ den = 0 THEN None ELSE [num |-> total * observed - expected, den |-> den]

Kappa(m) ==
  LET row == [i \in Scores |-> SumFunction([j \in Scores |-> m[<<i, j>>]])]
      column == [j \in Scores |-> SumFunction([i \in Scores |-> m[<<i, j>>]])]
      weight(c) == 16 - (c[1] - c[2]) * (c[1] - c[2])
      observed == SumFunction([c \in Cells |-> weight(c) * m[c]])
      expected == SumFunction([c \in Cells |-> weight(c) * (row[c[1]] * column[c[2]])])
  IN KappaFrom(SumFunction(m), observed, expected)

\* source_weighted_quadratic_kappa of the contract: pair after pair, each with
\* its share of the one mass of its source.
SourceWeighted(sources) ==
  Kappa([c \in Cells |->
    SumFunction([s \in DOMAIN sources |->
      SumFunction([i \in {j \in DOMAIN sources[s] : sources[s][j] = c} |->
                     MassUnits \div Len(sources[s])])])])

\* _source_matrix of the engine: the mass that one source's ratings put on every
\* cell, to be added to and taken from the matrix of all sources.
PooledContribution(pairs) ==
  [c \in Cells |-> Cardinality({i \in DOMAIN pairs : pairs[i] = c})]

Contribution(pairs) ==
  [c \in Cells |-> (MassUnits * Cardinality({i \in DOMAIN pairs : pairs[i] = c}))
                     \div Len(pairs)]
Subtract(m, n) == [c \in Cells |-> m[c] - n[c]]
MatrixOf(sources) ==
  [c \in Cells |-> SumFunction([s \in DOMAIN sources |-> Contribution(sources[s])[c]])]

----------------------------------------------------------------------------
\* agreement_unit_vectors: the rows [source, pair] of one scope, grouped by
\* source in the order of their first row. A source with a rating that only one
\* reviewer gave is set aside, as is one without any pair of ratings. At(s, I) are
\* the members of s at the places I, in their order.
At(s, I) ==
  LET place(n) == CHOOSE i \in I : Cardinality({j \in I : j <= i}) = n
  IN [n \in 1..Cardinality(I) |-> s[place(n)]]

SourcesOf(rows) ==
  At([i \in DOMAIN rows |-> rows[i].source],
     {i \in DOMAIN rows : \A j \in 1..(i - 1) : rows[j].source # rows[i].source})

RatingsOf(rows, s) ==
  At([i \in DOMAIN rows |-> rows[i].pair], {i \in DOMAIN rows : rows[i].source = s})

OneSided(pairs) == \E i \in DOMAIN pairs : (pairs[i][1] = None) # (pairs[i][2] = None)
Rated(pairs) == At(pairs, {i \in DOMAIN pairs : None \notin {pairs[i][1], pairs[i][2]}})

Vectors(rows) ==
  LET order == SourcesOf(rows)
      ratings == [i \in DOMAIN order |-> RatingsOf(rows, order[i])]
      rated == [i \in DOMAIN order |-> Rated(ratings[i])]
      oneSided == {i \in DOMAIN order : OneSided(ratings[i])}
      unrated == {i \in DOMAIN order \ oneSided : rated[i] = <<>>}
  IN [sources |-> At(rated, DOMAIN order \ (oneSided \cup unrated)),
      unilateral |-> Cardinality(oneSided), bilateral |-> Cardinality(unrated)]

\* _agreement_status: the kappa of the sources and of every set of all but one.
StatusFrom(v, point, without) ==
  IF v.unilateral > 0 THEN "AGREEMENT_APPLICABILITY_DISAGREEMENT"
  ELSE IF Len(v.sources) < MinimumN THEN "AGREEMENT_INSUFFICIENT_UNITS"
  ELSE IF point = None THEN "AGREEMENT_UNDEFINED_ZERO_EXPECTED_DISAGREEMENT"
  ELSE IF Below(point, Floor) THEN "AGREEMENT_POINT_BELOW_FLOOR"
  ELSE IF None \in without THEN "AGREEMENT_UNCERTAINTY_UNDEFINED"
  ELSE IF \E k \in without : Below(k, Floor) THEN "AGREEMENT_ROBUSTNESS_BELOW_FLOOR"
  ELSE "AGREEMENT_PASS"

ContractStatus(v) ==
  StatusFrom(v, SourceWeighted(v.sources),
             {SourceWeighted(RemoveAt(v.sources, i)) : i \in DOMAIN v.sources})

\* _agreement_result: one matrix, and what is left of it without each source.
LeastKappa(kappas) ==
  CHOOSE k \in kappas : \A other \in kappas : ~Below(other, k)

Least(without) == IF None \in without THEN None ELSE LeastKappa(without)

ResultFrom(v, point, leastWithout) ==
  LET asked == v.unilateral = 0 /\ Len(v.sources) >= MinimumN
                 /\ point # None /\ ~Below(point, Floor)
      least == IF asked THEN leastWithout ELSE None
      status == IF v.unilateral > 0 THEN "AGREEMENT_APPLICABILITY_DISAGREEMENT"
                ELSE IF Len(v.sources) < MinimumN THEN "AGREEMENT_INSUFFICIENT_UNITS"
                ELSE IF point = None
                THEN "AGREEMENT_UNDEFINED_ZERO_EXPECTED_DISAGREEMENT"
                ELSE IF ~asked THEN "AGREEMENT_POINT_BELOW_FLOOR"
                ELSE IF least = None THEN "AGREEMENT_UNCERTAINTY_UNDEFINED"
                ELSE IF Below(least, Floor) THEN "AGREEMENT_ROBUSTNESS_BELOW_FLOOR"
                ELSE "AGREEMENT_PASS"
  IN [applicable |-> Len(v.sources), bilateral |-> v.bilateral,
      unilateral |-> v.unilateral, status |-> status, least |-> least,
      point |-> point, pairs |-> SumFunction([i \in DOMAIN v.sources |-> Len(v.sources[i])])]

AgreementResult(v) ==
  LET Result(matrix) ==
        ResultFrom(v, Kappa(matrix),
                   Least({Kappa(Subtract(matrix, Contribution(s))) : s \in ToSet(v.sources)}))
  IN Result(MatrixOf(v.sources))

\* _validate_agreement_payload and _validate_agreement_output
PayloadAccepted(v) ==
  /\ v.sources # <<>> /\ \A i \in DOMAIN v.sources : v.sources[i] # <<>>
  /\ Len(v.sources) + v.bilateral + v.unilateral <= MaxUnits

ResultAccepted(r) ==
  /\ r.applicable + r.bilateral + r.unilateral <= MaxUnits
  /\ \A f \in {r.least, r.point} : f = None \/ f.den > 0

SameKappa(a, b) ==
  IF a = None \/ b = None THEN a = b ELSE a.num * b.den = b.num * a.den

\* The rows of a scope have one agreement: the engine finds the status that the
\* contract finds, and the same kappa, whatever the order of the rows, no single
\* source can turn it into a pass, and what passes the payload check passes the
\* output check.
Sufficient(kappa) == kappa # None /\ ~Below(kappa, Floor)

ResultHolds(v, r, status) ==
  PayloadAccepted(v) => /\ r.status = status /\ ResultAccepted(r)
                        /\ SameKappa(r.point, SourceWeighted(v.sources))

VectorsHold(rows, v, r, status) ==
  /\ ResultHolds(v, r, status)
  /\ ContractStatus(Vectors(Reverse(rows))) = status
  /\ v.unilateral + v.bilateral + Len(v.sources) = Len(SourcesOf(rows))
  /\ r.status = "AGREEMENT_PASS" =>
       \A s \in {rows[i].source : i \in DOMAIN rows} :
         LET others == {i \in DOMAIN rows : rows[i].source # s}
         IN Sufficient(SourceWeighted(Vectors(At(rows, others)).sources))

AgreementIsOne(rows) ==
  LET Holds(v) == VectorsHold(rows, v, AgreementResult(v), ContractStatus(v))
  IN Holds(Vectors(rows))

----------------------------------------------------------------------------
\* The probability of at least k successes of n at rate Floor, as a number of
\* den^n parts: term by term as _clopper_pearson_lower_at_least computes it.
Power(b, n) == LET p[i \in 0..n] == IF i = 0 THEN 1 ELSE b * p[i - 1] IN p[n]
Choose(n, k) ==
  LET c[i \in 0..k] == IF i = 0 THEN 1 ELSE (c[i - 1] * (n - k + i)) \div i IN c[k]

LowerAtLeast(k, n, rate) ==
  LET fail == rate.den - rate.num
      limit == Alpha.num * Power(rate.den, n)
      at[c \in k..n] ==
        IF c = k THEN [comb |-> Choose(n, IF n - k < k THEN n - k ELSE k),
                       hit |-> Power(rate.num, k), miss |-> Power(fail, n - k)]
        ELSE [comb |-> (at[c - 1].comb * (n - c + 1)) \div c,
              hit  |-> at[c - 1].hit * rate.num, miss |-> at[c - 1].miss \div fail]
      tail[c \in (k - 1)..n] ==
        IF c < k THEN 0 ELSE tail[c - 1] + at[c].comb * at[c].hit * at[c].miss
  IN k > 0 /\ \A c \in k..n : tail[c] * Alpha.den <= limit

\* The same by definition: the parts of all outcomes with k successes or more.
TailParts(k, n, rate) ==
  SumFunction([S \in {T \in SUBSET (1..n) : Cardinality(T) >= k} |->
    Power(rate.num, Cardinality(S)) * Power(rate.den - rate.num, n - Cardinality(S))])

ConfidenceIsExact(k, n, rate) ==
  LowerAtLeast(k, n, rate)
    <=> k > 0 /\ TailParts(k, n, rate) * Alpha.den <= Alpha.num * Power(rate.den, n)

----------------------------------------------------------------------------
\* statistical_unit_summary: the rows [source, stratum, applicable, success] of
\* one scope. A source counts once; it succeeds when all its outcomes do.
Units(rows, stratum) ==
  {rows[i].source : i \in {j \in DOMAIN rows : rows[j].stratum = stratum}}
Outcomes(rows, stratum, s) ==
  {rows[i].success : i \in {j \in DOMAIN rows : /\ rows[j].stratum = stratum
                                              /\ rows[j].source = s
                                              /\ rows[j].applicable}}

Stratum(rows, stratum) ==
  LET units == Units(rows, stratum)
      outcomes(s) == Outcomes(rows, stratum, s)
  IN [assigned |-> Cardinality(units),
      applicable |-> Cardinality({s \in units : outcomes(s) # {}}),
      success |-> Cardinality({s \in units : outcomes(s) = {TRUE}})]

\* _dimension_stratum_result; the stability of the atoms (d1) has no confidence
\* and no unit that does not apply.
StratumResult(d1, n) ==
  LET confident == IF d1 THEN None
                   ELSE n.applicable > 0
                        /\ LowerAtLeast(n.success, n.applicable, DimensionFloor)
      rate == IF n.applicable = 0 THEN None
              ELSE [num |-> n.success, den |-> n.applicable]
      floor == IF d1 THEN [num |-> 1, den |-> 1] ELSE DimensionFloor
  IN [counts |-> n, confident |-> confident, rate |-> rate,
      excluded |-> n.assigned - n.applicable,
      status |->
        IF n.applicable < (IF d1 THEN 1 ELSE DimensionN)
        THEN "DIMENSION_INSUFFICIENT_UNITS"
        ELSE IF Below(rate, floor) THEN "DIMENSION_OBSERVED_BELOW_FLOOR"
        ELSE IF ~d1 /\ confident = FALSE THEN "DIMENSION_CONFIDENCE_BELOW_FLOOR"
        ELSE "DIMENSION_STRATUM_PASS"]

\* _validate_dimension_payload and _validate_dimension_output, for one stratum
StratumPayloadAccepted(d1, n) ==
  /\ n.assigned \in 0..MaxUnits /\ n.applicable \in 0..n.assigned
  /\ n.success \in 0..n.applicable
  /\ d1 => n.applicable = n.assigned

StratumResultAccepted(d1, r) ==
  /\ StratumPayloadAccepted(FALSE, r.counts)
  /\ r.counts.applicable + r.excluded = r.counts.assigned
  /\ IF r.counts.applicable = 0 THEN r.rate = None
     ELSE /\ r.rate.num \in 0..r.rate.den
          /\ r.rate.num * r.counts.applicable = r.counts.success * r.rate.den
  /\ IF d1 THEN r.confident = None /\ r.counts.applicable = r.counts.assigned
     ELSE r.confident \in BOOLEAN

\* What the contract counts is a payload, its result is accepted, and a stratum
\* passes only with enough sources of which no single outcome failed too often.
StratumIsSound(d1, rows, stratum) ==
  LET n == Stratum(rows, stratum)
      r == StratumResult(d1, n)
  IN /\ StratumPayloadAccepted(FALSE, n)
     /\ StratumPayloadAccepted(d1, n) => StratumResultAccepted(d1, r)
     /\ r.status = "DIMENSION_STRATUM_PASS" /\ d1 =>
          \A i \in DOMAIN rows : rows[i].stratum = stratum /\ rows[i].applicable
                                   => rows[i].success
     /\ r.status = "DIMENSION_STRATUM_PASS" /\ ~d1 =>
          /\ Cardinality(Units(rows, stratum)) >= DimensionN
          /\ TailParts(n.success, n.applicable, DimensionFloor) * Alpha.den
               <= Alpha.num * Power(DimensionFloor.den, n.applicable)

----------------------------------------------------------------------------
\* minimum_power_bound_n: the first n at which base^n is small enough.
SmallEnough(base, n, alpha) ==
  Power(base.num, n) * alpha.den <= alpha.num * Power(base.den, n)

PowerBound(base, alpha) ==
  LET from[n \in Nat] == IF SmallEnough(base, n, alpha) THEN n ELSE from[n + 1]
  IN from[1]

\* critical_false_accept_summary: one trial per source, an event if any row of
\* it has one; _cfa_gate_result.
CfaSummary(rows) ==
  [units |-> Cardinality({rows[i].source : i \in DOMAIN rows}),
   events |-> Cardinality({rows[i].source : i \in {j \in DOMAIN rows : rows[j].event}})]

CfaResult(n) ==
  LET base == [num |-> Ceiling.den - Ceiling.num, den |-> Ceiling.den]
      met == n.events = 0 /\ SmallEnough(base, n.units, CfaAlpha)
  IN [counts |-> n, met |-> met,
      status |-> IF n.events > 0 THEN "CFA_EVENT_OBSERVED"
                 ELSE IF n.units < CfaN THEN "CFA_INSUFFICIENT_UNITS"
                 ELSE IF ~met THEN "CFA_CONFIDENCE_ABOVE_CEILING" ELSE "CFA_PASS"]

\* _validate_cfa_payload and _validate_cfa_output
CfaAccepted(n) == n.units \in 0..MaxUnits /\ n.events \in 0..n.units

\* The minimum number of sources is exactly the number at which no event at all
\* suffices, so the gate passes if and only if there are as many and no event.
CfaIsSound(rows) ==
  LET n == CfaSummary(rows)
      r == CfaResult(n)
      base == [num |-> Ceiling.den - Ceiling.num, den |-> Ceiling.den]
  IN /\ CfaAccepted(n)
     /\ CfaN = PowerBound(base, CfaAlpha)
     /\ r.status # "CFA_CONFIDENCE_ABOVE_CEILING"
     /\ r.status = "CFA_PASS" <=> /\ n.units >= CfaN
                                 /\ \A i \in DOMAIN rows : ~rows[i].event

----------------------------------------------------------------------------
\* _aggregate_result: the gates of all scopes together.
Aggregate(a) ==
  LET failed(statuses, pass) ==
        Cardinality({i \in DOMAIN statuses : statuses[i] # pass})
      technical == a.d1 = "DIMENSION_PASS" /\ a.d1Defects = 0 /\ a.safe = a.results
      editorial == /\ a.editorial = "DIMENSION_PASS"
                   /\ failed(a.agreement, "AGREEMENT_PASS") = 0
                   /\ failed(a.cfa, "CFA_PASS") = 0
                   /\ a.d1Defects = 0 /\ a.critical = 0 /\ a.missing = 0
  IN [technical |-> technical, editorial |-> editorial,
      pass |-> technical /\ editorial,
      agreementFailed |-> failed(a.agreement, "AGREEMENT_PASS"),
      cfaFailed |-> failed(a.cfa, "CFA_PASS"), input |-> a]

\* _validate_aggregate_payload and _validate_aggregate_output
AggregatePayloadAccepted(a) ==
  /\ a.results \in 1..MaxUnits /\ a.safe \in 0..a.results
  /\ a.approved \in 0..a.safe
  /\ a.d1Defects \in 0..a.approved /\ a.critical \in 0..a.approved
  /\ a.missing \in 0..a.results
  /\ Len(a.agreement) \in 1..MaxUnits /\ Len(a.cfa) \in 1..MaxUnits

AggregateAccepted(r) ==
  /\ AggregatePayloadAccepted(r.input)
  /\ r.agreementFailed \in 0..Len(r.input.agreement)
  /\ r.cfaFailed \in 0..Len(r.input.cfa)
  /\ r.pass => r.technical /\ r.editorial

\* The gates pass together only when each of them does, whatever the counts the
\* payload check lets through; an accepted payload gives an accepted result.
AggregateIsSound(a) ==
  AggregatePayloadAccepted(a) =>
    LET r == Aggregate(a)
    IN /\ AggregateAccepted(r)
       /\ r.pass => /\ ToSet(a.agreement) = {"AGREEMENT_PASS"}
                    /\ ToSet(a.cfa) = {"CFA_PASS"}
                    /\ a.safe = a.results /\ a.d1Defects + a.critical + a.missing = 0
=============================================================================
