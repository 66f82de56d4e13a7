---------------------------- MODULE AlgorithmProofs ----------------------------
(***************************************************************************)
(* Why three of the pure algorithms are right for inputs of any size.      *)
(*                                                                         *)
(* The checks of where files go (LocalisationPaths). A check folds the     *)
(* files one after the other into what it remembers of them. What it       *)
(* remembers after the files at some places is written down                *)
(* in closed form (MapNote, LayoutNote, PortableNote): it accepted if each *)
(* file fitted with those before it. No induction is needed: a fold is a   *)
(* function of the places still to come, and two such functions that agree *)
(* on none of them and go on alike agree on all, because there is no first *)
(* place where they differ (AlongPlaces). To fit with those before is to   *)
(* fit with each of them, and two files fit exactly if they are distinct   *)
(* (MapPair, LayoutPair, PortablePair); what is distinct in one order is   *)
(* in every other. So each check accepts exactly the distinct files.       *)
(*                                                                         *)
(* A named path is walked down its names to the deepest directory that is  *)
(* there. A prefix of its place is a directory exactly up to that one,     *)
(* and so places that meet share it (PlaceFacts, PlacesMeet).              *)
(*                                                                         *)
(* The statistics of the benchmark (AnalysisPolicy). A sum does not depend *)
(* on the order in which it is taken (SumFacts), so it may be split,       *)
(* renamed and taken by rows or by columns (SumUnion, SumReindex,          *)
(* SumPairs). The confidence is the binomial tail because the coefficient  *)
(* that the code carries from term to term counts the outcomes (Pascal,    *)
(* WaysRatio, TermsAre). The agreement of a scope is one because all that  *)
(* enters it is what each source has of its own, without an order: the     *)
(* vectors list the sources that count once each (VectorsAre), their       *)
(* matrix is the mass of those sources (ListedSources), that without a     *)
(* source is the difference (WithoutOne), rows in another order have the   *)
(* same sources (ReverseKeeps), and rows without a source those without it *)
(* (LeavingOut, MassWithout).                                              *)
(*                                                                         *)
(* The reports (ReportAlgebra). Every count is that of a set of files or   *)
(* of occurrences, and these sets split each other (TwoParts, StateCounts, *)
(* PilotCounts), so the counts of a report add up as the review asks, and  *)
(* what the review computes again determines them (ReviewDetermines).      *)
(***************************************************************************)
EXTENDS LocalisationPaths, AnalysisPolicy, ReportAlgebra, FiniteSetTheorems, FunctionTheorems,
        SequenceTheorems, WellFoundedInduction, TLAPS

PathsOf(names) == Seq(names) \ {<<>>}
Above(p) == {SubSeq(p, 1, n) : n \in 1..(Len(p) - 1)}
\* The first n names of two paths are one on such a disk, and are spelled alike.
Meet(p, q, n) == \A i \in 1..n : p[i].fold = q[i].fold
Alike(p, q, n) == \A i \in 1..n : p[i] = q[i]

\* A prefix of a path and the fold of a path, name by name.
LEMMA PrefixFacts ==
  ASSUME NEW names, NEW p \in Seq(names), NEW n \in 0..Len(p)
  PROVE  /\ SubSeq(p, 1, n) \in Seq(names) /\ Len(SubSeq(p, 1, n)) = n
         /\ \A i \in 1..n : SubSeq(p, 1, n)[i] = p[i]
         /\ SubSeq(p, 1, n) = [i \in 1..n |-> p[i]]
  <1>1. SubSeq(p, 1, n) = [i \in 1..n |-> p[i]]
    OBVIOUS
  <1>2. \A i \in 1..n : p[i] \in names
    OBVIOUS
  <1>. QED  BY <1>1, <1>2

LEMMA FoldFacts ==
  ASSUME NEW names, NEW p \in Seq(names)
  PROVE  /\ Len(Fold(p)) = Len(p) /\ DOMAIN Fold(p) = 1..Len(p)
         /\ Fold(p) \in Seq({n.fold : n \in names})
         /\ \A i \in 1..Len(p) : Fold(p)[i] = p[i].fold
  <1>1. Len(p) \in Nat /\ DOMAIN p = 1..Len(p) /\ \A i \in 1..Len(p) : p[i] \in names
    OBVIOUS
  <1>2. Fold(p) = [i \in 1..Len(p) |-> p[i].fold]
    BY <1>1 DEF Fold
  <1>. QED  BY <1>1, <1>2

LEMMA FoldOfPrefix ==
  ASSUME NEW names, NEW p \in Seq(names), NEW n \in 0..Len(p)
  PROVE  Fold(SubSeq(p, 1, n)) = [i \in 1..n |-> p[i].fold]
  BY PrefixFacts DEF Fold

LEMMA SameFunctions ==
  ASSUME NEW m \in Nat, NEW n \in Nat, NEW f, NEW g
  PROVE  [i \in 1..m |-> f[i]] = [i \in 1..n |-> g[i]] <=> m = n /\ \A i \in 1..n : f[i] = g[i]
  <1>1. 1..m = 1..n => m = n
    OBVIOUS
  <1>. QED  BY <1>1

\* When two prefixes are one on the disk, and when they are one.
LEMMA SamePrefix ==
  ASSUME NEW names, NEW p \in Seq(names), NEW q \in Seq(names),
         NEW m \in 0..Len(p), NEW n \in 0..Len(q)
  PROVE  /\ Fold(SubSeq(p, 1, m)) = Fold(SubSeq(q, 1, n)) <=> m = n /\ Meet(p, q, n)
         /\ SubSeq(p, 1, m) = SubSeq(q, 1, n) <=> m = n /\ Alike(p, q, n)
  <1>1. DEFINE f == [i \in 1..m |-> p[i].fold]  g == [i \in 1..n |-> q[i].fold]
  <1>0. m \in Nat /\ n \in Nat
    OBVIOUS
  <1>2. f = g <=> m = n /\ Meet(p, q, n)
    <2>1. DOMAIN f = 1..m /\ DOMAIN g = 1..n
      OBVIOUS
    <2>2. 1..m = 1..n => m = n
      BY <1>0
    <2>. QED  BY <2>1, <2>2 DEF Meet
  <1>3. [i \in 1..m |-> p[i]] = [i \in 1..n |-> q[i]] <=> m = n /\ Alike(p, q, n)
    <2>1. 1..m = 1..n => m = n
      BY <1>0
    <2>. QED  BY <2>1 DEF Alike
  <1>4. Fold(SubSeq(p, 1, m)) = f /\ Fold(SubSeq(q, 1, n)) = g
    BY FoldOfPrefix
  <1>5. /\ SubSeq(p, 1, m) = [i \in 1..m |-> p[i]]
        /\ SubSeq(q, 1, n) = [i \in 1..n |-> q[i]]
    BY PrefixFacts
  <1>. HIDE DEF f, g
  <1>. QED  BY <1>2, <1>3, <1>4, <1>5

LEMMA WholeIsPrefix ==
  ASSUME NEW names, NEW p \in Seq(names)
  PROVE  SubSeq(p, 1, Len(p)) = p
  OBVIOUS

\* One file is another, or is below it.
LEMMA WholeNames ==
  ASSUME NEW names, NEW p \in PathsOf(names), NEW q \in PathsOf(names)
  PROVE  /\ Fold(p) = Fold(q) <=> Len(p) = Len(q) /\ Meet(p, q, Len(q))
         /\ IsBelow(Fold(p), Fold(q)) <=> Len(q) < Len(p) /\ Meet(p, q, Len(q))
         /\ \A n \in 1..Len(p) :
              Fold(SubSeq(p, 1, n)) = Fold(q) <=> n = Len(q) /\ Meet(p, q, Len(q))
  <1>1. p \in Seq(names) /\ q \in Seq(names) /\ Len(p) \in Nat \ {0} /\ Len(q) \in Nat \ {0}
    BY DEF PathsOf
  <1>2. SubSeq(p, 1, Len(p)) = p /\ SubSeq(q, 1, Len(q)) = q
    BY SMTT(60), <1>1, WholeIsPrefix
  <1>3. ASSUME NEW n \in 0..Len(p)
        PROVE  Fold(SubSeq(p, 1, n)) = Fold(q) <=> n = Len(q) /\ Meet(p, q, Len(q))
    <2>1. Len(q) \in 0..Len(q)
      BY <1>1
    <2>2. p \in Seq(names) /\ q \in Seq(names)
      BY <1>1
    <2>3. Fold(SubSeq(p, 1, n)) = Fold(SubSeq(q, 1, Len(q))) <=> n = Len(q) /\ Meet(p, q, Len(q))
      BY ONLY <2>1, <2>2, n \in 0..Len(p), SamePrefix, ZenonT(60)
    <2>. QED  BY <1>2, <2>3
  <1>4. Fold(p) = Fold(q) <=> Len(p) = Len(q) /\ Meet(p, q, Len(q))
    <2>1. Len(p) \in 0..Len(p)
      BY <1>1
    <2>2. Fold(SubSeq(p, 1, Len(p))) = Fold(q) <=> Len(p) = Len(q) /\ Meet(p, q, Len(q))
      BY <1>3, <2>1, Zenon
    <2>. QED  BY <1>2, <2>2
  <1>5. ASSUME NEW n \in 0..Len(p) PROVE SubSeq(Fold(p), 1, n) = Fold(SubSeq(p, 1, n))
    <2>1. SubSeq(Fold(p), 1, n) = [i \in 1..n |-> Fold(p)[i]]
      <3>1. Fold(p) \in Seq({x.fold : x \in names}) /\ n \in 0..Len(Fold(p))
        BY <1>1, FoldFacts
      <3>. QED  BY <3>1, PrefixFacts
    <2>2. n \in Nat /\ Len(p) \in Nat /\ \A i \in 1..n : i \in 1..Len(p)
      BY <1>1
    <2>3. \A i \in 1..n : Fold(p)[i] = p[i].fold
      BY <1>1, <2>2, FoldFacts
    <2>4. [i \in 1..n |-> Fold(p)[i]] = [i \in 1..n |-> p[i].fold]
      BY <2>3
    <2>5. Fold(SubSeq(p, 1, n)) = [i \in 1..n |-> p[i].fold]
      BY <1>1, FoldOfPrefix
    <2>. QED  BY <2>1, <2>4, <2>5
  <1>6. IsBelow(Fold(p), Fold(q)) <=> Len(q) < Len(p) /\ Meet(p, q, Len(q))
    <2>1. Len(Fold(p)) = Len(p) /\ Len(Fold(q)) = Len(q)
      BY <1>1, FoldFacts
    <2>2. Len(q) < Len(p) => Len(q) \in 0..Len(p)
      BY <1>1
    <2>3. Len(q) < Len(p) => (SubSeq(Fold(p), 1, Len(q)) = Fold(q) <=> Meet(p, q, Len(q)))
      BY <1>3, <1>5, <2>2
    <2>. QED  BY <2>1, <2>3 DEF IsBelow
  <1>7. ASSUME NEW n \in 1..Len(p)
        PROVE  Fold(SubSeq(p, 1, n)) = Fold(q) <=> n = Len(q) /\ Meet(p, q, Len(q))
    <2>1. n \in 0..Len(p)
      BY <1>1
    <2>. QED  BY <1>3, <2>1
  <1>. QED  BY <1>4, <1>6, <1>7

\* The directories above two files, by their names.
LEMMA AboveNames ==
  ASSUME NEW names, NEW p \in PathsOf(names), NEW q \in PathsOf(names)
  PROVE  (\A d \in Above(p), o \in Above(q) : Fold(o) = Fold(d) => o = d) <=>
            \A n \in 1..(Len(p) - 1) : n < Len(q) /\ Meet(p, q, n) => Alike(p, q, n)
  <1>1. p \in Seq(names) /\ q \in Seq(names) /\ Len(p) \in Nat \ {0} /\ Len(q) \in Nat \ {0}
    BY DEF PathsOf
  <1>2. ASSUME NEW n \in 1..(Len(p) - 1), NEW m \in 1..(Len(q) - 1)
        PROVE  /\ Fold(SubSeq(q, 1, m)) = Fold(SubSeq(p, 1, n)) <=> m = n /\ Meet(q, p, n)
               /\ SubSeq(q, 1, m) = SubSeq(p, 1, n) <=> m = n /\ Alike(q, p, n)
    <2>1. n \in 0..Len(p) /\ m \in 0..Len(q)
      BY <1>1
    <2>. QED  BY <1>1, <2>1, SamePrefix
  <1>3. \A n : (Meet(q, p, n) <=> Meet(p, q, n)) /\ (Alike(q, p, n) <=> Alike(p, q, n))
    BY DEF Meet, Alike
  <1>4. \A n \in 1..(Len(p) - 1) : n < Len(q) <=> n \in 1..(Len(q) - 1)
    BY <1>1
  <1>5. (\A d \in Above(p), o \in Above(q) : Fold(o) = Fold(d) => o = d) <=>
          \A n \in 1..(Len(p) - 1), m \in 1..(Len(q) - 1) :
             Fold(SubSeq(q, 1, m)) = Fold(SubSeq(p, 1, n)) => SubSeq(q, 1, m) = SubSeq(p, 1, n)
    BY Zenon DEF Above
  <1>6. (\A n \in 1..(Len(p) - 1), m \in 1..(Len(q) - 1) :
             Fold(SubSeq(q, 1, m)) = Fold(SubSeq(p, 1, n)) => SubSeq(q, 1, m) = SubSeq(p, 1, n))
        <=> \A n \in 1..(Len(p) - 1), m \in 1..(Len(q) - 1) :
              m = n /\ Meet(p, q, n) => m = n /\ Alike(p, q, n)
    BY <1>2, <1>3, Zenon
  <1>. QED  BY <1>4, <1>5, <1>6, Zenon

\* When two files are distinct.
LEMMA DistinctNames ==
  ASSUME NEW names, NEW p \in PathsOf(names), NEW q \in PathsOf(names)
  PROVE  Distinct(p, q) <=>
           /\ Len(p) <= Len(q) => ~Meet(p, q, Len(p))
           /\ Len(q) <= Len(p) => ~Meet(p, q, Len(q))
           /\ \A n \in 1..(Len(p) - 1) : n < Len(q) /\ Meet(p, q, n) => Alike(p, q, n)
  <1>1. p \in Seq(names) /\ q \in Seq(names) /\ Len(p) \in Nat \ {0} /\ Len(q) \in Nat \ {0}
    BY DEF PathsOf
  <1>2. Meet(q, p, Len(p)) <=> Meet(p, q, Len(p))
    BY DEF Meet
  <1>3. \A n \in 1..(Len(p) - 1) : n < Len(q) =>
          /\ Fold(SubSeq(p, 1, n)) = Fold(SubSeq(q, 1, n)) <=> Meet(p, q, n)
          /\ SubSeq(p, 1, n) = SubSeq(q, 1, n) <=> Alike(p, q, n)
    <2>. SUFFICES ASSUME NEW n \in 1..(Len(p) - 1), n < Len(q)
                  PROVE  /\ Fold(SubSeq(p, 1, n)) = Fold(SubSeq(q, 1, n)) <=> Meet(p, q, n)
                         /\ SubSeq(p, 1, n) = SubSeq(q, 1, n) <=> Alike(p, q, n)
      OBVIOUS
    <2>1. n \in 0..Len(p) /\ n \in 0..Len(q)
      BY <1>1
    <2>. QED  BY <1>1, <2>1, SamePrefix
  <1>4. ~Overlap(Fold(p), Fold(q)) <=>
           /\ Len(p) <= Len(q) => ~Meet(p, q, Len(p))
           /\ Len(q) <= Len(p) => ~Meet(p, q, Len(q))
    BY <1>1, <1>2, WholeNames DEF Overlap
  <1>. QED  BY <1>3, <1>4 DEF Distinct

\* It does not matter which of two files comes first.
LEMMA DistinctBothWays ==
  ASSUME NEW names, NEW p \in PathsOf(names), NEW q \in PathsOf(names)
  PROVE  Distinct(p, q) <=> Distinct(q, p)
  <1>1. Len(p) \in Nat /\ Len(q) \in Nat
    BY DEF PathsOf
  <1>2. \A n : (Meet(p, q, n) <=> Meet(q, p, n)) /\ (Alike(p, q, n) <=> Alike(q, p, n))
    BY DEF Meet, Alike
  <1>. QED  BY <1>1, <1>2, DistinctNames

----------------------------------------------------------------------------
\* A set of numbers has a least member, and a set of places a last one.
LEMMA LeastIn ==
  ASSUME NEW T \in SUBSET Nat, T # {}
  PROVE  \E k \in T : \A i \in T : k <= i
  <1>1. \E k \in T : \A i \in T : ~(<<i, k>> \in OpToRel(<, Nat))
    BY NatLessThanWellFounded, WFMin
  <1>2. ASSUME NEW k \in T, NEW i \in T, ~(<<i, k>> \in OpToRel(<, Nat))
        PROVE  k <= i
    <2>1. k \in Nat /\ i \in Nat /\ <<i, k>> \in Nat \X Nat
      OBVIOUS
    <2>2. ~(i < k)
      BY <1>2, <2>1 DEF OpToRel
    <2>. QED  BY <2>1, <2>2
  <1>. QED  BY <1>1, <1>2

LEMMA MaxUpTo ==
  ASSUME NEW n \in Nat, n # 0
  PROVE  Max(1..n) = n /\ 1..n # {} /\ 1..n \ {n} = 1..(n - 1)
  <1>1. \A x : x \in 1..n /\ (\A y \in 1..n : x >= y) <=> x = n
    OBVIOUS
  <1>. QED  BY <1>1 DEF Max

LEMMA MaxIn ==
  ASSUME NEW n \in Nat, NEW s \in SUBSET (1..n), s # {}
  PROVE  Max(s) \in s /\ \A i \in s : i <= Max(s)
  <1>. DEFINE T == {n - i : i \in s}
  <1>1. T \in SUBSET Nat
    <2>1. \A i \in s : n - i \in Nat
      OBVIOUS
    <2>. QED  BY <2>1
  <1>2. T # {}
    OBVIOUS
  <1>. HIDE DEF T
  <1>3. PICK k \in T : \A i \in T : k <= i
    BY <1>1, <1>2, LeastIn
  <1>4. PICK m \in s : k = n - m
    BY <1>3 DEF T
  <1>5. ASSUME NEW i \in s PROVE m >= i
    <2>1. n - i \in T
      BY DEF T
    <2>2. n - m <= n - i /\ i \in Nat /\ m \in Nat
      BY <1>3, <1>4, <2>1
    <2>. QED  BY <2>2
  <1>. QED  BY <1>4, <1>5 DEF Max

\* Two functions of sets of places agree on all of them if they agree on none
\* and go on alike from place to place.
LEMMA AlongPlaces ==
  ASSUME NEW n \in Nat, NEW f, NEW g, f[{}] = g[{}],
         \A i \in 1..n : f[1..(i - 1)] = g[1..(i - 1)] => f[1..i] = g[1..i]
  PROVE  f[1..n] = g[1..n]
  <1>. DEFINE T == {i \in 0..n : f[1..i] # g[1..i]}
  <1>1. ASSUME T # {} PROVE FALSE
    <2>0. T \in SUBSET Nat
      OBVIOUS
    <2>1. PICK k \in T : \A i \in T : k <= i
      <3>. HIDE DEF T
      <3>. QED  BY <1>1, <2>0, LeastIn
    <2>2. k # 0
      <3>1. 1..0 = {}
        OBVIOUS
      <3>. QED  BY <3>1
    <2>3. k - 1 \in 0..n /\ k - 1 \notin T /\ k \in 1..n
      BY <2>1, <2>2
    <2>. QED  BY <2>3
  <1>. QED  BY <1>1

----------------------------------------------------------------------------
\* What the checks know of the files at some places, and what each of these had to
\* be compared with when its turn came.
Before(s, i) == {j \in s : j < i}
FilesAt(paths, s) == {Fold(paths[i]) : i \in s}
DirsAt(paths, s) == UNION {Above(paths[i]) : i \in s}

\* The last place has all others before it, and nothing changes for these.
LEMMA BeforeMax ==
  ASSUME NEW n \in Nat, NEW s \in SUBSET (1..n), s # {}
  PROVE  /\ Before(s, Max(s)) = s \ {Max(s)}
         /\ \A i \in s \ {Max(s)} : Before(s, i) = Before(s \ {Max(s)}, i)
         /\ s = (s \ {Max(s)}) \cup {Max(s)} /\ Max(s) \in s
  <1>1. Max(s) \in s /\ \A i \in s : i <= Max(s)
    BY MaxIn
  <1>. HIDE DEF Max
  <1>2. s \subseteq Nat
    OBVIOUS
  <1>. DEFINE m == Max(s)
  <1>3. m \in s /\ \A i \in s : i <= m
    BY <1>1
  <1>. HIDE DEF m
  <1>4. {j \in s : j < m} = s \ {m}
    <2>1. \A j \in s : j < m <=> j # m
      BY <1>2, <1>3
    <2>. QED  BY <2>1
  <1>5. ASSUME NEW i \in s \ {m} PROVE {j \in s : j < i} = {j \in s \ {m} : j < i}
    <2>1. i \in Nat /\ m \in Nat /\ ~(m < i)
      BY <1>2, <1>3
    <2>. QED  BY <2>1
  <1>. QED  BY <1>3, <1>4, <1>5 DEF Before, m

MapFits(p, files, dirs) ==
  /\ Fold(p) \notin files /\ \A d \in dirs : Fold(d) # Fold(p)
  /\ \A d \in Above(p) : /\ Fold(d) \notin files
                         /\ \A o \in dirs : Fold(o) = Fold(d) => o = d
MapNote(paths, s) ==
  [ok |-> \A i \in s : MapFits(paths[i], FilesAt(paths, Before(s, i)), DirsAt(paths, Before(s, i))),
   files |-> FilesAt(paths, s), dirs |-> DirsAt(paths, s)]

LEMMA MapStep ==
  ASSUME NEW map, NEW p
  PROVE  Mapped(map, p) = [ok |-> map.ok /\ MapFits(p, map.files, map.dirs),
                           files |-> map.files \cup {Fold(p)}, dirs |-> map.dirs \cup Above(p)]
  BY DEF Mapped, MapFits, Above

\* The closed form goes on from place to place as the check does, and so it is
\* what the check remembers in the end.
LEMMA MapNoteStep ==
  ASSUME NEW paths, NEW n \in Nat, NEW s \in SUBSET (1..n), s # {}
  PROVE  MapNote(paths, s) = Mapped(MapNote(paths, s \ {Max(s)}), paths[Max(s)])
  <1>. DEFINE m == Max(s)  r == s \ {Max(s)}
  <1>1. /\ Before(s, m) = r /\ \A i \in r : Before(s, i) = Before(r, i)
        /\ s = r \cup {m} /\ m \in s
    BY BeforeMax
  <1>. HIDE DEF m, r
  <1>2. /\ FilesAt(paths, s) = FilesAt(paths, r) \cup {Fold(paths[m])}
        /\ DirsAt(paths, s) = DirsAt(paths, r) \cup Above(paths[m])
    BY <1>1 DEF FilesAt, DirsAt
  <1>3. MapNote(paths, s).ok <=>
          MapNote(paths, r).ok /\ MapFits(paths[m], FilesAt(paths, r), DirsAt(paths, r))
    BY <1>1, Zenon DEF MapNote
  <1>4. MapNote(paths, s).ok =
          (MapNote(paths, r).ok /\ MapFits(paths[m], FilesAt(paths, r), DirsAt(paths, r)))
    BY <1>3, Zenon DEF MapNote
  <1>5. MapNote(paths, r).files = FilesAt(paths, r) /\ MapNote(paths, r).dirs = DirsAt(paths, r)
    BY DEF MapNote
  <1>6. MapNote(paths, s) = [ok |-> MapNote(paths, s).ok,
                             files |-> FilesAt(paths, s), dirs |-> DirsAt(paths, s)]
    BY DEF MapNote
  <1>7. MapNote(paths, s) = Mapped(MapNote(paths, r), paths[m])
    BY <1>2, <1>4, <1>5, <1>6, MapStep
  <1>. QED  BY <1>7 DEF m, r

LEMMA MappedFold ==
  ASSUME NEW paths
  PROVE  FoldLeft(Mapped, NoMapping, paths)
           = LET iter[s \in SUBSET DOMAIN paths] ==
                   IF s = {} THEN NoMapping
                   ELSE Mapped(iter[s \ {Max(s)}], paths[Max(s)])
             IN iter[DOMAIN paths]
  BY DEF FoldLeft, MapThenFoldSet

LEMMA MappingNotes ==
  ASSUME NEW S, NEW paths \in Seq(S)
  PROVE  FoldLeft(Mapped, NoMapping, paths) = MapNote(paths, DOMAIN paths)
  <1>. DEFINE D == DOMAIN paths
              IsFold(f) == f = [s \in SUBSET D |-> IF s = {} THEN NoMapping
                                 ELSE Mapped(f[s \ {Max(s)}], paths[Max(s)])]
              iter == CHOOSE f : IsFold(f)
              note == [s \in SUBSET D |-> MapNote(paths, s)]
  <1>1. Len(paths) \in Nat /\ D = 1..Len(paths)
    OBVIOUS
  <1>2. MapNote(paths, {}) = NoMapping
    BY DEF MapNote, NoMapping, FilesAt, DirsAt
  <1>3. IsFold(note)
    <2>1. ASSUME NEW s \in SUBSET D, s # {}
          PROVE  note[s] = Mapped(note[s \ {Max(s)}], paths[Max(s)])
      <3>1. MapNote(paths, s) = Mapped(MapNote(paths, s \ {Max(s)}), paths[Max(s)])
        BY <1>1, <2>1, MapNoteStep
      <3>. QED  BY <3>1
    <2>2. note[{}] = NoMapping
      BY <1>2
    <2>. QED  BY <2>1, <2>2
  <1>. HIDE DEF note
  <1>4. IsFold(iter)
    BY <1>3
  <1>. HIDE DEF iter
  <1>5. iter[D] = note[D]
    <2>1. iter[{}] = note[{}]
      BY <1>3, <1>4
    <2>2. ASSUME NEW i \in 1..Len(paths), iter[1..(i - 1)] = note[1..(i - 1)]
          PROVE  iter[1..i] = note[1..i]
      <3>1. Max(1..i) = i /\ 1..i # {} /\ 1..i \ {i} = 1..(i - 1) /\ 1..i \in SUBSET D
        BY SMTT(60), <1>1, MaxUpTo
      <3>2. iter[1..i] = Mapped(iter[1..(i - 1)], paths[i])
        BY <1>4, <3>1
      <3>3. note[1..i] = Mapped(note[1..(i - 1)], paths[i])
        BY <1>3, <3>1
      <3>. QED  BY <2>2, <3>2, <3>3
    <2>. QED  BY <1>1, <2>1, <2>2, AlongPlaces
  <1>6. FoldLeft(Mapped, NoMapping, paths) = iter[D]
    BY MappedFold DEF iter
  <1>. QED  BY <1>5, <1>6 DEF note

----------------------------------------------------------------------------
\* The same for the layout of the harness.
LayoutFits(p, keys, parents) ==
  /\ Fold(p) \notin keys
  /\ \A d \in Above(p), o \in parents : Fold(o) = Fold(d) => o = d
  /\ \A k \in keys : ~(IsBelow(k, Fold(p)) \/ IsBelow(Fold(p), k))
LayoutNote(paths, s) ==
  [ok |-> \A i \in s :
             LayoutFits(paths[i], FilesAt(paths, Before(s, i)), DirsAt(paths, Before(s, i))),
   keys |-> FilesAt(paths, s), parents |-> DirsAt(paths, s)]

LEMMA LayoutStep ==
  ASSUME NEW map, NEW p
  PROVE  LaidOut(map, p) = [ok |-> map.ok /\ LayoutFits(p, map.keys, map.parents),
                            keys |-> map.keys \cup {Fold(p)}, parents |-> map.parents \cup Above(p)]
  BY DEF LaidOut, LayoutFits, Above

LEMMA LayoutNoteStep ==
  ASSUME NEW paths, NEW n \in Nat, NEW s \in SUBSET (1..n), s # {}
  PROVE  LayoutNote(paths, s) = LaidOut(LayoutNote(paths, s \ {Max(s)}), paths[Max(s)])
  <1>. DEFINE m == Max(s)  r == s \ {Max(s)}
  <1>1. /\ Before(s, m) = r /\ \A i \in r : Before(s, i) = Before(r, i)
        /\ s = r \cup {m} /\ m \in s
    BY BeforeMax
  <1>. HIDE DEF m, r
  <1>2. /\ FilesAt(paths, s) = FilesAt(paths, r) \cup {Fold(paths[m])}
        /\ DirsAt(paths, s) = DirsAt(paths, r) \cup Above(paths[m])
    BY <1>1 DEF FilesAt, DirsAt
  <1>3. LayoutNote(paths, s).ok <=>
          LayoutNote(paths, r).ok /\ LayoutFits(paths[m], FilesAt(paths, r), DirsAt(paths, r))
    BY <1>1, Zenon DEF LayoutNote
  <1>4. LayoutNote(paths, s).ok =
          (LayoutNote(paths, r).ok /\ LayoutFits(paths[m], FilesAt(paths, r), DirsAt(paths, r)))
    BY <1>3, Zenon DEF LayoutNote
  <1>5. /\ LayoutNote(paths, r).keys = FilesAt(paths, r)
        /\ LayoutNote(paths, r).parents = DirsAt(paths, r)
    BY DEF LayoutNote
  <1>6. LayoutNote(paths, s) = [ok |-> LayoutNote(paths, s).ok,
                             keys |-> FilesAt(paths, s), parents |-> DirsAt(paths, s)]
    BY DEF LayoutNote
  <1>7. LayoutNote(paths, s) = LaidOut(LayoutNote(paths, r), paths[m])
    BY <1>2, <1>4, <1>5, <1>6, LayoutStep
  <1>. QED  BY <1>7 DEF m, r

LEMMA LaidOutFold ==
  ASSUME NEW paths
  PROVE  FoldLeft(LaidOut, NoLayout, paths)
           = LET iter[s \in SUBSET DOMAIN paths] ==
                   IF s = {} THEN NoLayout
                   ELSE LaidOut(iter[s \ {Max(s)}], paths[Max(s)])
             IN iter[DOMAIN paths]
  BY DEF FoldLeft, MapThenFoldSet

LEMMA LayoutNotes ==
  ASSUME NEW S, NEW paths \in Seq(S)
  PROVE  FoldLeft(LaidOut, NoLayout, paths) = LayoutNote(paths, DOMAIN paths)
  <1>. DEFINE D == DOMAIN paths
              IsFold(f) == f = [s \in SUBSET D |-> IF s = {} THEN NoLayout
                                 ELSE LaidOut(f[s \ {Max(s)}], paths[Max(s)])]
              iter == CHOOSE f : IsFold(f)
              note == [s \in SUBSET D |-> LayoutNote(paths, s)]
  <1>1. Len(paths) \in Nat /\ D = 1..Len(paths)
    OBVIOUS
  <1>2. LayoutNote(paths, {}) = NoLayout
    BY DEF LayoutNote, NoLayout, FilesAt, DirsAt
  <1>3. IsFold(note)
    <2>1. ASSUME NEW s \in SUBSET D, s # {}
          PROVE  note[s] = LaidOut(note[s \ {Max(s)}], paths[Max(s)])
      <3>1. LayoutNote(paths, s) = LaidOut(LayoutNote(paths, s \ {Max(s)}), paths[Max(s)])
        BY <1>1, <2>1, LayoutNoteStep
      <3>. QED  BY <3>1
    <2>2. note[{}] = NoLayout
      BY <1>2
    <2>. QED  BY <2>1, <2>2
  <1>. HIDE DEF note
  <1>4. IsFold(iter)
    BY <1>3
  <1>. HIDE DEF iter
  <1>5. iter[D] = note[D]
    <2>1. iter[{}] = note[{}]
      BY <1>3, <1>4
    <2>2. ASSUME NEW i \in 1..Len(paths), iter[1..(i - 1)] = note[1..(i - 1)]
          PROVE  iter[1..i] = note[1..i]
      <3>1. Max(1..i) = i /\ 1..i # {} /\ 1..i \ {i} = 1..(i - 1) /\ 1..i \in SUBSET D
        BY <1>1, MaxUpTo
      <3>2. iter[1..i] = LaidOut(iter[1..(i - 1)], paths[i])
        BY <1>4, <3>1
      <3>3. note[1..i] = LaidOut(note[1..(i - 1)], paths[i])
        BY <1>3, <3>1
      <3>. QED  BY <2>2, <3>2, <3>3
    <2>. QED  BY <1>1, <2>1, <2>2, AlongPlaces
  <1>6. FoldLeft(LaidOut, NoLayout, paths) = iter[D]
    BY LaidOutFold DEF iter
  <1>. QED  BY <1>5, <1>6 DEF note

\* And for the inventory.
EntriesAt(entries, s) == {entries[i] : i \in s}
PrefixesAt(entries, s) == UNION {Above(entries[i].path) : i \in s}
PortableFits(e, exact, prefixes) ==
  /\ \A o \in exact : /\ Fold(o.path) = Fold(e.path) => o = e
                      /\ o.kind = "file" => \A d \in Above(e.path) : Fold(d) # Fold(o.path)
  /\ \A d \in Above(e.path), o \in prefixes : Fold(o) = Fold(d) => o = d
  /\ e.kind = "file" => \A d \in prefixes \cup Above(e.path) : Fold(d) # Fold(e.path)
PortableNote(entries, s) ==
  [ok |-> \A i \in s : PortableFits(entries[i], EntriesAt(entries, Before(s, i)),
                                    PrefixesAt(entries, Before(s, i))),
   exact |-> EntriesAt(entries, s), prefixes |-> PrefixesAt(entries, s)]

LEMMA PortableStep ==
  ASSUME NEW map, NEW p
  PROVE  Portable(map, p) = [ok |-> map.ok /\ PortableFits(p, map.exact, map.prefixes),
                             exact |-> map.exact \cup {p},
                             prefixes |-> map.prefixes \cup Above(p.path)]
  <1>1. Portable(map, p).ok <=> map.ok /\ PortableFits(p, map.exact, map.prefixes)
    BY Zenon DEF Portable, PortableFits, Above
  <1>2. Portable(map, p).ok \in BOOLEAN
    BY Zenon DEF Portable
  <1>3. Portable(map, p) = [ok |-> Portable(map, p).ok, exact |-> map.exact \cup {p},
                            prefixes |-> map.prefixes \cup Above(p.path)]
    BY DEF Portable, Above
  <1>4. (map.ok /\ PortableFits(p, map.exact, map.prefixes)) \in BOOLEAN
    BY Zenon DEF PortableFits
  <1>5. Portable(map, p).ok = (map.ok /\ PortableFits(p, map.exact, map.prefixes))
    BY <1>1, <1>2, <1>4, Zenon
  <1>. QED  BY <1>3, <1>5

LEMMA PortableNoteStep ==
  ASSUME NEW entries, NEW n \in Nat, NEW s \in SUBSET (1..n), s # {}
  PROVE  PortableNote(entries, s) = Portable(PortableNote(entries, s \ {Max(s)}), entries[Max(s)])
  <1>. DEFINE m == Max(s)  r == s \ {Max(s)}
  <1>1. /\ Before(s, m) = r /\ \A i \in r : Before(s, i) = Before(r, i)
        /\ s = r \cup {m} /\ m \in s
    BY BeforeMax
  <1>. HIDE DEF m, r
  <1>2. /\ EntriesAt(entries, s) = EntriesAt(entries, r) \cup {entries[m]}
        /\ PrefixesAt(entries, s) = PrefixesAt(entries, r) \cup Above(entries[m].path)
    BY <1>1 DEF EntriesAt, PrefixesAt
  <1>3. PortableNote(entries, s).ok <=>
          /\ PortableNote(entries, r).ok
          /\ PortableFits(entries[m], EntriesAt(entries, r), PrefixesAt(entries, r))
    BY <1>1, Zenon DEF PortableNote
  <1>4. PortableNote(entries, s).ok =
          (/\ PortableNote(entries, r).ok
           /\ PortableFits(entries[m], EntriesAt(entries, r), PrefixesAt(entries, r)))
    BY <1>3, Zenon DEF PortableNote
  <1>5. /\ PortableNote(entries, r).exact = EntriesAt(entries, r)
        /\ PortableNote(entries, r).prefixes = PrefixesAt(entries, r)
    BY DEF PortableNote
  <1>6. PortableNote(entries, s) = [ok |-> PortableNote(entries, s).ok,
                             exact |-> EntriesAt(entries, s), prefixes |-> PrefixesAt(entries, s)]
    BY DEF PortableNote
  <1>7. PortableNote(entries, s) = Portable(PortableNote(entries, r), entries[m])
    BY <1>2, <1>4, <1>5, <1>6, PortableStep
  <1>. QED  BY <1>7 DEF m, r

LEMMA PortableFold ==
  ASSUME NEW entries
  PROVE  FoldLeft(Portable, NoInventory, entries)
           = LET iter[s \in SUBSET DOMAIN entries] ==
                   IF s = {} THEN NoInventory
                   ELSE Portable(iter[s \ {Max(s)}], entries[Max(s)])
             IN iter[DOMAIN entries]
  BY DEF FoldLeft, MapThenFoldSet

LEMMA PortableNotes ==
  ASSUME NEW S, NEW entries \in Seq(S)
  PROVE  FoldLeft(Portable, NoInventory, entries) = PortableNote(entries, DOMAIN entries)
  <1>. DEFINE D == DOMAIN entries
              IsFold(f) == f = [s \in SUBSET D |-> IF s = {} THEN NoInventory
                                 ELSE Portable(f[s \ {Max(s)}], entries[Max(s)])]
              iter == CHOOSE f : IsFold(f)
              note == [s \in SUBSET D |-> PortableNote(entries, s)]
  <1>1. Len(entries) \in Nat /\ D = 1..Len(entries)
    OBVIOUS
  <1>2. PortableNote(entries, {}) = NoInventory
    BY DEF PortableNote, NoInventory, EntriesAt, PrefixesAt
  <1>3. IsFold(note)
    <2>1. ASSUME NEW s \in SUBSET D, s # {}
          PROVE  note[s] = Portable(note[s \ {Max(s)}], entries[Max(s)])
      <3>1. PortableNote(entries, s)
              = Portable(PortableNote(entries, s \ {Max(s)}), entries[Max(s)])
        BY <1>1, <2>1, PortableNoteStep
      <3>. QED  BY <3>1
    <2>2. note[{}] = NoInventory
      BY <1>2
    <2>. QED  BY <2>1, <2>2
  <1>. HIDE DEF note
  <1>4. IsFold(iter)
    BY <1>3
  <1>. HIDE DEF iter
  <1>5. iter[D] = note[D]
    <2>1. iter[{}] = note[{}]
      BY <1>3, <1>4
    <2>2. ASSUME NEW i \in 1..Len(entries), iter[1..(i - 1)] = note[1..(i - 1)]
          PROVE  iter[1..i] = note[1..i]
      <3>1. Max(1..i) = i /\ 1..i # {} /\ 1..i \ {i} = 1..(i - 1) /\ 1..i \in SUBSET D
        BY <1>1, MaxUpTo
      <3>2. iter[1..i] = Portable(iter[1..(i - 1)], entries[i])
        BY <1>4, <3>1
      <3>3. note[1..i] = Portable(note[1..(i - 1)], entries[i])
        BY <1>3, <3>1
      <3>. QED  BY <2>2, <3>2, <3>3
    <2>. QED  BY <1>1, <2>1, <2>2, AlongPlaces
  <1>6. FoldLeft(Portable, NoInventory, entries) = iter[D]
    BY PortableFold DEF iter
  <1>. QED  BY <1>5, <1>6 DEF note

----------------------------------------------------------------------------
\* What the checks ask of a file and one that came before it.
LEMMA MapPair ==
  ASSUME NEW names, NEW p \in PathsOf(names), NEW q \in PathsOf(names)
  PROVE  Distinct(q, p) <=>
           /\ Fold(p) # Fold(q) /\ \A d \in Above(q) : Fold(d) # Fold(p)
           /\ \A d \in Above(p) :
                 Fold(d) # Fold(q) /\ \A o \in Above(q) : Fold(o) = Fold(d) => o = d
  <1>1. Len(p) \in Nat \ {0} /\ Len(q) \in Nat \ {0}
    BY DEF PathsOf
  <1>2. ASSUME NEW r \in PathsOf(names), NEW t \in PathsOf(names)
        PROVE  (\A d \in Above(r) : Fold(d) # Fold(t)) <=> (Len(t) < Len(r) => ~Meet(r, t, Len(t)))
    <2>1. Len(t) \in Nat \ {0} /\ Len(r) \in Nat \ {0}
      BY DEF PathsOf
    <2>2. \A n \in 1..(Len(r) - 1) : n \in 1..Len(r)
      BY <2>1
    <2>3. \A n \in 1..(Len(r) - 1) :
            Fold(SubSeq(r, 1, n)) = Fold(t) <=> n = Len(t) /\ Meet(r, t, Len(t))
      BY <2>2, WholeNames, Zenon
    <2>4. (\A d \in Above(r) : Fold(d) # Fold(t)) <=>
            \A n \in 1..(Len(r) - 1) : ~(n = Len(t) /\ Meet(r, t, Len(t)))
      <3>1. (\A d \in Above(r) : Fold(d) # Fold(t)) <=>
              \A n \in 1..(Len(r) - 1) : Fold(SubSeq(r, 1, n)) # Fold(t)
        BY DEF Above
      <3>. QED  BY <2>3, <3>1, Zenon
    <2>5. Len(t) \in 1..(Len(r) - 1) <=> Len(t) < Len(r)
      BY <2>1
    <2>. QED  BY <2>4, <2>5, Zenon
  <1>3. \A n : Meet(p, q, n) <=> Meet(q, p, n)
    BY DEF Meet
  <1>4. /\ (\A d \in Above(q) : Fold(d) # Fold(p)) <=> (Len(p) < Len(q) => ~Meet(q, p, Len(p)))
        /\ (\A d \in Above(p) : Fold(d) # Fold(q)) <=> (Len(q) < Len(p) => ~Meet(p, q, Len(q)))
    BY <1>2, Zenon
  <1>5. Fold(p) = Fold(q) <=> Len(p) = Len(q) /\ Meet(p, q, Len(q))
    BY WholeNames
  <1>6. Distinct(q, p) <=> Distinct(p, q)
    BY DistinctBothWays
  <1>7. (/\ Len(p) <= Len(q) => ~Meet(p, q, Len(p))
         /\ Len(q) <= Len(p) => ~Meet(p, q, Len(q)))
        <=> /\ Fold(p) # Fold(q)
            /\ \A d \in Above(q) : Fold(d) # Fold(p)
            /\ \A d \in Above(p) : Fold(d) # Fold(q)
    BY <1>1, <1>3, <1>4, <1>5
  <1>. QED  BY <1>6, <1>7, DistinctNames, AboveNames, Zenon

LEMMA LayoutPair ==
  ASSUME NEW names, NEW p \in PathsOf(names), NEW q \in PathsOf(names)
  PROVE  Distinct(q, p) <=>
           /\ Fold(p) # Fold(q) /\ ~(IsBelow(Fold(q), Fold(p)) \/ IsBelow(Fold(p), Fold(q)))
           /\ \A d \in Above(p), o \in Above(q) : Fold(o) = Fold(d) => o = d
  <1>1. Distinct(q, p) <=> Distinct(p, q)
    BY DistinctBothWays
  <1>2. (\A n \in 1..(Len(p) - 1) :
           n < Len(q) /\ Fold(SubSeq(p, 1, n)) = Fold(SubSeq(q, 1, n))
             => SubSeq(p, 1, n) = SubSeq(q, 1, n))
        <=> \A d \in Above(p), o \in Above(q) : Fold(o) = Fold(d) => o = d
    <2>1. p \in Seq(names) /\ q \in Seq(names) /\ Len(p) \in Nat \ {0} /\ Len(q) \in Nat \ {0}
      BY DEF PathsOf
    <2>2. ASSUME NEW n \in 1..(Len(p) - 1), n < Len(q)
          PROVE  /\ Fold(SubSeq(p, 1, n)) = Fold(SubSeq(q, 1, n)) <=> Meet(p, q, n)
                 /\ SubSeq(p, 1, n) = SubSeq(q, 1, n) <=> Alike(p, q, n)
      <3>1. n \in 0..Len(p) /\ n \in 0..Len(q)
        BY <2>1, <2>2
      <3>. QED  BY <2>1, <3>1, SamePrefix
    <2>. QED  BY <2>2, AboveNames, Zenon
  <1>. QED  BY <1>1, <1>2, Zenon DEF Distinct, Overlap

\* The same said of all files at once.
LEMMA MappingIsPairwise ==
  ASSUME NEW names, NEW paths \in Seq(PathsOf(names))
  PROVE  MappingAccepts(paths) <=> AllDistinct(paths)
  <1>. DEFINE D == DOMAIN paths
  <1>1. D = 1..Len(paths) /\ Len(paths) \in Nat /\ \A i \in D : paths[i] \in PathsOf(names)
    OBVIOUS
  <1>2. MappingAccepts(paths) <=> MapNote(paths, D).ok
    BY MappingNotes DEF MappingAccepts
  <1>3. MapNote(paths, D).ok <=>
          \A i \in D : MapFits(paths[i], FilesAt(paths, Before(D, i)), DirsAt(paths, Before(D, i)))
    BY Zenon DEF MapNote
  <1>4. ASSUME NEW i \in D
        PROVE  MapFits(paths[i], FilesAt(paths, Before(D, i)), DirsAt(paths, Before(D, i)))
                 <=> \A j \in Before(D, i) : Distinct(paths[j], paths[i])
    <2>1. \A j \in Before(D, i) : j \in D
      BY DEF Before
    <2>2. \A j \in Before(D, i) :
            Distinct(paths[j], paths[i]) <=>
              /\ Fold(paths[i]) # Fold(paths[j])
              /\ \A d \in Above(paths[j]) : Fold(d) # Fold(paths[i])
              /\ \A d \in Above(paths[i]) :
                   /\ Fold(d) # Fold(paths[j])
                   /\ \A o \in Above(paths[j]) : Fold(o) = Fold(d) => o = d
      BY <1>1, <2>1, MapPair
    <2>3. MapFits(paths[i], FilesAt(paths, Before(D, i)), DirsAt(paths, Before(D, i))) <=>
            \A j \in Before(D, i) :
              /\ Fold(paths[i]) # Fold(paths[j])
              /\ \A d \in Above(paths[j]) : Fold(d) # Fold(paths[i])
              /\ \A d \in Above(paths[i]) :
                   /\ Fold(d) # Fold(paths[j])
                   /\ \A o \in Above(paths[j]) : Fold(o) = Fold(d) => o = d
      <3>. DEFINE B == Before(D, i)  p == paths[i]
      <3>1. Fold(p) \notin FilesAt(paths, B) <=> \A j \in B : Fold(p) # Fold(paths[j])
        BY DEF FilesAt
      <3>2. (\A d \in DirsAt(paths, B) : Fold(d) # Fold(p)) <=>
              \A j \in B : \A d \in Above(paths[j]) : Fold(d) # Fold(p)
        BY DEF DirsAt
      <3>3. ASSUME NEW d
            PROVE  /\ Fold(d) \notin FilesAt(paths, B) <=> \A j \in B : Fold(d) # Fold(paths[j])
                   /\ (\A o \in DirsAt(paths, B) : Fold(o) = Fold(d) => o = d) <=>
                         \A j \in B : \A o \in Above(paths[j]) : Fold(o) = Fold(d) => o = d
        BY DEF FilesAt, DirsAt
      <3>. HIDE DEF B, p
      <3>4. MapFits(p, FilesAt(paths, B), DirsAt(paths, B)) <=>
              \A j \in B :
                /\ Fold(p) # Fold(paths[j])
                /\ \A d \in Above(paths[j]) : Fold(d) # Fold(p)
                /\ \A d \in Above(p) :
                     /\ Fold(d) # Fold(paths[j])
                     /\ \A o \in Above(paths[j]) : Fold(o) = Fold(d) => o = d
        BY <3>1, <3>2, <3>3, Zenon DEF MapFits
      <3>. QED  BY <3>4 DEF B, p
    <2>. QED  BY <2>2, <2>3, Zenon
  <1>5. (\A i \in D : \A j \in Before(D, i) : Distinct(paths[j], paths[i])) <=> AllDistinct(paths)
    BY Zenon DEF Before, AllDistinct
  <1>. QED  BY <1>2, <1>3, <1>4, <1>5, Zenon

\* And so does the layout.
LEMMA LayoutIsPairwise ==
  ASSUME NEW names, NEW paths \in Seq(PathsOf(names))
  PROVE  LayoutAccepts(paths) <=> AllDistinct(paths)
  <1>. DEFINE D == DOMAIN paths
  <1>1. D = 1..Len(paths) /\ Len(paths) \in Nat /\ \A i \in D : paths[i] \in PathsOf(names)
    OBVIOUS
  <1>2. LayoutAccepts(paths) <=> LayoutNote(paths, D).ok
    BY LayoutNotes DEF LayoutAccepts
  <1>3. LayoutNote(paths, D).ok <=>
          \A i \in D :
             LayoutFits(paths[i], FilesAt(paths, Before(D, i)), DirsAt(paths, Before(D, i)))
    BY Zenon DEF LayoutNote
  <1>4. ASSUME NEW i \in D
        PROVE  LayoutFits(paths[i], FilesAt(paths, Before(D, i)), DirsAt(paths, Before(D, i)))
                 <=> \A j \in Before(D, i) : Distinct(paths[j], paths[i])
    <2>1. \A j \in Before(D, i) : j \in D
      BY DEF Before
    <2>2. \A j \in Before(D, i) :
            Distinct(paths[j], paths[i]) <=>
              /\ Fold(paths[i]) # Fold(paths[j])
              /\ ~(\/ IsBelow(Fold(paths[j]), Fold(paths[i]))
                   \/ IsBelow(Fold(paths[i]), Fold(paths[j])))
              /\ \A d \in Above(paths[i]), o \in Above(paths[j]) : Fold(o) = Fold(d) => o = d
      BY <1>1, <2>1, LayoutPair
    <2>. QED  BY <2>2, Zenon DEF LayoutFits, FilesAt, DirsAt
  <1>5. (\A i \in D : \A j \in Before(D, i) : Distinct(paths[j], paths[i])) <=> AllDistinct(paths)
    BY Zenon DEF Before, AllDistinct
  <1>. QED  BY <1>2, <1>3, <1>4, <1>5, Zenon

----------------------------------------------------------------------------
\* The inventory of some files: the directories above them and the files.
Dirs(P) == UNION {Above(p) : p \in P}
EntriesOf(P) == {Entry(d, "directory") : d \in Dirs(P)} \cup {Entry(p, "file") : p \in P}
\* What is apart in a set of files: the files, the files from the directories and
\* the directories of different spelling.
SetDistinct(P) == \A p, q \in P : p # q => Distinct(p, q)
FoldsApart(P) ==
  /\ \A p, q \in P : Fold(p) = Fold(q) => p = q
  /\ \A p \in P, d \in Dirs(P) : Fold(d) # Fold(p)
  /\ \A d, o \in Dirs(P) : Fold(d) = Fold(o) => d = o

LEMMA FoldsApartIsDistinct ==
  ASSUME NEW names, NEW P \in SUBSET PathsOf(names)
  PROVE  FoldsApart(P) <=> SetDistinct(P)
  <1>1. ASSUME FoldsApart(P), NEW p \in P, NEW q \in P, p # q PROVE Distinct(p, q)
    <2>1. p \in PathsOf(names) /\ q \in PathsOf(names)
      OBVIOUS
    <2>2. Above(p) \subseteq Dirs(P) /\ Above(q) \subseteq Dirs(P)
      BY DEF Dirs
    <2>3. /\ Fold(q) # Fold(p) /\ \A d \in Above(p) : Fold(d) # Fold(q)
          /\ \A d \in Above(q) : Fold(d) # Fold(p) /\ \A o \in Above(p) : Fold(o) = Fold(d) => o = d
      BY <1>1, <2>2 DEF FoldsApart
    <2>. QED  BY <2>1, <2>3, MapPair
  <1>2. ASSUME SetDistinct(P) PROVE FoldsApart(P)
    <2>1. ASSUME NEW p \in P, NEW q \in P, p # q
          PROVE  /\ Fold(q) # Fold(p) /\ \A d \in Above(p) : Fold(d) # Fold(q)
                 /\ \A d \in Above(q) :
                       Fold(d) # Fold(p) /\ \A o \in Above(p) : Fold(o) = Fold(d) => o = d
      <3>1. p \in PathsOf(names) /\ q \in PathsOf(names) /\ Distinct(p, q)
        BY <1>2, <2>1 DEF SetDistinct
      <3>. QED  BY <3>1, MapPair
    <2>2. ASSUME NEW p \in P, NEW d \in Above(p) PROVE Fold(d) # Fold(p)
      <3>1. PICK n \in 1..(Len(p) - 1) : d = SubSeq(p, 1, n)
        BY DEF Above
      <3>2. p \in PathsOf(names) /\ Len(p) \in Nat /\ n \in 1..Len(p) /\ n # Len(p)
        <4>1. p \in PathsOf(names)
          OBVIOUS
        <4>. QED  BY <4>1 DEF PathsOf
      <3>3. Fold(SubSeq(p, 1, n)) = Fold(p) <=> n = Len(p) /\ Meet(p, p, Len(p))
        BY <3>2, WholeNames
      <3>. QED  BY <3>1, <3>2, <3>3
    <2>3. ASSUME NEW p \in P, NEW d \in Above(p), NEW o \in Above(p), Fold(d) = Fold(o) PROVE d = o
      <3>1. PICK n \in 1..(Len(p) - 1) : d = SubSeq(p, 1, n)
        BY DEF Above
      <3>2. PICK m \in 1..(Len(p) - 1) : o = SubSeq(p, 1, m)
        BY DEF Above
      <3>3. p \in Seq(names) /\ n \in 0..Len(p) /\ m \in 0..Len(p)
        <4>1. p \in PathsOf(names)
          OBVIOUS
        <4>. QED  BY <4>1 DEF PathsOf
      <3>4. n = m
        BY <2>3, <3>1, <3>2, <3>3, SamePrefix
      <3>. QED  BY <3>1, <3>2, <3>4
    <2>4. \A p, q \in P : Fold(p) = Fold(q) => p = q
      BY <2>1
    <2>5. \A p \in P, d \in Dirs(P) : Fold(d) # Fold(p)
      <3>. SUFFICES ASSUME NEW p \in P, NEW q \in P, NEW d \in Above(q) PROVE Fold(d) # Fold(p)
        BY DEF Dirs
      <3>. QED  BY <2>1, <2>2
    <2>6. \A d, o \in Dirs(P) : Fold(d) = Fold(o) => d = o
      <3>. SUFFICES ASSUME NEW p \in P, NEW q \in P, NEW d \in Above(q), NEW o \in Above(p),
                           Fold(d) = Fold(o)
                    PROVE  d = o
        BY DEF Dirs
      <3>. QED  BY <2>1, <2>3
    <2>. QED  BY <2>4, <2>5, <2>6 DEF FoldsApart
  <1>. QED  BY <1>1, <1>2 DEF SetDistinct

LEMMA AboveAbove ==
  ASSUME NEW names, NEW p \in PathsOf(names), NEW d \in Above(p)
  PROVE  Above(d) \subseteq Above(p)
  <1>1. p \in Seq(names) /\ Len(p) \in Nat
    BY DEF PathsOf
  <1>2. PICK n \in 1..(Len(p) - 1) : d = SubSeq(p, 1, n)
    BY DEF Above
  <1>3. n \in 0..Len(p)
    BY <1>1
  <1>4. Len(d) = n /\ d \in Seq(names) /\ \A i \in 1..n : d[i] = p[i]
    BY <1>1, <1>2, <1>3, PrefixFacts
  <1>5. ASSUME NEW m \in 1..(n - 1) PROVE SubSeq(d, 1, m) = SubSeq(p, 1, m) /\ m \in 1..(Len(p) - 1)
    <2>1. m \in 0..Len(d) /\ m \in 0..Len(p) /\ m \in Nat /\ n \in Nat /\ m <= n
      BY <1>1, <1>4
    <2>2. SubSeq(d, 1, m) = [i \in 1..m |-> d[i]] /\ SubSeq(p, 1, m) = [i \in 1..m |-> p[i]]
      BY <1>1, <1>4, <2>1, PrefixFacts
    <2>3. \A i \in 1..m : i \in 1..n
      BY <2>1
    <2>4. m \in 1..(Len(p) - 1)
      BY <1>1
    <2>. QED  BY <1>4, <2>2, <2>3, <2>4
  <1>. QED  BY <1>4, <1>5 DEF Above

\* An inventory of the files is accepted exactly if these are apart.
LEMMA PortableIsPairwise ==
  ASSUME NEW names, NEW P \in SUBSET PathsOf(names),
         NEW S, NEW entries \in Seq(S), {entries[i] : i \in DOMAIN entries} = EntriesOf(P)
  PROVE  PortableAccepts(entries) <=> SetDistinct(P)
  <1>. DEFINE D == DOMAIN entries
              Fits(i) == PortableFits(entries[i], EntriesAt(entries, Before(D, i)),
                                      PrefixesAt(entries, Before(D, i)))
  <1>1. D = 1..Len(entries) /\ Len(entries) \in Nat /\ D \subseteq Nat
    OBVIOUS
  <1>2. PortableAccepts(entries) <=> \A i \in D : Fits(i)
    <2>1. PortableAccepts(entries) <=> PortableNote(entries, D).ok
      BY PortableNotes DEF PortableAccepts
    <2>. QED  BY <2>1, Zenon DEF PortableNote
  <1>3. ASSUME \A i \in D : Fits(i), NEW e \in EntriesOf(P), NEW o \in EntriesOf(P),
               Fold(e.path) = Fold(o.path)
        PROVE  e = o
    <2>1. PICK i \in D : entries[i] = e
      OBVIOUS
    <2>2. PICK j \in D : entries[j] = o
      OBVIOUS
    <2>3. i < j \/ j < i \/ i = j
      BY <1>1
    <2>4. CASE i < j
      <3>1. e \in EntriesAt(entries, Before(D, j))
        BY <2>1, <2>4 DEF Before, EntriesAt
      <3>. QED  BY <1>3, <2>2, <3>1 DEF PortableFits
    <2>5. CASE j < i
      <3>1. o \in EntriesAt(entries, Before(D, i))
        BY <2>2, <2>5 DEF Before, EntriesAt
      <3>. QED  BY <1>3, <2>1, <3>1 DEF PortableFits
    <2>. QED  BY <2>1, <2>2, <2>3, <2>4, <2>5
  <1>4. ASSUME \A i \in D : Fits(i) PROVE FoldsApart(P)
    <2>1. /\ \A d \in Dirs(P) : Entry(d, "directory") \in EntriesOf(P)
          /\ \A p \in P : Entry(p, "file") \in EntriesOf(P)
      BY DEF EntriesOf
    <2>2. \A p : /\ Entry(p, "file").path = p /\ Entry(p, "file").kind = "file"
                 /\ Entry(p, "directory").path = p /\ Entry(p, "directory").kind = "directory"
      BY DEF Entry
    <2>3. \A e, o \in EntriesOf(P) : Fold(e.path) = Fold(o.path) => e = o
      BY <1>3, <1>4
    <2>4. \A p, q \in P : Fold(p) = Fold(q) => p = q
      BY <2>1, <2>2, <2>3
    <2>5. \A p \in P, d \in Dirs(P) : Fold(d) # Fold(p)
      <3>. SUFFICES ASSUME NEW p \in P, NEW d \in Dirs(P), Fold(d) = Fold(p) PROVE FALSE
        OBVIOUS
      <3>1. Entry(d, "directory") = Entry(p, "file")
        BY <2>1, <2>2, <2>3
      <3>2. "directory" = "file"
        BY <2>2, <3>1
      <3>. QED  BY <3>2
    <2>6. \A d, o \in Dirs(P) : Fold(d) = Fold(o) => d = o
      BY <2>1, <2>2, <2>3
    <2>. QED  BY <2>4, <2>5, <2>6 DEF FoldsApart
  <1>5. ASSUME FoldsApart(P), NEW i \in D PROVE Fits(i)
    <2>1. \A j \in D : entries[j] \in EntriesOf(P)
      OBVIOUS
    <2>2. ASSUME NEW e \in EntriesOf(P)
          PROVE  /\ \/ e.kind = "file" /\ e.path \in P
                    \/ e.kind = "directory" /\ e.path \in Dirs(P)
                 /\ e = Entry(e.path, e.kind)
                 /\ Above(e.path) \subseteq Dirs(P)
      <3>1. \/ \E p \in P : e = Entry(p, "file")
            \/ \E d \in Dirs(P) : e = Entry(d, "directory")
        BY DEF EntriesOf
      <3>2. CASE \E p \in P : e = Entry(p, "file")
        BY <3>2 DEF Entry, Dirs
      <3>3. CASE \E d \in Dirs(P) : e = Entry(d, "directory")
        <4>1. PICK d \in Dirs(P) : e = Entry(d, "directory")
          BY <3>3
        <4>2. PICK p \in P : d \in Above(p)
          BY DEF Dirs
        <4>3. Above(d) \subseteq Above(p) /\ Above(p) \subseteq Dirs(P)
          <5>1. p \in PathsOf(names)
            OBVIOUS
          <5>. QED  BY <4>2, <5>1, AboveAbove DEF Dirs
        <4>4. e.path = d /\ e.kind = "directory"
          BY <4>1 DEF Entry
        <4>. QED  BY <4>1, <4>3, <4>4
      <3>. QED  BY <3>1, <3>2, <3>3
    <2>. DEFINE e == entries[i]
                exact == EntriesAt(entries, Before(D, i))
                prefixes == PrefixesAt(entries, Before(D, i))
    <2>3. e \in EntriesOf(P) /\ exact \subseteq EntriesOf(P) /\ prefixes \subseteq Dirs(P)
      BY <2>1, <2>2 DEF Before, EntriesAt, PrefixesAt
    <2>. HIDE DEF e, exact, prefixes
    <2>4. ASSUME NEW o \in exact, Fold(o.path) = Fold(e.path) PROVE o = e
      <3>1. o.kind = e.kind /\ o.path = e.path
        BY <1>5, <2>2, <2>3, <2>4 DEF FoldsApart
      <3>. QED  BY <2>2, <2>3, <3>1
    <2>5. ASSUME NEW o \in exact, o.kind = "file", NEW d \in Above(e.path)
          PROVE  Fold(d) # Fold(o.path)
      <3>1. o.path \in P /\ d \in Dirs(P)
        BY <2>2, <2>3, <2>5
      <3>. QED  BY <1>5, <3>1 DEF FoldsApart
    <2>6. \A d \in Above(e.path), o \in prefixes : Fold(o) = Fold(d) => o = d
      BY <1>5, <2>2, <2>3 DEF FoldsApart
    <2>7. e.kind = "file" => \A d \in prefixes \cup Above(e.path) : Fold(d) # Fold(e.path)
      BY <1>5, <2>2, <2>3 DEF FoldsApart
    <2>8. PortableFits(e, exact, prefixes)
      BY <2>4, <2>5, <2>6, <2>7 DEF PortableFits
    <2>. QED  BY <2>8 DEF e, exact, prefixes
  <1>. HIDE DEF Fits
  <1>6. FoldsApart(P) <=> SetDistinct(P)
    BY FoldsApartIsDistinct
  <1>. QED  BY <1>2, <1>4, <1>5, <1>6

----------------------------------------------------------------------------
\* A list of the members of a finite set, each once.
LEMMA Listed ==
  ASSUME NEW S, IsFiniteSet(S)
  PROVE  /\ SetToSeq(S) \in Seq(S)
         /\ {SetToSeq(S)[i] : i \in DOMAIN SetToSeq(S)} = S
         /\ \A i, j \in DOMAIN SetToSeq(S) : SetToSeq(S)[i] = SetToSeq(S)[j] => i = j
  <1>. DEFINE n == Cardinality(S)
  <1>1. n \in Nat /\ ExistsBijection(1..n, S)
    BY FS_CardinalityType
  <1>2. \E f \in [1..n -> S] : IsInjective(f)
    BY <1>1 DEF ExistsBijection, Bijection, Injection, IsInjective
  <1>3. SetToSeq(S) \in [1..n -> S] /\ IsInjective(SetToSeq(S))
    BY <1>2 DEF SetToSeq
  <1>. DEFINE f == SetToSeq(S)
  <1>. HIDE DEF f, n
  <1>4. f \in Injection(1..n, S)
    BY <1>3 DEF Injection, IsInjective, f
  <1>5. Cardinality(1..n) = n
    BY <1>1, FS_Interval
  <1>6. f \in Surjection(1..n, S)
    BY <1>4, <1>5, FS_Injection DEF n
  <1>7. f \in Seq(S) /\ DOMAIN f = 1..n /\ \A s \in S : \E i \in 1..n : f[i] = s
    BY <1>1, <1>4, <1>6 DEF Injection, Surjection
  <1>8. \A i, j \in 1..n : f[i] = f[j] => i = j
    BY <1>4 DEF Injection, IsInjective
  <1>9. {f[i] : i \in DOMAIN f} = S
    BY <1>7, <1>4 DEF Injection
  <1>. QED  BY <1>7, <1>8, <1>9 DEF f

\* Distinct files, whatever their order.
LEMMA EachOfAll ==
  ASSUME NEW names, NEW paths \in Seq(PathsOf(names))
  PROVE  AllDistinct(paths) <=>
           \A i, j \in DOMAIN paths : i # j => Distinct(paths[i], paths[j])
  <1>1. DOMAIN paths \subseteq Nat /\ \A i \in DOMAIN paths : paths[i] \in PathsOf(names)
    OBVIOUS
  <1>2. \A i, j \in DOMAIN paths : i # j => i < j \/ j < i
    BY <1>1
  <1>3. \A i, j \in DOMAIN paths : i < j => i # j
    BY <1>1
  <1>4. \A i, j \in DOMAIN paths : Distinct(paths[i], paths[j]) <=> Distinct(paths[j], paths[i])
    BY <1>1, DistinctBothWays
  <1>. QED  BY <1>2, <1>3, <1>4, Zenon DEF AllDistinct

\* A list of files and its reverse have the same files, distinct or not.
LEMMA Reversed ==
  ASSUME NEW S, NEW s \in Seq(S)
  PROVE  /\ Reverse(s) \in Seq(S) /\ DOMAIN Reverse(s) = DOMAIN s
         /\ \A i \in DOMAIN s : /\ Len(s) - i + 1 \in DOMAIN s
                                /\ Reverse(s)[i] = s[Len(s) - i + 1]
                                /\ Reverse(s)[Len(s) - i + 1] = s[i]
  <1>1. Len(s) \in Nat /\ DOMAIN s = 1..Len(s)
    OBVIOUS
  <1>2. \A i \in 1..Len(s) : /\ Len(s) - i + 1 \in 1..Len(s)
                             /\ Len(s) - (Len(s) - i + 1) + 1 = i
    BY <1>1
  <1>3. Reverse(s) = [i \in 1..Len(s) |-> s[Len(s) - i + 1]]
    BY DEF Reverse
  <1>4. \A i \in 1..Len(s) : s[Len(s) - i + 1] \in S
    BY <1>1, <1>2
  <1>. QED  BY <1>1, <1>2, <1>3, <1>4

LEMMA DistinctReversed ==
  ASSUME NEW names, NEW paths \in Seq(PathsOf(names))
  PROVE  AllDistinct(Reverse(paths)) <=> AllDistinct(paths)
  <1>. DEFINE r == Reverse(paths)  D == DOMAIN paths  Of(i) == Len(paths) - i + 1
  <1>1. /\ r \in Seq(PathsOf(names)) /\ DOMAIN r = D
        /\ \A i \in D : Of(i) \in D /\ r[i] = paths[Of(i)] /\ r[Of(i)] = paths[i]
    BY Reversed
  <1>2. \A i, j \in D : i # j => Of(i) # Of(j)
    OBVIOUS
  <1>3. AllDistinct(r) <=> \A i, j \in D : i # j => Distinct(r[i], r[j])
    BY <1>1, EachOfAll
  <1>4. AllDistinct(paths) <=> \A i, j \in D : i # j => Distinct(paths[i], paths[j])
    BY EachOfAll
  <1>. HIDE DEF r, D, Of
  <1>5. ASSUME AllDistinct(r), NEW i \in D, NEW j \in D, i # j PROVE Distinct(paths[i], paths[j])
    <2>1. Of(i) \in D /\ Of(j) \in D /\ Of(i) # Of(j)
      BY <1>1, <1>2, <1>5
    <2>2. Distinct(r[Of(i)], r[Of(j)])
      BY <1>3, <1>5, <2>1
    <2>3. r[Of(i)] = paths[i] /\ r[Of(j)] = paths[j]
      BY <1>1
    <2>. QED  BY <2>2, <2>3
  <1>6. ASSUME AllDistinct(paths), NEW i \in D, NEW j \in D, i # j PROVE Distinct(r[i], r[j])
    <2>1. Of(i) \in D /\ Of(j) \in D /\ Of(i) # Of(j)
      BY <1>1, <1>2, <1>6
    <2>2. Distinct(paths[Of(i)], paths[Of(j)])
      BY <1>4, <1>6, <2>1
    <2>3. r[i] = paths[Of(i)] /\ r[j] = paths[Of(j)]
      BY <1>1
    <2>. QED  BY <2>2, <2>3
  <1>7. AllDistinct(r) <=> AllDistinct(paths)
    BY <1>3, <1>4, <1>5, <1>6
  <1>. QED  BY <1>7 DEF r

LEMMA FilesOfList ==
  ASSUME NEW S, NEW s \in Seq(S)
  PROVE  /\ ToSet(s) \in SUBSET S /\ IsFiniteSet(ToSet(s))
         /\ ToSet(Reverse(s)) = ToSet(s)
  <1>1. Len(s) \in Nat /\ DOMAIN s = 1..Len(s) /\ ToSet(s) = {s[i] : i \in DOMAIN s}
    BY DEF ToSet
  <1>2. s \in Surjection(1..Len(s), ToSet(s))
    BY <1>1 DEF Surjection
  <1>3. IsFiniteSet(ToSet(s))
    BY <1>1, <1>2, FS_Interval, FS_Surjection
  <1>4. ToSet(Reverse(s)) = ToSet(s)
    <2>. DEFINE r == Reverse(s)  D == DOMAIN s  Of(i) == Len(s) - i + 1
    <2>1. DOMAIN r = D /\ \A i \in D : Of(i) \in D /\ r[i] = s[Of(i)] /\ r[Of(i)] = s[i]
      BY Reversed
    <2>. HIDE DEF r, D, Of
    <2>2. ASSUME NEW i \in D PROVE r[i] \in {s[j] : j \in D} /\ s[i] \in {r[j] : j \in D}
      <3>1. Of(i) \in D /\ r[i] = s[Of(i)] /\ r[Of(i)] = s[i]
        BY <2>1
      <3>. QED  BY <3>1
    <2>3. {r[i] : i \in D} = {s[i] : i \in D}
      BY <2>2
    <2>. QED  BY <2>1, <2>3 DEF ToSet, r, D
  <1>. QED  BY <1>1, <1>3, <1>4

\* Listing the files of a set, each once, tells the same about them.
LEMMA ListIsSet ==
  ASSUME NEW names, NEW P \in SUBSET PathsOf(names), IsFiniteSet(P)
  PROVE  AllDistinct(SetToSeq(P)) <=> SetDistinct(P)
  <1>. DEFINE s == SetToSeq(P)
  <1>1. /\ s \in Seq(P) /\ {s[i] : i \in DOMAIN s} = P
        /\ \A i, j \in DOMAIN s : s[i] = s[j] => i = j
    BY Listed
  <1>2. s \in Seq(PathsOf(names))
    BY <1>1
  <1>3. AllDistinct(s) <=> \A i, j \in DOMAIN s : i # j => Distinct(s[i], s[j])
    BY <1>2, EachOfAll
  <1>. HIDE DEF s
  <1>4. (\A i, j \in DOMAIN s : i # j => Distinct(s[i], s[j])) <=> SetDistinct(P)
    <2>1. \A p \in P : \E i \in DOMAIN s : s[i] = p
      BY <1>1
    <2>2. \A i \in DOMAIN s : s[i] \in P
      BY <1>1
    <2>3. ASSUME SetDistinct(P), NEW i \in DOMAIN s, NEW j \in DOMAIN s, i # j
          PROVE  Distinct(s[i], s[j])
      BY <1>1, <2>2, <2>3 DEF SetDistinct
    <2>4. ASSUME \A i, j \in DOMAIN s : i # j => Distinct(s[i], s[j]),
                 NEW p \in P, NEW q \in P, p # q
          PROVE  Distinct(p, q)
      <3>1. PICK i \in DOMAIN s : s[i] = p
        BY <2>1
      <3>2. PICK j \in DOMAIN s : s[j] = q
        BY <2>1
      <3>. QED  BY <2>4, <3>1, <3>2
    <2>. QED  BY <2>3, <2>4 DEF SetDistinct
  <1>. QED  BY <1>3, <1>4 DEF s

----------------------------------------------------------------------------
\* The inventory of a list has the entries of its files.
LEMMA InventoryOfFiles ==
  ASSUME NEW names, NEW paths \in Seq(PathsOf(names))
  PROVE  \E S : /\ Inventory(paths) \in Seq(S)
                /\ {Inventory(paths)[i] : i \in DOMAIN Inventory(paths)} = EntriesOf(ToSet(paths))
  <1>. DEFINE P == ToSet(paths)
              DirEntries == {Entry(d, "directory") : d \in Dirs(P)}
              FileEntries == {Entry(p, "file") : p \in P}
  <1>1. P \in SUBSET PathsOf(names) /\ IsFiniteSet(P)
    BY FilesOfList
  <1>. HIDE DEF P
  <1>2. IsFiniteSet(Dirs(P))
    <2>1. ASSUME NEW p \in P PROVE IsFiniteSet(Above(p))
      <3>1. Len(p) \in Nat
        <4>1. p \in PathsOf(names)
          BY <1>1
        <4>. QED  BY <4>1 DEF PathsOf
      <3>. DEFINE f == [n \in 1..(Len(p) - 1) |-> SubSeq(p, 1, n)]
      <3>2. f \in Surjection(1..(Len(p) - 1), Above(p))
        BY DEF Surjection, Above
      <3>. QED  BY <3>1, <3>2, FS_Interval, FS_Surjection
    <2>. DEFINE U == {Above(p) : p \in P}
                g == [p \in P |-> Above(p)]
    <2>2. g \in Surjection(P, U)
      BY DEF Surjection
    <2>3. IsFiniteSet(U)
      BY <1>1, <2>2, FS_Surjection
    <2>4. \A T \in U : IsFiniteSet(T)
      BY <2>1
    <2>. HIDE DEF U
    <2>5. IsFiniteSet(UNION U)
      BY <2>3, <2>4, FS_UNION
    <2>. QED  BY <2>5 DEF U, Dirs
  <1>3. IsFiniteSet(DirEntries)
    <2>. DEFINE f == [d \in Dirs(P) |-> Entry(d, "directory")]
    <2>1. f \in Surjection(Dirs(P), DirEntries)
      BY DEF Surjection
    <2>. QED  BY <1>2, <2>1, FS_Surjection
  <1>4. IsFiniteSet(FileEntries)
    <2>. DEFINE f == [p \in P |-> Entry(p, "file")]
    <2>1. f \in Surjection(P, FileEntries)
      BY DEF Surjection
    <2>. QED  BY <1>1, <2>1, FS_Surjection
  <1>5. EntriesOf(P) = DirEntries \cup FileEntries
    BY DEF EntriesOf
  <1>6. Inventory(paths) = SetToSeq(DirEntries) \o SetToSeq(FileEntries)
    BY DEF Inventory, P, Dirs, Above
  <1>. DEFINE a == SetToSeq(DirEntries)  b == SetToSeq(FileEntries)
  <1>7. /\ a \in Seq(DirEntries) /\ {a[i] : i \in DOMAIN a} = DirEntries
        /\ b \in Seq(FileEntries) /\ {b[i] : i \in DOMAIN b} = FileEntries
    <2>. HIDE DEF DirEntries, FileEntries
    <2>. QED  BY <1>3, <1>4, Listed
  <1>. HIDE DEF DirEntries, FileEntries, a, b
  <1>8. /\ a \o b \in Seq(DirEntries \cup FileEntries)
        /\ {(a \o b)[i] : i \in DOMAIN (a \o b)} = DirEntries \cup FileEntries
    <2>. DEFINE S == DirEntries \cup FileEntries  c == a \o b
    <2>1. a \in Seq(S) /\ b \in Seq(S)
      BY <1>7
    <2>2. c \in Seq(S) /\ Len(c) = Len(a) + Len(b)
          /\ \A i \in 1..Len(c) : c[i] = IF i <= Len(a) THEN a[i] ELSE b[i - Len(a)]
      BY <2>1
    <2>3. /\ DOMAIN a = 1..Len(a) /\ DOMAIN b = 1..Len(b) /\ DOMAIN c = 1..Len(c)
          /\ Len(a) \in Nat /\ Len(b) \in Nat
      BY <2>1, <2>2
    <2>. HIDE DEF c, S
    <2>4. ASSUME NEW x \in DirEntries PROVE \E i \in DOMAIN c : c[i] = x
      <3>1. PICK i \in DOMAIN a : a[i] = x
        BY <1>7
      <3>2. i \in DOMAIN c /\ i <= Len(a)
        BY <2>2, <2>3
      <3>. QED  BY <2>2, <2>3, <3>1, <3>2
    <2>5. ASSUME NEW x \in FileEntries PROVE \E i \in DOMAIN c : c[i] = x
      <3>1. PICK i \in DOMAIN b : b[i] = x
        BY <1>7
      <3>2. Len(a) + i \in DOMAIN c /\ ~(Len(a) + i <= Len(a)) /\ Len(a) + i - Len(a) = i
        BY <2>2, <2>3
      <3>. QED  BY <2>2, <2>3, <3>1, <3>2
    <2>6. \A i \in DOMAIN c : c[i] \in S
      BY <2>2, <2>3
    <2>7. {c[i] : i \in DOMAIN c} = DirEntries \cup FileEntries
      BY <2>4, <2>5, <2>6 DEF S
    <2>. QED  BY <2>2, <2>7 DEF S, c
  <1>. QED  BY <1>5, <1>6, <1>8 DEF a, b, P

\* Every check accepts exactly the lists of distinct files, in either order.
LEMMA EveryCheckIsExact ==
  ASSUME NEW names, NEW p \in Seq(PathsOf(names)), NEW order \in {p, Reverse(p)}
  PROVE  /\ MappingAccepts(order) <=> AllDistinct(p)
         /\ LayoutAccepts(order) <=> AllDistinct(p)
         /\ PortableAccepts(Inventory(order)) <=> AllDistinct(SetToSeq(ToSet(p)))
  <1>1. order \in Seq(PathsOf(names)) /\ ToSet(order) = ToSet(p)
    BY Reversed, FilesOfList
  <1>2. AllDistinct(order) <=> AllDistinct(p)
    BY DistinctReversed
  <1>3. ToSet(p) \in SUBSET PathsOf(names) /\ IsFiniteSet(ToSet(p))
    BY FilesOfList
  <1>4. PICK S : /\ Inventory(order) \in Seq(S)
                 /\ {Inventory(order)[i] : i \in DOMAIN Inventory(order)} = EntriesOf(ToSet(p))
    BY <1>1, InventoryOfFiles
  <1>5. PortableAccepts(Inventory(order)) <=> SetDistinct(ToSet(p))
    BY <1>3, <1>4, PortableIsPairwise
  <1>6. AllDistinct(SetToSeq(ToSet(p))) <=> SetDistinct(ToSet(p))
    BY <1>3, ListIsSet
  <1>7. MappingAccepts(order) <=> AllDistinct(order)
    BY <1>1, MappingIsPairwise
  <1>8. LayoutAccepts(order) <=> AllDistinct(order)
    BY <1>1, LayoutIsPairwise
  <1>. QED  BY <1>2, <1>5, <1>6, <1>7, <1>8

\* A file that can be mapped keeps a path.
LEMMA CandidateIsPath ==
  ASSUME NEW names, NEW path \in PathsOf(names), Mappable(path)
  PROVE  CandidateRelative(path) \in PathsOf(names \cup {Russian(x) : x \in names})
  <1>. DEFINE tail == Tail1(path)
  <1>1. path \in Seq(names) /\ path # <<>>
    BY DEF PathsOf
  <1>2. tail \in Seq(names) /\ tail # <<>>
    BY <1>1 DEF Tail1, Mappable
  <1>. HIDE DEF tail
  <1>3. Len(tail) \in Nat /\ Len(tail) # 0 /\ DOMAIN tail = 1..Len(tail)
        /\ \A i \in 1..Len(tail) : tail[i] \in names
    BY <1>2
  <1>4. CandidateRelative(path) = [tail EXCEPT ![Len(tail)] = Russian(tail[Len(tail)])]
    BY DEF CandidateRelative, tail
  <1>. DEFINE c == CandidateRelative(path)  N == names \cup {Russian(x) : x \in names}
  <1>5. DOMAIN c = 1..Len(tail) /\ \A i \in 1..Len(tail) : c[i] \in N
    BY <1>3, <1>4
  <1>6. c = [i \in 1..Len(tail) |-> c[i]]
    BY <1>3, <1>4
  <1>. HIDE DEF c, N
  <1>7. c \in Seq(N) /\ c # <<>>
    <2>1. c \in [1..Len(tail) -> N]
      BY <1>5, <1>6
    <2>2. c \in Seq(N) /\ Len(c) = Len(tail)
      BY <1>3, <2>1
    <2>. QED  BY <1>3, <2>2
  <1>. QED  BY <1>7 DEF PathsOf, c, N

\* Of any list of files, whatever their names: a mod is refused exactly when two
\* of its files collide where they are or where their candidates go, by each of the
\* three checks and in either order.
THEOREM FilesAreApart ==
  ASSUME NEW names, NEW paths \in Seq(PathsOf(names))
  PROVE  FilesApart(paths)
  <1>1. ASSUME NEW p \in MappedLists(paths)
        PROVE  p \in Seq(PathsOf(names \cup {Russian(x) : x \in names}))
    <2>1. /\ \A i \in DOMAIN paths : Mappable(paths[i])
          /\ p = [i \in DOMAIN paths |-> CandidateRelative(paths[i])]
      BY <1>1 DEF MappedLists
    <2>2. DOMAIN paths = 1..Len(paths) /\ Len(paths) \in Nat
          /\ \A i \in DOMAIN paths : paths[i] \in PathsOf(names)
      OBVIOUS
    <2>3. \A i \in DOMAIN paths :
            CandidateRelative(paths[i]) \in PathsOf(names \cup {Russian(x) : x \in names})
      BY <2>1, <2>2, CandidateIsPath
    <2>. QED  BY <2>1, <2>2, <2>3
  <1>. DEFINE Exact(p, order) ==
                /\ MappingAccepts(order) <=> AllDistinct(p)
                /\ LayoutAccepts(order) <=> AllDistinct(p)
                /\ PortableAccepts(Inventory(order)) <=> AllDistinct(SetToSeq(ToSet(p)))
  <1>2. \A order \in {paths, Reverse(paths)} : Exact(paths, order)
    BY EveryCheckIsExact
  <1>3. \A p \in MappedLists(paths) : \A order \in {p, Reverse(p)} : Exact(p, order)
    BY <1>1, EveryCheckIsExact
  <1>4. \A p \in {paths} \cup MappedLists(paths) : \A order \in {p, Reverse(p)} : Exact(p, order)
    <2>. HIDE DEF Exact
    <2>. QED  BY <1>2, <1>3
  <1>. QED  BY <1>4 DEF FilesApart

----------------------------------------------------------------------------
\* A disk: its directories are a tree, and no link is one of them.
DiskOK(disk, names) ==
  /\ disk.dirs \in SUBSET Seq(names) /\ <<>> \in disk.dirs
  /\ \A d \in disk.dirs : \A n \in 0..Len(d) : SubSeq(d, 1, n) \in disk.dirs
  /\ \A d \in DOMAIN disk.links : d \notin disk.dirs

\* Walking down a path, name after name.
Walk(disk, path, real) ==
  real = [n \in 0..Len(path) |-> IF n = 0 THEN <<>> ELSE Entered(disk, real[n - 1], path[n])]

\* There is such a walk: there is no first name where it cannot go on.
LEMMA WalkExists ==
  ASSUME NEW disk, NEW path, Len(path) \in Nat
  PROVE  \E real : Walk(disk, path, real)
  <1>. DEFINE L == Len(path)
              Upto(g, m) == g = [n \in 0..m |-> IF n = 0 THEN <<>>
                                                 ELSE Entered(disk, g[n - 1], path[n])]
              T == {m \in 0..L : ~\E g : Upto(g, m)}
  <1>1. ASSUME T # {} PROVE FALSE
    <2>1. T \in SUBSET Nat
      OBVIOUS
    <2>2. PICK k \in T : \A i \in T : k <= i
      <3>. HIDE DEF T
      <3>. QED  BY <1>1, <2>1, LeastIn
    <2>3. \E g : Upto(g, 0)
      <3>. DEFINE g == [n \in 0..0 |-> <<>>]
      <3>1. \A n \in 0..0 : n = 0
        OBVIOUS
      <3>2. g = [n \in 0..0 |-> g[n]] /\ \A n \in 0..0 : g[n] = <<>>
        OBVIOUS
      <3>. HIDE DEF g
      <3>3. \A n \in 0..0 : g[n] = IF n = 0 THEN <<>> ELSE Entered(disk, g[n - 1], path[n])
        BY <3>1, <3>2, Zenon
      <3>4. Upto(g, 0)
        BY <3>2, <3>3, Zenon
      <3>. QED  BY <3>4
    <2>4. k # 0 /\ k \in 1..L /\ ~(\E g : Upto(g, k))
      <3>. HIDE DEF Upto
      <3>1. k \in 0..L /\ ~(\E g : Upto(g, k))
        BY <2>2
      <3>2. k # 0
        BY <2>3, <3>1
      <3>. QED  BY <3>1, <3>2
    <2>5. k - 1 \in 0..L /\ k - 1 \notin T
      <3>. HIDE DEF T
      <3>. QED  BY <2>1, <2>2, <2>4
    <2>6. PICK g : Upto(g, k - 1)
      <3>. HIDE DEF Upto
      <3>. QED  BY <2>5, Zenon
    <2>. DEFINE h == [n \in 0..k |-> IF n = k THEN Entered(disk, g[k - 1], path[k]) ELSE g[n]]
    <2>7. \A n \in 0..(k - 1) : g[n] = IF n = 0 THEN <<>> ELSE Entered(disk, g[n - 1], path[n])
      BY <2>6, Zenon
    <2>8. \A n \in 0..k : h[n] = IF n = k THEN Entered(disk, g[k - 1], path[k]) ELSE g[n]
      OBVIOUS
    <2>9. \A n \in 0..k : h[n] = IF n = 0 THEN <<>> ELSE Entered(disk, h[n - 1], path[n])
      <3>. HIDE DEF h
      <3>. SUFFICES ASSUME NEW n \in 0..k
                    PROVE  h[n] = IF n = 0 THEN <<>> ELSE Entered(disk, h[n - 1], path[n])
        OBVIOUS
      <3>1. CASE n = 0
        <4>1. 0 \in 0..k /\ 0 # k /\ 0 \in 0..(k - 1)
          BY <2>4
        <4>. QED  BY <2>7, <2>8, <3>1, <4>1
      <3>2. CASE n # 0
        <4>1. n - 1 \in 0..k /\ n - 1 # k /\ k \in Nat
          BY <2>4, <3>2
        <4>2. h[n - 1] = g[n - 1]
          BY <2>8, <4>1
        <4>3. CASE n = k
          BY <2>8, <3>2, <4>2, <4>3
        <4>4. CASE n # k
          <5>1. n \in 0..(k - 1)
            BY <2>4, <4>4
          <5>. QED  BY <2>7, <2>8, <3>2, <4>2, <4>4, <5>1
        <4>. QED  BY <4>3, <4>4
      <3>. QED  BY <3>1, <3>2
    <2>10. Upto(h, k)
      <3>1. h = [n \in 0..k |-> h[n]]
        OBVIOUS
      <3>. HIDE DEF h
      <3>. QED  BY <2>9, <3>1, Zenon
    <2>. QED  BY <2>4, <2>10, Zenon
  <1>2. L \in 0..L
    OBVIOUS
  <1>3. \E g : Upto(g, L)
    BY <1>1, <1>2
  <1>. QED  BY <1>3 DEF Walk

\* How far a walk stays in directories.
Deepest(disk, path, real, n) ==
  /\ n \in 0..Len(path) /\ \A m \in 0..n : real[m] \in disk.dirs
  /\ n < Len(path) => real[n + 1] \notin disk.dirs

\* It leaves the directories somewhere, or not at all.
LEMMA DeepestExists ==
  ASSUME NEW disk, NEW path, NEW real, Len(path) \in Nat, real[0] \in disk.dirs
  PROVE  \E n \in 0..Len(path) : Deepest(disk, path, real, n)
  <1>. DEFINE L == Len(path)
              T == {n \in 0..L : n = L \/ real[n + 1] \notin disk.dirs}
  <1>1. T \in SUBSET Nat /\ L \in T
    OBVIOUS
  <1>2. PICK k \in T : \A i \in T : k <= i
    <2>. HIDE DEF T
    <2>. QED  BY <1>1, LeastIn
  <1>3. ASSUME NEW m \in 0..k PROVE real[m] \in disk.dirs
    <2>1. CASE m = 0
      BY <2>1
    <2>2. CASE m # 0
      <3>1. m - 1 \in 0..L /\ m - 1 # L /\ m - 1 < k /\ (m - 1) + 1 = m
        BY <1>1, <1>2, <2>2
      <3>2. m - 1 \notin T
        <4>. HIDE DEF T
        <4>. QED  BY <1>1, <1>2, <3>1
      <3>3. real[(m - 1) + 1] \in disk.dirs
        BY <3>1, <3>2, Zenon
      <3>. QED  BY <3>1, <3>3
    <2>. QED  BY <2>1, <2>2
  <1>. QED  BY <1>2, <1>3 DEF Deepest

\* The deepest part of a path that exists is a directory, and the next name is
\* not in it.
LEMMA PhysicalFacts ==
  ASSUME NEW names, NEW disk, DiskOK(disk, names), NEW path \in Seq(names)
  PROVE  LET p == Physical(disk, path)
         IN /\ p.anchor \in disk.dirs /\ p.missing \in Seq(names)
            /\ p.missing # <<>> => Append(p.anchor, p.missing[1]) \notin disk.dirs
  <1>. DEFINE real == CHOOSE f : Walk(disk, path, f)
              depth == CHOOSE n \in 0..Len(path) : 
                 /\ \A m \in 0..n : real[m] \in disk.dirs
                 /\ n < Len(path) => real[n + 1] \notin disk.dirs
              p == Physical(disk, path)
  <1>0. Len(path) \in Nat
    OBVIOUS
  <1>1. Walk(disk, path, real)
    BY <1>0, WalkExists
  <1>2. p = [anchor |-> real[depth], missing |-> SubSeq(path, depth + 1, Len(path))]
    BY DEF Physical, Walk
  <1>. HIDE DEF real, p
  <1>3. /\ real[0] = <<>>
        /\ \A n \in 1..Len(path) : real[n] = Entered(disk, real[n - 1], path[n])
    <2>. DEFINE f == [n \in 0..Len(path) |-> IF n = 0 THEN <<>>
                                             ELSE Entered(disk, real[n - 1], path[n])]
    <2>1. real = f
      BY <1>1 DEF Walk
    <2>2. f[0] = <<>> /\ \A n \in 1..Len(path) : f[n] = Entered(disk, real[n - 1], path[n])
      BY <1>0
    <2>. HIDE DEF f
    <2>. QED  BY <2>1, <2>2
  <1>4. \E n \in 0..Len(path) : /\ \A m \in 0..n : real[m] \in disk.dirs
                                /\ n < Len(path) => real[n + 1] \notin disk.dirs
    BY <1>0, <1>3, DeepestExists DEF Deepest, DiskOK
  <1>5. /\ depth \in 0..Len(path) /\ \A m \in 0..depth : real[m] \in disk.dirs
        /\ depth < Len(path) => real[depth + 1] \notin disk.dirs
    BY <1>4
  <1>. HIDE DEF depth
  <1>6. p.anchor = real[depth] /\ p.missing = SubSeq(path, depth + 1, Len(path))
    BY <1>2
  <1>7. p.anchor \in disk.dirs
    BY <1>5, <1>6
  <1>8. /\ p.missing \in Seq(names) /\ Len(p.missing) = Len(path) - depth
        /\ \A i \in 1..(Len(path) - depth) : p.missing[i] = path[depth + i]
    <2>1. /\ depth + 1 \in Int /\ Len(path) \in Int
          /\ \A i \in (depth + 1)..Len(path) : path[i] \in names
      BY <1>0, <1>5
    <2>2. /\ p.missing \in Seq(names)
          /\ Len(p.missing) = IF depth + 1 <= Len(path) THEN Len(path) - (depth + 1) + 1 ELSE 0
          /\ \A i \in 1..(Len(path) - (depth + 1) + 1) : p.missing[i] = path[(depth + 1) + i - 1]
      BY <1>6, <2>1, SubSeqProperties
    <2>3. Len(p.missing) = Len(path) - depth
      BY <1>0, <1>5, <2>2
    <2>4. ASSUME NEW i \in 1..(Len(path) - depth) PROVE p.missing[i] = path[depth + i]
      <3>1. i \in 1..(Len(path) - (depth + 1) + 1) /\ (depth + 1) + i - 1 = depth + i
        BY <1>0, <1>5
      <3>. QED  BY <2>2, <3>1
    <2>. QED  BY <2>2, <2>3, <2>4
  <1>9. ASSUME p.missing # <<>> PROVE Append(p.anchor, p.missing[1]) \notin disk.dirs
    <2>1. depth < Len(path) /\ p.missing[1] = path[depth + 1] /\ depth + 1 \in 1..Len(path)
          /\ (depth + 1) - 1 = depth
      <3>1. Len(p.missing) # 0
        BY <1>8, <1>9
      <3>. QED  BY <1>0, <1>5, <1>8, <3>1
    <2>2. real[depth + 1] = Entered(disk, p.anchor, p.missing[1])
      BY <1>3, <1>6, <2>1
    <2>3. Entered(disk, p.anchor, p.missing[1]) \notin disk.dirs
      BY <1>5, <2>1, <2>2
    <2>. QED  BY <2>3 DEF Entered, DiskOK
  <1>. QED  BY <1>7, <1>8, <1>9 DEF p

----------------------------------------------------------------------------
LEMMA PrefixOfPrefix ==
  ASSUME NEW names, NEW p \in Seq(names), NEW n \in 0..Len(p), NEW m \in 0..n
  PROVE  SubSeq(SubSeq(p, 1, n), 1, m) = SubSeq(p, 1, m)
  <1>1. /\ SubSeq(p, 1, n) \in Seq(names) /\ Len(SubSeq(p, 1, n)) = n
        /\ \A i \in 1..n : SubSeq(p, 1, n)[i] = p[i]
    BY PrefixFacts
  <1>2. SubSeq(SubSeq(p, 1, n), 1, m) = [i \in 1..m |-> SubSeq(p, 1, n)[i]]
    BY <1>1, PrefixFacts
  <1>3. m \in 0..Len(p) /\ \A i \in 1..m : i \in 1..n
    OBVIOUS
  <1>4. SubSeq(p, 1, m) = [i \in 1..m |-> p[i]]
    BY <1>3, PrefixFacts
  <1>. QED  BY <1>1, <1>2, <1>3, <1>4

\* A place, and how much of it is there: one more name is no directory, and
\* neither is anything below it.
LEMMA PlaceFacts ==
  ASSUME NEW names, NEW disk, DiskOK(disk, names), NEW path \in Seq(names)
  PROVE  LET p == Physical(disk, path)
             place == PlaceOf(disk, path)
         IN /\ place \in Seq(names) /\ p.anchor \in Seq(names) /\ Len(p.anchor) <= Len(place)
            /\ p.anchor = SubSeq(place, 1, Len(p.anchor))
            /\ Exists(p) <=> Len(place) = Len(p.anchor)
            /\ \A n \in 0..Len(place) : SubSeq(place, 1, n) \in disk.dirs <=> n <= Len(p.anchor)
  <1>. DEFINE p == Physical(disk, path)  a == p.anchor  b == p.missing
              place == PlaceOf(disk, path)
  <1>1. a \in disk.dirs /\ b \in Seq(names) /\ (b # <<>> => Append(a, b[1]) \notin disk.dirs)
    BY PhysicalFacts
  <1>2. place = a \o b
    BY DEF PlaceOf
  <1>3. Exists(p) <=> b = <<>>
    BY DEF Exists
  <1>. HIDE DEF a, b, place
  <1>4. a \in Seq(names) /\ Len(a) \in Nat /\ Len(b) \in Nat
    BY <1>1 DEF DiskOK
  <1>5. /\ place \in Seq(names) /\ Len(place) = Len(a) + Len(b)
        /\ \A i \in 1..Len(a) : place[i] = a[i]
        /\ Len(b) # 0 => place[Len(a) + 1] = b[1]
    BY <1>1, <1>2, <1>4
  <1>6. Len(a) <= Len(place) /\ Len(a) \in 0..Len(place) /\ Len(place) \in Nat
    BY <1>4, <1>5
  <1>7. a = SubSeq(place, 1, Len(a))
    <2>1. SubSeq(place, 1, Len(a)) = [i \in 1..Len(a) |-> place[i]]
      BY <1>5, <1>6, PrefixFacts
    <2>2. a = [i \in 1..Len(a) |-> a[i]]
      BY <1>4
    <2>. QED  BY <1>5, <2>1, <2>2
  <1>8. Len(place) = Len(a) <=> b = <<>>
    <2>1. Len(b) = 0 <=> b = <<>>
      BY <1>1
    <2>. QED  BY <1>4, <1>5, <2>1
  <1>9. ASSUME NEW n \in 0..Len(place)
        PROVE  SubSeq(place, 1, n) \in disk.dirs <=> n <= Len(a)
    <2>0. n \in Nat
      OBVIOUS
    <2>1. \A m \in 0..n : SubSeq(SubSeq(place, 1, n), 1, m) = SubSeq(place, 1, m)
      BY <1>5, PrefixOfPrefix
    <2>2. ASSUME n <= Len(a) PROVE SubSeq(place, 1, n) \in disk.dirs
      <3>1. n \in 0..Len(a)
        BY <1>4, <2>2
      <3>2. SubSeq(a, 1, n) \in disk.dirs
        BY <1>1, <3>1 DEF DiskOK
      <3>3. SubSeq(a, 1, n) = [i \in 1..n |-> a[i]]
        BY <1>4, <3>1, PrefixFacts
      <3>4. SubSeq(place, 1, n) = [i \in 1..n |-> place[i]]
        BY <1>5, PrefixFacts
      <3>5. \A i \in 1..n : place[i] = a[i]
        BY <1>4, <1>5, <3>1
      <3>. QED  BY <3>2, <3>3, <3>4, <3>5
    <2>3. ASSUME ~(n <= Len(a)), SubSeq(place, 1, n) \in disk.dirs PROVE FALSE
      <3>1. Len(a) + 1 \in 0..n /\ Len(a) + 1 \in 0..Len(place) /\ Len(b) # 0 /\ b # <<>>
        BY <1>4, <1>5, <2>3
      <3>2. Len(SubSeq(place, 1, n)) = n
        BY <1>5, PrefixFacts
      <3>3. SubSeq(SubSeq(place, 1, n), 1, Len(a) + 1) \in disk.dirs
        BY <2>3, <3>1, <3>2 DEF DiskOK
      <3>4. SubSeq(place, 1, Len(a) + 1) = Append(a, b[1])
        <4>1. SubSeq(place, 1, Len(a) + 1) = [i \in 1..(Len(a) + 1) |-> place[i]]
          BY <1>5, <3>1, PrefixFacts
        <4>2. Append(a, b[1]) = [i \in 1..(Len(a) + 1) |-> IF i = Len(a) + 1 THEN b[1] ELSE a[i]]
          BY <1>4
        <4>3. \A i \in 1..(Len(a) + 1) : place[i] = IF i = Len(a) + 1 THEN b[1] ELSE a[i]
          BY <1>4, <1>5, <3>1
        <4>. QED  BY <4>1, <4>2, <4>3
      <3>. QED  BY <1>1, <2>1, <3>1, <3>3, <3>4
    <2>. QED  BY <2>2, <2>3
  <1>. QED  BY <1>3, <1>4, <1>5, <1>6, <1>7, <1>8, <1>9 DEF a, b, place

\* One of two places is the other or above it.
LEMMA OverlapIsPrefix ==
  ASSUME NEW names, NEW p \in Seq(names), NEW q \in Seq(names)
  PROVE  Overlap(p, q) <=> \/ Len(q) <= Len(p) /\ SubSeq(p, 1, Len(q)) = q
                           \/ Len(p) <= Len(q) /\ SubSeq(q, 1, Len(p)) = p
  <1>1. SubSeq(p, 1, Len(p)) = p /\ SubSeq(q, 1, Len(q)) = q
    BY WholeIsPrefix
  <1>2. Len(p) \in Nat /\ Len(q) \in Nat
    OBVIOUS
  <1>3. Len(q) <= Len(p) /\ SubSeq(p, 1, Len(q)) = q <=> p = q \/ IsBelow(p, q)
    BY <1>1, <1>2 DEF IsBelow
  <1>4. Len(p) <= Len(q) /\ SubSeq(q, 1, Len(p)) = p <=> p = q \/ IsBelow(q, p)
    BY <1>1, <1>2 DEF IsBelow
  <1>. QED  BY <1>3, <1>4 DEF Overlap

\* A place that is another or is above it is found there, or both are missing
\* below one directory.
LEMMA MeetingIsSeen ==
  ASSUME NEW names, NEW disk, DiskOK(disk, names), NEW p \in Seq(names), NEW q \in Seq(names),
         Len(PlaceOf(disk, q)) <= Len(PlaceOf(disk, p)),
         SubSeq(PlaceOf(disk, p), 1, Len(PlaceOf(disk, q))) = PlaceOf(disk, q)
  PROVE  LET l == Physical(disk, p)  r == Physical(disk, q)
         IN (Exists(r) /\ r.anchor \in Ancestors(l)) \/ Unproven(l, r)
  <1>. DEFINE l == Physical(disk, p)  r == Physical(disk, q)
              x == PlaceOf(disk, p)  y == PlaceOf(disk, q)
              a == l.anchor  b == r.anchor
  <1>1. /\ x \in Seq(names) /\ a \in Seq(names) /\ Len(a) <= Len(x)
        /\ a = SubSeq(x, 1, Len(a)) /\ (Exists(l) <=> Len(x) = Len(a))
        /\ \A n \in 0..Len(x) : SubSeq(x, 1, n) \in disk.dirs <=> n <= Len(a)
    BY PlaceFacts
  <1>2. /\ y \in Seq(names) /\ b \in Seq(names) /\ Len(b) <= Len(y)
        /\ b = SubSeq(y, 1, Len(b)) /\ (Exists(r) <=> Len(y) = Len(b))
        /\ \A n \in 0..Len(y) : SubSeq(y, 1, n) \in disk.dirs <=> n <= Len(b)
    BY PlaceFacts
  <1>3. Ancestors(l) = {SubSeq(a, 1, n) : n \in 0..Len(a)}
    BY DEF Ancestors
  <1>4. Unproven(l, r) <=> ~Exists(l) /\ ~Exists(r) /\ a = b
    BY DEF Unproven
  <1>5. Len(y) <= Len(x) /\ SubSeq(x, 1, Len(y)) = y
    OBVIOUS
  <1>. HIDE DEF l, r, x, y, a, b
  <1>6. Len(x) \in Nat /\ Len(y) \in Nat /\ Len(a) \in Nat /\ Len(b) \in Nat
    BY <1>1, <1>2
  <1>7. ASSUME NEW n \in 0..Len(y) PROVE SubSeq(y, 1, n) = SubSeq(x, 1, n)
    <2>1. Len(y) \in 0..Len(x)
      BY <1>5, <1>6
    <2>. QED  BY <1>1, <1>5, <2>1, PrefixOfPrefix
  <1>8. ASSUME NEW n \in 0..Len(y) PROVE n <= Len(a) <=> n <= Len(b)
    <2>1. n \in 0..Len(x)
      BY <1>5, <1>6
    <2>2. SubSeq(x, 1, n) \in disk.dirs <=> n <= Len(a)
      BY <1>1, <2>1
    <2>3. SubSeq(y, 1, n) \in disk.dirs <=> n <= Len(b)
      BY <1>2
    <2>. QED  BY <1>7, <2>2, <2>3
  <1>9. Len(b) <= Len(a)
    BY <1>2, <1>6, <1>8
  <1>10. b = SubSeq(a, 1, Len(b))
    <2>1. Len(b) \in 0..Len(y) /\ Len(b) \in 0..Len(a) /\ Len(a) \in 0..Len(x)
      BY <1>1, <1>2, <1>6, <1>9
    <2>2. b = SubSeq(x, 1, Len(b))
      BY SMTT(60), <1>2, <1>7, <2>1
    <2>3. SubSeq(SubSeq(x, 1, Len(a)), 1, Len(b)) = SubSeq(x, 1, Len(b))
      BY <1>1, <2>1, PrefixOfPrefix
    <2>. QED  BY <1>1, <2>2, <2>3
  <1>11. b \in Ancestors(l)
    <2>1. Len(b) \in 0..Len(a)
      BY <1>6, <1>9
    <2>. QED  BY <1>3, <1>10, <2>1
  <1>12. ASSUME ~Exists(r) PROVE Unproven(l, r)
    <2>1. Len(b) + 1 \in 0..Len(y) /\ ~(Len(b) + 1 <= Len(b))
      BY <1>2, <1>6, <1>12
    <2>2. ~(Len(b) + 1 <= Len(a))
      BY <1>8, <2>1
    <2>3. Len(a) = Len(b) /\ Len(a) # Len(x)
      BY <1>5, <1>6, <1>9, <2>1, <2>2
    <2>4. a = b
      BY <1>1, <1>10, <2>3, WholeIsPrefix
    <2>. QED  BY <1>1, <1>4, <1>12, <2>3, <2>4
  <1>. QED  BY <1>11, <1>12 DEF l, r, b

\* What exists among the ancestors of a path is where that path is, or above.
LEMMA SeenIsMeeting ==
  ASSUME NEW names, NEW disk, DiskOK(disk, names), NEW p \in Seq(names), NEW q \in Seq(names),
         Exists(Physical(disk, q)),
         Physical(disk, q).anchor \in Ancestors(Physical(disk, p))
  PROVE  /\ Len(PlaceOf(disk, q)) <= Len(PlaceOf(disk, p))
         /\ SubSeq(PlaceOf(disk, p), 1, Len(PlaceOf(disk, q))) = PlaceOf(disk, q)
  <1>. DEFINE l == Physical(disk, p)  r == Physical(disk, q)
              x == PlaceOf(disk, p)  y == PlaceOf(disk, q)
              a == l.anchor  b == r.anchor
  <1>1. /\ x \in Seq(names) /\ a \in Seq(names) /\ Len(a) <= Len(x)
        /\ a = SubSeq(x, 1, Len(a))
    BY PlaceFacts
  <1>2. /\ y \in Seq(names) /\ b \in Seq(names)
        /\ b = SubSeq(y, 1, Len(b)) /\ Len(y) = Len(b)
    BY PlaceFacts
  <1>3. \E n \in 0..Len(a) : b = SubSeq(a, 1, n)
    BY DEF Ancestors
  <1>. HIDE DEF l, r, x, y, a, b
  <1>4. PICK n \in 0..Len(a) : b = SubSeq(a, 1, n)
    BY <1>3
  <1>5. Len(a) \in 0..Len(x) /\ Len(x) \in Nat /\ Len(a) \in Nat
    BY <1>1
  <1>6. Len(b) = n
    BY <1>1, <1>4, PrefixFacts
  <1>7. b = y
    BY <1>2, WholeIsPrefix
  <1>8. b = SubSeq(x, 1, n)
    BY <1>1, <1>4, <1>5, PrefixOfPrefix
  <1>9. Len(y) <= Len(x) /\ SubSeq(x, 1, Len(y)) = y
    BY <1>5, <1>6, <1>7, <1>8
  <1>. QED  BY <1>9 DEF x, y

\* The check sees every two places that meet, but two that are missing below one
\* directory, and sees no others.
LEMMA PlacesMeet ==
  ASSUME NEW names, NEW disk, DiskOK(disk, names), NEW p \in Seq(names), NEW q \in Seq(names)
  PROVE  LET l == Physical(disk, p)  r == Physical(disk, q)
             meet == Overlap(PlaceOf(disk, p), PlaceOf(disk, q))
         IN /\ meet => PhysicalOverlap(l, r) \/ Unproven(l, r)
            /\ PhysicalOverlap(l, r) => meet
  <1>. DEFINE l == Physical(disk, p)  r == Physical(disk, q)
              x == PlaceOf(disk, p)  y == PlaceOf(disk, q)
  <1>1. x \in Seq(names) /\ y \in Seq(names)
    BY PlaceFacts
  <1>2. Overlap(x, y) <=> \/ Len(y) <= Len(x) /\ SubSeq(x, 1, Len(y)) = y
                          \/ Len(x) <= Len(y) /\ SubSeq(y, 1, Len(x)) = x
    <2>. HIDE DEF x, y
    <2>. QED  BY <1>1, OverlapIsPrefix
  <1>3. Len(y) <= Len(x) /\ SubSeq(x, 1, Len(y)) = y
          => (Exists(r) /\ r.anchor \in Ancestors(l)) \/ Unproven(l, r)
    BY MeetingIsSeen
  <1>4. Len(x) <= Len(y) /\ SubSeq(y, 1, Len(x)) = x
          => (Exists(l) /\ l.anchor \in Ancestors(r)) \/ Unproven(r, l)
    BY MeetingIsSeen
  <1>5. Exists(r) /\ r.anchor \in Ancestors(l) => Len(y) <= Len(x) /\ SubSeq(x, 1, Len(y)) = y
    BY SeenIsMeeting
  <1>6. Exists(l) /\ l.anchor \in Ancestors(r) => Len(x) <= Len(y) /\ SubSeq(y, 1, Len(x)) = x
    BY SeenIsMeeting
  <1>7. Unproven(r, l) => Unproven(l, r)
    BY DEF Unproven
  <1>8. PhysicalOverlap(l, r) <=> \/ Exists(l) /\ l.anchor \in Ancestors(r)
                                  \/ Exists(r) /\ r.anchor \in Ancestors(l)
    BY DEF PhysicalOverlap
  <1>. HIDE DEF l, r, x, y
  <1>9. (Overlap(x, y) => PhysicalOverlap(l, r) \/ Unproven(l, r))
        /\ (PhysicalOverlap(l, r) => Overlap(x, y))
    BY <1>2, <1>3, <1>4, <1>5, <1>6, <1>7, <1>8
  <1>. QED  BY <1>9 DEF l, r, x, y

\* Of any disk and any named paths: what the commands accept never meets, however
\* links lead there, and of what does not meet only two paths that are both missing
\* below one directory are refused.
THEOREM PlacesAreApart ==
  ASSUME NEW names, NEW disk, DiskOK(disk, names),
         NEW named, \A i \in DOMAIN named : named[i].path \in Seq(names)
  PROVE  PlacesApart(disk, named)
  <1>. DEFINE place == [i \in DOMAIN named |-> PlaceOf(disk, named[i].path)]
              there == \A i \in DOMAIN named :
                         named[i].exists => Exists(Physical(disk, named[i].path))
              L(i) == Physical(disk, named[i].path)
  <1>1. ASSUME NEW i \in DOMAIN named, NEW j \in DOMAIN named
        PROVE  /\ Apart(disk, named[i].path, named[j].path) => ~Overlap(place[i], place[j])
               /\ ~Overlap(place[i], place[j]) /\ ~Overlap(named[i].path, named[j].path)
                    /\ ~Unproven(L(i), L(j)) => Apart(disk, named[i].path, named[j].path)
    <2>1. named[i].path \in Seq(names) /\ named[j].path \in Seq(names)
      OBVIOUS
    <2>2. /\ Overlap(place[i], place[j]) => PhysicalOverlap(L(i), L(j)) \/ Unproven(L(i), L(j))
          /\ PhysicalOverlap(L(i), L(j)) => Overlap(place[i], place[j])
      BY <2>1, PlacesMeet
    <2>. QED  BY <2>2 DEF Apart
  <1>2. PathsSeparate(disk, named) <=>
          /\ there
          /\ \A i, j \in DOMAIN named : i < j => Apart(disk, named[i].path, named[j].path)
    BY DEF PathsSeparate
  <1>. HIDE DEF place, there, L
  <1>3. PathsSeparate(disk, named)
          => ~\E i, j \in DOMAIN named : i < j /\ Overlap(place[i], place[j])
    BY <1>1, <1>2
  <1>4. /\ there /\ ~(\E i, j \in DOMAIN named : i < j /\ Overlap(place[i], place[j]))
        /\ ~(\E i, j \in DOMAIN named : i < j /\ Overlap(named[i].path, named[j].path))
        /\ ~(\E i, j \in DOMAIN named : i < j /\ Unproven(L(i), L(j)))
        => PathsSeparate(disk, named)
    BY <1>1, <1>2
  <1>. QED  BY <1>3, <1>4 DEF PlacesApart, place, there, L

-----------------------------------------------------------------------------
(* What does not depend on an order.                                       *)

\* A number that is in a set along with each number's successor is there for all.
LEMMA EachNumber ==
  ASSUME NEW F, 0 \in F, \A n \in Nat : n \in F => n + 1 \in F
  PROVE  Nat \subseteq F
  <1>. DEFINE T == Nat \ F
  <1>1. ASSUME T # {} PROVE FALSE
    <2>1. PICK k \in T : \A i \in T : k <= i
      <3>. HIDE DEF T
      <3>1. T \in SUBSET Nat
        BY DEF T
      <3>. QED  BY <1>1, <3>1, LeastIn
    <2>2. k - 1 \in Nat /\ k - 1 \notin T
      BY <2>1
    <2>3. (k - 1) + 1 \in F
      BY <2>2
    <2>. QED  BY <2>1, <2>3
  <1>. QED  BY <1>1

\* A family of sets that has the empty set, and with a set every set of one more
\* member, has every finite set.
LEMMA FiniteFamily ==
  ASSUME NEW S, IsFiniteSet(S), NEW F, {} \in F,
         \A T \in SUBSET S : \A x \in S \ T : T \in F => T \cup {x} \in F
  PROVE  S \in F
  <1>. DEFINE G == {n \in Nat : \A T \in SUBSET S : Cardinality(T) = n => T \in F}
  <1>1. \A T \in SUBSET S : IsFiniteSet(T) /\ Cardinality(T) \in Nat
    BY FS_Subset, FS_CardinalityType
  <1>2. 0 \in G
    <2>1. \A T \in SUBSET S : Cardinality(T) = 0 => T = {}
      BY <1>1, FS_EmptySet
    <2>. QED  BY <2>1
  <1>3. ASSUME NEW n \in Nat, n \in G PROVE n + 1 \in G
    <2>1. ASSUME NEW T \in SUBSET S, Cardinality(T) = n + 1 PROVE T \in F
      <3>1. PICK x : x \in T
        <4>1. Cardinality(T) # 0
          BY <2>1
        <4>. QED  BY <1>1, <4>1, FS_EmptySet
      <3>2. Cardinality(T \ {x}) = n
        <4>1. Cardinality(T \ {x}) = Cardinality(T) - 1
          BY <1>1, <3>1, FS_RemoveElement
        <4>. QED  BY <2>1, <4>1
      <3>3. T \ {x} \in F
        BY <1>3, <3>2
      <3>4. (T \ {x}) \cup {x} \in F
        BY <3>1, <3>3
      <3>5. (T \ {x}) \cup {x} = T
        BY <3>1
      <3>. QED  BY <3>4, <3>5
    <2>. QED  BY <2>1
  <1>4. Nat \subseteq G
    <2>. HIDE DEF G
    <2>. QED  BY <1>2, <1>3, EachNumber
  <1>5. Cardinality(S) \in G
    <2>. HIDE DEF G
    <2>. QED  BY <1>1, <1>4
  <1>. QED  BY <1>5

LEMMA PlacesFinite ==
  ASSUME NEW n \in Nat
  PROVE  IsFiniteSet(1..n) /\ Cardinality(1..n) = n
  <1>1. IsFiniteSet(1..n) /\ Cardinality(1..n) = IF 1 > n THEN 0 ELSE n - 1 + 1
    <2>1. 1 \in Int /\ n \in Int
      OBVIOUS
    <2>. QED  BY <2>1, FS_Interval, Zenon
  <1>. QED  BY <1>1

LEMMA MembersOf ==
  ASSUME NEW V, NEW s \in Seq(V)
  PROVE  Len(s) \in Nat /\ DOMAIN s = 1..Len(s) /\ \A i \in DOMAIN s : s[i] \in V
  OBVIOUS

----------------------------------------------------------------------------
(* Sums.                                                                   *)

Chosen(s) == CHOOSE x \in s : TRUE
Adding(f, g, s) == IF s = {} THEN 0 ELSE f[Chosen(s)] + g[s \ {Chosen(s)}]
Sums(f, g) == g = [s \in SUBSET DOMAIN f |-> Adding(f, g, s)]

LEMMA SumUnfolds ==
  ASSUME NEW f
  PROVE  SumFunction(f) = (CHOOSE g : Sums(f, g))[DOMAIN f]
  BY Zenon DEF SumFunction, SumFunctionOnSet, FoldFunctionOnSet, MapThenFoldSet, Sums,
               Adding, Chosen

LEMMA SumsExist ==
  ASSUME NEW f, IsFiniteSet(DOMAIN f)
  PROVE  \E g : Sums(f, g)
  <1>. DEFINE D == DOMAIN f
              Upto(n) == {s \in SUBSET D : Cardinality(s) <= n}
              Found(g, n) == g = [s \in Upto(n) |-> Adding(f, g, s)]
              G == {n \in Nat : \E g : Found(g, n)}
  <1>1. \A T \in SUBSET D : IsFiniteSet(T) /\ Cardinality(T) \in Nat
                            /\ Cardinality(T) <= Cardinality(D)
    BY FS_Subset, FS_CardinalityType
  <1>2. 0 \in G
    <2>. DEFINE g == [s \in Upto(0) |-> 0]
    <2>1. \A s \in Upto(0) : s = {}
      BY <1>1, FS_EmptySet
    <2>2. \A s \in Upto(0) : g[s] = Adding(f, g, s)
      BY <2>1 DEF Adding
    <2>3. g = [s \in Upto(0) |-> g[s]]
      OBVIOUS
    <2>4. g = [s \in Upto(0) |-> Adding(f, g, s)]
      <3>. HIDE DEF g, Upto
      <3>. QED  BY <2>2, <2>3, Zenon
    <2>. QED  BY <2>4
  <1>3. ASSUME NEW n \in Nat, n \in G PROVE n + 1 \in G
    <2>1. PICK g : Found(g, n)
      BY <1>3
    <2>. DEFINE h == [s \in Upto(n + 1) |-> Adding(f, g, s)]
    <2>2. \A s \in Upto(n) : g[s] = Adding(f, g, s) /\ s \in Upto(n + 1)
      <3>1. \A s \in Upto(n) : g[s] = Adding(f, g, s)
        <4>. HIDE DEF Upto
        <4>. QED  BY <2>1, Zenon
      <3>2. \A s \in Upto(n) : s \in Upto(n + 1)
        BY <1>1
      <3>. QED  BY <3>1, <3>2, Zenon
    <2>3. \A s \in Upto(n) : h[s] = g[s]
      <3>. HIDE DEF Upto
      <3>. QED  BY <2>2
    <2>4. \A s \in Upto(n + 1) : s = {} \/ s \ {Chosen(s)} \in Upto(n)
      <3>. SUFFICES ASSUME NEW s \in Upto(n + 1), s # {} PROVE s \ {Chosen(s)} \in Upto(n)
        OBVIOUS
      <3>1. Chosen(s) \in s
        BY DEF Chosen
      <3>2. Cardinality(s \ {Chosen(s)}) = Cardinality(s) - 1
        BY <1>1, <3>1, FS_RemoveElement
      <3>. QED  BY <1>1, <3>2
    <2>5. \A s \in Upto(n + 1) : Adding(f, g, s) = Adding(f, h, s)
      <3>. HIDE DEF Upto, h
      <3>. QED  BY <2>3, <2>4 DEF Adding
    <2>6. Found(h, n + 1)
      <3>1. h = [s \in Upto(n + 1) |-> Adding(f, g, s)]
        OBVIOUS
      <3>. HIDE DEF h, Upto
      <3>. QED  BY <2>5, <3>1, Zenon
    <2>. QED
      <3>1. n + 1 \in Nat
        OBVIOUS
      <3>. HIDE DEF Found
      <3>. QED  BY <2>6, <3>1, Zenon
  <1>4. Nat \subseteq G
    <2>. HIDE DEF G
    <2>. QED  BY <1>2, <1>3, EachNumber
  <1>5. PICK g : Found(g, Cardinality(D))
    <2>1. Cardinality(D) \in G
      <3>. HIDE DEF G
      <3>. QED  BY <1>1, <1>4
    <2>. QED  BY <2>1
  <1>6. Upto(Cardinality(D)) = SUBSET D
    BY <1>1
  <1>. HIDE DEF Upto
  <1>7. Sums(f, g)
    BY <1>5, <1>6, Zenon DEF Sums
  <1>. QED  BY <1>7

\* The sum over a part is the same in every sum that has the part.
LEMMA SumsAgree ==
  ASSUME NEW S, IsFiniteSet(S), NEW f, NEW g, NEW p, NEW q,
         S \subseteq DOMAIN f, S \subseteq DOMAIN p, \A x \in S : f[x] = p[x],
         Sums(f, g), Sums(p, q)
  PROVE  g[S] = q[S]
  <1>. DEFINE G == {n \in Nat : \A T \in SUBSET S : Cardinality(T) <= n => g[T] = q[T]}
  <1>1. \A T \in SUBSET S : IsFiniteSet(T) /\ Cardinality(T) \in Nat
    BY FS_Subset, FS_CardinalityType
  <1>2. \A T \in SUBSET S : g[T] = Adding(f, g, T) /\ q[T] = Adding(p, q, T)
    <2>1. \A T \in SUBSET S : T \in SUBSET DOMAIN f /\ T \in SUBSET DOMAIN p
      OBVIOUS
    <2>2. \A T \in SUBSET DOMAIN f : g[T] = Adding(f, g, T)
      BY Zenon DEF Sums
    <2>3. \A T \in SUBSET DOMAIN p : q[T] = Adding(p, q, T)
      BY Zenon DEF Sums
    <2>. QED  BY <2>1, <2>2, <2>3, Zenon
  <1>3. \A T \in SUBSET S : Cardinality(T) = 0 => g[T] = q[T]
    <2>1. \A T \in SUBSET S : Cardinality(T) = 0 => T = {}
      BY <1>1, FS_EmptySet
    <2>. QED  BY <1>2, <2>1, Zenon DEF Adding
  <1>4. 0 \in G
    BY <1>1, <1>3
  <1>5. ASSUME NEW n \in Nat, n \in G PROVE n + 1 \in G
    <2>1. ASSUME NEW T \in SUBSET S, T # {}, Cardinality(T) <= n + 1 PROVE g[T] = q[T]
      <3>1. Chosen(T) \in T
        BY <2>1 DEF Chosen
      <3>2. Cardinality(T \ {Chosen(T)}) = Cardinality(T) - 1
        BY <1>1, <3>1, FS_RemoveElement
      <3>3. T \ {Chosen(T)} \in SUBSET S /\ Cardinality(T \ {Chosen(T)}) <= n
        BY <1>1, <2>1, <3>2
      <3>4. g[T \ {Chosen(T)}] = q[T \ {Chosen(T)}]
        BY <1>5, <3>3
      <3>5. f[Chosen(T)] = p[Chosen(T)]
        BY <3>1
      <3>. QED  BY <1>2, <2>1, <3>4, <3>5 DEF Adding
    <2>2. g[{}] = q[{}]
      BY <1>2, Zenon DEF Adding
    <2>. QED  BY <2>1, <2>2
  <1>6. Nat \subseteq G
    <2>. HIDE DEF G
    <2>. QED  BY <1>4, <1>5, EachNumber
  <1>7. Cardinality(S) \in G
    <2>. HIDE DEF G
    <2>. QED  BY <1>1, <1>6
  <1>. QED  BY <1>1, <1>7

Part(f, S) == [x \in S |-> f[x]]

\* A sum over a finite set is a number, that of no members is zero, and any member
\* may be taken out of it first.
LEMMA SumFacts ==
  ASSUME NEW S, IsFiniteSet(S), NEW f \in [S -> Int]
  PROVE  /\ SumFunction(f) \in Int
         /\ S = {} => SumFunction(f) = 0
         /\ \A x \in S : SumFunction(f) = f[x] + SumFunction(Part(f, S \ {x}))
  <1>. DEFINE g == CHOOSE h : Sums(f, h)
              Right(T) == g[T] \in Int /\ \A x \in T : g[T] = f[x] + g[T \ {x}]
              G == {n \in Nat : \A T \in SUBSET S : Cardinality(T) <= n => Right(T)}
  <1>1. \A T \in SUBSET S : IsFiniteSet(T) /\ Cardinality(T) \in Nat
    BY FS_Subset, FS_CardinalityType
  <1>2. DOMAIN f = S
    OBVIOUS
  <1>3. Sums(f, g)
    BY <1>2, SumsExist
  <1>. HIDE DEF g
  <1>4. \A T \in SUBSET S : g[T] = Adding(f, g, T)
    BY <1>2, <1>3, Zenon DEF Sums
  <1>5. Right({}) /\ g[{}] = 0
    <2>1. g[{}] = 0
      BY <1>4, Zenon DEF Adding
    <2>. QED  BY <2>1
  <1>6. 0 \in G
    <2>1. \A T \in SUBSET S : Cardinality(T) <= 0 => T = {}
      BY <1>1, FS_EmptySet
    <2>. HIDE DEF Right
    <2>. QED  BY <1>5, <2>1
  <1>7. ASSUME NEW n \in Nat, n \in G PROVE n + 1 \in G
    <2>1. ASSUME NEW T \in SUBSET S, Cardinality(T) <= n + 1, T # {}
          PROVE  Right(T)
      <3>. DEFINE c == Chosen(T)
      <3>1. c \in T /\ c \in S
        BY <2>1 DEF Chosen
      <3>2. g[T] = f[c] + g[T \ {c}]
        BY <1>4, <2>1 DEF Adding
      <3>. HIDE DEF c
      <3>3. \A x \in T : T \ {x} \in SUBSET S /\ Cardinality(T \ {x}) <= n
        <4>1. \A x \in T : Cardinality(T \ {x}) = Cardinality(T) - 1
          BY <1>1, FS_RemoveElement
        <4>. QED  BY <1>1, <2>1, <4>1
      <3>4. \A x \in T : Right(T \ {x})
        <4>. HIDE DEF Right
        <4>. QED  BY <1>7, <3>3
      <3>5. f[c] \in Int /\ g[T \ {c}] \in Int
        BY <3>1, <3>4
      <3>6. ASSUME NEW x \in T, x # c PROVE g[T] = f[x] + g[T \ {x}]
        <4>1. g[T \ {c}] = f[x] + g[(T \ {c}) \ {x}]
          BY <3>1, <3>4, <3>6
        <4>2. g[T \ {x}] = f[c] + g[(T \ {x}) \ {c}]
          BY <3>1, <3>4, <3>6
        <4>3. (T \ {c}) \ {x} = (T \ {x}) \ {c}
          OBVIOUS
        <4>4. f[x] \in Int /\ f[c] \in Int
          BY <3>1
        <4>. DEFINE R == (T \ {x}) \ {c}
        <4>5. g[R] \in Int
          <5>1. IsFiniteSet(T \ {x}) /\ R \in SUBSET (T \ {x}) /\ R \in SUBSET S
            BY <1>1, <3>3
          <5>2. Cardinality(R) <= Cardinality(T \ {x})
            BY <5>1, FS_Subset
          <5>3. Cardinality(R) <= n
            BY <1>1, <3>3, <5>1, <5>2
          <5>. HIDE DEF R
          <5>4. Right(R)
            <6>. HIDE DEF Right
            <6>. QED  BY <1>7, <5>1, <5>3
          <5>. QED  BY <5>4
        <4>6. g[(T \ {c}) \ {x}] = g[R]
          BY <4>3, Zenon
        <4>. HIDE DEF R
        <4>. QED  BY <3>2, <4>1, <4>2, <4>4, <4>5, <4>6 DEF R
      <3>7. g[T] \in Int
        <4>1. \A a, b \in Int : a + b \in Int
          OBVIOUS
        <4>. QED  BY <3>2, <3>5, <4>1, Zenon
      <3>. QED  BY <3>2, <3>6, <3>7, Zenon
    <2>2. \A T \in SUBSET S : Cardinality(T) <= n + 1 => Right(T)
      <3>. HIDE DEF Right
      <3>. QED  BY <1>5, <2>1
    <2>. HIDE DEF Right
    <2>. QED  BY <2>2
  <1>8. Nat \subseteq G
    <2>. HIDE DEF G
    <2>. QED  BY <1>6, <1>7, EachNumber
  <1>9. Right(S)
    <2>1. Cardinality(S) \in G
      <3>. HIDE DEF G
      <3>. QED  BY <1>1, <1>8
    <2>. HIDE DEF Right
    <2>. QED  BY <1>1, <2>1
  <1>10. SumFunction(f) = g[S]
    BY <1>2, SumUnfolds DEF g
  <1>11. ASSUME NEW x \in S PROVE SumFunction(Part(f, S \ {x})) = g[S \ {x}]
    <2>. DEFINE p == Part(f, S \ {x})
                q == CHOOSE h : Sums(p, h)
    <2>1. DOMAIN p = S \ {x} /\ IsFiniteSet(S \ {x})
      BY <1>1 DEF Part
    <2>2. Sums(p, q)
      BY <2>1, SumsExist
    <2>3. SumFunction(p) = q[S \ {x}]
      BY <2>1, SumUnfolds
    <2>4. \A y \in S \ {x} : p[y] = f[y]
      BY DEF Part
    <2>. HIDE DEF p, q
    <2>5. g[S \ {x}] = q[S \ {x}]
      BY <1>2, <1>3, <2>1, <2>2, <2>4, SumsAgree
    <2>. QED  BY <2>3, <2>5 DEF p
  <1>. QED  BY <1>5, <1>9, <1>10, <1>11

\* The sums over the parts of a set, one member more at a time.
PartSums(S, f) ==
  /\ Part(f, S) = f
  /\ SumFunction(Part(f, {})) = 0
  /\ \A T \in SUBSET S : SumFunction(Part(f, T)) \in Int
  /\ \A T \in SUBSET S : \A x \in S \ T :
       SumFunction(Part(f, T \cup {x})) = f[x] + SumFunction(Part(f, T))

LEMMA SumParts ==
  ASSUME NEW S, IsFiniteSet(S), NEW f \in [S -> Int]
  PROVE  PartSums(S, f)
  <1>1. \A T \in SUBSET S : IsFiniteSet(T) /\ Part(f, T) \in [T -> Int]
    BY FS_Subset DEF Part
  <1>2. \A T \in SUBSET S : SumFunction(Part(f, T)) \in Int
    BY <1>1, SumFacts
  <1>3. SumFunction(Part(f, {})) = 0
    BY <1>1, SumFacts
  <1>4. ASSUME NEW T \in SUBSET S, NEW x \in S \ T
        PROVE  SumFunction(Part(f, T \cup {x})) = f[x] + SumFunction(Part(f, T))
    <2>. DEFINE U == T \cup {x}
    <2>1. U \in SUBSET S /\ x \in U
      OBVIOUS
    <2>2. Part(Part(f, U), U \ {x}) = Part(f, T) /\ Part(f, U)[x] = f[x]
      BY <2>1 DEF Part
    <2>. HIDE DEF U
    <2>3. SumFunction(Part(f, U)) = Part(f, U)[x] + SumFunction(Part(Part(f, U), U \ {x}))
      BY <1>1, <2>1, SumFacts
    <2>. QED  BY <2>2, <2>3 DEF U
  <1>5. Part(f, S) = f
    BY DEF Part
  <1>. QED  BY <1>2, <1>3, <1>4, <1>5, Zenon DEF PartSums

LEMMA SumPlus ==
  ASSUME NEW S, IsFiniteSet(S), NEW f \in [S -> Int], NEW g \in [S -> Int],
         NEW h \in [S -> Int], \A x \in S : h[x] = f[x] + g[x]
  PROVE  SumFunction(h) = SumFunction(f) + SumFunction(g)
  <1>. DEFINE Sf(T) == SumFunction(Part(f, T))
              Sg(T) == SumFunction(Part(g, T))
              Sh(T) == SumFunction(Part(h, T))
              F == {T \in SUBSET S : Sh(T) = Sf(T) + Sg(T)}
  <1>1. PartSums(S, f) /\ PartSums(S, g) /\ PartSums(S, h)
    BY SumParts
  <1>2. /\ Part(f, S) = f /\ Part(g, S) = g /\ Part(h, S) = h
        /\ Sf({}) = 0 /\ Sg({}) = 0 /\ Sh({}) = 0
    BY <1>1, Zenon DEF PartSums
  <1>3. \A T \in SUBSET S : Sf(T) \in Int /\ Sg(T) \in Int /\ Sh(T) \in Int
    BY <1>1, Zenon DEF PartSums
  <1>4. \A T \in SUBSET S : \A x \in S \ T :
          /\ Sf(T \cup {x}) = f[x] + Sf(T) /\ Sg(T \cup {x}) = g[x] + Sg(T)
          /\ Sh(T \cup {x}) = h[x] + Sh(T)
    BY <1>1, Zenon DEF PartSums
  <1>. HIDE DEF Sf, Sg, Sh
  <1>5. {} \in F
    BY <1>2
  <1>6. \A T \in SUBSET S : \A x \in S \ T : T \in F => T \cup {x} \in F
    <2>. SUFFICES ASSUME NEW T \in SUBSET S, NEW x \in S \ T, T \in F
                  PROVE  Sh(T \cup {x}) = Sf(T \cup {x}) + Sg(T \cup {x})
      OBVIOUS
    <2>1. Sh(T) = Sf(T) + Sg(T) /\ h[x] = f[x] + g[x] /\ f[x] \in Int /\ g[x] \in Int
      OBVIOUS
    <2>2. /\ Sf(T \cup {x}) = f[x] + Sf(T) /\ Sg(T \cup {x}) = g[x] + Sg(T)
          /\ Sh(T \cup {x}) = h[x] + Sh(T)
      BY <1>4
    <2>. QED  BY <1>3, <2>1, <2>2
  <1>7. S \in F
    <2>. HIDE DEF F
    <2>. QED  BY <1>5, <1>6, FiniteFamily
  <1>8. Sh(S) = Sf(S) + Sg(S)
    BY <1>7
  <1>. QED  BY <1>2, <1>8 DEF Sf, Sg, Sh

LEMMA SumScale ==
  ASSUME NEW S, IsFiniteSet(S), NEW f \in [S -> Int], NEW k \in Int,
         NEW h \in [S -> Int], \A x \in S : h[x] = k * f[x]
  PROVE  SumFunction(h) = k * SumFunction(f)
  <1>. DEFINE Sf(T) == SumFunction(Part(f, T))
              Sh(T) == SumFunction(Part(h, T))
              F == {T \in SUBSET S : Sh(T) = k * Sf(T)}
  <1>1. PartSums(S, f) /\ PartSums(S, h)
    BY SumParts
  <1>2. /\ Part(f, S) = f /\ Part(h, S) = h /\ Sf({}) = 0 /\ Sh({}) = 0
    BY <1>1, Zenon DEF PartSums
  <1>3. \A T \in SUBSET S : Sf(T) \in Int /\ Sh(T) \in Int
    BY <1>1, Zenon DEF PartSums
  <1>4. \A T \in SUBSET S : \A x \in S \ T :
          Sf(T \cup {x}) = f[x] + Sf(T) /\ Sh(T \cup {x}) = h[x] + Sh(T)
    BY <1>1, Zenon DEF PartSums
  <1>. HIDE DEF Sf, Sh
  <1>5. {} \in F
    BY <1>2
  <1>6. \A T \in SUBSET S : \A x \in S \ T : T \in F => T \cup {x} \in F
    <2>. SUFFICES ASSUME NEW T \in SUBSET S, NEW x \in S \ T, T \in F
                  PROVE  Sh(T \cup {x}) = k * Sf(T \cup {x})
      OBVIOUS
    <2>1. Sh(T) = k * Sf(T) /\ h[x] = k * f[x] /\ f[x] \in Int
      OBVIOUS
    <2>2. Sf(T \cup {x}) = f[x] + Sf(T) /\ Sh(T \cup {x}) = h[x] + Sh(T)
      BY <1>4
    <2>3. \A a, b \in Int : k * (a + b) = k * a + k * b
      OBVIOUS
    <2>. QED  BY <1>3, <2>1, <2>2, <2>3
  <1>7. S \in F
    <2>. HIDE DEF F
    <2>. QED  BY <1>5, <1>6, FiniteFamily
  <1>8. Sh(S) = k * Sf(S)
    BY <1>7
  <1>. QED  BY <1>2, <1>8 DEF Sf, Sh

LEMMA SumOfOne ==
  ASSUME NEW S, IsFiniteSet(S), NEW k \in Int, NEW f \in [S -> Int],
         \A x \in S : f[x] = k
  PROVE  SumFunction(f) = k * Cardinality(S)
  <1>. DEFINE Sf(T) == SumFunction(Part(f, T))
              F == {T \in SUBSET S : Sf(T) = k * Cardinality(T)}
  <1>1. PartSums(S, f)
    BY SumParts
  <1>2. Part(f, S) = f /\ Sf({}) = 0
    BY <1>1, Zenon DEF PartSums
  <1>3. \A T \in SUBSET S : Sf(T) \in Int
    BY <1>1, Zenon DEF PartSums
  <1>4. \A T \in SUBSET S : \A x \in S \ T : Sf(T \cup {x}) = f[x] + Sf(T)
    BY <1>1, Zenon DEF PartSums
  <1>. HIDE DEF Sf
  <1>5. {} \in F
    BY <1>2, FS_EmptySet
  <1>6. \A T \in SUBSET S : \A x \in S \ T : T \in F => T \cup {x} \in F
    <2>. SUFFICES ASSUME NEW T \in SUBSET S, NEW x \in S \ T, T \in F
                  PROVE  Sf(T \cup {x}) = k * Cardinality(T \cup {x})
      OBVIOUS
    <2>1. Sf(T \cup {x}) = k + k * Cardinality(T)
      BY <1>4
    <2>2. Cardinality(T) \in Nat /\ Cardinality(T \cup {x}) = Cardinality(T) + 1
      BY FS_Subset, FS_CardinalityType, FS_AddElement
    <2>3. \A n \in Nat : k + k * n = k * (n + 1)
      OBVIOUS
    <2>. QED  BY <2>1, <2>2, <2>3
  <1>7. S \in F
    <2>. HIDE DEF F
    <2>. QED  BY <1>5, <1>6, FiniteFamily
  <1>. QED  BY <1>2, <1>7 DEF Sf

\* The larger the parts the larger the sum.
LEMMA SumMonotone ==
  ASSUME NEW S, IsFiniteSet(S), NEW f \in [S -> Int], NEW g \in [S -> Int],
         \A x \in S : f[x] <= g[x]
  PROVE  SumFunction(f) <= SumFunction(g)
  <1>. DEFINE Sf(T) == SumFunction(Part(f, T))
              Sg(T) == SumFunction(Part(g, T))
              F == {T \in SUBSET S : Sf(T) <= Sg(T)}
  <1>1. PartSums(S, f) /\ PartSums(S, g)
    BY SumParts
  <1>2. Part(f, S) = f /\ Part(g, S) = g /\ Sf({}) = 0 /\ Sg({}) = 0
    BY <1>1, Zenon DEF PartSums
  <1>3. \A T \in SUBSET S : Sf(T) \in Int /\ Sg(T) \in Int
    BY <1>1, Zenon DEF PartSums
  <1>4. \A T \in SUBSET S : \A x \in S \ T :
          Sf(T \cup {x}) = f[x] + Sf(T) /\ Sg(T \cup {x}) = g[x] + Sg(T)
    BY <1>1, Zenon DEF PartSums
  <1>. HIDE DEF Sf, Sg
  <1>5. {} \in F
    BY <1>2
  <1>6. \A T \in SUBSET S : \A x \in S \ T : T \in F => T \cup {x} \in F
    <2>. SUFFICES ASSUME NEW T \in SUBSET S, NEW x \in S \ T, T \in F
                  PROVE  Sf(T \cup {x}) <= Sg(T \cup {x})
      OBVIOUS
    <2>1. Sf(T) <= Sg(T) /\ f[x] <= g[x] /\ f[x] \in Int /\ g[x] \in Int
      OBVIOUS
    <2>2. Sf(T \cup {x}) = f[x] + Sf(T) /\ Sg(T \cup {x}) = g[x] + Sg(T)
      BY <1>4
    <2>. QED  BY <1>3, <2>1, <2>2
  <1>7. S \in F
    <2>. HIDE DEF F
    <2>. QED  BY <1>5, <1>6, FiniteFamily
  <1>. QED  BY <1>2, <1>7 DEF Sf, Sg

LEMMA SumNat ==
  ASSUME NEW S, IsFiniteSet(S), NEW f \in [S -> Nat]
  PROVE  SumFunction(f) \in Nat
  <1>. DEFINE zero == [x \in S |-> 0]
  <1>1. f \in [S -> Int] /\ zero \in [S -> Int] /\ \A x \in S : zero[x] = 0
    OBVIOUS
  <1>2. \A x \in S : zero[x] <= f[x]
    OBVIOUS
  <1>. HIDE DEF zero
  <1>3. SumFunction(zero) = 0 * Cardinality(S) /\ Cardinality(S) \in Nat
    BY <1>1, SumOfOne, FS_CardinalityType
  <1>4. SumFunction(zero) <= SumFunction(f)
    BY <1>1, <1>2, SumMonotone
  <1>5. SumFunction(f) \in Int
    BY <1>1, SumFacts
  <1>. QED  BY <1>3, <1>4, <1>5

\* The sum over two parts that have nothing in common.
LEMMA SumUnion ==
  ASSUME NEW S, IsFiniteSet(S), NEW f \in [S -> Int],
         NEW T \in SUBSET S, NEW U \in SUBSET S, T \cap U = {}
  PROVE  SumFunction(Part(f, T \cup U)) = SumFunction(Part(f, T)) + SumFunction(Part(f, U))
  <1>. DEFINE Sf(W) == SumFunction(Part(f, W))
              F == {W \in SUBSET U : Sf(T \cup W) = Sf(T) + Sf(W)}
  <1>1. PartSums(S, f)
    BY SumParts
  <1>2. Sf({}) = 0
    BY <1>1, Zenon DEF PartSums
  <1>3. \A W \in SUBSET S : Sf(W) \in Int
    BY <1>1, Zenon DEF PartSums
  <1>4. \A W \in SUBSET S : \A x \in S \ W : Sf(W \cup {x}) = f[x] + Sf(W)
    BY <1>1, Zenon DEF PartSums
  <1>. HIDE DEF Sf
  <1>5. {} \in F
    <2>1. T \cup {} = T /\ Sf(T) \in Int
      BY <1>3
    <2>. QED  BY <1>2, <2>1
  <1>6. \A W \in SUBSET U : \A x \in U \ W : W \in F => W \cup {x} \in F
    <2>. SUFFICES ASSUME NEW W \in SUBSET U, NEW x \in U \ W, W \in F
                  PROVE  Sf(T \cup (W \cup {x})) = Sf(T) + Sf(W \cup {x})
      OBVIOUS
    <2>1. Sf(T \cup W) = Sf(T) + Sf(W) /\ f[x] \in Int
      OBVIOUS
    <2>2. /\ T \cup (W \cup {x}) = (T \cup W) \cup {x} /\ x \in S \ (T \cup W)
          /\ T \cup W \in SUBSET S /\ x \in S \ W /\ W \in SUBSET S
      OBVIOUS
    <2>3. Sf((T \cup W) \cup {x}) = f[x] + Sf(T \cup W) /\ Sf(W \cup {x}) = f[x] + Sf(W)
      BY <1>4, <2>2
    <2>4. Sf(T \cup (W \cup {x})) = f[x] + (Sf(T) + Sf(W))
      BY <2>1, <2>2, <2>3, Zenon
    <2>5. Sf(T) \in Int /\ Sf(W) \in Int
      BY <1>3, <2>2
    <2>. QED  BY <2>1, <2>3, <2>4, <2>5
  <1>7. U \in F
    <2>1. IsFiniteSet(U)
      BY FS_Subset
    <2>. HIDE DEF F
    <2>. QED  BY <1>5, <1>6, <2>1, FiniteFamily
  <1>. QED  BY <1>7 DEF Sf

\* The members of a sum may go by other names.
Renamed(S, T, b, f, h) ==
  /\ b \in Bijection(S, T) /\ f \in [T -> Int] /\ h \in [S -> Int]
  /\ \A x \in S : h[x] = f[b[x]]

LEMMA SumReindex ==
  ASSUME NEW S, IsFiniteSet(S), NEW T, NEW b, NEW f, NEW h, Renamed(S, T, b, f, h)
  PROVE  IsFiniteSet(T) /\ SumFunction(h) = SumFunction(f)
  <1>. DEFINE Image(U) == {b[x] : x \in U}
              Sf(W) == SumFunction(Part(f, W))
              Sh(W) == SumFunction(Part(h, W))
              F == {U \in SUBSET S : Sh(U) = Sf(Image(U))}
  <1>0. /\ b \in Bijection(S, T) /\ f \in [T -> Int] /\ h \in [S -> Int]
        /\ \A x \in S : h[x] = f[b[x]]
    BY DEF Renamed
  <1>1. IsFiniteSet(T)
    BY <1>0, FS_Bijection DEF ExistsBijection
  <1>2. /\ b \in [S -> T] /\ Image(S) = T
        /\ \A x, y \in S : b[x] = b[y] => x = y
    BY <1>0 DEF Bijection, Injection, Surjection,
                                 IsInjective
  <1>3. PartSums(S, h) /\ PartSums(T, f)
    BY <1>0, <1>1, SumParts
  <1>4. Part(h, S) = h /\ Part(f, T) = f /\ Sf({}) = 0 /\ Sh({}) = 0
    BY <1>3, Zenon DEF PartSums
  <1>5. \A W \in SUBSET S : \A x \in S \ W : Sh(W \cup {x}) = h[x] + Sh(W)
    BY <1>3, Zenon DEF PartSums
  <1>6. \A W \in SUBSET T : \A x \in T \ W : Sf(W \cup {x}) = f[x] + Sf(W)
    BY <1>3, Zenon DEF PartSums
  <1>. HIDE DEF Sf, Sh
  <1>7. {} \in F
    <2>1. Image({}) = {}
      OBVIOUS
    <2>. QED  BY <1>4, <2>1
  <1>8. \A W \in SUBSET S : \A x \in S \ W : W \in F => W \cup {x} \in F
    <2>. SUFFICES ASSUME NEW W \in SUBSET S, NEW x \in S \ W, W \in F
                  PROVE  Sh(W \cup {x}) = Sf(Image(W \cup {x}))
      OBVIOUS
    <2>1. Image(W) \in SUBSET T /\ b[x] \in T \ Image(W)
      BY <1>2
    <2>2. Image(W \cup {x}) = Image(W) \cup {b[x]}
      OBVIOUS
    <2>3. Sh(W) = Sf(Image(W)) /\ h[x] = f[b[x]]
      BY <1>0
    <2>. HIDE DEF Image
    <2>4. Sf(Image(W) \cup {b[x]}) = f[b[x]] + Sf(Image(W))
      BY <1>6, <2>1
    <2>5. Sh(W \cup {x}) = h[x] + Sh(W)
      BY <1>5
    <2>. QED  BY <2>2, <2>3, <2>4, <2>5, Zenon
  <1>9. S \in F
    <2>. HIDE DEF F
    <2>. QED  BY <1>7, <1>8, FiniteFamily
  <1>10. Sh(S) = Sf(T)
    <2>. HIDE DEF Image
    <2>. QED  BY <1>2, <1>9
  <1>. QED  BY <1>1, <1>4, <1>10, Zenon DEF Sf, Sh

RowOf(f, B, a) == [b \in B |-> f[<<a, b>>]]
ColumnOf(f, A, b) == [a \in A |-> f[<<a, b>>]]

ByRows(A, B, f, r) ==
  /\ f \in [A \X B -> Int] /\ r \in [A -> Int]
  /\ \A a \in A : r[a] = SumFunction(RowOf(f, B, a))

ByColumns(A, B, f, c) ==
  /\ f \in [A \X B -> Int] /\ c \in [B -> Int]
  /\ \A b \in B : c[b] = SumFunction(ColumnOf(f, A, b))

\* The sum over pairs is that of the sums over the pairs of each first member.
LEMMA SumPairs ==
  ASSUME NEW A, IsFiniteSet(A), NEW B, IsFiniteSet(B), NEW f, NEW r, ByRows(A, B, f, r)
  PROVE  SumFunction(f) = SumFunction(r)
  <1>. DEFINE Sf(W) == SumFunction(Part(f, W))
              Sr(W) == SumFunction(Part(r, W))
              F == {U \in SUBSET A : Sr(U) = Sf(U \X B)}
  <1>0. /\ f \in [A \X B -> Int] /\ r \in [A -> Int]
        /\ \A a \in A : r[a] = SumFunction(RowOf(f, B, a))
    BY DEF ByRows
  <1>1. IsFiniteSet(A \X B)
    BY FS_Product
  <1>2. PartSums(A \X B, f) /\ PartSums(A, r)
    BY <1>0, <1>1, SumParts
  <1>3. Part(f, A \X B) = f /\ Part(r, A) = r /\ Sf({}) = 0 /\ Sr({}) = 0
    BY <1>2, Zenon DEF PartSums
  <1>4. \A W \in SUBSET A : \A x \in A \ W : Sr(W \cup {x}) = r[x] + Sr(W)
    BY <1>2, Zenon DEF PartSums
  <1>5. /\ \A W \in SUBSET A : Sr(W) \in Int
        /\ \A W \in SUBSET (A \X B) : Sf(W) \in Int
    BY <1>2, Zenon DEF PartSums
  <1>6. ASSUME NEW a \in A PROVE Sf({a} \X B) = r[a]
    <2>. DEFINE row == RowOf(f, B, a)
                named == [b \in B |-> <<a, b>>]
    <2>1. named \in Bijection(B, {a} \X B)
      <3>1. named \in [B -> {a} \X B] /\ \A b, c \in B : named[b] = named[c] => b = c
        OBVIOUS
      <3>2. \A p \in {a} \X B : \E b \in B : named[b] = p
        OBVIOUS
      <3>. HIDE DEF named
      <3>. QED  BY <3>1, <3>2 DEF Bijection, Injection, Surjection,
                                 IsInjective
    <2>2. Part(f, {a} \X B) \in [{a} \X B -> Int] /\ row \in [B -> Int]
      BY <1>0 DEF Part, RowOf
    <2>3. \A b \in B : row[b] = Part(f, {a} \X B)[named[b]]
      BY <1>0 DEF Part, RowOf
    <2>4. r[a] = SumFunction(row)
      BY <1>0
    <2>. HIDE DEF row, named
    <2>5. Renamed(B, {a} \X B, named, Part(f, {a} \X B), row)
      BY <2>1, <2>2, <2>3 DEF Renamed
    <2>6. SumFunction(row) = Sf({a} \X B)
      BY <2>5, SumReindex
    <2>. QED  BY <2>4, <2>6
  <1>7. \A W, V \in SUBSET (A \X B) : W \cap V = {} => Sf(W \cup V) = Sf(W) + Sf(V)
    BY <1>0, <1>1, SumUnion
  <1>. HIDE DEF Sf, Sr
  <1>8. {} \in F
    <2>1. {} \X B = {}
      OBVIOUS
    <2>. QED  BY <1>3, <2>1
  <1>9. \A W \in SUBSET A : \A x \in A \ W : W \in F => W \cup {x} \in F
    <2>. SUFFICES ASSUME NEW W \in SUBSET A, NEW x \in A \ W, W \in F
                  PROVE  Sr(W \cup {x}) = Sf((W \cup {x}) \X B)
      OBVIOUS
    <2>. DEFINE old == W \X B
                new == {x} \X B
    <2>1. /\ (W \cup {x}) \X B = old \cup new /\ old \cap new = {}
          /\ old \in SUBSET (A \X B) /\ new \in SUBSET (A \X B)
      OBVIOUS
    <2>2. Sr(W) = Sf(old)
      OBVIOUS
    <2>3. Sf(new) = r[x] /\ r[x] \in Int
      BY <1>0, <1>6
    <2>. HIDE DEF old, new
    <2>4. Sf(old \cup new) = Sf(old) + Sf(new) /\ Sf(old) \in Int /\ Sf(new) \in Int
      BY <1>5, <1>7, <2>1
    <2>5. Sr(W \cup {x}) = r[x] + Sr(W)
      BY <1>4
    <2>6. Sr(W \cup {x}) = Sf(new) + Sf(old)
      BY <2>2, <2>3, <2>5
    <2>7. Sf(new) + Sf(old) = Sf(old) + Sf(new)
      BY <2>4
    <2>. QED  BY <2>1, <2>4, <2>6, <2>7, Zenon
  <1>10. A \in F
    <2>. HIDE DEF F
    <2>. QED  BY <1>8, <1>9, FiniteFamily
  <1>. QED  BY <1>3, <1>10 DEF Sf, Sr

\* A table may be summed by its rows or by its columns.
LEMMA SumSwap ==
  ASSUME NEW A, IsFiniteSet(A), NEW B, IsFiniteSet(B), NEW m, NEW r, NEW c,
         ByRows(A, B, m, r), ByColumns(A, B, m, c)
  PROVE  SumFunction(r) = SumFunction(c)
  <1>. DEFINE n == [p \in B \X A |-> m[<<p[2], p[1]>>]]
              turned == [p \in B \X A |-> <<p[2], p[1]>>]
  <1>0. /\ m \in [A \X B -> Int] /\ c \in [B -> Int]
        /\ \A b \in B : c[b] = SumFunction(ColumnOf(m, A, b))
    BY DEF ByColumns
  <1>1. n \in [B \X A -> Int] /\ \A p \in B \X A : n[p] = m[turned[p]]
    BY <1>0
  <1>2. turned \in Bijection(B \X A, A \X B)
    <2>1. turned \in [B \X A -> A \X B]
      OBVIOUS
    <2>2. \A p, q \in B \X A : turned[p] = turned[q] => p = q
      OBVIOUS
    <2>3. \A q \in A \X B : \E p \in B \X A : turned[p] = q
      <3>. SUFFICES ASSUME NEW q \in A \X B
                    PROVE  \E p \in B \X A : turned[p] = q
        OBVIOUS
      <3>1. <<q[2], q[1]>> \in B \X A /\ turned[<<q[2], q[1]>>] = q
        OBVIOUS
      <3>. QED  BY <3>1, Zenon
    <2>. HIDE DEF turned
    <2>. QED  BY <2>1, <2>2, <2>3 DEF Bijection, Injection, Surjection,
                                 IsInjective
  <1>3. \A b \in B : RowOf(n, A, b) = ColumnOf(m, A, b)
    BY DEF RowOf, ColumnOf
  <1>. HIDE DEF n, turned
  <1>4. \A b \in B : c[b] = SumFunction(RowOf(n, A, b))
    BY <1>0, <1>3, Zenon
  <1>5. IsFiniteSet(B \X A)
    BY FS_Product
  <1>6. SumFunction(n) = SumFunction(m)
    <2>1. Renamed(B \X A, A \X B, turned, m, n)
      BY <1>0, <1>1, <1>2 DEF Renamed
    <2>. QED  BY <1>5, <2>1, SumReindex
  <1>7. SumFunction(m) = SumFunction(r)
    BY SumPairs
  <1>8. SumFunction(n) = SumFunction(c)
    <2>1. ByRows(B, A, n, c)
      BY <1>0, <1>1, <1>4 DEF ByRows
    <2>. QED  BY <2>1, SumPairs
  <1>. QED  BY <1>6, <1>7, <1>8

----------------------------------------------------------------------------
(* Recursion from place to place.                                          *)

Follows(g, lo, hi, a, step) ==
  g = [i \in lo..hi |-> IF i = lo THEN a ELSE step[i][g[i - 1]]]

LEMMA RecursionExists ==
  ASSUME NEW lo \in Int, NEW hi \in Int, NEW V, NEW a \in V, NEW step \in [lo..hi -> [V -> V]]
  PROVE  \E g \in [lo..hi -> V] : Follows(g, lo, hi, a, step)
  <1>. DEFINE Good(g, n) == /\ g \in [lo..(lo + n) -> V]
                            /\ \A i \in lo..(lo + n) :
                                 g[i] = IF i = lo THEN a ELSE step[i][g[i - 1]]
              F == {n \in Nat : lo + n <= hi => \E g : Good(g, n)}
  <1>1. 0 \in F
    <2>. DEFINE g == [i \in lo..(lo + 0) |-> a]
    <2>1. \A i \in lo..(lo + 0) : i = lo
      OBVIOUS
    <2>2. Good(g, 0)
      BY <2>1
    <2>. HIDE DEF Good
    <2>. QED  BY <2>2
  <1>2. ASSUME NEW n \in Nat, n \in F PROVE n + 1 \in F
    <2>. SUFFICES ASSUME lo + (n + 1) <= hi PROVE \E g : Good(g, n + 1)
      <3>. HIDE DEF Good
      <3>. QED  OBVIOUS
    <2>1. PICK g : Good(g, n)
      <3>1. lo + n <= hi
        OBVIOUS
      <3>. HIDE DEF Good
      <3>. QED  BY <1>2, <3>1
    <2>. DEFINE m == lo + (n + 1)
                h == [i \in lo..m |-> IF i = m THEN step[m][g[m - 1]] ELSE g[i]]
    <2>2. m \in lo..hi /\ m - 1 \in lo..(lo + n) /\ m # lo /\ m \in Int
      OBVIOUS
    <2>3. step[m][g[m - 1]] \in V
      BY <2>1, <2>2
    <2>4. /\ h \in [lo..m -> V] /\ h[m] = step[m][g[m - 1]] /\ h[m - 1] = g[m - 1]
          /\ \A i \in lo..(lo + n) : h[i] = g[i]
      <3>1. \A i \in lo..m : i # m => i \in lo..(lo + n)
        BY <2>2
      <3>2. \A i \in lo..(lo + n) : i \in lo..m /\ i # m
        BY <2>2
      <3>3. m \in lo..m
        BY <2>2
      <3>. HIDE DEF m
      <3>. QED  BY <2>1, <2>2, <2>3, <3>1, <3>2, <3>3
    <2>5. \A i \in lo..m : h[i] = IF i = lo THEN a ELSE step[i][h[i - 1]]
      <3>. HIDE DEF h
      <3>. SUFFICES ASSUME NEW i \in lo..m
                    PROVE  h[i] = IF i = lo THEN a ELSE step[i][h[i - 1]]
        OBVIOUS
      <3>1. CASE i = m
        BY <2>2, <2>4, <3>1
      <3>2. CASE i # m
        <4>1. i \in lo..(lo + n)
          BY <3>2
        <4>2. i = lo \/ i - 1 \in lo..(lo + n)
          BY <4>1
        <4>3. h[i] = g[i] /\ (i = lo \/ h[i - 1] = g[i - 1])
          BY <2>4, <4>1, <4>2
        <4>4. g[i] = IF i = lo THEN a ELSE step[i][g[i - 1]]
          BY <2>1, <4>1
        <4>. QED  BY <4>3, <4>4
      <3>. QED  BY <3>1, <3>2
    <2>. HIDE DEF h
    <2>6. Good(h, n + 1)
      BY <2>4, <2>5
    <2>. HIDE DEF Good
    <2>. QED  BY <2>6
  <1>3. Nat \subseteq F
    <2>. HIDE DEF F
    <2>. QED  BY <1>1, <1>2, EachNumber
  <1>4. CASE lo <= hi
    <2>1. hi - lo \in Nat /\ lo + (hi - lo) = hi
      BY <1>4
    <2>2. \E g : Good(g, hi - lo)
      <3>1. hi - lo \in F
        BY <1>3, <2>1
      <3>. HIDE DEF Good
      <3>. QED  BY <2>1, <3>1
    <2>3. PICK g : /\ g \in [lo..hi -> V]
                   /\ \A i \in lo..hi : g[i] = IF i = lo THEN a ELSE step[i][g[i - 1]]
      BY <2>1, <2>2
    <2>4. g = [i \in lo..hi |-> g[i]]
      BY <2>3
    <2>. QED  BY <2>3, <2>4, Zenon DEF Follows
  <1>5. CASE ~(lo <= hi)
    <2>. DEFINE g == [i \in lo..hi |-> a]
    <2>1. lo..hi = {}
      BY <1>5
    <2>2. g \in [lo..hi -> V] /\ g = [i \in lo..hi |-> IF i = lo THEN a ELSE step[i][g[i - 1]]]
      BY <2>1
    <2>. HIDE DEF g
    <2>. QED  BY <2>2, Zenon DEF Follows
  <1>. QED  BY <1>4, <1>5

\* Two ways of going on alike from place to place are one.
GoAlike(g, h, lo, hi) ==
  /\ g[lo] = h[lo]
  /\ \A i \in (lo + 1)..hi : g[i - 1] = h[i - 1] => g[i] = h[i]

LEMMA RecursionIsOne ==
  ASSUME NEW lo \in Int, NEW hi \in Int, NEW g, NEW h, GoAlike(g, h, lo, hi)
  PROVE  \A i \in lo..hi : g[i] = h[i]
  <1>. DEFINE F == {n \in Nat : lo + n <= hi => g[lo + n] = h[lo + n]}
  <1>1. 0 \in F
    BY DEF GoAlike
  <1>2. ASSUME NEW n \in Nat, n \in F PROVE n + 1 \in F
    <2>1. lo + (n + 1) <= hi => /\ lo + (n + 1) \in (lo + 1)..hi /\ lo + n <= hi
                                /\ (lo + (n + 1)) - 1 = lo + n
      OBVIOUS
    <2>. QED  BY <1>2, <2>1 DEF GoAlike
  <1>3. Nat \subseteq F
    <2>. HIDE DEF F
    <2>. QED  BY <1>1, <1>2, EachNumber
  <1>4. ASSUME NEW i \in lo..hi PROVE g[i] = h[i]
    <2>1. i - lo \in Nat /\ lo + (i - lo) = i /\ i <= hi
      OBVIOUS
    <2>2. i - lo \in F
      BY <1>3, <2>1
    <2>. QED  BY <2>1, <2>2
  <1>. QED  BY <1>4

----------------------------------------------------------------------------
(* Powers.                                                                 *)

Powers(p, b, n) == p = [i \in 0..n |-> IF i = 0 THEN 1 ELSE b * p[i - 1]]

LEMMA PowersExist ==
  ASSUME NEW b \in Int, NEW n \in Nat
  PROVE  \E p \in [0..n -> Int] : Powers(p, b, n) /\ Power(b, n) = p[n]
  <1>. DEFINE step == [i \in 0..n |-> [v \in Int |-> b * v]]
  <1>1. step \in [0..n -> [Int -> Int]] /\ 0 \in Int /\ n \in Int /\ 1 \in Int
    OBVIOUS
  <1>2. \A i \in 0..n : \A v \in Int : step[i][v] = b * v
    OBVIOUS
  <1>. HIDE DEF step
  <1>3. PICK g \in [0..n -> Int] : Follows(g, 0, n, 1, step)
    BY <1>1, RecursionExists
  <1>4. \A i \in 0..n : g[i] = IF i = 0 THEN 1 ELSE b * g[i - 1]
    <2>1. \A i \in 0..n : g[i] = IF i = 0 THEN 1 ELSE step[i][g[i - 1]]
      BY <1>3, Zenon DEF Follows
    <2>2. \A i \in 0..n : i # 0 => i - 1 \in 0..n
      OBVIOUS
    <2>3. \A i \in 0..n : i # 0 => g[i - 1] \in Int
      BY <2>2
    <2>4. \A i \in 0..n : i # 0 => step[i][g[i - 1]] = b * g[i - 1]
      BY <1>2, <2>3
    <2>. QED  BY <2>1, <2>4, Zenon
  <1>5. Powers(g, b, n)
    <2>1. g = [i \in 0..n |-> g[i]]
      OBVIOUS
    <2>. QED  BY <1>4, <2>1, Zenon DEF Powers
  <1>. DEFINE p == CHOOSE q : Powers(q, b, n)
  <1>6. Powers(p, b, n)
    BY <1>5
  <1>7. Power(b, n) = p[n]
    BY Zenon DEF Power, Powers
  <1>. HIDE DEF p
  <1>8. \A i \in 0..n : p[i] = IF i = 0 THEN 1 ELSE b * p[i - 1]
    BY <1>6, Zenon DEF Powers
  <1>9. \A i \in 0..n : p[i] = g[i]
    <2>1. p[0] = g[0]
      BY <1>4, <1>8
    <2>2. \A i \in (0 + 1)..n : p[i - 1] = g[i - 1] => p[i] = g[i]
      <3>1. \A i \in (0 + 1)..n : i \in 0..n /\ i # 0
        OBVIOUS
      <3>. QED  BY <1>4, <1>8, <3>1, Zenon
    <2>3. GoAlike(p, g, 0, n)
      BY <2>1, <2>2 DEF GoAlike
    <2>. QED  BY <2>3, RecursionIsOne
  <1>10. p[n] = g[n]
    BY <1>9
  <1>. QED  BY <1>5, <1>7, <1>10

LEMMA PowerFacts ==
  ASSUME NEW b \in Int
  PROVE  /\ Power(b, 0) = 1
         /\ \A n \in Nat : Power(b, n) \in Int /\ Power(b, n + 1) = b * Power(b, n)
         /\ \A n \in Nat : b >= 0 => Power(b, n) >= 0
         /\ \A n \in Nat : b > 0 => Power(b, n) > 0
  <1>1. Power(b, 0) = 1
    <2>1. PICK p \in [0..0 -> Int] : Powers(p, b, 0) /\ Power(b, 0) = p[0]
      BY PowersExist
    <2>2. 0 \in 0..0
      OBVIOUS
    <2>3. p[0] = 1
      BY <2>1, <2>2, Zenon DEF Powers
    <2>. QED  BY <2>1, <2>3
  <1>2. ASSUME NEW n \in Nat PROVE Power(b, n) \in Int /\ Power(b, n + 1) = b * Power(b, n)
    <2>1. PICK p \in [0..n -> Int] : Powers(p, b, n) /\ Power(b, n) = p[n]
      BY PowersExist
    <2>2. PICK q \in [0..(n + 1) -> Int] : Powers(q, b, n + 1) /\ Power(b, n + 1) = q[n + 1]
      <3>1. n + 1 \in Nat
        OBVIOUS
      <3>. QED  BY <3>1, PowersExist, Zenon
    <2>3. /\ \A i \in 0..n : p[i] = IF i = 0 THEN 1 ELSE b * p[i - 1]
          /\ \A i \in 0..(n + 1) : q[i] = IF i = 0 THEN 1 ELSE b * q[i - 1]
      BY <2>1, <2>2, Zenon DEF Powers
    <2>4. \A i \in 0..n : p[i] = q[i]
      <3>1. p[0] = q[0]
        BY <2>3
      <3>2. \A i \in (0 + 1)..n : p[i - 1] = q[i - 1] => p[i] = q[i]
        <4>1. \A i \in (0 + 1)..n : i \in 0..n /\ i \in 0..(n + 1) /\ i # 0
          OBVIOUS
        <4>. QED  BY <2>3, <4>1, Zenon
      <3>3. GoAlike(p, q, 0, n)
        BY <3>1, <3>2 DEF GoAlike
      <3>. QED  BY SMTT(60), <3>3, RecursionIsOne
    <2>5. q[n + 1] = b * q[n]
      BY <2>3
    <2>. QED  BY <2>1, <2>2, <2>4, <2>5
  <1>3. \A n \in Nat : b >= 0 => Power(b, n) >= 0
    <2>. DEFINE F == {n \in Nat : b >= 0 => Power(b, n) >= 0}
    <2>1. 0 \in F
      BY <1>1
    <2>2. ASSUME NEW n \in Nat, n \in F PROVE n + 1 \in F
      <3>1. \A x, y \in Int : x >= 0 /\ y >= 0 => x * y >= 0
        OBVIOUS
      <3>. QED  BY <1>2, <2>2, <3>1
    <2>. HIDE DEF F
    <2>3. Nat \subseteq F
      BY <2>1, <2>2, EachNumber
    <2>. QED  BY <2>3 DEF F
  <1>4. \A n \in Nat : b > 0 => Power(b, n) > 0
    <2>. DEFINE F == {n \in Nat : b > 0 => Power(b, n) > 0}
    <2>1. 0 \in F
      BY <1>1
    <2>2. ASSUME NEW n \in Nat, n \in F PROVE n + 1 \in F
      <3>1. \A x, y \in Int : x > 0 /\ y > 0 => x * y > 0
        OBVIOUS
      <3>. QED  BY <1>2, <2>2, <3>1
    <2>. HIDE DEF F
    <2>3. Nat \subseteq F
      BY <2>1, <2>2, EachNumber
    <2>. QED  BY <2>3 DEF F
  <1>. QED  BY <1>1, <1>2, <1>3, <1>4

LEMMA PowerNat ==
  ASSUME NEW b \in Nat, NEW n \in Nat
  PROVE  /\ Power(b, n) \in Nat /\ Power(b, n + 1) = b * Power(b, n)
         /\ b > 0 => Power(b, n) > 0
  <1>1. b \in Int /\ b >= 0
    OBVIOUS
  <1>2. \A m \in Nat : Power(b, m) \in Int /\ Power(b, m + 1) = b * Power(b, m)
    BY <1>1, PowerFacts, Zenon
  <1>3. /\ \A m \in Nat : b >= 0 => Power(b, m) >= 0
        /\ \A m \in Nat : b > 0 => Power(b, m) > 0
    BY <1>1, PowerFacts, Zenon
  <1>. QED  BY <1>1, <1>2, <1>3

----------------------------------------------------------------------------
(* Critical false accepts.                                                 *)

\* The frozen minimum is the first number of trials at which none with an event is
\* improbable enough at a rate of the ceiling.
CfaBase == [num |-> Ceiling.den - Ceiling.num, den |-> Ceiling.den]

CfaPolicy ==
  /\ Ceiling.den \in Nat /\ Ceiling.num \in 0..Ceiling.den
  /\ CfaAlpha.num \in Nat /\ CfaAlpha.den \in Nat
  /\ CfaN \in Nat \ {0}
  /\ SmallEnough(CfaBase, CfaN, CfaAlpha)
  /\ \A n \in 1..(CfaN - 1) : ~SmallEnough(CfaBase, n, CfaAlpha)

LEMMA Products ==
  ASSUME NEW a \in Nat, NEW b \in Nat, NEW c \in Nat, NEW d \in Nat, a <= b, c <= d
  PROVE  a * c <= b * d
  <1>1. a * c <= a * d
    <2>1. a * (d - c) \in Nat /\ a * (d - c) = a * d - a * c
      OBVIOUS
    <2>. QED  BY <2>1
  <1>2. a * d <= b * d
    <2>1. (b - a) * d \in Nat /\ (b - a) * d = b * d - a * d
      OBVIOUS
    <2>. QED  BY <2>1
  <1>. QED  BY <1>1, <1>2

\* Enough trials stay enough when there are more.
LEMMA EnoughStays ==
  ASSUME CfaPolicy, NEW n \in Nat, n >= CfaN
  PROVE  SmallEnough(CfaBase, n, CfaAlpha)
  <1>. DEFINE F == {k \in Nat : SmallEnough(CfaBase, CfaN + k, CfaAlpha)}
              b == CfaBase.num
              d == CfaBase.den
  <1>1. /\ b \in Nat /\ d \in Nat /\ b <= d /\ CfaN \in Nat
        /\ CfaAlpha.num \in Nat /\ CfaAlpha.den \in Nat
    BY DEF CfaPolicy, CfaBase
  <1>2. 0 \in F
    <2>1. CfaN + 0 = CfaN
      BY <1>1
    <2>. QED  BY <2>1 DEF CfaPolicy
  <1>3. ASSUME NEW k \in Nat, k \in F PROVE k + 1 \in F
    <2>. DEFINE m == CfaN + k
    <2>1. m \in Nat /\ CfaN + (k + 1) = m + 1
      BY <1>1
    <2>. HIDE DEF m, b, d
    <2>2. /\ Power(b, m) \in Nat /\ Power(d, m) \in Nat
          /\ Power(b, m + 1) = b * Power(b, m) /\ Power(d, m + 1) = d * Power(d, m)
      BY <1>1, <2>1, PowerNat
    <2>3. Power(b, m) * CfaAlpha.den <= CfaAlpha.num * Power(d, m)
      BY <1>3 DEF SmallEnough, m, b, d
    <2>. DEFINE x == Power(b, m) * CfaAlpha.den
                y == CfaAlpha.num * Power(d, m)
    <2>4. x \in Nat /\ y \in Nat
      BY <1>1, <2>2
    <2>5. b * x <= d * y
      <3>. HIDE DEF x, y
      <3>. QED  BY <1>1, <2>3, <2>4, Products DEF x, y
    <2>6. (b * Power(b, m)) * CfaAlpha.den = b * x
      <3>1. \A p, q, r \in Nat : (p * q) * r = p * (q * r)
        OBVIOUS
      <3>. QED  BY <1>1, <2>2, <3>1
    <2>7. CfaAlpha.num * (d * Power(d, m)) = d * y
      <3>1. \A p, q, r \in Nat : p * (q * r) = q * (p * r)
        OBVIOUS
      <3>. QED  BY <1>1, <2>2, <3>1
    <2>8. Power(b, m + 1) * CfaAlpha.den <= CfaAlpha.num * Power(d, m + 1)
      <3>. HIDE DEF x, y
      <3>. QED  BY <2>2, <2>5, <2>6, <2>7
    <2>. QED  BY <2>1, <2>8 DEF SmallEnough, b, d
  <1>. HIDE DEF F
  <1>4. Nat \subseteq F
    BY <1>2, <1>3, EachNumber
  <1>5. n - CfaN \in Nat /\ CfaN + (n - CfaN) = n
    BY <1>1
  <1>. QED  BY <1>4, <1>5 DEF F

FirstFrom(f) ==
  f = [n \in Nat |-> IF SmallEnough(CfaBase, n, CfaAlpha) THEN n ELSE f[n + 1]]

\* Looking for the first number of trials that is enough finds the frozen minimum.
LEMMA BoundIsFrozen ==
  ASSUME CfaPolicy
  PROVE  CfaN = PowerBound(CfaBase, CfaAlpha)
  <1>. DEFINE Enough(n) == SmallEnough(CfaBase, n, CfaAlpha)
              g == [n \in Nat |-> IF n < CfaN /\ n # 0 THEN CfaN
                                  ELSE IF n = 0 /\ ~Enough(0) THEN CfaN ELSE n]
  <1>1. CfaN \in Nat /\ CfaN # 0 /\ \A n \in Nat : n # 0 => (Enough(n) <=> n >= CfaN)
    <2>1. CfaN \in Nat /\ CfaN # 0 /\ \A n \in 1..(CfaN - 1) : ~Enough(n)
      BY DEF CfaPolicy
    <2>2. \A n \in Nat : n >= CfaN => Enough(n)
      BY EnoughStays
    <2>. HIDE DEF Enough
    <2>. QED  BY <2>1, <2>2
  <1>. HIDE DEF Enough
  <1>2. \A n \in Nat : g[n] = IF Enough(n) THEN n ELSE g[n + 1]
    BY <1>1
  <1>3. g = [n \in Nat |-> g[n]]
    OBVIOUS
  <1>. HIDE DEF g
  <1>4. FirstFrom(g)
    BY <1>2, <1>3, Zenon DEF FirstFrom, Enough
  <1>. DEFINE f == CHOOSE h : FirstFrom(h)
  <1>5. FirstFrom(f)
    BY <1>4
  <1>6. PowerBound(CfaBase, CfaAlpha) = f[1]
    BY Zenon DEF PowerBound, FirstFrom
  <1>. HIDE DEF f
  <1>7. \A n \in Nat : f[n] = IF Enough(n) THEN n ELSE f[n + 1]
    BY <1>5, Zenon DEF FirstFrom, Enough
  <1>. DEFINE F == {k \in Nat : k < CfaN => f[CfaN - k] = CfaN}
  <1>8. 0 \in F
    <2>1. CfaN - 0 = CfaN /\ Enough(CfaN)
      BY <1>1
    <2>2. f[CfaN] = CfaN
      BY <1>1, <1>7, <2>1
    <2>. QED  BY <2>1, <2>2
  <1>9. ASSUME NEW k \in Nat, k \in F PROVE k + 1 \in F
    <2>1. k + 1 < CfaN => /\ k < CfaN /\ CfaN - (k + 1) \in Nat
                          /\ (CfaN - (k + 1)) + 1 = CfaN - k /\ ~Enough(CfaN - (k + 1))
      BY <1>1
    <2>. QED  BY <1>7, <1>9, <2>1
  <1>10. Nat \subseteq F
    <2>. HIDE DEF F
    <2>. QED  BY <1>8, <1>9, EachNumber
  <1>11. CfaN - 1 \in F /\ CfaN - (CfaN - 1) = 1 /\ CfaN - 1 < CfaN
    <2>. HIDE DEF F
    <2>. QED  BY <1>1, <1>10
  <1>. QED  BY <1>6, <1>11

TrialRows(sources) == Seq([source : sources, event : BOOLEAN])
SourcesIn(rows) == {rows[i].source : i \in DOMAIN rows}

\* What some of finitely many have is finite.
ValuesOf(f, T) == {f[x] : x \in T}

LEMMA FiniteValues ==
  ASSUME NEW S, IsFiniteSet(S), NEW f, DOMAIN f = S, NEW T \in SUBSET S
  PROVE  /\ IsFiniteSet(ValuesOf(f, T))
         /\ Cardinality(ValuesOf(f, T)) <= Cardinality(T)
         /\ Cardinality(ValuesOf(f, T)) <= Cardinality(ValuesOf(f, S))
         /\ Cardinality(ValuesOf(f, T)) \in Nat /\ Cardinality(ValuesOf(f, S)) \in Nat
  <1>1. ASSUME NEW U \in SUBSET S
        PROVE  /\ IsFiniteSet(ValuesOf(f, U)) /\ Cardinality(ValuesOf(f, U)) <= Cardinality(U)
               /\ Cardinality(ValuesOf(f, U)) \in Nat
    <2>. DEFINE g == [x \in U |-> f[x]]
    <2>1. g \in Surjection(U, ValuesOf(f, U))
      BY DEF Surjection, ValuesOf
    <2>2. IsFiniteSet(U)
      BY FS_Subset
    <2>. HIDE DEF g
    <2>. QED  BY <2>1, <2>2, FS_Surjection, FS_CardinalityType
  <1>2. S \in SUBSET S /\ ValuesOf(f, T) \in SUBSET ValuesOf(f, S)
    BY DEF ValuesOf
  <1>3. Cardinality(ValuesOf(f, T)) <= Cardinality(ValuesOf(f, S))
    BY <1>1, <1>2, FS_Subset
  <1>. QED  BY <1>1, <1>2, <1>3

\* The gate of the critical false accepts passes for exactly the rows of as many
\* sources as the frozen minimum of which none has an event, for any rows, and the
\* minimum is the one that its ceiling and its confidence ask for
\* (critical_false_accept_summary, minimum_power_bound_n, _cfa_gate_result,
\* _validate_cfa_output).
THEOREM CfaGateIsExact ==
  ASSUME CfaPolicy, MaxUnits \in Nat, NEW sources, NEW rows \in TrialRows(sources),
         Cardinality(SourcesIn(rows)) <= MaxUnits
  PROVE  CfaIsSound(rows)
  <1>. DEFINE D == DOMAIN rows
              E == {i \in D : rows[i].event}
              src == [i \in D |-> rows[i].source]
              n == CfaSummary(rows)
              r == CfaResult(n)
  <1>1. IsFiniteSet(D) /\ \A i \in D : rows[i].event \in BOOLEAN
    <2>1. D = 1..Len(rows) /\ Len(rows) \in Nat
      BY DEF TrialRows
    <2>2. \A i \in D : rows[i].event \in BOOLEAN
      <3>1. \A i \in D : rows[i] \in [source : sources, event : BOOLEAN]
        BY MembersOf, Zenon DEF TrialRows
      <3>2. \A x \in [source : sources, event : BOOLEAN] : x.event \in BOOLEAN
        BY Zenon
      <3>. QED  BY <3>1, <3>2, Zenon
    <2>3. IsFiniteSet(1..Len(rows))
      BY <2>1, PlacesFinite
    <2>. QED  BY <2>1, <2>2, <2>3
  <1>2. /\ n.units = Cardinality(ValuesOf(src, D))
        /\ n.events = Cardinality(ValuesOf(src, E))
        /\ Cardinality(SourcesIn(rows)) = Cardinality(ValuesOf(src, D))
    BY DEF CfaSummary, SourcesIn, ValuesOf
  <1>3. DOMAIN src = D /\ E \in SUBSET D
    OBVIOUS
  <1>4. (E = {}) <=> ValuesOf(src, E) = {}
    BY DEF ValuesOf
  <1>. HIDE DEF src
  <1>5. /\ n.units \in Nat /\ n.events \in Nat /\ n.events <= n.units
        /\ IsFiniteSet(ValuesOf(src, E))
    <2>. HIDE DEF E, n
    <2>. QED  BY <1>1, <1>2, <1>3, FiniteValues
  <1>6. n.events = 0 <=> \A i \in D : ~rows[i].event
    <2>1. n.events = 0 <=> ValuesOf(src, E) = {}
      <3>. HIDE DEF E, n
      <3>. QED  BY <1>2, <1>5, FS_EmptySet
    <2>2. E = {} <=> \A i \in D : ~rows[i].event
      OBVIOUS
    <2>. HIDE DEF E, n
    <2>. QED  BY <1>4, <2>1, <2>2
  <1>7. n.units <= MaxUnits
    <2>. HIDE DEF n
    <2>. QED  BY <1>2
  <1>. HIDE DEF n
  <1>8. CfaAccepted(n)
    BY <1>5, <1>7 DEF CfaAccepted
  <1>9. n.units >= CfaN => SmallEnough(CfaBase, n.units, CfaAlpha)
    BY <1>5, EnoughStays
  <1>10. /\ r.status = IF n.events > 0 THEN "CFA_EVENT_OBSERVED"
                       ELSE IF n.units < CfaN THEN "CFA_INSUFFICIENT_UNITS"
                       ELSE IF ~r.met THEN "CFA_CONFIDENCE_ABOVE_CEILING" ELSE "CFA_PASS"
         /\ r.met = (n.events = 0 /\ SmallEnough(CfaBase, n.units, CfaAlpha))
    BY DEF CfaResult, CfaBase
  <1>. HIDE DEF r
  <1>11. CfaN \in Nat
    BY DEF CfaPolicy
  <1>12. /\ n.events > 0 <=> ~(n.events = 0)
         /\ n.units < CfaN <=> ~(n.units >= CfaN)
    BY <1>5, <1>11
  <1>13. /\ r.status # "CFA_CONFIDENCE_ABOVE_CEILING"
         /\ r.status = "CFA_PASS" <=> n.units >= CfaN /\ n.events = 0
    BY <1>9, <1>10, <1>12, Zenon
  <1>14. CfaN = PowerBound(CfaBase, CfaAlpha)
    BY BoundIsFrozen
  <1>15. r.status = "CFA_PASS" <=> n.units >= CfaN /\ \A i \in DOMAIN rows : ~rows[i].event
    BY <1>6, <1>13
  <1>. QED  BY <1>8, <1>13, <1>14, <1>15, Zenon DEF CfaIsSound, CfaBase, n, r

----------------------------------------------------------------------------
(* All gates together.                                                     *)

\* The gates pass together only when each of them does, whatever the statuses and
\* the counts that the payload check lets through, and an accepted payload gives an
\* accepted result (_aggregate_result, _validate_aggregate_payload,
\* _validate_aggregate_output).
THEOREM AggregatePassIsExact ==
  ASSUME MaxUnits \in Nat, NEW names, NEW a,
         a.agreement \in Seq(names), a.cfa \in Seq(names)
  PROVE  AggregateIsSound(a)
  <1>. DEFINE Failed(s, pass) == {i \in DOMAIN s : s[i] # pass}
              r == Aggregate(a)
  <1>1. ASSUME NEW s \in Seq(names), NEW pass
        PROVE  /\ Cardinality(Failed(s, pass)) \in 0..Len(s)
               /\ Cardinality(Failed(s, pass)) = 0 => \A i \in DOMAIN s : s[i] = pass
    <2>1. DOMAIN s = 1..Len(s) /\ Len(s) \in Nat
      OBVIOUS
    <2>2. IsFiniteSet(1..Len(s)) /\ Cardinality(1..Len(s)) = Len(s)
      BY <2>1, PlacesFinite
    <2>3. Failed(s, pass) \in SUBSET (1..Len(s))
      BY <2>1
    <2>4. /\ IsFiniteSet(Failed(s, pass)) /\ Cardinality(Failed(s, pass)) \in Nat
          /\ Cardinality(Failed(s, pass)) <= Len(s)
      <3>. HIDE DEF Failed
      <3>. QED  BY <2>2, <2>3, FS_Subset, FS_CardinalityType
    <2>5. Cardinality(Failed(s, pass)) = 0 => Failed(s, pass) = {}
      <3>. HIDE DEF Failed
      <3>. QED  BY <2>4, FS_EmptySet
    <2>. QED  BY <2>1, <2>4, <2>5
  <1>2. ASSUME NEW s \in Seq(names), NEW pass, Cardinality(Failed(s, pass)) = 0, Len(s) > 0
        PROVE  ToSet(s) = {pass}
    <2>1. \A i \in DOMAIN s : s[i] = pass
      BY <1>1, <1>2
    <2>2. 1 \in DOMAIN s
      BY <1>2
    <2>. QED  BY <2>1, <2>2 DEF ToSet
  <1>3. SUFFICES ASSUME AggregatePayloadAccepted(a)
                 PROVE  /\ AggregateAccepted(r)
                        /\ r.pass => /\ ToSet(a.agreement) = {"AGREEMENT_PASS"}
                                     /\ ToSet(a.cfa) = {"CFA_PASS"}
                                     /\ a.safe = a.results
                                     /\ a.d1Defects + a.critical + a.missing = 0
    BY Zenon DEF AggregateIsSound
  <1>4. /\ r.agreementFailed = Cardinality(Failed(a.agreement, "AGREEMENT_PASS"))
        /\ r.cfaFailed = Cardinality(Failed(a.cfa, "CFA_PASS"))
        /\ r.input = a
        /\ r.pass => r.technical /\ r.editorial
        /\ r.technical => a.safe = a.results
        /\ r.editorial => /\ r.agreementFailed = 0 /\ r.cfaFailed = 0
                          /\ a.d1Defects = 0 /\ a.critical = 0 /\ a.missing = 0
    BY DEF Aggregate
  <1>. HIDE DEF r, Failed
  <1>5. AggregateAccepted(r)
    BY <1>1, <1>3, <1>4 DEF AggregateAccepted
  <1>6. Len(a.agreement) > 0 /\ Len(a.cfa) > 0
    BY <1>3 DEF AggregatePayloadAccepted
  <1>7. r.pass => ToSet(a.agreement) = {"AGREEMENT_PASS"} /\ ToSet(a.cfa) = {"CFA_PASS"}
    BY <1>2, <1>4, <1>6
  <1>8. r.pass => a.safe = a.results /\ a.d1Defects + a.critical + a.missing = 0
    BY <1>4
  <1>. QED  BY <1>5, <1>7, <1>8

----------------------------------------------------------------------------
(* The confidence of a rate.                                               *)

\* The outcomes of n trials, and the number of them with c successes.
OfSize(n, c) == {T \in SUBSET (1..n) : Cardinality(T) = c}
Ways(n, c) == Cardinality(OfSize(n, c))

LEMMA OutcomeSize ==
  ASSUME NEW n \in Nat, NEW T \in SUBSET (1..n)
  PROVE  IsFiniteSet(T) /\ Cardinality(T) \in Nat /\ Cardinality(T) <= n
  <1>1. IsFiniteSet(1..n) /\ Cardinality(1..n) = n
    BY PlacesFinite
  <1>2. IsFiniteSet(T) /\ Cardinality(T) <= Cardinality(1..n)
    BY <1>1, FS_Subset, Zenon
  <1>. QED  BY <1>1, <1>2, FS_CardinalityType, Zenon

LEMMA OutcomesFinite ==
  ASSUME NEW n \in Nat
  PROVE  /\ IsFiniteSet(SUBSET (1..n))
         /\ \A c : IsFiniteSet(OfSize(n, c)) /\ Ways(n, c) \in Nat
  <1>1. IsFiniteSet(1..n) /\ Cardinality(1..n) = n
    BY PlacesFinite
  <1>2. IsFiniteSet(SUBSET (1..n))
    BY <1>1, FS_SUBSET
  <1>3. \A c : OfSize(n, c) \in SUBSET SUBSET (1..n)
    BY DEF OfSize
  <1>4. \A c : IsFiniteSet(OfSize(n, c))
    BY <1>2, <1>3, FS_Subset
  <1>5. \A c : Ways(n, c) \in Nat
    BY <1>4, FS_CardinalityType DEF Ways
  <1>. QED  BY <1>2, <1>4, <1>5

LEMMA WaysAtTheEnds ==
  ASSUME NEW n \in Nat
  PROVE  Ways(n, 0) = 1 /\ \A c \in Nat : c > n => Ways(n, c) = 0
  <1>1. OfSize(n, 0) = {{}}
    <2>1. \A T \in SUBSET (1..n) : Cardinality(T) = 0 <=> T = {}
      BY OutcomeSize, FS_EmptySet
    <2>. QED  BY <2>1 DEF OfSize
  <1>2. Ways(n, 0) = 1
    BY <1>1, FS_Singleton DEF Ways
  <1>3. ASSUME NEW c \in Nat, c > n PROVE Ways(n, c) = 0
    <2>1. \A T \in SUBSET (1..n) : Cardinality(T) # c
      <3>. SUFFICES ASSUME NEW T \in SUBSET (1..n) PROVE Cardinality(T) # c
        OBVIOUS
      <3>1. Cardinality(T) \in Nat /\ Cardinality(T) <= n
        BY OutcomeSize
      <3>. QED  BY <1>3, <3>1
    <2>2. OfSize(n, c) = {}
      BY <2>1 DEF OfSize
    <2>. QED  BY <2>2, FS_EmptySet DEF Ways
  <1>. QED  BY <1>2, <1>3

\* One trial more fails or succeeds.
LEMMA Pascal ==
  ASSUME NEW n \in Nat, NEW c \in Nat
  PROVE  Ways(n + 1, c + 1) = Ways(n, c) + Ways(n, c + 1)
  <1>. DEFINE last == n + 1
              fail == OfSize(n, c + 1)
              hit == {T \cup {last} : T \in OfSize(n, c)}
              with == [T \in OfSize(n, c) |-> T \cup {last}]
  <1>1. 1..(n + 1) = (1..n) \cup {last} /\ last \notin 1..n /\ last \in Nat
    OBVIOUS
  <1>. HIDE DEF last
  <1>2. ASSUME NEW T \in SUBSET (1..n)
        PROVE  Cardinality(T \cup {last}) = Cardinality(T) + 1 /\ Cardinality(T) \in Nat
    <2>1. last \notin T
      BY <1>1
    <2>2. IsFiniteSet(T) /\ Cardinality(T) \in Nat
      BY OutcomeSize
    <2>. QED  BY <2>1, <2>2, FS_AddElement
  <1>3. OfSize(n + 1, c + 1) = fail \cup hit
    <2>1. ASSUME NEW T \in OfSize(n + 1, c + 1) PROVE T \in fail \cup hit
      <3>1. T \in SUBSET ((1..n) \cup {last}) /\ Cardinality(T) = c + 1
        BY <1>1, <2>1 DEF OfSize
      <3>2. CASE last \in T
        <4>. DEFINE U == T \ {last}
        <4>1. U \in SUBSET (1..n) /\ T = U \cup {last}
          BY <1>1, <3>1, <3>2
        <4>2. Cardinality(U) = c
          <5>. HIDE DEF U
          <5>1. Cardinality(U) + 1 = c + 1 /\ Cardinality(U) \in Nat
            BY <1>2, <3>1, <4>1
          <5>. QED  BY <5>1
        <4>. HIDE DEF U
        <4>3. U \in OfSize(n, c)
          BY <4>1, <4>2 DEF OfSize
        <4>. QED  BY <4>1, <4>3
      <3>3. CASE last \notin T
        <4>1. T \in SUBSET (1..n)
          BY <1>1, <3>1, <3>3
        <4>. QED  BY <3>1, <4>1 DEF OfSize
      <3>. QED  BY <3>2, <3>3
    <2>2. ASSUME NEW T \in fail PROVE T \in OfSize(n + 1, c + 1)
      <3>1. T \in SUBSET (1..n) /\ Cardinality(T) = c + 1
        BY <2>2 DEF OfSize
      <3>2. T \in SUBSET (1..(n + 1))
        BY <1>1, <3>1
      <3>. QED  BY <3>1, <3>2 DEF OfSize
    <2>3. ASSUME NEW T \in OfSize(n, c) PROVE T \cup {last} \in OfSize(n + 1, c + 1)
      <3>1. T \in SUBSET (1..n) /\ Cardinality(T) = c
        BY <2>3 DEF OfSize
      <3>2. T \cup {last} \in SUBSET (1..(n + 1)) /\ Cardinality(T \cup {last}) = c + 1
        BY <1>1, <1>2, <3>1
      <3>. QED  BY <3>2 DEF OfSize
    <2>. QED  BY <2>1, <2>2, <2>3
  <1>4. fail \cap hit = {}
    BY <1>1 DEF OfSize
  <1>5. with \in Bijection(OfSize(n, c), hit)
    <2>1. \A T, U \in OfSize(n, c) : T \cup {last} = U \cup {last} => T = U
      BY <1>1 DEF OfSize
    <2>. HIDE DEF OfSize
    <2>. QED  BY <2>1 DEF Bijection, Injection, Surjection, IsInjective
  <1>6. IsFiniteSet(fail) /\ IsFiniteSet(OfSize(n, c))
        /\ Ways(n, c) \in Nat /\ Ways(n, c + 1) \in Nat
    BY OutcomesFinite
  <1>. HIDE DEF fail, hit, with
  <1>7. IsFiniteSet(hit) /\ Cardinality(hit) = Ways(n, c)
    BY <1>5, <1>6, FS_Bijection DEF ExistsBijection, Ways
  <1>8. Cardinality(fail \cup hit) = Cardinality(fail) + Cardinality(hit) - Cardinality({})
    BY <1>4, <1>6, <1>7, FS_Union
  <1>9. Cardinality(fail) = Ways(n, c + 1) /\ Cardinality({}) = 0
    BY FS_EmptySet DEF Ways, fail
  <1>10. Ways(n + 1, c + 1) = Cardinality(fail \cup hit)
    BY <1>3 DEF Ways
  <1>. QED  BY <1>6, <1>7, <1>8, <1>9, <1>10

LEMMA WaysRatio ==
  ASSUME NEW n \in Nat, NEW c \in Nat
  PROVE  /\ (c + 1) * Ways(n, c + 1) = (n - c) * Ways(n, c)
         /\ (c + 1) * Ways(n + 1, c + 1) = (n + 1) * Ways(n, c)
  <1>. DEFINE Ratio(m) == \A d \in Nat : (d + 1) * Ways(m, d + 1) = (m - d) * Ways(m, d)
              Absorbed(m) == \A d \in Nat : (d + 1) * Ways(m + 1, d + 1) = (m + 1) * Ways(m, d)
              F == {m \in Nat : Ratio(m)}
  <1>1. \A m, d \in Nat : Ways(m, d) \in Nat
    BY OutcomesFinite
  <1>2. \A m, d \in Nat : Ways(m + 1, d + 1) = Ways(m, d) + Ways(m, d + 1)
    BY Pascal
  <1>3. \A m \in Nat : Ways(m, 0) = 1
    BY WaysAtTheEnds
  <1>4. ASSUME NEW m \in Nat, Ratio(m) PROVE Absorbed(m)
    <2>. SUFFICES ASSUME NEW d \in Nat
                  PROVE  (d + 1) * Ways(m + 1, d + 1) = (m + 1) * Ways(m, d)
      OBVIOUS
    <2>. DEFINE x == Ways(m, d)
                y == Ways(m, d + 1)
    <2>1. d + 1 \in Nat /\ x \in Nat /\ y \in Nat
      <3>1. d + 1 \in Nat
        OBVIOUS
      <3>. QED  BY <1>1, <3>1, Zenon
    <2>2. (d + 1) * y = (m - d) * x
      BY <1>4
    <2>3. Ways(m + 1, d + 1) = x + y
      BY <1>2
    <2>. HIDE DEF x, y
    <2>4. (d + 1) * (x + y) = (d + 1) * x + (d + 1) * y
      BY <2>1
    <2>5. (d + 1) * x + (m - d) * x = (m + 1) * x
      BY <2>1
    <2>6. (d + 1) * (x + y) = (m + 1) * x
      BY <2>2, <2>4, <2>5
    <2>. QED  BY <2>3, <2>6 DEF x
  <1>5. 0 \in F
    <2>1. \A d \in Nat : Ways(0, d + 1) = 0
      <3>1. \A d \in Nat : d + 1 \in Nat /\ d + 1 > 0
        OBVIOUS
      <3>. QED  BY <3>1, WaysAtTheEnds
    <2>2. \A d \in Nat : d # 0 => Ways(0, d) = 0
      <3>1. \A d \in Nat : d # 0 => d > 0
        OBVIOUS
      <3>. QED  BY <3>1, WaysAtTheEnds
    <2>3. ASSUME NEW d \in Nat PROVE (d + 1) * Ways(0, d + 1) = (0 - d) * Ways(0, d)
      <3>1. CASE d = 0
        BY <1>3, <2>1, <3>1
      <3>2. CASE d # 0
        BY <2>1, <2>2, <3>2
      <3>. QED  BY <3>1, <3>2
    <2>. QED  BY <2>3
  <1>6. ASSUME NEW m \in Nat, m \in F PROVE m + 1 \in F
    <2>1. Ratio(m) /\ Absorbed(m)
      BY <1>4, <1>6
    <2>2. ASSUME NEW d \in Nat
          PROVE  (d + 1) * Ways(m + 1, d + 1) = ((m + 1) - d) * Ways(m + 1, d)
      <3>1. (d + 1) * Ways(m + 1, d + 1) = (m + 1) * Ways(m, d)
        BY <2>1
      <3>2. CASE d = 0
        <4>1. m + 1 \in Nat
          OBVIOUS
        <4>2. Ways(m, d) = 1 /\ Ways(m + 1, d) = 1
          BY <1>3, <3>2, <4>1
        <4>. QED  BY <3>1, <3>2, <4>2
      <3>3. CASE d # 0
        <4>. DEFINE e == d - 1
                    x == Ways(m, e)
                    y == Ways(m, d)
        <4>1. e \in Nat /\ e + 1 = d
          BY <3>3
        <4>2. x \in Nat /\ y \in Nat
          BY <1>1, <4>1
        <4>3. d * y = (m - e) * x /\ Ways(m + 1, d) = x + y
          <5>. HIDE DEF e
          <5>. QED  BY <1>2, <2>1, <4>1
        <4>4. (m + 1) - d = m - e
          BY <4>1
        <4>. HIDE DEF e, x, y
        <4>5. (m - e) * (x + y) = (m - e) * x + (m - e) * y
          BY <4>1, <4>2
        <4>6. d * y + (m - e) * y = (m + 1) * y
          BY <4>1, <4>2
        <4>. QED  BY <3>1, <4>3, <4>4, <4>5, <4>6 DEF y
      <3>. QED  BY <3>2, <3>3
    <2>3. Ratio(m + 1)
      BY <2>2
    <2>4. m + 1 \in Nat
      OBVIOUS
    <2>. HIDE DEF Ratio
    <2>. QED  BY <2>3, <2>4
  <1>. HIDE DEF F
  <1>7. Nat \subseteq F
    BY <1>5, <1>6, EachNumber
  <1>8. Ratio(n)
    BY <1>7 DEF F
  <1>9. Absorbed(n)
    BY <1>4, <1>8
  <1>. QED  BY <1>8, <1>9

LEMMA WaysMirror ==
  ASSUME NEW n \in Nat, NEW c \in 0..n
  PROVE  Ways(n, n - c) = Ways(n, c)
  <1>. DEFINE rest == [T \in OfSize(n, c) |-> (1..n) \ T]
  <1>1. IsFiniteSet(1..n) /\ Cardinality(1..n) = n
    BY PlacesFinite
  <1>2. ASSUME NEW T \in SUBSET (1..n)
        PROVE  Cardinality((1..n) \ T) = n - Cardinality(T) /\ Cardinality(T) \in Nat
    <2>1. (1..n) \cap T = T
      OBVIOUS
    <2>2. Cardinality((1..n) \ T) = Cardinality(1..n) - Cardinality((1..n) \cap T)
      BY <1>1, FS_Difference
    <2>3. Cardinality(T) \in Nat
      BY <1>1, FS_Subset, FS_CardinalityType
    <2>. QED  BY <1>1, <2>1, <2>2, <2>3
  <1>3. rest \in Bijection(OfSize(n, c), OfSize(n, n - c))
    <2>1. \A T \in OfSize(n, c) : T \in SUBSET (1..n) /\ (1..n) \ T \in OfSize(n, n - c)
      BY <1>2 DEF OfSize
    <2>2. \A T, U \in OfSize(n, c) : (1..n) \ T = (1..n) \ U => T = U
      BY DEF OfSize
    <2>3. \A U \in OfSize(n, n - c) : \E T \in OfSize(n, c) : (1..n) \ T = U
      <3>. SUFFICES ASSUME NEW U \in OfSize(n, n - c)
                    PROVE  \E T \in OfSize(n, c) : (1..n) \ T = U
        OBVIOUS
      <3>1. U \in SUBSET (1..n) /\ Cardinality(U) = n - c
        BY DEF OfSize
      <3>2. Cardinality((1..n) \ U) = n - (n - c) /\ n - (n - c) = c
        BY <1>2, <3>1
      <3>3. (1..n) \ U \in OfSize(n, c) /\ (1..n) \ ((1..n) \ U) = U
        BY <3>1, <3>2 DEF OfSize
      <3>. QED  BY <3>3
    <2>. HIDE DEF OfSize
    <2>. QED  BY <2>1, <2>2, <2>3 DEF Bijection, Injection, Surjection, IsInjective
  <1>4. IsFiniteSet(OfSize(n, c))
    BY OutcomesFinite
  <1>. HIDE DEF rest
  <1>. QED  BY <1>3, <1>4, FS_Bijection DEF ExistsBijection, Ways

LEMMA DivideBack ==
  ASSUME NEW i \in Nat, i # 0, NEW x \in Nat
  PROVE  (i * x) \div i = x
  <1>. DEFINE q == (i * x) \div i
              r == (i * x) % i
  <1>1. i * x \in Nat
    OBVIOUS
  <1>2. q \in Int /\ r \in 0..(i - 1) /\ i * x = i * q + r
    BY <1>1
  <1>. HIDE DEF q, r
  <1>3. ~(q < x)
    <2>1. q < x => i * (x - q) >= i
      <3>1. \A k \in Nat : k # 0 => i * k >= i
        OBVIOUS
      <3>2. q < x => x - q \in Nat /\ x - q # 0
        BY <1>2
      <3>. QED  BY <3>1, <3>2
    <2>2. i * (x - q) = i * x - i * q
      BY <1>2
    <2>. QED  BY <1>2, <2>1, <2>2
  <1>4. ~(x < q)
    <2>1. x < q => i * (q - x) >= i
      <3>1. \A k \in Nat : k # 0 => i * k >= i
        OBVIOUS
      <3>2. x < q => q - x \in Nat /\ q - x # 0
        BY <1>2
      <3>. QED  BY <3>1, <3>2
    <2>2. i * (q - x) = i * q - i * x
      BY <1>2
    <2>. QED  BY <1>2, <2>1, <2>2
  <1>. QED  BY <1>2, <1>3, <1>4 DEF q

\* The coefficient that the code multiplies and divides its way to.
Combs(f, n, k) == f = [i \in 0..k |-> IF i = 0 THEN 1 ELSE (f[i - 1] * (n - k + i)) \div i]

LEMMA ChooseIsWays ==
  ASSUME NEW n \in Nat, NEW k \in 0..n
  PROVE  Choose(n, k) = Ways(n, k)
  <1>. DEFINE g == [i \in 0..k |-> Ways(n - k + i, i)]
              f == CHOOSE h : Combs(h, n, k)
  <1>1. g[0] = 1
    <2>1. n - k \in Nat /\ n - k + 0 = n - k
      OBVIOUS
    <2>2. Ways(n - k, 0) = 1
      BY <2>1, WaysAtTheEnds
    <2>. QED  BY <2>1, <2>2
  <1>2. ASSUME NEW i \in 0..k, i # 0 PROVE g[i] = (g[i - 1] * (n - k + i)) \div i
    <2>. DEFINE m == n - k + (i - 1)
                d == i - 1
    <2>1. m \in Nat /\ d \in Nat /\ d + 1 = i /\ m + 1 = n - k + i /\ d \in 0..k /\ i \in Nat
      BY <1>2
    <2>2. g[i] = Ways(m + 1, d + 1) /\ g[i - 1] = Ways(m, d)
      <3>1. g[i] = Ways(n - k + i, i) /\ g[d] = Ways(n - k + d, d)
        BY <2>1
      <3>. QED  BY <2>1, <3>1, Zenon
    <2>. HIDE DEF m, d, g
    <2>3. /\ (d + 1) * Ways(m + 1, d + 1) = (m + 1) * Ways(m, d)
          /\ Ways(m + 1, d + 1) \in Nat /\ Ways(m, d) \in Nat
      <3>1. m + 1 \in Nat
        BY <2>1
      <3>. QED  BY <2>1, <3>1, WaysRatio, OutcomesFinite
    <2>4. Ways(m, d) * (n - k + i) = i * Ways(m + 1, d + 1)
      <3>1. Ways(m, d) * (m + 1) = (m + 1) * Ways(m, d)
        BY <2>1, <2>3
      <3>. QED  BY <2>1, <2>3, <3>1
    <2>5. (i * Ways(m + 1, d + 1)) \div i = Ways(m + 1, d + 1)
      BY <1>2, <2>1, <2>3, DivideBack
    <2>. QED  BY <2>2, <2>4, <2>5
  <1>3. g = [i \in 0..k |-> g[i]] /\ g[k] = Ways(n, k)
    <2>1. n - k + k = n /\ k \in 0..k
      OBVIOUS
    <2>. QED  BY <2>1
  <1>. HIDE DEF g
  <1>4. Combs(g, n, k)
    <2>1. \A i \in 0..k : g[i] = IF i = 0 THEN 1 ELSE (g[i - 1] * (n - k + i)) \div i
      BY <1>1, <1>2
    <2>. QED  BY <1>3, <2>1, Zenon DEF Combs
  <1>5. Choose(n, k) = f[k]
    BY Zenon DEF Choose, Combs
  <1>6. Combs(f, n, k)
    BY <1>4
  <1>. HIDE DEF f
  <1>7. \A i \in 0..k : f[i] = IF i = 0 THEN 1 ELSE (f[i - 1] * (n - k + i)) \div i
    BY <1>6, Zenon DEF Combs
  <1>8. GoAlike(f, g, 0, k)
    <2>1. f[0] = g[0]
      BY <1>1, <1>7
    <2>2. \A i \in (0 + 1)..k : i \in 0..k /\ i # 0
      OBVIOUS
    <2>3. \A i \in (0 + 1)..k : f[i - 1] = g[i - 1] => f[i] = g[i]
      BY <1>2, <1>7, <2>2, Zenon
    <2>. QED  BY <2>1, <2>3 DEF GoAlike
  <1>9. f[k] = g[k]
    <2>1. \A i \in 0..k : f[i] = g[i]
      BY <1>8, RecursionIsOne
    <2>. QED  BY <2>1
  <1>. QED  BY <1>3, <1>5, <1>9

LEMMA LeastChoice ==
  ASSUME NEW n \in Nat, NEW k \in 0..n
  PROVE  Choose(n, IF n - k < k THEN n - k ELSE k) = Ways(n, k)
  <1>1. CASE n - k < k
    <2>1. n - k \in 0..n
      OBVIOUS
    <2>. QED  BY <1>1, <2>1, ChooseIsWays, WaysMirror
  <1>2. CASE ~(n - k < k)
    BY <1>2, ChooseIsWays
  <1>. QED  BY <1>1, <1>2

RatePolicy(rate) ==
  /\ rate.num \in Nat /\ rate.den \in Nat /\ rate.num < rate.den
  /\ Alpha.num \in Nat /\ Alpha.den \in Nat

Fail(rate) == rate.den - rate.num

\* The parts of the outcomes of one size, and of those of at least a size.
PartOf(n, rate) ==
  [T \in SUBSET (1..n) |->
     Power(rate.num, Cardinality(T)) * Power(Fail(rate), n - Cardinality(T))]
AtLeast(n, c) == {T \in SUBSET (1..n) : Cardinality(T) >= c}
TailFrom(n, c, rate) == SumFunction(Part(PartOf(n, rate), AtLeast(n, c)))

LEMMA TailFromFacts ==
  ASSUME NEW n \in Nat, NEW rate, RatePolicy(rate)
  PROVE  /\ \A c \in Int : TailFrom(n, c, rate) \in Nat
         /\ \A c \in 0..n :
              TailFrom(n, c, rate) = TailFrom(n, c + 1, rate)
                + (Power(rate.num, c) * Power(Fail(rate), n - c)) * Ways(n, c)
         /\ TailFrom(n, n + 1, rate) = 0
         /\ \A k \in Int : TailParts(k, n, rate) = TailFrom(n, k, rate)
  <1>. DEFINE f == PartOf(n, rate)
              A(c) == AtLeast(n, c)
              hit(c) == Power(rate.num, c)
              miss(c) == Power(Fail(rate), n - c)
  <1>1. \A c \in 0..n : hit(c) \in Nat /\ miss(c) \in Nat /\ hit(c) * miss(c) \in Nat
    <2>1. rate.num \in Nat /\ Fail(rate) \in Nat
      BY DEF RatePolicy, Fail
    <2>2. \A c \in 0..n : c \in Nat /\ n - c \in Nat
      OBVIOUS
    <2>3. \A c \in 0..n : hit(c) \in Nat /\ miss(c) \in Nat
      <3>. HIDE DEF Fail
      <3>. QED  BY <2>1, <2>2, PowerNat
    <2>. HIDE DEF hit, miss
    <2>. QED  BY <2>3
  <1>2. f \in [SUBSET (1..n) -> Nat]
    <2>1. \A T \in SUBSET (1..n) : Cardinality(T) \in 0..n
      <3>1. \A T \in SUBSET (1..n) : Cardinality(T) \in Nat /\ Cardinality(T) <= n
        BY OutcomeSize
      <3>. QED  BY <3>1
    <2>2. \A T \in SUBSET (1..n) :
            Power(rate.num, Cardinality(T)) * Power(Fail(rate), n - Cardinality(T)) \in Nat
      BY <1>1, <2>1, Zenon
    <2>. QED  BY <2>2, Zenon DEF PartOf
  <1>3. IsFiniteSet(SUBSET (1..n))
    BY OutcomesFinite
  <1>4. \A c : A(c) \in SUBSET SUBSET (1..n) /\ OfSize(n, c) \in SUBSET SUBSET (1..n)
    BY DEF AtLeast, OfSize
  <1>5. \A U \in SUBSET SUBSET (1..n) : IsFiniteSet(U) /\ Part(f, U) \in [U -> Nat]
    <2>1. \A U \in SUBSET SUBSET (1..n) : IsFiniteSet(U)
      BY <1>3, FS_Subset
    <2>2. \A U \in SUBSET SUBSET (1..n) : Part(f, U) \in [U -> Nat]
      <3>. HIDE DEF f
      <3>. QED  BY <1>2 DEF Part
    <2>. QED  BY <2>1, <2>2
  <1>6. \A c \in Int : TailFrom(n, c, rate) \in Nat
    <2>1. \A U \in SUBSET SUBSET (1..n) : SumFunction(Part(f, U)) \in Nat
      <3>. HIDE DEF f
      <3>. QED  BY <1>5, SumNat
    <2>. QED  BY <1>4, <2>1, Zenon DEF TailFrom
  <1>7. ASSUME NEW c \in 0..n
        PROVE  TailFrom(n, c, rate) = TailFrom(n, c + 1, rate) + (hit(c) * miss(c)) * Ways(n, c)
    <2>. DEFINE S == SUBSET (1..n)
                O == OfSize(n, c)
                U == A(c + 1)
    <2>1. A(c) = U \cup O /\ U \cap O = {}
      <3>1. \A T \in SUBSET (1..n) : Cardinality(T) \in Nat
        BY OutcomeSize
      <3>2. \A T \in SUBSET (1..n) :
              /\ Cardinality(T) >= c <=> Cardinality(T) >= c + 1 \/ Cardinality(T) = c
              /\ ~(Cardinality(T) >= c + 1 /\ Cardinality(T) = c)
        BY <3>1
      <3>. QED  BY <3>2 DEF AtLeast, OfSize
    <2>2. f \in [S -> Int] /\ IsFiniteSet(S) /\ U \in SUBSET S /\ O \in SUBSET S
      <3>1. f \in [S -> Int]
        <4>. HIDE DEF f
        <4>. QED  BY <1>2
      <3>. QED  BY <1>3, <1>4, <3>1
    <2>3. SumFunction(Part(f, O)) = (hit(c) * miss(c)) * Cardinality(O)
      <3>1. \A T \in O : Part(f, O)[T] = hit(c) * miss(c)
        BY DEF Part, PartOf, OfSize
      <3>2. Part(f, O) \in [O -> Int] /\ IsFiniteSet(O) /\ hit(c) * miss(c) \in Int
        <4>1. Part(f, O) \in [O -> Nat] /\ IsFiniteSet(O)
          <5>. HIDE DEF f, O
          <5>. QED  BY <1>5, <2>2
        <4>. HIDE DEF f, O, hit, miss
        <4>. QED  BY <1>1, <4>1
      <3>. HIDE DEF f, O, hit, miss
      <3>. QED  BY <3>1, <3>2, SumOfOne
    <2>. HIDE DEF f, S, O, U, A
    <2>4. SumFunction(Part(f, U \cup O)) = SumFunction(Part(f, U)) + SumFunction(Part(f, O))
      BY <2>1, <2>2, SumUnion
    <2>5. TailFrom(n, c, rate) = SumFunction(Part(f, U \cup O))
          /\ TailFrom(n, c + 1, rate) = SumFunction(Part(f, U))
      BY <2>1, Zenon DEF TailFrom, A, U, f
    <2>6. Cardinality(O) = Ways(n, c)
      BY Zenon DEF O, Ways
    <2>. QED  BY <2>3, <2>4, <2>5, <2>6, Zenon
  <1>8. TailFrom(n, n + 1, rate) = 0
    <2>1. A(n + 1) = {}
      <3>1. \A T \in SUBSET (1..n) : ~(Cardinality(T) >= n + 1)
        <4>. SUFFICES ASSUME NEW T \in SUBSET (1..n) PROVE ~(Cardinality(T) >= n + 1)
          OBVIOUS
        <4>1. Cardinality(T) \in Nat /\ Cardinality(T) <= n
          BY OutcomeSize
        <4>. QED  BY <4>1
      <3>. QED  BY <3>1 DEF AtLeast
    <2>2. IsFiniteSet({}) /\ Part(f, {}) \in [{} -> Int]
      BY FS_EmptySet DEF Part
    <2>3. SumFunction(Part(f, {})) = 0
      <3>. HIDE DEF f
      <3>. QED  BY <2>2, SumFacts
    <2>. QED  BY <2>1, <2>3, Zenon DEF TailFrom
  <1>9. ASSUME NEW k \in Int PROVE TailParts(k, n, rate) = TailFrom(n, k, rate)
    <2>1. \A T \in AtLeast(n, k) :
            f[T] = Power(rate.num, Cardinality(T))
                     * Power(rate.den - rate.num, n - Cardinality(T))
      <3>1. \A T \in AtLeast(n, k) : T \in SUBSET (1..n)
        BY DEF AtLeast
      <3>. QED  BY <3>1, Zenon DEF PartOf, Fail
    <2>2. TailParts(k, n, rate) =
            SumFunction([T \in AtLeast(n, k) |->
                           Power(rate.num, Cardinality(T))
                             * Power(rate.den - rate.num, n - Cardinality(T))])
      BY Zenon DEF TailParts, AtLeast
    <2>. HIDE DEF f
    <2>3. [T \in AtLeast(n, k) |->
             Power(rate.num, Cardinality(T))
               * Power(rate.den - rate.num, n - Cardinality(T))] = Part(f, AtLeast(n, k))
      BY <2>1, Zenon DEF Part
    <2>. QED  BY <2>2, <2>3, Zenon DEF TailFrom, f
  <1>. QED  BY <1>6, <1>7, <1>8, <1>9

\* The terms that the code goes through, and what it adds them up to.
Terms(f, k, n, rate) ==
  f = [c \in k..n |->
         IF c = k THEN [comb |-> Choose(n, IF n - k < k THEN n - k ELSE k),
                        hit |-> Power(rate.num, k), miss |-> Power(Fail(rate), n - k)]
         ELSE [comb |-> (f[c - 1].comb * (n - c + 1)) \div c,
               hit  |-> f[c - 1].hit * rate.num, miss |-> f[c - 1].miss \div Fail(rate)]]

Tails(f, at, k, n) ==
  f = [c \in (k - 1)..n |->
         IF c < k THEN 0 ELSE f[c - 1] + at[c].comb * at[c].hit * at[c].miss]

LEMMA LowerUnfolds ==
  ASSUME NEW k, NEW n, NEW rate
  PROVE  LowerAtLeast(k, n, rate) <=>
           /\ k > 0
           /\ \A c \in k..n :
                (CHOOSE g : Tails(g, CHOOSE f : Terms(f, k, n, rate), k, n))[c] * Alpha.den
                  <= Alpha.num * Power(rate.den, n)
  BY Zenon DEF LowerAtLeast, Terms, Tails, Fail

LEMMA TermsAre ==
  ASSUME NEW n \in Nat, NEW k \in 1..n, NEW rate, RatePolicy(rate),
         NEW at, at = CHOOSE f : Terms(f, k, n, rate)
  PROVE  \A c \in k..n : at[c] = [comb |-> Ways(n, c), hit |-> Power(rate.num, c),
                                  miss |-> Power(Fail(rate), n - c)]
  <1>. DEFINE h == rate.num
              m == Fail(rate)
              g == [c \in k..n |-> [comb |-> Ways(n, c), hit |-> Power(h, c),
                                    miss |-> Power(m, n - c)]]
  <1>1. h \in Nat /\ m \in Nat /\ m # 0
    BY DEF RatePolicy, Fail
  <1>2. \A c \in k..n : /\ g[c].comb = Ways(n, c) /\ g[c].hit = Power(h, c)
                        /\ g[c].miss = Power(m, n - c)
    OBVIOUS
  <1>. HIDE DEF h, m
  <1>3. k \in k..n /\ k \in 0..n
    OBVIOUS
  <1>4. g[k] = [comb |-> Choose(n, IF n - k < k THEN n - k ELSE k), hit |-> Power(h, k),
                miss |-> Power(m, n - k)]
    <2>1. Choose(n, IF n - k < k THEN n - k ELSE k) = Ways(n, k)
      BY <1>3, LeastChoice
    <2>. QED  BY <1>3, <2>1
  <1>5. ASSUME NEW c \in k..n, c # k
        PROVE  g[c] = [comb |-> (g[c - 1].comb * (n - c + 1)) \div c,
                       hit |-> g[c - 1].hit * h, miss |-> g[c - 1].miss \div m]
    <2>. DEFINE d == c - 1
    <2>1. /\ d \in k..n /\ d \in Nat /\ d + 1 = c /\ n - d = n - c + 1 /\ c \in Nat /\ c # 0
          /\ n - c \in Nat /\ n - d = (n - c) + 1
      BY <1>5
    <2>. HIDE DEF d
    <2>2. (Ways(n, d) * (n - c + 1)) \div c = Ways(n, c)
      <3>1. c * Ways(n, c) = (n - d) * Ways(n, d)
        BY <2>1, WaysRatio
      <3>2. Ways(n, c) \in Nat /\ Ways(n, d) \in Nat
        BY OutcomesFinite
      <3>3. Ways(n, d) * (n - c + 1) = c * Ways(n, c)
        <4>1. Ways(n, d) * (n - d) = (n - d) * Ways(n, d)
          BY <2>1, <3>2
        <4>. QED  BY <2>1, <3>1, <4>1
      <3>. QED  BY <2>1, <3>2, <3>3, DivideBack
    <2>3. Power(h, d) * h = Power(h, c)
      <3>1. Power(h, d + 1) = h * Power(h, d) /\ Power(h, d) \in Nat
        BY <1>1, <2>1, PowerNat
      <3>2. h * Power(h, d) = Power(h, d) * h
        BY <1>1, <3>1
      <3>. QED  BY <2>1, <3>1, <3>2
    <2>4. Power(m, n - d) \div m = Power(m, n - c)
      <3>1. Power(m, (n - c) + 1) = m * Power(m, n - c) /\ Power(m, n - c) \in Nat
        BY <1>1, <2>1, PowerNat
      <3>2. (m * Power(m, n - c)) \div m = Power(m, n - c)
        BY <1>1, <3>1, DivideBack
      <3>. QED  BY <2>1, <3>1, <3>2
    <2>5. g[d].comb = Ways(n, d) /\ g[d].hit = Power(h, d) /\ g[d].miss = Power(m, n - d)
      BY <1>2, <2>1
    <2>6. g[c] = [comb |-> Ways(n, c), hit |-> Power(h, c), miss |-> Power(m, n - c)]
      OBVIOUS
    <2>. HIDE DEF g
    <2>7. c - 1 = d
      BY DEF d
    <2>. QED  BY <2>2, <2>3, <2>4, <2>5, <2>6, <2>7, Zenon
  <1>6. g = [c \in k..n |-> g[c]]
    OBVIOUS
  <1>. HIDE DEF g
  <1>7. Terms(g, k, n, rate)
    <2>1. \A c \in k..n : g[c] =
            IF c = k THEN [comb |-> Choose(n, IF n - k < k THEN n - k ELSE k),
                           hit |-> Power(rate.num, k), miss |-> Power(Fail(rate), n - k)]
            ELSE [comb |-> (g[c - 1].comb * (n - c + 1)) \div c,
                  hit  |-> g[c - 1].hit * rate.num, miss |-> g[c - 1].miss \div Fail(rate)]
      BY <1>4, <1>5, Zenon DEF h, m
    <2>. QED  BY <1>6, <2>1, Zenon DEF Terms
  <1>8. Terms(at, k, n, rate)
    BY <1>7
  <1>9. \A c \in k..n : at[c] =
          IF c = k THEN [comb |-> Choose(n, IF n - k < k THEN n - k ELSE k),
                         hit |-> Power(h, k), miss |-> Power(m, n - k)]
          ELSE [comb |-> (at[c - 1].comb * (n - c + 1)) \div c,
                hit  |-> at[c - 1].hit * h, miss |-> at[c - 1].miss \div m]
    BY <1>8, Zenon DEF Terms, h, m
  <1>10. GoAlike(at, g, k, n)
    <2>1. at[k] = g[k]
      BY <1>3, <1>4, <1>9, Zenon
    <2>2. \A c \in (k + 1)..n : c \in k..n /\ c # k
      OBVIOUS
    <2>3. \A c \in (k + 1)..n : at[c - 1] = g[c - 1] => at[c] = g[c]
      BY <1>5, <1>9, <2>2, Zenon
    <2>. QED  BY <2>1, <2>3 DEF GoAlike
  <1>11. \A c \in k..n : at[c] = g[c]
    <2>1. k \in Int /\ n \in Int
      OBVIOUS
    <2>. QED  BY <1>10, <2>1, RecursionIsOne
  <1>. QED  BY <1>11, Zenon DEF g, h, m

\* Together the terms up to c are the parts of the outcomes of k to c successes.
LEMMA TailsAre ==
  ASSUME NEW n \in Nat, NEW k \in 1..n, NEW rate, RatePolicy(rate),
         NEW at, at = CHOOSE f : Terms(f, k, n, rate),
         NEW tail, tail = CHOOSE f : Tails(f, at, k, n)
  PROVE  \A c \in k..n : tail[c] = TailFrom(n, k, rate) - TailFrom(n, c + 1, rate)
  <1>. DEFINE A(c) == TailFrom(n, c, rate)
              term(c) == (Power(rate.num, c) * Power(Fail(rate), n - c)) * Ways(n, c)
              added(c) == at[c].comb * at[c].hit * at[c].miss
              g == [c \in (k - 1)..n |-> A(k) - A(c + 1)]
  <1>1. /\ \A c \in Int : A(c) \in Nat
        /\ \A c \in 0..n : A(c) = A(c + 1) + term(c)
    BY TailFromFacts, Zenon
  <1>2. ASSUME NEW c \in k..n PROVE added(c) = term(c) /\ term(c) \in Nat
    <2>1. /\ at[c].comb = Ways(n, c) /\ at[c].hit = Power(rate.num, c)
          /\ at[c].miss = Power(Fail(rate), n - c)
      <3>1. at[c] = [comb |-> Ways(n, c), hit |-> Power(rate.num, c),
                     miss |-> Power(Fail(rate), n - c)]
        BY TermsAre, Zenon
      <3>. QED  BY <3>1
    <2>2. rate.num \in Nat /\ Fail(rate) \in Nat /\ c \in Nat /\ n - c \in Nat
      BY DEF RatePolicy, Fail
    <2>3. Power(rate.num, c) \in Nat /\ Power(Fail(rate), n - c) \in Nat /\ Ways(n, c) \in Nat
      BY <2>2, PowerNat, OutcomesFinite
    <2>. DEFINE x == Ways(n, c)
                y == Power(rate.num, c)
                z == Power(Fail(rate), n - c)
    <2>4. added(c) = x * y * z /\ term(c) = (y * z) * x
      BY <2>1, Zenon
    <2>5. x \in Nat /\ y \in Nat /\ z \in Nat
      BY <2>3, Zenon
    <2>. HIDE DEF x, y, z, added, term
    <2>6. x * y * z = (y * z) * x /\ (y * z) * x \in Nat
      BY <2>5
    <2>. QED  BY <2>4, <2>6, Zenon
  <1>. HIDE DEF A, term, added
  <1>3. g[k - 1] = 0
    <2>1. (k - 1) + 1 = k /\ k - 1 \in (k - 1)..n /\ A(k) \in Nat
      BY <1>1
    <2>2. g[k - 1] = A(k) - A((k - 1) + 1)
      BY <2>1
    <2>. QED  BY <2>1, <2>2
  <1>4. ASSUME NEW c \in k..n PROVE g[c] = g[c - 1] + added(c)
    <2>1. c - 1 \in (k - 1)..n /\ c \in (k - 1)..n /\ (c - 1) + 1 = c /\ c \in 0..n
      OBVIOUS
    <2>2. g[c] = A(k) - A(c + 1) /\ g[c - 1] = A(k) - A(c)
      BY <2>1
    <2>. HIDE DEF g
    <2>3. A(c) = A(c + 1) + added(c) /\ added(c) \in Nat
      BY <1>1, <1>2, <2>1
    <2>4. A(k) \in Nat /\ A(c + 1) \in Nat /\ A(c) \in Nat
      BY <1>1
    <2>. QED  BY <2>2, <2>3, <2>4
  <1>5. g = [c \in (k - 1)..n |-> g[c]] /\ \A c \in k..n : g[c] = A(k) - A(c + 1)
    OBVIOUS
  <1>6. \A c \in (k - 1)..n : (c < k <=> c = k - 1) /\ (c # k - 1 => c \in k..n)
    OBVIOUS
  <1>. HIDE DEF g
  <1>7. Tails(g, at, k, n)
    <2>1. \A c \in (k - 1)..n : g[c] = IF c < k THEN 0 ELSE g[c - 1] + added(c)
      BY <1>3, <1>4, <1>6, Zenon
    <2>. QED  BY <1>5, <2>1, Zenon DEF Tails, added
  <1>8. Tails(tail, at, k, n)
    BY <1>7
  <1>9. \A c \in (k - 1)..n : tail[c] = IF c < k THEN 0 ELSE tail[c - 1] + added(c)
    BY <1>8, Zenon DEF Tails, added
  <1>10. GoAlike(tail, g, k - 1, n)
    <2>1. k - 1 \in (k - 1)..n
      OBVIOUS
    <2>2. tail[k - 1] = g[k - 1]
      BY <1>3, <1>6, <1>9, <2>1, Zenon
    <2>3. \A c \in ((k - 1) + 1)..n : c \in k..n /\ c \in (k - 1)..n /\ ~(c < k)
      OBVIOUS
    <2>4. \A c \in ((k - 1) + 1)..n : tail[c - 1] = g[c - 1] => tail[c] = g[c]
      BY <1>4, <1>9, <2>3, Zenon
    <2>. QED  BY <2>2, <2>4 DEF GoAlike
  <1>11. \A c \in (k - 1)..n : tail[c] = g[c]
    <2>1. k - 1 \in Int /\ n \in Int
      OBVIOUS
    <2>. QED  BY <1>10, <2>1, RecursionIsOne
  <1>12. \A c \in k..n : c \in (k - 1)..n
    OBVIOUS
  <1>. QED  BY <1>5, <1>11, <1>12, Zenon DEF A

\* The lower bound that the code looks for term by term, with an exact division at
\* each of them, holds exactly when the probability of as many successes or more is
\* no more than the tail that the contract freezes, for every number of trials and
\* every rate (_clopper_pearson_lower_at_least).
THEOREM ConfidenceIsTail ==
  ASSUME NEW n \in Nat, NEW k \in 0..n, NEW rate, RatePolicy(rate)
  PROVE  ConfidenceIsExact(k, n, rate)
  <1>. DEFINE at == CHOOSE f : Terms(f, k, n, rate)
              tail == CHOOSE f : Tails(f, at, k, n)
              limit == Alpha.num * Power(rate.den, n)
              all == TailFrom(n, k, rate)
  <1>1. LowerAtLeast(k, n, rate) <=> k > 0 /\ \A c \in k..n : tail[c] * Alpha.den <= limit
    BY LowerUnfolds, Zenon
  <1>2. TailParts(k, n, rate) = all /\ all \in Nat /\ TailFrom(n, n + 1, rate) = 0
    <2>1. k \in Int
      OBVIOUS
    <2>. QED  BY <2>1, TailFromFacts, Zenon
  <1>3. Alpha.den \in Nat /\ limit \in Nat
    <2>1. rate.den \in Nat /\ Alpha.den \in Nat /\ Alpha.num \in Nat
      BY DEF RatePolicy
    <2>2. Power(rate.den, n) \in Nat
      BY <2>1, PowerNat
    <2>. QED  BY <2>1, <2>2
  <1>4. CASE k = 0
    <2>1. ~(k > 0)
      BY <1>4
    <2>. QED  BY <1>1, <2>1, Zenon DEF ConfidenceIsExact
  <1>5. CASE k # 0
    <2>1. k \in 1..n /\ k > 0 /\ n \in k..n
      BY <1>5
    <2>2. \A c \in k..n : tail[c] = all - TailFrom(n, c + 1, rate)
      BY <2>1, TailsAre, Zenon
    <2>. HIDE DEF at, tail, limit, all
    <2>3. tail[n] = all
      BY <1>2, <2>1, <2>2
    <2>4. ASSUME NEW c \in k..n, all * Alpha.den <= limit PROVE tail[c] * Alpha.den <= limit
      <3>1. TailFrom(n, c + 1, rate) \in Nat
        <4>1. c + 1 \in Int
          OBVIOUS
        <4>. QED  BY <4>1, TailFromFacts
      <3>2. tail[c] \in Int /\ tail[c] <= all
        BY <1>2, <2>2, <3>1
      <3>3. tail[c] * Alpha.den <= all * Alpha.den
        <4>1. (all - tail[c]) * Alpha.den \in Nat
          <5>1. all - tail[c] \in Nat
            BY <1>2, <3>2
          <5>. QED  BY <1>3, <5>1
        <4>2. (all - tail[c]) * Alpha.den = all * Alpha.den - tail[c] * Alpha.den
          BY <1>2, <1>3, <3>2
        <4>. QED  BY <1>2, <1>3, <3>2, <4>1, <4>2
      <3>. QED  BY <1>2, <1>3, <2>4, <3>2, <3>3
    <2>5. (\A c \in k..n : tail[c] * Alpha.den <= limit) <=> all * Alpha.den <= limit
      BY <2>1, <2>3, <2>4, Zenon
    <2>6. LowerAtLeast(k, n, rate) <=> k > 0 /\ all * Alpha.den <= limit
      BY <1>1, <2>5, Zenon
    <2>. QED  BY <1>2, <2>6, Zenon DEF ConfidenceIsExact, limit
  <1>. QED  BY <1>4, <1>5

----------------------------------------------------------------------------
(* One stratum of a dimension.                                             *)

OutcomeRows(sources, strata) ==
  Seq([source : sources, stratum : strata, applicable : BOOLEAN, success : BOOLEAN])

Applicable(rows, stratum) == {s \in Units(rows, stratum) : Outcomes(rows, stratum, s) # {}}
Successful(rows, stratum) == {s \in Units(rows, stratum) : Outcomes(rows, stratum, s) = {TRUE}}

LEMMA StratumCounts ==
  ASSUME NEW sources, NEW strata, NEW rows \in OutcomeRows(sources, strata), NEW stratum,
         NEW n, n = Stratum(rows, stratum)
  PROVE  /\ n.assigned = Cardinality(Units(rows, stratum))
         /\ n.assigned \in Nat /\ n.applicable \in 0..n.assigned
         /\ n.success \in 0..n.applicable
         /\ n.success >= n.applicable =>
              Applicable(rows, stratum) \subseteq Successful(rows, stratum)
  <1>. DEFINE D == DOMAIN rows
              E == {i \in D : rows[i].stratum = stratum}
              src == [i \in D |-> rows[i].source]
              U == Units(rows, stratum)
              A == Applicable(rows, stratum)
              S == Successful(rows, stratum)
  <1>1. IsFiniteSet(D) /\ E \in SUBSET D /\ DOMAIN src = D
    <2>1. D = 1..Len(rows) /\ Len(rows) \in Nat
      BY MembersOf, Zenon DEF OutcomeRows
    <2>. QED  BY <2>1, PlacesFinite
  <1>2. U = ValuesOf(src, E)
    BY DEF Units, ValuesOf
  <1>. HIDE DEF E, src, D
  <1>3. IsFiniteSet(U)
    BY <1>1, <1>2, FiniteValues
  <1>4. A \in SUBSET U /\ S \in SUBSET A
    BY DEF Applicable, Successful
  <1>5. IsFiniteSet(A) /\ Cardinality(A) <= Cardinality(U)
    <2>. HIDE DEF A, U, S
    <2>. QED  BY <1>3, <1>4, FS_Subset
  <1>6. /\ IsFiniteSet(S) /\ Cardinality(S) <= Cardinality(A)
        /\ Cardinality(A) = Cardinality(S) => A = S
    <2>. HIDE DEF A, U, S
    <2>. QED  BY <1>4, <1>5, FS_Subset
  <1>7. /\ n.assigned = Cardinality(U) /\ n.applicable = Cardinality(A)
        /\ n.success = Cardinality(S)
    BY DEF Stratum, Applicable, Successful
  <1>. HIDE DEF A, U, S
  <1>8. Cardinality(U) \in Nat /\ Cardinality(A) \in Nat /\ Cardinality(S) \in Nat
    BY <1>3, <1>5, <1>6, FS_CardinalityType
  <1>9. n.success >= n.applicable => A \subseteq S
    <2>1. n.success >= n.applicable => Cardinality(A) = Cardinality(S)
      BY <1>6, <1>7, <1>8
    <2>. QED  BY <1>6, <2>1
  <1>10. n.assigned \in Nat /\ n.applicable \in 0..n.assigned /\ n.success \in 0..n.applicable
    BY <1>5, <1>6, <1>7, <1>8
  <1>. QED  BY <1>7, <1>9, <1>10 DEF A, S, U

\* Where every applicable source succeeds, every applicable row does.
LEMMA RowsSucceed ==
  ASSUME NEW sources, NEW strata, NEW rows \in OutcomeRows(sources, strata), NEW stratum,
         Applicable(rows, stratum) \subseteq Successful(rows, stratum),
         NEW i \in DOMAIN rows, rows[i].stratum = stratum, rows[i].applicable
  PROVE  rows[i].success
  <1>. DEFINE s == rows[i].source
  <1>1. rows[i].success \in Outcomes(rows, stratum, s)
    BY Zenon DEF Outcomes
  <1>2. s \in Units(rows, stratum)
    BY Zenon DEF Units
  <1>3. s \in Applicable(rows, stratum)
    BY <1>1, <1>2, Zenon DEF Applicable
  <1>4. Outcomes(rows, stratum, s) = {TRUE}
    BY <1>3, Zenon DEF Successful
  <1>5. rows[i].success = TRUE
    BY <1>1, <1>4, Zenon
  <1>. QED  BY <1>5

StratumPolicy ==
  /\ RatePolicy(DimensionFloor) /\ DimensionN \in Nat /\ DimensionN > 0 /\ MaxUnits \in Nat

\* What the contract counts of a stratum is a payload that the validator accepts, its
\* result is accepted, and a stratum passes only if, for the atoms, no applicable row
\* failed, and for the others enough sources are assigned and the probability of as
\* many successes at the floor is no more than the frozen tail, for any rows
\* (statistical_unit_summary, _dimension_stratum_result, _validate_dimension_payload,
\* _validate_dimension_output).
THEOREM StratumPassIsEarned ==
  ASSUME StratumPolicy, NEW sources, NEW strata, NEW rows \in OutcomeRows(sources, strata),
         NEW stratum, NEW d1 \in BOOLEAN, Cardinality(Units(rows, stratum)) <= MaxUnits
  PROVE  StratumIsSound(d1, rows, stratum)
  <1>. DEFINE n == Stratum(rows, stratum)
              r == StratumResult(d1, n)
              lower == LowerAtLeast(n.success, n.applicable, DimensionFloor)
              floor == IF d1 THEN [num |-> 1, den |-> 1] ELSE DimensionFloor
              enough == IF d1 THEN 1 ELSE DimensionN
  <1>1. /\ n.assigned = Cardinality(Units(rows, stratum))
        /\ n.assigned \in Nat /\ n.applicable \in 0..n.assigned
        /\ n.success \in 0..n.applicable
        /\ n.success >= n.applicable =>
             Applicable(rows, stratum) \subseteq Successful(rows, stratum)
    BY StratumCounts, Zenon
  <1>2. /\ r.counts = n /\ r.excluded = n.assigned - n.applicable
        /\ r.rate = IF n.applicable = 0 THEN None
                    ELSE [num |-> n.success, den |-> n.applicable]
        /\ r.confident = IF d1 THEN None ELSE n.applicable > 0 /\ lower
        /\ r.status = IF n.applicable < enough THEN "DIMENSION_INSUFFICIENT_UNITS"
                      ELSE IF Below(r.rate, floor) THEN "DIMENSION_OBSERVED_BELOW_FLOOR"
                      ELSE IF ~d1 /\ r.confident = FALSE THEN "DIMENSION_CONFIDENCE_BELOW_FLOOR"
                      ELSE "DIMENSION_STRATUM_PASS"
    BY Zenon DEF StratumResult
  <1>. HIDE DEF n, r, lower
  <1>3. n.applicable \in Nat /\ n.success \in Nat /\ MaxUnits \in Nat /\ n.assigned <= MaxUnits
        /\ n.applicable <= n.assigned /\ n.success <= n.applicable
    BY <1>1 DEF StratumPolicy
  <1>4. StratumPayloadAccepted(FALSE, n)
    BY <1>1, <1>3 DEF StratumPayloadAccepted
  <1>5. ASSUME StratumPayloadAccepted(d1, n) PROVE StratumResultAccepted(d1, r)
    <2>1. StratumPayloadAccepted(FALSE, r.counts)
      BY <1>2, <1>4
    <2>2. r.counts.applicable + r.excluded = r.counts.assigned
      BY <1>1, <1>2, <1>3
    <2>3. IF r.counts.applicable = 0 THEN r.rate = None
          ELSE /\ r.rate.num \in 0..r.rate.den
               /\ r.rate.num * r.counts.applicable = r.counts.success * r.rate.den
      <3>1. CASE n.applicable = 0
        BY <1>2, <3>1, Zenon
      <3>2. CASE n.applicable # 0
        <4>1. r.rate.num = n.success /\ r.rate.den = n.applicable
          <5>1. r.rate = [num |-> n.success, den |-> n.applicable]
            BY <1>2, <3>2, Zenon
          <5>. QED  BY <5>1
        <4>2. n.success \in 0..n.applicable
          BY <1>1
        <4>. QED  BY <1>2, <3>2, <4>1, <4>2, Zenon
      <3>. QED  BY <3>1, <3>2
    <2>4. IF d1 THEN r.confident = None /\ r.counts.applicable = r.counts.assigned
          ELSE r.confident \in BOOLEAN
      <3>1. CASE d1
        BY <1>2, <1>5, <3>1, Zenon DEF StratumPayloadAccepted
      <3>2. CASE ~d1
        <4>1. r.confident = (n.applicable > 0 /\ lower)
          BY <1>2, <3>2, Zenon
        <4>2. (n.applicable > 0 /\ lower) \in BOOLEAN
          BY Zenon
        <4>. QED  BY <3>2, <4>1, <4>2, Zenon
      <3>. QED  BY <3>1, <3>2
    <2>. QED  BY <2>1, <2>2, <2>3, <2>4, Zenon DEF StratumResultAccepted
  <1>6. ASSUME r.status = "DIMENSION_STRATUM_PASS"
        PROVE  /\ ~(n.applicable < enough) /\ ~Below(r.rate, floor)
               /\ ~(~d1 /\ r.confident = FALSE)
    BY <1>2, <1>6, Zenon
  <1>7. ASSUME r.status = "DIMENSION_STRATUM_PASS", d1
        PROVE  \A i \in DOMAIN rows : rows[i].stratum = stratum /\ rows[i].applicable
                                        => rows[i].success
    <2>1. n.applicable # 0
      BY <1>3, <1>6, <1>7
    <2>2. r.rate.num = n.success /\ r.rate.den = n.applicable
      <3>1. r.rate = [num |-> n.success, den |-> n.applicable]
        BY <1>2, <2>1, Zenon
      <3>. QED  BY <3>1
    <2>3. ~(n.success * 1 < 1 * n.applicable)
      <3>1. floor = [num |-> 1, den |-> 1]
        BY <1>7, Zenon
      <3>2. floor.num = 1 /\ floor.den = 1
        BY <3>1
      <3>. HIDE DEF floor
      <3>. QED  BY <1>6, <1>7, <2>2, <3>2, Zenon DEF Below
    <2>4. n.success >= n.applicable
      BY <1>3, <2>3
    <2>. QED  BY <1>1, <2>4, RowsSucceed, Zenon
  <1>8. ASSUME r.status = "DIMENSION_STRATUM_PASS", ~d1
        PROVE  /\ Cardinality(Units(rows, stratum)) >= DimensionN
               /\ TailParts(n.success, n.applicable, DimensionFloor) * Alpha.den
                    <= Alpha.num * Power(DimensionFloor.den, n.applicable)
    <2>1. n.applicable >= DimensionN
      BY <1>3, <1>6, <1>8 DEF StratumPolicy
    <2>2. Cardinality(Units(rows, stratum)) >= DimensionN
      BY <1>1, <1>3, <2>1 DEF StratumPolicy
    <2>3. lower
      <3>1. r.confident = (n.applicable > 0 /\ lower)
        BY <1>2, <1>8, Zenon
      <3>2. (n.applicable > 0 /\ lower) # FALSE
        BY <1>6, <1>8, <3>1, Zenon
      <3>. QED  BY <3>2
    <2>4. ConfidenceIsExact(n.success, n.applicable, DimensionFloor)
      <3>1. RatePolicy(DimensionFloor) /\ n.success \in 0..n.applicable
        BY <1>1 DEF StratumPolicy
      <3>. QED  BY <1>3, <3>1, ConfidenceIsTail, Zenon
    <2>. QED  BY <2>2, <2>3, <2>4, Zenon DEF ConfidenceIsExact, lower
  <1>. QED  BY <1>4, <1>5, <1>7, <1>8, Zenon DEF StratumIsSound, n, r

----------------------------------------------------------------------------
(* The kappa of a matrix of masses.                                        *)

Fractions == [num : Int, den : Nat \ {0}]

LEMMA CellsFinite ==
  /\ IsFiniteSet(Scores) /\ IsFiniteSet(Cells) /\ Cells = Scores \X Scores
  <1>1. IsFiniteSet(Scores)
    <2>1. 0 \in Int /\ 4 \in Int
      OBVIOUS
    <2>. QED  BY <2>1, FS_Interval, Zenon DEF Scores
  <1>2. IsFiniteSet(Scores \X Scores)
    BY <1>1, FS_Product
  <1>. QED  BY <1>1, <1>2 DEF Cells

Weight(c) == 16 - (c[1] - c[2]) * (c[1] - c[2])

LEMMA WeightIsSmall ==
  ASSUME NEW c \in Cells
  PROVE  Weight(c) \in 0..16
  <1>1. c[1] \in 0..4 /\ c[2] \in 0..4
    BY DEF Cells, Scores
  <1>. DEFINE d == c[1] - c[2]
  <1>2. d \in -4..4
    BY <1>1
  <1>3. \A x \in -4..4 : 16 - x * x \in 0..16
    <2>1. ASSUME NEW x \in -4..4 PROVE 16 - x * x \in 0..16
      <3>1. x = -4 \/ x = -3 \/ x = -2 \/ x = -1 \/ x = 0 \/ x = 1 \/ x = 2 \/ x = 3 \/ x = 4
        OBVIOUS
      <3>. QED  BY <3>1
    <2>. QED  BY <2>1
  <1>. HIDE DEF d
  <1>4. 16 - d * d \in 0..16
    BY <1>2, <1>3
  <1>. QED  BY <1>4, Zenon DEF d, Weight

Rows(m) == [i \in Scores |-> SumFunction(RowOf(m, Scores, i))]
Columns(m) == [j \in Scores |-> SumFunction(ColumnOf(m, Scores, j))]
Agreeing(m) == [c \in Cells |-> Weight(c) * m[c]]
ByChance(m) == [c \in Cells |-> Weight(c) * (Rows(m)[c[1]] * Columns(m)[c[2]])]

LEMMA KappaUnfolds ==
  ASSUME NEW m
  PROVE  Kappa(m) = KappaFrom(SumFunction(m), SumFunction(Agreeing(m)), SumFunction(ByChance(m)))
  BY Zenon DEF Kappa, Agreeing, ByChance, Rows, Columns, Weight, RowOf, ColumnOf

\* What is expected by chance never weighs more than everything.
LEMMA ChanceIsBounded ==
  ASSUME NEW m \in [Cells -> Nat]
  PROVE  /\ SumFunction(m) \in Nat /\ SumFunction(Agreeing(m)) \in Int
         /\ SumFunction(ByChance(m)) \in Int
         /\ SumFunction(ByChance(m)) <= 16 * SumFunction(m) * SumFunction(m)
  <1>. DEFINE row == Rows(m)
              col == Columns(m)
              total == SumFunction(m)
              product == [c \in Cells |-> row[c[1]] * col[c[2]]]
              most == [c \in Cells |-> 16 * product[c]]
              line == [i \in Scores |-> row[i] * total]
  <1>1. IsFiniteSet(Scores) /\ IsFiniteSet(Cells) /\ Cells = Scores \X Scores
    BY CellsFinite
  <1>2. total \in Nat /\ m \in [Cells -> Int]
    <2>1. m \in [Cells -> Int]
      OBVIOUS
    <2>. QED  BY <1>1, <2>1, SumNat
  <1>3. ASSUME NEW i \in Scores
        PROVE  /\ SumFunction(RowOf(m, Scores, i)) \in Nat
               /\ SumFunction(ColumnOf(m, Scores, i)) \in Nat
    <2>1. \A j \in Scores : <<i, j>> \in Cells /\ <<j, i>> \in Cells
      BY DEF Cells
    <2>2. RowOf(m, Scores, i) \in [Scores -> Nat] /\ ColumnOf(m, Scores, i) \in [Scores -> Nat]
      BY <2>1 DEF RowOf, ColumnOf
    <2>. QED  BY <1>1, <2>2, SumNat
  <1>4. row \in [Scores -> Nat] /\ col \in [Scores -> Nat]
    BY <1>3 DEF Rows, Columns
  <1>5. /\ \A i \in Scores : row[i] = SumFunction(RowOf(m, Scores, i))
        /\ \A j \in Scores : col[j] = SumFunction(ColumnOf(m, Scores, j))
    BY DEF Rows, Columns
  <1>. HIDE DEF row, col
  <1>6. SumFunction(row) = total
    <2>1. row \in [Scores -> Int] /\ m \in [Scores \X Scores -> Int]
      BY <1>1, <1>2, <1>4
    <2>2. ByRows(Scores, Scores, m, row)
      BY <1>5, <2>1, Zenon DEF ByRows
    <2>. QED  BY <1>1, <2>2, SumPairs
  <1>7. SumFunction(col) = total
    <2>1. m \in [Scores \X Scores -> Int] /\ row \in [Scores -> Int] /\ col \in [Scores -> Int]
      BY <1>1, <1>2, <1>4
    <2>2. ByRows(Scores, Scores, m, row) /\ ByColumns(Scores, Scores, m, col)
      BY <1>5, <2>1, Zenon DEF ByRows, ByColumns
    <2>3. SumFunction(row) = SumFunction(col)
      BY <1>1, <2>2, SumSwap
    <2>. QED  BY <1>6, <2>3
  <1>8. \A c \in Cells : c[1] \in Scores /\ c[2] \in Scores
    BY DEF Cells
  <1>9. product \in [Cells -> Nat] /\ most \in [Cells -> Int] /\ product \in [Cells -> Int]
    <2>1. \A c \in Cells : row[c[1]] * col[c[2]] \in Nat
      BY <1>4, <1>8
    <2>. QED  BY <2>1
  <1>10. SumFunction(product) = total * total
    <2>1. line \in [Scores -> Int] /\ \A i \in Scores : line[i] = total * row[i]
      BY <1>2, <1>4
    <2>2. \A i \in Scores : line[i] = SumFunction(RowOf(product, Scores, i))
      <3>. SUFFICES ASSUME NEW i \in Scores
                    PROVE  line[i] = SumFunction(RowOf(product, Scores, i))
        OBVIOUS
      <3>1. \A j \in Scores : RowOf(product, Scores, i)[j] = row[i] * col[j]
        <4>1. \A j \in Scores : <<i, j>> \in Cells
          BY DEF Cells
        <4>. QED  BY <4>1 DEF RowOf
      <3>2. DOMAIN RowOf(product, Scores, i) = Scores
        BY DEF RowOf
      <3>3. \A j \in Scores : row[i] * col[j] \in Int
        BY <1>4
      <3>4. RowOf(product, Scores, i) \in [Scores -> Int]
        <4>1. RowOf(product, Scores, i) = [j \in Scores |-> RowOf(product, Scores, i)[j]]
          BY DEF RowOf
        <4>. HIDE DEF product
        <4>. QED  BY <3>1, <3>3, <4>1
      <3>5. row[i] \in Int /\ col \in [Scores -> Int]
        BY <1>4
      <3>. HIDE DEF product
      <3>6. SumFunction(RowOf(product, Scores, i)) = row[i] * SumFunction(col)
        BY <1>1, <3>1, <3>4, <3>5, SumScale
      <3>. QED  BY <1>7, <3>6
    <2>3. ByRows(Scores, Scores, product, line)
      <3>. HIDE DEF product, line
      <3>. QED  BY <1>1, <1>9, <2>1, <2>2, Zenon DEF ByRows
    <2>4. SumFunction(line) = total * SumFunction(row)
      <3>1. row \in [Scores -> Int] /\ total \in Int
        BY <1>2, <1>4
      <3>. HIDE DEF line, total
      <3>. QED  BY <1>1, <2>1, <3>1, SumScale
    <2>5. SumFunction(product) = SumFunction(line)
      <3>. HIDE DEF line, product
      <3>. QED  BY <1>1, <2>3, SumPairs
    <2>. QED  BY <1>6, <2>4, <2>5, Zenon
  <1>11. SumFunction(most) = 16 * (total * total)
    <2>1. \A c \in Cells : most[c] = 16 * product[c]
      OBVIOUS
    <2>. HIDE DEF most, product
    <2>2. SumFunction(most) = 16 * SumFunction(product)
      BY <1>1, <1>9, <2>1, SumScale
    <2>. QED  BY <1>10, <2>2
  <1>12. /\ ByChance(m) \in [Cells -> Int] /\ Agreeing(m) \in [Cells -> Int]
         /\ \A c \in Cells : ByChance(m)[c] <= most[c]
    <2>1. \A c \in Cells : Weight(c) \in Int /\ Weight(c) <= 16
      <3>1. \A c \in Cells : Weight(c) \in 0..16
        BY WeightIsSmall
      <3>. QED  BY <3>1
    <2>2. \A c \in Cells : ByChance(m)[c] = Weight(c) * product[c]
      BY DEF ByChance, row, col
    <2>3. DOMAIN ByChance(m) = Cells /\ ByChance(m) = [c \in Cells |-> ByChance(m)[c]]
      BY DEF ByChance
    <2>4. \A c \in Cells : product[c] \in Nat
      <3>. HIDE DEF product
      <3>. QED  BY <1>9
    <2>5. \A c \in Cells : most[c] = 16 * product[c]
      OBVIOUS
    <2>. HIDE DEF product, most
    <2>6. \A c \in Cells : ByChance(m)[c] \in Int /\ ByChance(m)[c] <= most[c]
      <3>. SUFFICES ASSUME NEW c \in Cells
                    PROVE  /\ Weight(c) * product[c] \in Int
                           /\ Weight(c) * product[c] <= 16 * product[c]
        BY <2>2, <2>5
      <3>1. Weight(c) \in Int /\ 16 - Weight(c) \in Nat /\ product[c] \in Nat
        BY <2>1, <2>4
      <3>. DEFINE w == Weight(c)
                  p == product[c]
      <3>. HIDE DEF w, p
      <3>2. w \in Int /\ p \in Nat /\ (16 - w) * p \in Nat /\ (16 - w) * p = 16 * p - w * p
        BY <3>1 DEF w, p
      <3>3. w * p \in Int /\ w * p <= 16 * p
        BY <3>2
      <3>. QED  BY <3>3 DEF w, p
    <2>7. ByChance(m) \in [Cells -> Int]
      BY <2>3, <2>6
    <2>8. Agreeing(m) \in [Cells -> Int]
      <3>1. \A c \in Cells : Weight(c) * m[c] \in Int
        BY <2>1
      <3>. QED  BY <3>1 DEF Agreeing
    <2>. QED  BY <2>6, <2>7, <2>8
  <1>13. SumFunction(ByChance(m)) \in Int /\ SumFunction(Agreeing(m)) \in Int
    BY <1>1, <1>12, SumFacts
  <1>14. SumFunction(ByChance(m)) <= SumFunction(most)
    <2>. HIDE DEF most
    <2>. QED  BY <1>1, <1>9, <1>12, SumMonotone
  <1>15. 16 * (total * total) = 16 * total * total
    <2>. HIDE DEF total
    <2>. QED  BY <1>2
  <1>. QED  BY <1>2, <1>11, <1>13, <1>14, <1>15

LEMMA KappaIsFraction ==
  ASSUME NEW m \in [Cells -> Nat]
  PROVE  Kappa(m) = None \/ Kappa(m) \in Fractions
  <1>. DEFINE total == SumFunction(m)
              observed == SumFunction(Agreeing(m))
              expected == SumFunction(ByChance(m))
              den == 16 * total * total - expected
  <1>1. total \in Nat /\ observed \in Int /\ expected \in Int /\ expected <= 16 * total * total
    BY ChanceIsBounded
  <1>2. Kappa(m) = IF total = 0 \/ den = 0 THEN None
                   ELSE [num |-> total * observed - expected, den |-> den]
    BY KappaUnfolds, Zenon DEF KappaFrom
  <1>. HIDE DEF total, observed, expected
  <1>3. den \in Nat /\ total * observed - expected \in Int
    <2>1. 16 * total * total \in Nat /\ total * observed \in Int
      BY <1>1
    <2>. QED  BY <1>1, <2>1
  <1>. HIDE DEF den
  <1>4. den # 0 => [num |-> total * observed - expected, den |-> den] \in Fractions
    BY <1>3 DEF Fractions
  <1>. QED  BY <1>2, <1>4, Zenon

----------------------------------------------------------------------------
(* Rows, and some of them in their order.                                  *)

\* t has the members of s at the places I, each once, b says which.
PlacedBy(t, s, I, b) ==
  /\ b \in Bijection(DOMAIN t, I)
  /\ \A n \in DOMAIN t : t[n] = s[b[n]]

OneToOne(b, S, T) ==
  /\ b \in [S -> T] /\ DOMAIN b = S /\ \A x \in S : b[x] \in T
  /\ \A x, y \in S : b[x] = b[y] => x = y
  /\ \A z \in T : \E x \in S : b[x] = z

LEMMA BijectionFacts ==
  ASSUME NEW S, NEW T, NEW b
  PROVE  OneToOne(b, S, T) <=> b \in Bijection(S, T)
  <1>1. ASSUME OneToOne(b, S, T) PROVE b \in Bijection(S, T)
    BY <1>1 DEF OneToOne, Bijection, Injection, Surjection, IsInjective
  <1>2. ASSUME b \in Bijection(S, T) PROVE OneToOne(b, S, T)
    <2>1. b \in [S -> T]
      BY <1>2 DEF Bijection, Injection
    <2>. QED  BY <1>2, <2>1, Fun_BijectionProperties DEF OneToOne
  <1>. QED  BY <1>1, <1>2

\* What is true of as many on either side of a bijection.
Matching(b, S, T, A, B) ==
  /\ b \in Bijection(S, T) /\ A \in SUBSET S /\ B \in SUBSET T
  /\ \A x \in S : x \in A <=> b[x] \in B

LEMMA AsMany ==
  ASSUME NEW S, NEW T, NEW b, IsFiniteSet(S), NEW A, NEW B, Matching(b, S, T, A, B)
  PROVE  /\ IsFiniteSet(A) /\ IsFiniteSet(B) /\ Cardinality(A) = Cardinality(B)
         /\ Cardinality(A) \in Nat
  <1>. DEFINE r == [x \in A |-> b[x]]
  <1>0. /\ b \in Bijection(S, T) /\ A \in SUBSET S /\ B \in SUBSET T
        /\ \A x \in S : x \in A <=> b[x] \in B
    BY DEF Matching
  <1>1. OneToOne(b, S, T)
    BY <1>0, BijectionFacts
  <1>2. r \in [A -> B] /\ \A x \in A : r[x] = b[x]
    BY <1>0, <1>1 DEF OneToOne
  <1>3. \A x, y \in A : r[x] = r[y] => x = y
    BY <1>0, <1>1 DEF OneToOne
  <1>4. \A z \in B : \E x \in A : r[x] = z
    BY <1>0, <1>1 DEF OneToOne
  <1>. HIDE DEF r
  <1>5. r \in Bijection(A, B)
    BY <1>2, <1>3, <1>4 DEF Bijection, Injection, Surjection, IsInjective
  <1>6. IsFiniteSet(A)
    BY <1>0, FS_Subset
  <1>. QED  BY <1>5, <1>6, FS_Bijection, FS_CardinalityType DEF ExistsBijection

\* At(s, I) has the members of s at the places I.
Rank(I, i) == Cardinality({j \in I : j <= i})

LEMMA RankCounts ==
  ASSUME NEW I \in SUBSET Int, IsFiniteSet(I)
  PROVE  \E rank \in Bijection(I, 1..Cardinality(I)) : \A i \in I : rank[i] = Rank(I, i)
  <1>. DEFINE Upto(i) == {j \in I : j <= i}
              rank == [i \in I |-> Rank(I, i)]
              n == Cardinality(I)
  <1>1. n \in Nat /\ IsFiniteSet(1..n) /\ Cardinality(1..n) = n
    BY FS_CardinalityType, PlacesFinite
  <1>2. ASSUME NEW i \in I
        PROVE  IsFiniteSet(Upto(i)) /\ Rank(I, i) \in 1..n
    <2>1. Upto(i) \in SUBSET I /\ i \in Upto(i)
      OBVIOUS
    <2>2. Rank(I, i) = Cardinality(Upto(i))
      BY DEF Rank
    <2>. HIDE DEF Upto
    <2>3. IsFiniteSet(Upto(i)) /\ Cardinality(Upto(i)) <= n /\ Cardinality(Upto(i)) \in Nat
      BY <2>1, FS_Subset, FS_CardinalityType
    <2>4. Cardinality(Upto(i)) # 0
      BY <2>1, <2>3, FS_EmptySet
    <2>. QED  BY <1>1, <2>2, <2>3, <2>4
  <1>3. ASSUME NEW i \in I, NEW k \in I, Rank(I, i) = Rank(I, k), i < k
        PROVE  FALSE
    <2>0. i \in Int /\ k \in Int /\ \A j \in I : j \in Int /\ (j <= i => j <= k)
      BY <1>3
    <2>1. Upto(i) \in SUBSET Upto(k) /\ k \in Upto(k) /\ k \notin Upto(i)
      <3>1. k <= k /\ ~(k <= i)
        BY <1>3, <2>0
      <3>. QED  BY <2>0, <3>1, Zenon
    <2>2. Cardinality(Upto(k)) = Cardinality(Upto(i))
      BY <1>3 DEF Rank
    <2>3. IsFiniteSet(Upto(k))
      BY <1>2
    <2>. HIDE DEF Upto
    <2>4. Upto(k) = Upto(i)
      BY <2>1, <2>2, <2>3, FS_Subset
    <2>. QED  BY <2>1, <2>4
  <1>4. rank \in [I -> 1..n] /\ \A i \in I : rank[i] = Rank(I, i)
    BY <1>2
  <1>. HIDE DEF rank, n
  <1>5. \A i, k \in I : rank[i] = rank[k] => i = k
    <2>1. \A i, k \in I : i < k \/ k < i \/ i = k
      OBVIOUS
    <2>. QED  BY <1>3, <1>4, <2>1
  <1>6. rank \in Injection(I, 1..n)
    BY <1>4, <1>5 DEF Injection, IsInjective
  <1>7. rank \in Surjection(I, 1..n)
    BY <1>1, <1>6, FS_Injection DEF n
  <1>. QED  BY <1>4, <1>6, <1>7 DEF Bijection, n

LEMMA AtIsPlaced ==
  ASSUME NEW s, NEW I \in SUBSET Int, IsFiniteSet(I)
  PROVE  /\ DOMAIN At(s, I) = 1..Cardinality(I)
         /\ At(s, I) = [n \in 1..Cardinality(I) |-> At(s, I)[n]]
         /\ \E b : PlacedBy(At(s, I), s, I, b)
  <1>. DEFINE n == Cardinality(I)
              Place(k) == CHOOSE i \in I : Rank(I, i) = k
              b == [k \in 1..n |-> Place(k)]
  <1>1. At(s, I) = [k \in 1..n |-> s[Place(k)]]
    BY Zenon DEF At, Rank
  <1>2. PICK rank \in Bijection(I, 1..n) : \A i \in I : rank[i] = Rank(I, i)
    BY RankCounts
  <1>3. /\ \A i \in I : rank[i] \in 1..n
        /\ \A i, k \in I : rank[i] = rank[k] => i = k
        /\ \A k \in 1..n : \E i \in I : rank[i] = k
    <2>1. OneToOne(rank, I, 1..n)
      BY BijectionFacts
    <2>. QED  BY <2>1, Zenon DEF OneToOne
  <1>4. \A k \in 1..n : Place(k) \in I /\ rank[Place(k)] = k
    <2>. TAKE k \in 1..n
    <2>1. \E i \in I : Rank(I, i) = k
      BY <1>2, <1>3
    <2>2. Place(k) \in I /\ Rank(I, Place(k)) = k
      BY <2>1
    <2>. QED  BY <1>2, <2>2
  <1>5. b \in [1..n -> I] /\ \A k \in 1..n : rank[b[k]] = k
    BY <1>4
  <1>6. \A k \in 1..n : At(s, I)[k] = s[b[k]]
    BY <1>1
  <1>. HIDE DEF b, Place
  <1>7. \A i \in I : \E k \in 1..n : b[k] = i
    BY <1>3, <1>5
  <1>8. \A k, l \in 1..n : b[k] = b[l] => k = l
    BY <1>5
  <1>9. b \in Bijection(1..n, I)
    BY <1>5, <1>7, <1>8 DEF Bijection, Injection, Surjection, IsInjective
  <1>10. DOMAIN At(s, I) = 1..n /\ At(s, I) = [k \in 1..n |-> At(s, I)[k]]
    BY <1>1
  <1>11. PlacedBy(At(s, I), s, I, b)
    BY <1>6, <1>9, <1>10, Zenon DEF PlacedBy
  <1>. QED  BY <1>10, <1>11, Zenon

----------------------------------------------------------------------------
(* The ratings of a scope, without the order of its rows.                  *)

Marks == Scores \cup {None}
RatingRows(sources) == Seq([source : sources, pair : Marks \X Marks])

IsRated(pair) == None \notin {pair[1], pair[2]}
IsHalf(pair) == (pair[1] = None) # (pair[2] = None)
PairsOf(rows) == [i \in DOMAIN rows |-> rows[i].pair]

Own(rows, s) == {i \in DOMAIN rows : rows[i].source = s}
Both(rows, s) == {i \in Own(rows, s) : IsRated(rows[i].pair)}
Placed(rows, s, c) == {i \in Own(rows, s) : rows[i].pair = c}
IsOneSided(rows, s) == \E i \in Own(rows, s) : IsHalf(rows[i].pair)

RowPlaces(rows) ==
  /\ Len(rows) \in Nat /\ DOMAIN rows = 1..Len(rows) /\ IsFiniteSet(DOMAIN rows)
  /\ \A I \in SUBSET DOMAIN rows :
       I \in SUBSET Int /\ IsFiniteSet(I) /\ Cardinality(I) \in Nat
  /\ \A i \in DOMAIN rows : rows[i].pair \in Marks \X Marks

LEMMA RowsHavePlaces ==
  ASSUME NEW sources, NEW rows \in RatingRows(sources)
  PROVE  RowPlaces(rows)
  <1>1. /\ Len(rows) \in Nat /\ DOMAIN rows = 1..Len(rows)
        /\ \A i \in DOMAIN rows : rows[i].pair \in Marks \X Marks
    <2>. DEFINE Row == [source : sources, pair : Marks \X Marks]
    <2>1. \A row \in Row : row.pair \in Marks \X Marks
      OBVIOUS
    <2>2. rows \in Seq(Row)
      BY DEF RatingRows
    <2>. HIDE DEF Row
    <2>. QED  BY <2>1, <2>2, MembersOf
  <1>2. IsFiniteSet(1..Len(rows))
    BY <1>1, PlacesFinite
  <1>3. \A I \in SUBSET (1..Len(rows)) : I \in SUBSET Int
    BY <1>1
  <1>4. \A I \in SUBSET (1..Len(rows)) : IsFiniteSet(I) /\ Cardinality(I) \in Nat
    BY <1>2, FS_Subset, FS_CardinalityType
  <1>. QED  BY <1>1, <1>2, <1>3, <1>4, Zenon DEF RowPlaces

\* p are the ratings of a source that both reviewers gave.
RatingsFit(p, rows, s) ==
  /\ DOMAIN p = 1..Cardinality(Both(rows, s)) /\ Len(p) = Cardinality(Both(rows, s))
  /\ p \in Seq(Cells)
  /\ \A c \in Cells : Cardinality({i \in DOMAIN p : p[i] = c}) = Cardinality(Placed(rows, s, c))

LEMMA OwnRatings ==
  ASSUME None \notin Scores, NEW rows, RowPlaces(rows), NEW s
  PROVE  /\ OneSided(RatingsOf(rows, s)) <=> IsOneSided(rows, s)
         /\ RatingsFit(Rated(RatingsOf(rows, s)), rows, s)
  <1>. DEFINE q == RatingsOf(rows, s)
              J == {i \in DOMAIN q : IsRated(q[i])}
              p == Rated(q)
  <1>1. /\ \A I \in SUBSET DOMAIN rows :
             I \in SUBSET Int /\ IsFiniteSet(I) /\ Cardinality(I) \in Nat
        /\ \A i \in DOMAIN rows : rows[i].pair \in Marks \X Marks
    BY DEF RowPlaces
  <1>2. Own(rows, s) \in SUBSET DOMAIN rows /\ Both(rows, s) \in SUBSET DOMAIN rows
    BY DEF Own, Both
  <1>3. q = At(PairsOf(rows), Own(rows, s)) /\ p = At(q, J)
    BY Zenon DEF RatingsOf, Own, PairsOf, Rated, IsRated
  <1>4. /\ DOMAIN q = 1..Cardinality(Own(rows, s))
        /\ \E b : PlacedBy(q, PairsOf(rows), Own(rows, s), b)
    BY <1>1, <1>2, <1>3, AtIsPlaced
  <1>5. PICK b : PlacedBy(q, PairsOf(rows), Own(rows, s), b)
    BY <1>4
  <1>6. /\ b \in Bijection(DOMAIN q, Own(rows, s))
        /\ \A n \in DOMAIN q : q[n] = PairsOf(rows)[b[n]]
    BY <1>5 DEF PlacedBy
  <1>7. OneToOne(b, DOMAIN q, Own(rows, s))
    BY <1>6, BijectionFacts
  <1>8. \A n \in DOMAIN q : q[n] = rows[b[n]].pair /\ b[n] \in Own(rows, s)
    BY <1>2, <1>6, <1>7 DEF OneToOne, PairsOf
  <1>9. DOMAIN q \in SUBSET Int /\ IsFiniteSet(DOMAIN q)
    <2>1. Cardinality(Own(rows, s)) \in Nat
      BY <1>1, <1>2
    <2>. QED  BY <1>4, <2>1, PlacesFinite
  <1>. HIDE DEF q
  <1>10. OneSided(q) <=> IsOneSided(rows, s)
    <2>1. OneSided(q) <=> \E n \in DOMAIN q : IsHalf(q[n])
      BY Zenon DEF OneSided, IsHalf
    <2>2. \A i \in Own(rows, s) : \E n \in DOMAIN q : b[n] = i
      BY <1>7, Zenon DEF OneToOne
    <2>. QED  BY <1>8, <2>1, <2>2, ZenonT(60) DEF IsOneSided
  <1>11. J \in SUBSET DOMAIN q /\ J \in SUBSET Int
    BY <1>9
  <1>12. IsFiniteSet(J) /\ Cardinality(J) = Cardinality(Both(rows, s)) /\ Cardinality(J) \in Nat
    <2>1. Both(rows, s) \in SUBSET Own(rows, s)
      BY DEF Both
    <2>2. \A n \in DOMAIN q : n \in J <=> b[n] \in Both(rows, s)
      BY <1>8, Zenon DEF Both
    <2>. HIDE DEF J
    <2>3. Matching(b, DOMAIN q, Own(rows, s), J, Both(rows, s))
      BY <1>6, <1>11, <2>1, <2>2, Zenon DEF Matching
    <2>. QED  BY <1>9, <2>3, AsMany
  <1>. HIDE DEF J
  <1>13. /\ DOMAIN p = 1..Cardinality(J) /\ p = [n \in 1..Cardinality(J) |-> p[n]]
         /\ \E d : PlacedBy(p, q, J, d)
    BY <1>3, <1>11, <1>12, AtIsPlaced
  <1>14. PICK d : PlacedBy(p, q, J, d)
    BY <1>13
  <1>15. d \in Bijection(DOMAIN p, J) /\ \A n \in DOMAIN p : p[n] = q[d[n]]
    BY <1>14 DEF PlacedBy
  <1>16. OneToOne(d, DOMAIN p, J)
    BY <1>15, BijectionFacts
  <1>. HIDE DEF p
  <1>17. \A n \in DOMAIN p : d[n] \in J /\ p[n] = q[d[n]]
    BY <1>15, <1>16 DEF OneToOne
  <1>18. \A n \in DOMAIN p : p[n] \in Cells
    <2>1. ASSUME NEW j \in J PROVE q[j] \in Cells
      <3>1. IsRated(q[j]) /\ q[j] = rows[b[j]].pair /\ b[j] \in Own(rows, s)
        BY <1>8, <1>11 DEF J
      <3>2. q[j] \in Marks \X Marks
        BY <1>1, <1>2, <3>1
      <3>. QED  BY <3>1, <3>2 DEF IsRated, Marks, Cells
    <2>. QED  BY <1>17, <2>1
  <1>19. p \in Seq(Cells) /\ Len(p) = Cardinality(J)
    BY <1>12, <1>13, <1>18
  <1>20. ASSUME NEW c \in Cells
         PROVE  Cardinality({i \in DOMAIN p : p[i] = c}) = Cardinality(Placed(rows, s, c))
    <2>. DEFINE A == {i \in DOMAIN p : p[i] = c}
                B == {j \in J : q[j] = c}
    <2>1. A \in SUBSET DOMAIN p /\ B \in SUBSET J /\ B \in SUBSET DOMAIN q
      BY <1>11
    <2>2. \A n \in DOMAIN p : n \in A <=> d[n] \in B
      BY <1>17
    <2>3. IsFiniteSet(DOMAIN p)
      BY <1>12, <1>13, PlacesFinite
    <2>4. \A n \in DOMAIN q : n \in B <=> b[n] \in Placed(rows, s, c)
      <3>1. IsRated(c)
        BY DEF IsRated, Cells, Marks
      <3>2. \A n \in DOMAIN q : q[n] = c => n \in J
        BY <3>1 DEF J
      <3>. QED  BY <1>8, <3>2, Zenon DEF Placed
    <2>5. Placed(rows, s, c) \in SUBSET Own(rows, s)
      BY DEF Placed
    <2>. HIDE DEF A, B
    <2>6. /\ Matching(d, DOMAIN p, J, A, B)
          /\ Matching(b, DOMAIN q, Own(rows, s), B, Placed(rows, s, c))
      BY <1>6, <1>15, <2>1, <2>2, <2>4, <2>5, Zenon DEF Matching
    <2>7. Cardinality(A) = Cardinality(B)
      BY <2>3, <2>6, AsMany
    <2>8. Cardinality(B) = Cardinality(Placed(rows, s, c))
      BY <1>9, <2>6, AsMany
    <2>. QED  BY <2>7, <2>8 DEF A
  <1>21. RatingsFit(p, rows, s)
    BY <1>12, <1>13, <1>19, <1>20, Zenon DEF RatingsFit
  <1>. QED  BY <1>10, <1>21 DEF p, q

\* The sources of the rows, each once.
LEMMA SourcesAre ==
  ASSUME NEW rows, RowPlaces(rows)
  PROVE  /\ DOMAIN SourcesOf(rows) = 1..Cardinality(SourcesIn(rows))
         /\ Len(SourcesOf(rows)) = Cardinality(SourcesIn(rows))
         /\ SourcesOf(rows) \in Bijection(DOMAIN SourcesOf(rows), SourcesIn(rows))
         /\ IsFiniteSet(SourcesIn(rows)) /\ Cardinality(SourcesIn(rows)) \in Nat
  <1>. DEFINE named == [i \in DOMAIN rows |-> rows[i].source]
              First == {i \in DOMAIN rows : \A j \in 1..(i - 1) : rows[j].source # rows[i].source}
              order == SourcesOf(rows)
              T == SourcesIn(rows)
  <1>1. /\ DOMAIN rows = 1..Len(rows) /\ Len(rows) \in Nat
        /\ \A I \in SUBSET DOMAIN rows :
             I \in SUBSET Int /\ IsFiniteSet(I) /\ Cardinality(I) \in Nat
    BY DEF RowPlaces
  <1>2. First \in SUBSET DOMAIN rows /\ First \in SUBSET Int /\ IsFiniteSet(First)
    <2>1. First \in SUBSET DOMAIN rows
      OBVIOUS
    <2>. HIDE DEF First
    <2>. QED  BY <1>1, <2>1
  <1>3. order = At(named, First)
    BY Zenon DEF SourcesOf
  <1>4. \A i \in DOMAIN rows : named[i] = rows[i].source
    OBVIOUS
  <1>5. \A s \in T : \E i \in First : rows[i].source = s
    <2>. SUFFICES ASSUME NEW s \in T PROVE \E i \in First : rows[i].source = s
      OBVIOUS
    <2>. DEFINE O == {i \in DOMAIN rows : rows[i].source = s}
    <2>1. O \in SUBSET Nat /\ O # {}
      BY <1>1 DEF SourcesIn
    <2>2. PICK k \in O : \A i \in O : k <= i
      <3>. HIDE DEF O
      <3>. QED  BY <2>1, LeastIn
    <2>3. \A j \in 1..(k - 1) : j \notin O /\ j \in DOMAIN rows
      <3>1. k \in 1..Len(rows)
        BY <1>1
      <3>2. \A j \in 1..(k - 1) : ~(k <= j)
        BY <1>1, <3>1
      <3>3. \A j \in 1..(k - 1) : j \in 1..Len(rows)
        BY <1>1, <3>1
      <3>. HIDE DEF O
      <3>. QED  BY <1>1, <2>2, <3>2, <3>3, Zenon
    <2>4. k \in First /\ rows[k].source = s
      BY <2>2, <2>3
    <2>. QED  BY <2>4
  <1>6. \A i, k \in First : rows[i].source = rows[k].source => i = k
    <2>1. ASSUME NEW i \in First, NEW k \in First, rows[i].source = rows[k].source, i < k
          PROVE  FALSE
      <3>1. i \in 1..(k - 1)
        BY <1>1, <2>1
      <3>. QED  BY <2>1, <3>1
    <2>2. \A i, k \in First : i < k \/ k < i \/ i = k
      <3>. HIDE DEF First
      <3>. QED  BY <1>2
    <2>. QED  BY <2>1, <2>2
  <1>7. \A i \in First : rows[i].source \in T /\ i \in DOMAIN rows
    BY DEF SourcesIn
  <1>. HIDE DEF First, order, T
  <1>8. DOMAIN order = 1..Cardinality(First) /\ \E b : PlacedBy(order, named, First, b)
    <2>. HIDE DEF named
    <2>. QED  BY <1>2, <1>3, AtIsPlaced
  <1>9. Cardinality(First) \in Nat
    BY <1>1, <1>2
  <1>10. PICK b : PlacedBy(order, named, First, b)
    BY <1>8
  <1>11. b \in Bijection(DOMAIN order, First) /\ \A n \in DOMAIN order : order[n] = named[b[n]]
    <2>. HIDE DEF named
    <2>. QED  BY <1>10, Zenon DEF PlacedBy
  <1>12. OneToOne(b, DOMAIN order, First)
    BY <1>11, BijectionFacts
  <1>13. \A n \in DOMAIN order : b[n] \in First /\ order[n] = rows[b[n]].source
    BY <1>4, <1>7, <1>11, <1>12 DEF OneToOne
  <1>14. order = [n \in 1..Cardinality(First) |-> order[n]] /\ Len(order) = Cardinality(First)
    <2>1. order = [n \in 1..Cardinality(First) |-> order[n]]
      <3>. HIDE DEF named
      <3>. QED  BY <1>2, <1>3, AtIsPlaced
    <2>. QED  BY <1>9, <2>1
  <1>15. OneToOne(order, DOMAIN order, T)
    <2>1. \A n \in DOMAIN order : order[n] \in T
      BY <1>7, <1>13
    <2>2. order \in [DOMAIN order -> T]
      BY <1>8, <1>14, <2>1
    <2>3. \A n, m \in DOMAIN order : order[n] = order[m] => n = m
      BY <1>6, <1>12, <1>13 DEF OneToOne
    <2>4. ASSUME NEW s \in T PROVE \E n \in DOMAIN order : order[n] = s
      <3>1. PICK i \in First : rows[i].source = s
        BY <1>5
      <3>2. PICK n \in DOMAIN order : b[n] = i
        BY <1>12, Zenon DEF OneToOne
      <3>. QED  BY <1>13, <3>1, <3>2, Zenon
    <2>. QED  BY <2>1, <2>2, <2>3, <2>4 DEF OneToOne
  <1>16. order \in Bijection(DOMAIN order, T)
    BY <1>15, BijectionFacts
  <1>17. IsFiniteSet(T) /\ Cardinality(T) = Cardinality(First)
    <2>1. /\ IsFiniteSet(1..Cardinality(First))
          /\ Cardinality(1..Cardinality(First)) = Cardinality(First)
      BY <1>9, PlacesFinite
    <2>. QED  BY <1>8, <1>16, <2>1, FS_Bijection DEF ExistsBijection
  <1>. QED  BY <1>8, <1>9, <1>14, <1>16, <1>17 DEF order, T

Counted(rows) == {s \in SourcesIn(rows) : ~IsOneSided(rows, s) /\ Both(rows, s) # {}}
Aside(rows) == {s \in SourcesIn(rows) : IsOneSided(rows, s)}
Silent(rows) == SourcesIn(rows) \ (Counted(rows) \cup Aside(rows))

\* v lists the ratings of the sources that count, e says whose they are.
ListedBy(v, rows, e) ==
  /\ DOMAIN v.sources = 1..Cardinality(Counted(rows))
  /\ v.sources = [k \in 1..Cardinality(Counted(rows)) |-> v.sources[k]]
  /\ e \in Bijection(DOMAIN v.sources, Counted(rows))
  /\ \A k \in DOMAIN v.sources : v.sources[k] = Rated(RatingsOf(rows, e[k]))

CountsOf(v, rows) ==
  /\ IsFiniteSet(Counted(rows)) /\ Cardinality(Counted(rows)) \in Nat
  /\ Cardinality(Aside(rows)) \in Nat /\ Cardinality(Silent(rows)) \in Nat
  /\ Len(v.sources) = Cardinality(Counted(rows))
  /\ v.unilateral = Cardinality(Aside(rows)) /\ v.bilateral = Cardinality(Silent(rows))
  /\ v.unilateral + v.bilateral + Len(v.sources) = Len(SourcesOf(rows))

LEMMA VectorsAre ==
  ASSUME None \notin Scores, NEW rows, RowPlaces(rows)
  PROVE  CountsOf(Vectors(rows), rows) /\ \E e : ListedBy(Vectors(rows), rows, e)
  <1>. DEFINE order == SourcesOf(rows)
              D == DOMAIN order
              T == SourcesIn(rows)
              ratings == [i \in D |-> RatingsOf(rows, order[i])]
              rated == [i \in D |-> Rated(ratings[i])]
              oneSided == {i \in D : OneSided(ratings[i])}
              unrated == {i \in D \ oneSided : rated[i] = <<>>}
              kept == D \ (oneSided \cup unrated)
              v == Vectors(rows)
  <1>1. v = [sources |-> At(rated, kept), unilateral |-> Cardinality(oneSided),
             bilateral |-> Cardinality(unrated)]
    BY Zenon DEF Vectors
  <1>2. v.sources = At(rated, kept) /\ v.unilateral = Cardinality(oneSided)
        /\ v.bilateral = Cardinality(unrated)
    BY <1>1
  <1>3. /\ order \in Bijection(D, T) /\ IsFiniteSet(T) /\ Len(order) = Cardinality(T)
        /\ D = 1..Cardinality(T) /\ Cardinality(T) \in Nat
    BY SourcesAre
  <1>4. OneToOne(order, D, T)
    BY <1>3, BijectionFacts
  <1>5. \A i \in D : /\ order[i] \in T
                     /\ ratings[i] = RatingsOf(rows, order[i])
                     /\ rated[i] = Rated(RatingsOf(rows, order[i]))
    BY <1>4 DEF OneToOne
  <1>6. ASSUME NEW i \in D
        PROVE  /\ OneSided(ratings[i]) <=> IsOneSided(rows, order[i])
               /\ rated[i] = <<>> <=> Both(rows, order[i]) = {}
    <2>1. /\ OneSided(RatingsOf(rows, order[i])) <=> IsOneSided(rows, order[i])
          /\ RatingsFit(Rated(RatingsOf(rows, order[i])), rows, order[i])
      <3>. HIDE DEF order
      <3>. QED  BY OwnRatings
    <2>2. Both(rows, order[i]) \in SUBSET DOMAIN rows
      BY DEF Both, Own
    <2>3. IsFiniteSet(Both(rows, order[i])) /\ Cardinality(Both(rows, order[i])) \in Nat
      <3>. HIDE DEF order
      <3>. QED  BY <2>2 DEF RowPlaces
    <2>4. Cardinality(Both(rows, order[i])) = 0 <=> Both(rows, order[i]) = {}
      <3>. HIDE DEF order
      <3>. QED  BY <2>3, FS_EmptySet
    <2>. DEFINE p == Rated(RatingsOf(rows, order[i]))
    <2>5. Len(p) = Cardinality(Both(rows, order[i])) /\ p \in Seq(Cells)
      BY <2>1 DEF RatingsFit
    <2>6. rated[i] = p
      BY <1>5
    <2>. HIDE DEF p
    <2>7. p = <<>> <=> Len(p) = 0
      BY <2>5
    <2>. QED  BY <1>5, <2>1, <2>4, <2>5, <2>6, <2>7
  <1>7. /\ \A i \in D : i \in oneSided <=> order[i] \in Aside(rows)
        /\ \A i \in D : i \in kept <=> order[i] \in Counted(rows)
        /\ \A i \in D : i \in unrated <=> order[i] \in Silent(rows)
    <2>1. \A i \in D : i \in oneSided <=> order[i] \in Aside(rows)
      BY <1>5, <1>6 DEF Aside
    <2>2. \A i \in D : i \in unrated <=> i \notin oneSided /\ Both(rows, order[i]) = {}
      BY <1>6
    <2>3. \A i \in D : i \in kept <=> i \notin oneSided /\ i \notin unrated
      OBVIOUS
    <2>. HIDE DEF kept, unrated, oneSided, order, D, T
    <2>4. \A i \in D : i \in oneSided <=> IsOneSided(rows, order[i])
      BY <1>5, <2>1 DEF Aside, T
    <2>5. \A i \in D : i \in kept <=> order[i] \in Counted(rows)
      BY <1>5, <2>2, <2>3, <2>4, Zenon DEF Counted, T
    <2>6. \A i \in D : i \in unrated <=> order[i] \in Silent(rows)
      BY <1>5, <2>1, <2>2, <2>3, <2>5, Zenon DEF Silent, T
    <2>. QED  BY <2>1, <2>5, <2>6
  <1>8. /\ oneSided \in SUBSET D /\ unrated \in SUBSET D /\ kept \in SUBSET D
        /\ oneSided \cap unrated = {} /\ kept = D \ (oneSided \cup unrated)
    OBVIOUS
  <1>9. /\ Aside(rows) \in SUBSET T /\ Counted(rows) \in SUBSET T /\ Silent(rows) \in SUBSET T
    BY DEF Aside, Counted, Silent
  <1>10. IsFiniteSet(D) /\ D \in SUBSET Int
    BY <1>3, PlacesFinite
  <1>. HIDE DEF oneSided, unrated, kept, v, order, T, D, rated, ratings
  <1>11. /\ Matching(order, D, T, oneSided, Aside(rows))
          /\ Matching(order, D, T, unrated, Silent(rows))
          /\ Matching(order, D, T, kept, Counted(rows))
    BY <1>3, <1>7, <1>8, <1>9, Zenon DEF Matching
  <1>12. /\ Cardinality(oneSided) = Cardinality(Aside(rows)) /\ Cardinality(oneSided) \in Nat
         /\ IsFiniteSet(oneSided)
    BY <1>10, <1>11, AsMany
  <1>13. /\ Cardinality(unrated) = Cardinality(Silent(rows)) /\ Cardinality(unrated) \in Nat
         /\ IsFiniteSet(unrated)
    BY <1>10, <1>11, AsMany
  <1>14. /\ Cardinality(kept) = Cardinality(Counted(rows)) /\ Cardinality(kept) \in Nat
         /\ IsFiniteSet(kept) /\ IsFiniteSet(Counted(rows))
    BY <1>10, <1>11, AsMany
  <1>15. Cardinality(oneSided) + Cardinality(unrated) + Cardinality(kept) = Cardinality(T)
    <2>. DEFINE U == oneSided \cup unrated
    <2>1. /\ IsFiniteSet(U)
          /\ Cardinality(U) = Cardinality(oneSided) + Cardinality(unrated)
                                - Cardinality(oneSided \cap unrated)
      BY <1>12, <1>13, FS_Union
    <2>2. Cardinality(oneSided \cap unrated) = 0
      BY <1>8, FS_EmptySet
    <2>3. U \cup kept = D /\ U \cap kept = {}
      BY <1>8
    <2>. HIDE DEF U
    <2>4. Cardinality(U \cup kept) = Cardinality(U) + Cardinality(kept) - Cardinality(U \cap kept)
      BY <1>14, <2>1, FS_Union
    <2>5. Cardinality(U \cap kept) = 0
      BY <2>3, FS_EmptySet
    <2>6. Cardinality(D) = Cardinality(T)
      BY <1>3, PlacesFinite
    <2>7. Cardinality(U \cup kept) = Cardinality(T)
      BY <2>3, <2>6, Zenon
    <2>. QED  BY <1>12, <1>13, <1>14, <2>1, <2>2, <2>4, <2>5, <2>7
  <1>16. /\ DOMAIN v.sources = 1..Cardinality(kept)
         /\ v.sources = [k \in 1..Cardinality(kept) |-> v.sources[k]]
         /\ \E d : PlacedBy(v.sources, rated, kept, d)
    <2>1. kept \in SUBSET Int
      BY <1>8, <1>10
    <2>. QED  BY <1>2, <1>14, <2>1, AtIsPlaced
  <1>17. Len(v.sources) = Cardinality(kept)
    <2>. DEFINE src == v.sources
    <2>1. src = [k \in 1..Cardinality(kept) |-> src[k]]
      BY <1>16
    <2>. HIDE DEF src
    <2>2. Len(src) = Cardinality(kept)
      BY <1>14, <2>1
    <2>. QED  BY <2>2 DEF src
  <1>18. CountsOf(v, rows)
    BY <1>2, <1>3, <1>12, <1>13, <1>14, <1>15, <1>17 DEF CountsOf, order
  <1>19. PICK d : PlacedBy(v.sources, rated, kept, d)
    BY <1>16
  <1>20. /\ d \in Bijection(DOMAIN v.sources, kept)
         /\ \A k \in DOMAIN v.sources : v.sources[k] = rated[d[k]]
    BY <1>19, Zenon DEF PlacedBy
  <1>21. OneToOne(d, DOMAIN v.sources, kept)
    BY <1>20, BijectionFacts
  <1>. DEFINE E == DOMAIN v.sources
              e == [k \in E |-> order[d[k]]]
  <1>22. \A k \in E : /\ d[k] \in kept /\ d[k] \in D /\ e[k] = order[d[k]]
                      /\ v.sources[k] = rated[d[k]]
    <2>1. \A k \in E : d[k] \in kept /\ v.sources[k] = rated[d[k]]
      BY <1>20, <1>21, Zenon DEF OneToOne
    <2>. HIDE DEF E
    <2>. QED  BY <1>8, <2>1
  <1>23. DOMAIN e = E /\ e = [k \in E |-> e[k]]
    OBVIOUS
  <1>. HIDE DEF e, E
  <1>24. \A k \in E : e[k] \in Counted(rows)
    BY <1>7, <1>22
  <1>25. \A k, l \in E : e[k] = e[l] => k = l
    BY <1>4, <1>21, <1>22 DEF OneToOne, E
  <1>26. \A s \in Counted(rows) : \E k \in E : e[k] = s
    <2>. SUFFICES ASSUME NEW s \in Counted(rows) PROVE \E k \in E : e[k] = s
      OBVIOUS
    <2>1. PICK i \in D : order[i] = s
      BY <1>4, <1>9 DEF OneToOne
    <2>2. i \in kept
      BY <1>7, <2>1
    <2>3. PICK k \in E : d[k] = i
      BY <1>21, <2>2, Zenon DEF OneToOne, E
    <2>. QED  BY <1>22, <2>1, <2>3
  <1>27. e \in Bijection(E, Counted(rows))
    <2>1. OneToOne(e, E, Counted(rows))
      BY <1>23, <1>24, <1>25, <1>26 DEF OneToOne
    <2>. QED  BY <2>1, BijectionFacts
  <1>28. \A k \in E : v.sources[k] = Rated(RatingsOf(rows, e[k]))
    BY <1>5, <1>22
  <1>29. ListedBy(v, rows, e)
    BY <1>14, <1>16, <1>27, <1>28 DEF ListedBy, E
  <1>. QED  BY <1>18, <1>29 DEF v

----------------------------------------------------------------------------
(* The matrix of the sources that count.                                   *)

\* The ratings of one source, of whose mass every rating has a share.
HasShares(p) ==
  /\ p \in Seq(Cells) /\ Len(p) \in Nat \ {0}
  /\ \E q \in Nat : MassUnits = Len(p) * q

ShareSources(src, n) ==
  /\ n \in Nat /\ DOMAIN src = 1..n /\ Len(src) = n /\ src = [k \in 1..n |-> src[k]]
  /\ \A k \in 1..n : HasShares(src[k])

At1(p, c) == {i \in DOMAIN p : p[i] = c}

LEMMA ContributionIs ==
  ASSUME NEW p, HasShares(p), NEW c \in Cells
  PROVE  /\ Contribution(p)[c] \in Nat
         /\ SumFunction([i \in At1(p, c) |-> MassUnits \div Len(p)]) = Contribution(p)[c]
  <1>. DEFINE I == At1(p, c)
              l == Len(p)
              k == Cardinality(I)
              f == [i \in I |-> MassUnits \div l]
  <1>1. p \in Seq(Cells) /\ l \in Nat /\ l # 0 /\ DOMAIN p = 1..l
    BY DEF HasShares
  <1>2. PICK q \in Nat : MassUnits = l * q
    BY DEF HasShares
  <1>3. IsFiniteSet(I) /\ k \in Nat
    <2>1. IsFiniteSet(DOMAIN p)
      <3>. HIDE DEF l
      <3>. QED  BY <1>1, PlacesFinite
    <2>2. I \in SUBSET DOMAIN p
      BY DEF At1
    <2>. QED  BY <2>1, <2>2, FS_Subset, FS_CardinalityType
  <1>4. Contribution(p)[c] = (MassUnits * k) \div l
    BY DEF Contribution, At1
  <1>. HIDE DEF l, k, I
  <1>5. MassUnits \div l = q
    BY <1>1, <1>2, DivideBack
  <1>6. (MassUnits * k) \div l = q * k
    <2>1. MassUnits * k = l * (q * k) /\ q * k \in Nat
      BY <1>1, <1>2, <1>3
    <2>2. (l * (q * k)) \div l = q * k
      BY <1>1, <2>1, DivideBack
    <2>. QED  BY <2>1, <2>2
  <1>7. SumFunction(f) = q * k
    <2>1. f \in [I -> Int] /\ \A i \in I : f[i] = q
      BY <1>5
    <2>2. q \in Int
      OBVIOUS
    <2>. HIDE DEF f
    <2>. QED  BY <1>3, <2>1, <2>2, SumOfOne DEF k
  <1>8. q * k \in Nat
    BY <1>3
  <1>. QED  BY <1>4, <1>6, <1>7, <1>8 DEF I, l

\* What the engine calls the matrix of the sources is what the contract weighs.
LEMMA WeightedIsKappa ==
  ASSUME NEW src, NEW n, ShareSources(src, n)
  PROVE  /\ SourceWeighted(src) = Kappa(MatrixOf(src))
         /\ MatrixOf(src) \in [Cells -> Nat]
         /\ \A c \in Cells : MatrixOf(src)[c] =
            SumFunction([k \in 1..n |-> Contribution(src[k])[c]])
         /\ \A c \in Cells : [k \in 1..n |-> Contribution(src[k])[c]] \in [1..n -> Nat]
  <1>. DEFINE given(c) == [k \in 1..n |-> Contribution(src[k])[c]]
              weighed(c) == [k \in 1..n |->
                SumFunction([i \in At1(src[k], c) |-> MassUnits \div Len(src[k])])]
  <1>1. n \in Nat /\ DOMAIN src = 1..n /\ \A k \in 1..n : HasShares(src[k])
    BY DEF ShareSources
  <1>2. ASSUME NEW c \in Cells
        PROVE  weighed(c) = given(c) /\ given(c) \in [1..n -> Nat]
    <2>1. \A k \in 1..n :
             /\ Contribution(src[k])[c] \in Nat
             /\ SumFunction([i \in At1(src[k], c) |-> MassUnits \div Len(src[k])])
                  = Contribution(src[k])[c]
      BY <1>1, ContributionIs
    <2>. QED  BY <2>1
  <1>3. MatrixOf(src) = [c \in Cells |-> SumFunction(given(c))]
    BY <1>1, Zenon DEF MatrixOf
  <1>4. SourceWeighted(src) = Kappa([c \in Cells |-> SumFunction(weighed(c))])
    BY <1>1, Zenon DEF SourceWeighted, At1
  <1>5. [c \in Cells |-> SumFunction(weighed(c))] = [c \in Cells |-> SumFunction(given(c))]
    <2>. HIDE DEF weighed, given
    <2>. QED  BY <1>2
  <1>6. \A c \in Cells : SumFunction(given(c)) \in Nat
    <2>1. IsFiniteSet(1..n)
      BY <1>1, PlacesFinite
    <2>. HIDE DEF given
    <2>. QED  BY <1>2, <2>1, SumNat
  <1>7. SourceWeighted(src) = Kappa(MatrixOf(src))
    BY <1>3, <1>4, <1>5
  <1>8. \A c \in Cells : MatrixOf(src)[c] = SumFunction(given(c))
    <2>. HIDE DEF given
    <2>. QED  BY <1>3
  <1>9. MatrixOf(src) \in [Cells -> Nat]
    <2>. HIDE DEF given
    <2>. QED  BY <1>3, <1>6
  <1>10. \A c \in Cells : given(c) \in [1..n -> Nat]
    BY <1>2
  <1>. QED  BY <1>7, <1>8, <1>9, <1>10, Zenon

\* What is left without one of the sources.
LEMMA RemoveAtIs ==
  ASSUME NEW V, NEW src \in Seq(V), NEW i \in 1..Len(src)
  PROVE  RemoveAt(src, i) = [k \in 1..(Len(src) - 1) |-> src[IF k < i THEN k ELSE k + 1]]
  <1>. DEFINE n == Len(src)
              a == SubSeq(src, 1, i - 1)
              b == SubSeq(src, i + 1, n)
  <1>1. n \in Nat /\ i \in Nat /\ i >= 1 /\ i <= n
    OBVIOUS
  <1>2. a \in Seq(V) /\ Len(a) = i - 1 /\ \A k \in 1..(i - 1) : a[k] = src[k]
    OBVIOUS
  <1>3. b \in Seq(V) /\ Len(b) = n - i /\ \A k \in 1..(n - i) : b[k] = src[i + k]
    OBVIOUS
  <1>4. RemoveAt(src, i) = a \o b
    BY Zenon DEF RemoveAt
  <1>. HIDE DEF a, b, n
  <1>5. a \o b \in Seq(V) /\ Len(a \o b) = n - 1
    <2>1. a \o b \in Seq(V) /\ Len(a \o b) = Len(a) + Len(b)
      BY <1>2, <1>3, ConcatProperties, Zenon
    <2>2. (i - 1) + (n - i) = n - 1
      BY <1>1
    <2>. QED  BY <1>2, <1>3, <2>1, <2>2, Zenon
  <1>6. ASSUME NEW k \in 1..(n - 1)
        PROVE  (a \o b)[k] = src[IF k < i THEN k ELSE k + 1]
    <2>1. CASE k < i
      BY <1>1, <1>2, <1>3, <2>1
    <2>2. CASE ~(k < i)
      <3>1. (a \o b)[k] = b[k - (i - 1)]
        BY <1>1, <1>2, <1>3, <2>2
      <3>2. k - (i - 1) \in 1..(n - i) /\ i + (k - (i - 1)) = k + 1
        BY <1>1, <2>2
      <3>. QED  BY <1>3, <2>2, <3>1, <3>2
    <2>. QED  BY <2>1, <2>2
  <1>7. a \o b = [k \in 1..(n - 1) |-> (a \o b)[k]]
    <2>1. \A w \in Seq(V) : w = [k \in 1..Len(w) |-> w[k]]
      OBVIOUS
    <2>. QED  BY <1>5, <2>1, Zenon
  <1>. QED  BY <1>4, <1>6, <1>7 DEF n

LEMMA WithoutOne ==
  ASSUME NEW src, NEW n, ShareSources(src, n), NEW i \in 1..n
  PROVE  /\ ShareSources(RemoveAt(src, i), n - 1)
         /\ MatrixOf(RemoveAt(src, i)) = Subtract(MatrixOf(src), Contribution(src[i]))
  <1>. DEFINE rest == RemoveAt(src, i)
              place(k) == IF k < i THEN k ELSE k + 1
              b == [k \in 1..(n - 1) |-> place(k)]
              others == (1..n) \ {i}
  <1>1. /\ n \in Nat /\ DOMAIN src = 1..n /\ Len(src) = n /\ src = [k \in 1..n |-> src[k]]
        /\ \A k \in 1..n : HasShares(src[k])
    BY DEF ShareSources
  <1>2. rest = [k \in 1..(n - 1) |-> src[place(k)]]
    <2>. DEFINE V == {src[k] : k \in 1..n}
    <2>1. \A k \in 1..n : src[k] \in V
      OBVIOUS
    <2>. HIDE DEF V
    <2>2. src \in [1..n -> V]
      BY <1>1, <2>1
    <2>3. src \in Seq(V)
      BY <1>1, <2>2
    <2>4. i \in 1..Len(src)
      BY <1>1
    <2>5. rest = [k \in 1..(Len(src) - 1) |-> src[IF k < i THEN k ELSE k + 1]]
      BY <2>3, <2>4, RemoveAtIs
    <2>. QED  BY <1>1, <2>5
  <1>3. \A k \in 1..(n - 1) : place(k) \in 1..n /\ place(k) # i
    BY <1>1
  <1>4. n - 1 \in Nat
    BY <1>1
  <1>5. b \in Bijection(1..(n - 1), others)
    <2>1. b \in [1..(n - 1) -> others] /\ \A k \in 1..(n - 1) : b[k] = place(k)
      BY <1>3
    <2>2. \A k, l \in 1..(n - 1) : place(k) = place(l) => k = l
      BY <1>1
    <2>3. ASSUME NEW z \in others PROVE \E k \in 1..(n - 1) : place(k) = z
      <3>1. CASE z < i
        <4>1. z \in 1..(n - 1) /\ place(z) = z
          BY <1>1, <3>1
        <4>. QED  BY <4>1
      <3>2. CASE ~(z < i)
        <4>1. z - 1 \in 1..(n - 1) /\ place(z - 1) = z
          BY <1>1, <3>2
        <4>. QED  BY <4>1
      <3>. QED  BY <3>1, <3>2
    <2>. HIDE DEF b, place, others
    <2>4. /\ DOMAIN b = 1..(n - 1) /\ \A k \in 1..(n - 1) : b[k] \in others
          /\ \A k, l \in 1..(n - 1) : b[k] = b[l] => k = l
          /\ \A z \in others : \E k \in 1..(n - 1) : b[k] = z
      BY <2>1, <2>2, <2>3
    <2>5. OneToOne(b, 1..(n - 1), others)
      BY <2>1, <2>4, Zenon DEF OneToOne
    <2>. QED  BY <2>5, BijectionFacts
  <1>6. ShareSources(rest, n - 1)
    <2>1. /\ DOMAIN rest = 1..(n - 1) /\ rest = [k \in 1..(n - 1) |-> rest[k]]
          /\ \A k \in 1..(n - 1) : rest[k] = src[place(k)]
      BY <1>2
    <2>. HIDE DEF rest, place
    <2>2. Len(rest) = n - 1
      BY <1>4, <2>1
    <2>3. \A k \in 1..(n - 1) : HasShares(rest[k])
      BY <1>1, <1>3, <2>1
    <2>. QED  BY <1>4, <2>1, <2>2, <2>3, Zenon DEF ShareSources
  <1>7. /\ MatrixOf(src) \in [Cells -> Nat] /\ MatrixOf(rest) \in [Cells -> Nat]
        /\ \A c \in Cells : MatrixOf(src)[c] = SumFunction([k \in 1..n |-> Contribution(src[k])[c]])
        /\ \A c \in Cells :
             MatrixOf(rest)[c] = SumFunction([k \in 1..(n - 1) |-> Contribution(rest[k])[c]])
        /\ \A c \in Cells : [k \in 1..n |-> Contribution(src[k])[c]] \in [1..n -> Nat]
    <2>. HIDE DEF rest
    <2>. QED  BY <1>6, WeightedIsKappa
  <1>8. ASSUME NEW c \in Cells
        PROVE  MatrixOf(rest)[c] = MatrixOf(src)[c] - Contribution(src[i])[c]
    <2>. DEFINE f == [k \in 1..n |-> Contribution(src[k])[c]]
                g == Part(f, others)
                h == [k \in 1..(n - 1) |-> Contribution(rest[k])[c]]
    <2>1. f \in [1..n -> Nat] /\ f[i] = Contribution(src[i])[c]
      <3>1. f \in [1..n -> Nat]
        BY <1>7
      <3>. QED  BY <3>1
    <2>2. \A k \in 1..(n - 1) : rest[k] = src[place(k)] /\ b[k] = place(k) /\ b[k] \in 1..n
                                  /\ b[k] \in others
      BY <1>2, <1>3
    <2>3. \A k \in 1..(n - 1) : h[k] = f[b[k]] /\ g[b[k]] = f[b[k]]
      <3>. HIDE DEF rest, place, b, others
      <3>. QED  BY <2>2 DEF Part
    <2>4. h = [k \in 1..(n - 1) |-> h[k]]
      OBVIOUS
    <2>5. MatrixOf(src)[c] = SumFunction(f) /\ MatrixOf(rest)[c] = SumFunction(h)
      BY <1>7
    <2>6. others \in SUBSET (1..n)
      OBVIOUS
    <2>. HIDE DEF rest, place, b, f, h
    <2>7. f \in [1..n -> Int] /\ h \in [1..(n - 1) -> Int] /\ g \in [others -> Int]
      <3>1. f \in [1..n -> Int] /\ \A k \in 1..n : f[k] \in Int
        BY <2>1
      <3>2. \A k \in 1..(n - 1) : h[k] \in Int
        BY <2>2, <2>3, <3>1
      <3>. HIDE DEF others
      <3>3. g \in [others -> Int]
        BY <2>6, <3>1 DEF Part
      <3>. QED  BY <2>4, <3>1, <3>2, <3>3
    <2>8. SumFunction(f) = f[i] + SumFunction(g)
      <3>1. IsFiniteSet(1..n)
        BY <1>1, PlacesFinite
      <3>. QED  BY <2>7, <3>1, SumFacts
    <2>9. SumFunction(h) = SumFunction(g)
      <3>. HIDE DEF g, others
      <3>1. Renamed(1..(n - 1), others, b, g, h)
        BY <1>5, <2>3, <2>7 DEF Renamed
      <3>2. IsFiniteSet(1..(n - 1))
        BY <1>4, PlacesFinite
      <3>. QED  BY <3>1, <3>2, SumReindex
    <2>10. SumFunction(h) \in Int /\ f[i] \in Int
      <3>1. SumFunction(h) \in Int
        <4>1. IsFiniteSet(1..(n - 1))
          BY <1>4, PlacesFinite
        <4>. QED  BY <2>7, <4>1, SumFacts
      <3>. QED  BY <2>1, <3>1
    <2>. HIDE DEF g, others
    <2>. QED  BY <2>1, <2>5, <2>8, <2>9, <2>10
  <1>9. Subtract(MatrixOf(src), Contribution(src[i])) = MatrixOf(rest)
    <2>1. Subtract(MatrixOf(src), Contribution(src[i]))
            = [c \in Cells |-> MatrixOf(src)[c] - Contribution(src[i])[c]]
      BY Zenon DEF Subtract
    <2>2. MatrixOf(rest) = [c \in Cells |-> MatrixOf(rest)[c]]
      BY <1>7
    <2>. HIDE DEF rest
    <2>. QED  BY <1>8, <2>1, <2>2
  <1>. QED  BY <1>6, <1>9 DEF rest

\* The mass that a source puts on every cell, and that all sources put there.
Share(rows, s) ==
  [c \in Cells |-> (MassUnits * Cardinality(Placed(rows, s, c)))
                     \div Cardinality(Both(rows, s))]
Mass(rows) == [c \in Cells |-> SumFunction([s \in Counted(rows) |-> Share(rows, s)[c]])]

\* Every number of ratings that a source that counts has divides the units.
UnitsDivide(rows) ==
  \A s \in Counted(rows) : \E q \in Nat : MassUnits = Cardinality(Both(rows, s)) * q

LEMMA ListedSources ==
  ASSUME None \notin Scores, NEW rows, RowPlaces(rows), UnitsDivide(rows),
         NEW v, CountsOf(v, rows), NEW e, ListedBy(v, rows, e)
  PROVE  /\ ShareSources(v.sources, Cardinality(Counted(rows)))
         /\ \A k \in 1..Cardinality(Counted(rows)) :
              e[k] \in Counted(rows) /\ Contribution(v.sources[k]) = Share(rows, e[k])
         /\ MatrixOf(v.sources) = Mass(rows)
  <1>. DEFINE n == Cardinality(Counted(rows))
              src == v.sources
              C == Counted(rows)
  <1>1. n \in Nat /\ Len(src) = n /\ IsFiniteSet(C)
    BY DEF CountsOf
  <1>2. /\ DOMAIN src = 1..n /\ src = [k \in 1..n |-> src[k]] /\ e \in Bijection(1..n, C)
        /\ \A k \in 1..n : src[k] = Rated(RatingsOf(rows, e[k]))
    BY DEF ListedBy
  <1>3. OneToOne(e, 1..n, C)
    BY <1>2, BijectionFacts
  <1>4. \A k \in 1..n : e[k] \in C
    BY <1>3 DEF OneToOne
  <1>5. ASSUME NEW s \in C
        PROVE  /\ HasShares(Rated(RatingsOf(rows, s)))
               /\ Contribution(Rated(RatingsOf(rows, s))) = Share(rows, s)
    <2>. DEFINE p == Rated(RatingsOf(rows, s))
                l == Cardinality(Both(rows, s))
    <2>1. RatingsFit(p, rows, s)
      BY OwnRatings
    <2>2. /\ Len(p) = l /\ p \in Seq(Cells)
          /\ \A c \in Cells : Cardinality({i \in DOMAIN p : p[i] = c})
                                = Cardinality(Placed(rows, s, c))
      BY <2>1 DEF RatingsFit
    <2>3. l \in Nat /\ l # 0
      <3>1. Both(rows, s) \in SUBSET DOMAIN rows /\ Both(rows, s) # {}
        BY DEF Both, Own, Counted
      <3>2. IsFiniteSet(Both(rows, s)) /\ l \in Nat
        BY <3>1 DEF RowPlaces
      <3>. QED  BY <3>1, <3>2, FS_EmptySet
    <2>4. \E q \in Nat : MassUnits = l * q
      BY DEF UnitsDivide
    <2>. HIDE DEF p, l
    <2>5. HasShares(p)
      BY <2>2, <2>3, <2>4 DEF HasShares
    <2>6. Contribution(p) = [c \in Cells |->
             (MassUnits * Cardinality({i \in DOMAIN p : p[i] = c})) \div Len(p)]
      BY Zenon DEF Contribution
    <2>7. Share(rows, s) = [c \in Cells |-> (MassUnits * Cardinality(Placed(rows, s, c))) \div l]
      BY Zenon DEF Share, l
    <2>8. Contribution(p) = Share(rows, s)
      BY <2>2, <2>6, <2>7
    <2>. QED  BY <2>5, <2>8 DEF p
  <1>6. \A k \in 1..n : HasShares(src[k]) /\ Contribution(src[k]) = Share(rows, e[k])
    BY <1>2, <1>4, <1>5, Zenon
  <1>7. ShareSources(src, n)
    BY <1>1, <1>2, <1>6 DEF ShareSources
  <1>. HIDE DEF src, n, C
  <1>8. /\ MatrixOf(src) \in [Cells -> Nat]
        /\ \A c \in Cells : MatrixOf(src)[c] = SumFunction([k \in 1..n |-> Contribution(src[k])[c]])
        /\ \A c \in Cells : [k \in 1..n |-> Contribution(src[k])[c]] \in [1..n -> Nat]
    BY <1>7, WeightedIsKappa
  <1>9. ASSUME NEW c \in Cells
        PROVE  MatrixOf(src)[c] = SumFunction([s \in C |-> Share(rows, s)[c]])
    <2>. DEFINE h == [k \in 1..n |-> Contribution(src[k])[c]]
                f == [s \in C |-> Share(rows, s)[c]]
    <2>1. h \in [1..n -> Nat]
      BY <1>8
    <2>2. \A k \in 1..n : h[k] = f[e[k]]
      BY <1>4, <1>6
    <2>3. \A s \in C : \E k \in 1..n : e[k] = s
      BY <1>3 DEF OneToOne
    <2>4. DOMAIN f = C /\ f = [s \in C |-> f[s]]
      OBVIOUS
    <2>5. MatrixOf(src)[c] = SumFunction(h)
      BY <1>8
    <2>. HIDE DEF h, f
    <2>6. h \in [1..n -> Int] /\ f \in [C -> Int]
      <3>1. h \in [1..n -> Int] /\ \A k \in 1..n : h[k] \in Int
        BY <2>1
      <3>2. \A s \in C : f[s] \in Int
        BY <2>2, <2>3, <3>1
      <3>. QED  BY <2>4, <3>1, <3>2
    <2>7. Renamed(1..n, C, e, f, h)
      BY <1>2, <2>2, <2>6 DEF Renamed, C
    <2>8. IsFiniteSet(1..n)
      BY <1>1, PlacesFinite
    <2>9. SumFunction(h) = SumFunction(f)
      BY <2>7, <2>8, SumReindex
    <2>. QED  BY <2>5, <2>9 DEF f
  <1>10. MatrixOf(src) = Mass(rows)
    <2>1. MatrixOf(src) = [c \in Cells |-> MatrixOf(src)[c]]
      BY <1>8
    <2>2. Mass(rows) = [c \in Cells |-> SumFunction([s \in C |-> Share(rows, s)[c]])]
      BY Zenon DEF Mass, C
    <2>. QED  BY <1>9, <2>1, <2>2
  <1>. QED  BY <1>4, <1>6, <1>7, <1>10 DEF src, n, C

----------------------------------------------------------------------------
(* The agreement of a scope.                                               *)

LEMMA Scaling ==
  ASSUME NEW x \in Int, NEW y \in Int, NEW k \in Nat \ {0}
  PROVE  /\ k * x < k * y => x < y
         /\ x <= y => k * x <= k * y
         /\ x < y => k * x < k * y
  <1>1. ASSUME NEW a \in Int, NEW b \in Int, a < b PROVE k * a < k * b
    <2>1. b - a \in Nat \ {0}
      BY <1>1
    <2>2. \A m, l \in Nat \ {0} : m * l > 0
      OBVIOUS
    <2>3. k * (b - a) > 0
      BY <2>1, <2>2
    <2>4. k * (b - a) = k * b - k * a
      OBVIOUS
    <2>5. k * a \in Int /\ k * b \in Int
      OBVIOUS
    <2>. QED  BY <2>3, <2>4, <2>5
  <1>2. k * x \in Int /\ k * y \in Int
    OBVIOUS
  <1>3. x < y \/ x = y \/ y < x
    OBVIOUS
  <1>. QED  BY <1>1, <1>2, <1>3

\* What is not above a fraction that is below another is below that one.
LEMMA BelowChains ==
  ASSUME NEW a \in Fractions, NEW b \in Fractions, NEW c \in Fractions,
         ~Below(b, a), Below(b, c)
  PROVE  Below(a, c)
  <1>. DEFINE an == a.num  ad == a.den  bn == b.num  bd == b.den  cn == c.num  cd == c.den
  <1>1. /\ an \in Int /\ bn \in Int /\ cn \in Int
        /\ ad \in Nat \ {0} /\ bd \in Nat \ {0} /\ cd \in Nat \ {0}
    BY DEF Fractions
  <1>2. ~(bn * ad < an * bd) /\ bn * cd < cn * bd
    BY DEF Below
  <1>3. Below(a, c) <=> an * cd < cn * ad
    BY DEF Below
  <1>. HIDE DEF an, ad, bn, bd, cn, cd
  <1>4. /\ bn * ad \in Int /\ an * bd \in Int /\ bn * cd \in Int /\ cn * bd \in Int
        /\ an * cd \in Int /\ cn * ad \in Int
    BY <1>1
  <1>5. an * bd <= bn * ad
    BY <1>2, <1>4
  <1>6. cd * (an * bd) <= cd * (bn * ad)
    BY <1>1, <1>4, <1>5, Scaling
  <1>7. ad * (bn * cd) < ad * (cn * bd)
    BY <1>1, <1>2, <1>4, Scaling
  <1>8. /\ cd * (an * bd) = bd * (an * cd) /\ cd * (bn * ad) = ad * (bn * cd)
        /\ ad * (cn * bd) = bd * (cn * ad)
    BY <1>1
  <1>9. bd * (an * cd) < bd * (cn * ad)
    <2>1. bd * (an * cd) \in Int /\ ad * (bn * cd) \in Int /\ bd * (cn * ad) \in Int
      BY <1>1, <1>4
    <2>2. bd * (an * cd) <= ad * (bn * cd) /\ ad * (bn * cd) < bd * (cn * ad)
      BY <1>6, <1>7, <1>8
    <2>. QED  BY <2>1, <2>2
  <1>10. an * cd < cn * ad
    BY <1>1, <1>4, <1>9, Scaling
  <1>. QED  BY <1>3, <1>10

LEMMA LeastIsThere ==
  ASSUME NEW W, IsFiniteSet(W), W # {}, W \subseteq Fractions
  PROVE  LeastKappa(W) \in W /\ \A k \in W : ~Below(k, LeastKappa(W))
  <1>. DEFINE Has(T) == T = {} \/ \E k \in T : \A other \in T : ~Below(other, k)
              F == {T \in SUBSET W : Has(T)}
  <1>1. {} \in F
    OBVIOUS
  <1>2. \A a \in W : ~Below(a, a)
    <2>. SUFFICES ASSUME NEW a \in W PROVE ~Below(a, a)
      OBVIOUS
    <2>1. a.num \in Int /\ a.den \in Int
      BY DEF Fractions
    <2>2. a.num * a.den \in Int
      BY <2>1
    <2>. QED  BY <2>2 DEF Below
  <1>3. \A a, b \in W : Below(a, b) => ~Below(b, a)
    <2>. SUFFICES ASSUME NEW a \in W, NEW b \in W PROVE Below(a, b) => ~Below(b, a)
      OBVIOUS
    <2>1. a.num \in Int /\ a.den \in Int /\ b.num \in Int /\ b.den \in Int
      BY DEF Fractions
    <2>2. a.num * b.den \in Int /\ b.num * a.den \in Int
      BY <2>1
    <2>. QED  BY <2>2 DEF Below
  <1>4. \A a, b, c \in W : ~Below(b, a) /\ Below(b, c) => Below(a, c)
    BY BelowChains
  <1>5. \A T \in SUBSET W : \A x \in W \ T : T \in F => T \cup {x} \in F
    <2>. SUFFICES ASSUME NEW T \in SUBSET W, NEW x \in W \ T, Has(T)
                  PROVE  \E k \in T \cup {x} : \A other \in T \cup {x} : ~Below(other, k)
      OBVIOUS
    <2>1. CASE T = {}
      BY <1>2, <2>1
    <2>2. ASSUME NEW k \in T, \A other \in T : ~Below(other, k), Below(x, k)
          PROVE  \A other \in T \cup {x} : ~Below(other, x)
      BY <1>2, <1>3, <1>4, <2>2
    <2>3. ASSUME NEW k \in T, \A other \in T : ~Below(other, k), ~Below(x, k)
          PROVE  \A other \in T \cup {x} : ~Below(other, k)
      BY <2>3
    <2>. QED  BY <2>1, <2>2, <2>3
  <1>6. W \in F
    <2>. HIDE DEF F
    <2>. QED  BY <1>1, <1>5, FiniteFamily
  <1>7. \E k \in W : \A other \in W : ~Below(other, k)
    BY <1>6
  <1>. QED  BY <1>7, Zenon DEF LeastKappa

AgreementPolicy ==
  /\ None \notin Scores /\ None \notin Fractions /\ Floor \in Fractions
  /\ MinimumN \in Nat /\ MaxUnits \in Nat

WithoutEach(rows) == {Kappa(Subtract(Mass(rows), Share(rows, s))) : s \in Counted(rows)}
IsKappa(k) == k = None \/ k \in Fractions

Found(rows) ==
  /\ IsKappa(Kappa(Mass(rows))) /\ \A k \in WithoutEach(rows) : IsKappa(k)
  /\ IsFiniteSet(WithoutEach(rows))
  /\ Kappa(Mass(rows)) # None => WithoutEach(rows) # {}

\* What contract and engine find for the vectors of the rows depends only on what
\* every source has.
LEMMA StatusOfVectors ==
  ASSUME AgreementPolicy, NEW rows, RowPlaces(rows), UnitsDivide(rows)
  PROVE  LET v == Vectors(rows) IN
         /\ Found(rows) /\ CountsOf(v, rows)
         /\ SourceWeighted(v.sources) = Kappa(Mass(rows))
         /\ ContractStatus(v) = StatusFrom(v, Kappa(Mass(rows)), WithoutEach(rows))
         /\ AgreementResult(v) = ResultFrom(v, Kappa(Mass(rows)), Least(WithoutEach(rows)))
  <1>. DEFINE v == Vectors(rows)
              src == v.sources
              C == Counted(rows)
              n == Cardinality(C)
  <1>0. None \notin Scores
    BY DEF AgreementPolicy
  <1>1. CountsOf(v, rows) /\ \E e : ListedBy(v, rows, e)
    BY <1>0, VectorsAre
  <1>. HIDE DEF v
  <1>2. PICK e : ListedBy(v, rows, e)
    BY <1>1
  <1>3. /\ ShareSources(src, n) /\ MatrixOf(src) = Mass(rows)
        /\ \A k \in 1..n : e[k] \in C /\ Contribution(src[k]) = Share(rows, e[k])
    BY <1>0, <1>1, <1>2, ListedSources
  <1>4. e \in Bijection(1..n, C) /\ DOMAIN src = 1..n /\ n \in Nat /\ IsFiniteSet(C)
    BY <1>1, <1>2 DEF ListedBy, CountsOf
  <1>5. OneToOne(e, 1..n, C)
    BY <1>4, BijectionFacts
  <1>6. \A s \in C : \E k \in 1..n : e[k] = s
    BY <1>5 DEF OneToOne
  <1>. HIDE DEF src, C, n
  <1>7. SourceWeighted(src) = Kappa(Mass(rows)) /\ Mass(rows) \in [Cells -> Nat]
    BY <1>3, WeightedIsKappa
  <1>8. ASSUME NEW k \in 1..n
        PROVE  /\ SourceWeighted(RemoveAt(src, k)) = Kappa(Subtract(Mass(rows), Share(rows, e[k])))
               /\ Kappa(Subtract(MatrixOf(src), Contribution(src[k])))
                    = Kappa(Subtract(Mass(rows), Share(rows, e[k])))
               /\ IsKappa(Kappa(Subtract(Mass(rows), Share(rows, e[k]))))
    <2>. DEFINE rest == RemoveAt(src, k)
                left == Subtract(Mass(rows), Share(rows, e[k]))
    <2>1. ShareSources(rest, n - 1) /\ MatrixOf(rest) = left
      BY <1>3, WithoutOne
    <2>. HIDE DEF rest, left
    <2>2. SourceWeighted(rest) = Kappa(left) /\ left \in [Cells -> Nat]
      BY <2>1, WeightedIsKappa
    <2>3. IsKappa(Kappa(left))
      BY <2>2, KappaIsFraction DEF IsKappa
    <2>. QED  BY <1>3, <2>2, <2>3 DEF rest, left
  <1>9. {SourceWeighted(RemoveAt(src, k)) : k \in DOMAIN src} = WithoutEach(rows)
    <2>1. WithoutEach(rows) = {Kappa(Subtract(Mass(rows), Share(rows, s))) : s \in C}
      BY Zenon DEF WithoutEach, C
    <2>. QED  BY <1>3, <1>4, <1>6, <1>8, <2>1
  <1>10. {Kappa(Subtract(MatrixOf(src), Contribution(s))) : s \in ToSet(src)} = WithoutEach(rows)
    <2>1. WithoutEach(rows) = {Kappa(Subtract(Mass(rows), Share(rows, s))) : s \in C}
      BY Zenon DEF WithoutEach, C
    <2>2. ToSet(src) = {src[k] : k \in 1..n}
      BY <1>4, Zenon DEF ToSet
    <2>. QED  BY <1>3, <1>4, <1>6, <1>8, <2>1, <2>2
  <1>11. ContractStatus(v) = StatusFrom(v, Kappa(Mass(rows)), WithoutEach(rows))
    BY <1>7, <1>9, Zenon DEF ContractStatus, src
  <1>12. AgreementResult(v) = ResultFrom(v, Kappa(Mass(rows)), Least(WithoutEach(rows)))
    BY <1>3, <1>10, Zenon DEF AgreementResult, src
  <1>13. Found(rows)
    <2>1. IsKappa(Kappa(Mass(rows)))
      BY <1>7, KappaIsFraction DEF IsKappa
    <2>2. \A k \in WithoutEach(rows) : IsKappa(k)
      BY <1>6, <1>8 DEF WithoutEach, C
    <2>3. IsFiniteSet(WithoutEach(rows))
      <3>. DEFINE f == [s \in C |-> Kappa(Subtract(Mass(rows), Share(rows, s)))]
      <3>1. DOMAIN f = C /\ ValuesOf(f, C) = WithoutEach(rows)
        BY DEF ValuesOf, WithoutEach, C
      <3>. HIDE DEF f
      <3>. QED  BY <1>4, <3>1, FiniteValues
    <2>4. ASSUME WithoutEach(rows) = {} PROVE Kappa(Mass(rows)) = None
      <3>1. C = {}
        BY <2>4 DEF WithoutEach, C
      <3>. DEFINE f(c) == [s \in C |-> Share(rows, s)[c]]
      <3>2. Mass(rows) = [c \in Cells |-> SumFunction(f(c))]
        BY Zenon DEF Mass, C
      <3>3. \A c \in Cells : SumFunction(f(c)) = 0
        <4>1. \A c \in Cells : f(c) \in [C -> Int]
          BY <3>1
        <4>. HIDE DEF f
        <4>. QED  BY <1>4, <3>1, <4>1, SumFacts
      <3>. HIDE DEF f
      <3>4. Mass(rows) \in [Cells -> Int] /\ \A c \in Cells : Mass(rows)[c] = 0
        BY <3>2, <3>3
      <3>5. SumFunction(Mass(rows)) = 0
        <4>1. SumFunction(Mass(rows)) = 0 * Cardinality(Cells)
          BY <3>4, CellsFinite, SumOfOne
        <4>2. Cardinality(Cells) \in Nat
          BY CellsFinite, FS_CardinalityType
        <4>. QED  BY <4>1, <4>2
      <3>. QED  BY <3>5, KappaUnfolds, Zenon DEF KappaFrom
    <2>. QED  BY <2>1, <2>2, <2>3, <2>4, Zenon DEF Found
  <1>. QED  BY <1>1, <1>7, <1>11, <1>12, <1>13 DEF v, src

\* The engine asks for the least kappa alone, and comes to the same status.
LEMMA ResultAgrees ==
  ASSUME AgreementPolicy, NEW rows, Found(rows),
         NEW v, v.unilateral \in Nat, Len(v.sources) \in Nat
  PROVE  LET r == ResultFrom(v, Kappa(Mass(rows)), Least(WithoutEach(rows))) IN
         /\ r.status = StatusFrom(v, Kappa(Mass(rows)), WithoutEach(rows))
         /\ r.point = Kappa(Mass(rows)) /\ IsKappa(r.least) /\ IsKappa(r.point)
         /\ r.applicable = Len(v.sources) /\ r.bilateral = v.bilateral
         /\ r.unilateral = v.unilateral
  <1>. DEFINE point == Kappa(Mass(rows))
              W == WithoutEach(rows)
              leastW == Least(W)
              r == ResultFrom(v, point, leastW)
              asked == v.unilateral = 0 /\ Len(v.sources) >= MinimumN
                         /\ point # None /\ ~Below(point, Floor)
              least == IF asked THEN leastW ELSE None
  <1>1. /\ IsKappa(point) /\ \A k \in W : IsKappa(k)
        /\ IsFiniteSet(W) /\ (point # None => W # {})
    BY Zenon DEF Found
  <1>2. /\ None \notin Fractions /\ Floor \in Fractions
    BY DEF AgreementPolicy
  <1>. HIDE DEF point, W
  <1>3. ASSUME None \in W
        PROVE  leastW = None
    BY <1>3, Zenon DEF Least
  <1>4. ASSUME None \notin W, point # None
        PROVE  /\ leastW \in W /\ leastW \in Fractions /\ leastW # None
               /\ (\E k \in W : Below(k, Floor)) <=> Below(leastW, Floor)
    <2>1. W \subseteq Fractions /\ W # {}
      BY <1>1, <1>4 DEF IsKappa
    <2>2. leastW = LeastKappa(W)
      BY <1>4, Zenon DEF Least
    <2>. HIDE DEF leastW
    <2>3. leastW \in W /\ \A k \in W : ~Below(k, leastW)
      BY <1>1, <2>1, <2>2, LeastIsThere
    <2>4. ASSUME NEW k \in W, Below(k, Floor) PROVE Below(leastW, Floor)
      <3>1. k \in Fractions /\ leastW \in Fractions /\ ~Below(k, leastW)
        BY <2>1, <2>3
      <3>. QED  BY <1>2, <2>4, <3>1, BelowChains
    <2>. QED  BY <1>4, <2>1, <2>3, <2>4
  <1>5. r = [applicable |-> Len(v.sources), bilateral |-> v.bilateral,
             unilateral |-> v.unilateral,
             status |-> IF v.unilateral > 0 THEN "AGREEMENT_APPLICABILITY_DISAGREEMENT"
                ELSE IF Len(v.sources) < MinimumN THEN "AGREEMENT_INSUFFICIENT_UNITS"
                ELSE IF point = None
                THEN "AGREEMENT_UNDEFINED_ZERO_EXPECTED_DISAGREEMENT"
                ELSE IF ~asked THEN "AGREEMENT_POINT_BELOW_FLOOR"
                ELSE IF least = None THEN "AGREEMENT_UNCERTAINTY_UNDEFINED"
                ELSE IF Below(least, Floor) THEN "AGREEMENT_ROBUSTNESS_BELOW_FLOOR"
                ELSE "AGREEMENT_PASS",
             least |-> least, point |-> point,
             pairs |-> SumFunction([i \in DOMAIN v.sources |-> Len(v.sources[i])])]
    BY Zenon DEF ResultFrom
  <1>. HIDE DEF leastW, r
  <1>6. /\ r.applicable = Len(v.sources) /\ r.bilateral = v.bilateral
        /\ r.unilateral = v.unilateral /\ r.point = point /\ r.least = least
    BY <1>5
  <1>7. IsKappa(least)
    BY <1>1, <1>3, <1>4 DEF IsKappa
  <1>8. r.status = StatusFrom(v, point, W)
    <2>. DEFINE below == Below(point, Floor)
                leastBelow == Below(leastW, Floor)
                someBelow == \E k \in W : Below(k, Floor)
                undefined == None \in W
                few == Len(v.sources) < MinimumN
    <2>1. r.status =
            IF v.unilateral > 0 THEN "AGREEMENT_APPLICABILITY_DISAGREEMENT"
            ELSE IF few THEN "AGREEMENT_INSUFFICIENT_UNITS"
            ELSE IF point = None THEN "AGREEMENT_UNDEFINED_ZERO_EXPECTED_DISAGREEMENT"
            ELSE IF ~asked THEN "AGREEMENT_POINT_BELOW_FLOOR"
            ELSE IF least = None THEN "AGREEMENT_UNCERTAINTY_UNDEFINED"
            ELSE IF Below(least, Floor) THEN "AGREEMENT_ROBUSTNESS_BELOW_FLOOR"
            ELSE "AGREEMENT_PASS"
      BY <1>5
    <2>2. StatusFrom(v, point, W) =
            IF v.unilateral > 0 THEN "AGREEMENT_APPLICABILITY_DISAGREEMENT"
            ELSE IF few THEN "AGREEMENT_INSUFFICIENT_UNITS"
            ELSE IF point = None THEN "AGREEMENT_UNDEFINED_ZERO_EXPECTED_DISAGREEMENT"
            ELSE IF below THEN "AGREEMENT_POINT_BELOW_FLOOR"
            ELSE IF undefined THEN "AGREEMENT_UNCERTAINTY_UNDEFINED"
            ELSE IF someBelow THEN "AGREEMENT_ROBUSTNESS_BELOW_FLOOR"
            ELSE "AGREEMENT_PASS"
      BY Zenon DEF StatusFrom
    <2>3. /\ v.unilateral > 0 \/ v.unilateral = 0
          /\ Len(v.sources) >= MinimumN <=> ~few
      BY DEF AgreementPolicy
    <2>4. v.unilateral > 0 => v.unilateral # 0
      OBVIOUS
    <2>5. point # None => /\ undefined => leastW = None
                          /\ ~undefined => leastW # None /\ (someBelow <=> leastBelow)
      BY <1>3, <1>4
    <2>6. CASE asked
      <3>1. least = leastW
        BY <2>6
      <3>. HIDE DEF least, few, undefined, someBelow
      <3>. QED  BY <2>1, <2>2, <2>3, <2>4, <2>5, <2>6, <3>1
    <2>7. CASE ~asked
      <3>1. v.unilateral > 0 \/ few \/ point = None \/ below
        BY <2>3, <2>7
      <3>. HIDE DEF asked, least, few, undefined, someBelow, below
      <3>. QED  BY <2>1, <2>2, <2>7, <3>1
    <2>. QED  BY <2>6, <2>7
  <1>. QED  BY <1>1, <1>6, <1>7, <1>8 DEF r, leastW, W, point

\* Rows with all the rows of some of the sources, in any order.
Rearranged(other, rows, T, b) ==
  /\ PlacedBy(other, rows, T, b) /\ T \in SUBSET DOMAIN rows
  /\ \A i \in T : \A j \in DOMAIN rows : rows[j].source = rows[i].source => j \in T

SameOfSource(other, rows, s) ==
  /\ IsOneSided(other, s) <=> IsOneSided(rows, s)
  /\ Both(other, s) = {} <=> Both(rows, s) = {}
  /\ Cardinality(Both(other, s)) = Cardinality(Both(rows, s))
  /\ Share(other, s) = Share(rows, s)

LEMMA SourcesStay ==
  ASSUME NEW rows, RowPlaces(rows), NEW other, RowPlaces(other), NEW T, NEW b,
         Rearranged(other, rows, T, b)
  PROVE  /\ SourcesIn(other) = ValuesOf([i \in DOMAIN rows |-> rows[i].source], T)
         /\ \A s \in SourcesIn(other) : SameOfSource(other, rows, s)
  <1>. DEFINE named == [i \in DOMAIN rows |-> rows[i].source]
  <1>1. /\ b \in Bijection(DOMAIN other, T) /\ \A n \in DOMAIN other : other[n] = rows[b[n]]
        /\ T \in SUBSET DOMAIN rows
        /\ \A i \in T : \A j \in DOMAIN rows : rows[j].source = rows[i].source => j \in T
    BY Zenon DEF Rearranged, PlacedBy
  <1>2. OneToOne(b, DOMAIN other, T)
    BY <1>1, BijectionFacts
  <1>3. /\ \A n \in DOMAIN other : b[n] \in T /\ b[n] \in DOMAIN rows
        /\ \A i \in T : \E n \in DOMAIN other : b[n] = i
    BY <1>1, <1>2 DEF OneToOne
  <1>4. SourcesIn(other) = ValuesOf(named, T)
    <2>1. ASSUME NEW s \in SourcesIn(other) PROVE s \in ValuesOf(named, T)
      <3>1. PICK n \in DOMAIN other : s = other[n].source
        BY DEF SourcesIn
      <3>2. b[n] \in T /\ s = named[b[n]]
        BY <1>1, <1>3, <3>1
      <3>. QED  BY <3>2 DEF ValuesOf
    <2>2. ASSUME NEW s \in ValuesOf(named, T) PROVE s \in SourcesIn(other)
      <3>1. PICK i \in T : s = named[i]
        BY DEF ValuesOf
      <3>2. PICK n \in DOMAIN other : b[n] = i
        BY <1>3
      <3>3. s = other[n].source
        BY <1>1, <3>1, <3>2
      <3>. QED  BY <3>3 DEF SourcesIn
    <2>. QED  BY <2>1, <2>2
  <1>5. ASSUME NEW s \in SourcesIn(other)
        PROVE  SameOfSource(other, rows, s)
    <2>1. Own(rows, s) \in SUBSET T
      <3>1. PICK i \in T : s = rows[i].source
        BY <1>1, <1>4 DEF ValuesOf
      <3>. QED  BY <1>1, <3>1 DEF Own
    <2>2. \A n \in DOMAIN other : n \in Own(other, s) <=> b[n] \in Own(rows, s)
      BY <1>1, <1>3 DEF Own
    <2>3. \A n \in DOMAIN other : n \in Both(other, s) <=> b[n] \in Both(rows, s)
      BY <1>1, <1>3, <2>2, Zenon DEF Both
    <2>4. /\ Own(other, s) \in SUBSET DOMAIN other /\ Both(other, s) \in SUBSET DOMAIN other
          /\ Both(rows, s) \in SUBSET T
      BY <2>1 DEF Own, Both
    <2>5. IsFiniteSet(DOMAIN other)
      BY DEF RowPlaces
    <2>6. Matching(b, DOMAIN other, T, Both(other, s), Both(rows, s))
      BY <1>1, <2>3, <2>4, Zenon DEF Matching
    <2>7. Cardinality(Both(other, s)) = Cardinality(Both(rows, s))
      BY <2>5, <2>6, AsMany
    <2>8. Both(other, s) = {} <=> Both(rows, s) = {}
      <3>1. \A i \in Both(rows, s) : \E n \in DOMAIN other : b[n] = i
        BY <1>3, <2>4
      <3>. QED  BY <2>3, <2>4, <3>1
    <2>9. IsOneSided(other, s) <=> IsOneSided(rows, s)
      <3>1. \A i \in Own(rows, s) : \E n \in DOMAIN other : b[n] = i
        BY <1>3, <2>1
      <3>2. \A n \in Own(other, s) : n \in DOMAIN other
        BY <2>4
      <3>3. ASSUME NEW n \in Own(other, s), IsHalf(other[n].pair) PROVE IsOneSided(rows, s)
        BY <1>1, <2>2, <3>2, <3>3, Zenon DEF IsOneSided
      <3>4. ASSUME NEW i \in Own(rows, s), IsHalf(rows[i].pair) PROVE IsOneSided(other, s)
        <4>1. PICK n \in DOMAIN other : b[n] = i
          BY <3>1
        <4>. QED  BY <1>1, <2>2, <3>4, <4>1, Zenon DEF IsOneSided
      <3>. QED  BY <3>3, <3>4, Zenon DEF IsOneSided
    <2>10. ASSUME NEW c \in Cells
           PROVE  Cardinality(Placed(other, s, c)) = Cardinality(Placed(rows, s, c))
      <3>1. \A n \in DOMAIN other : n \in Placed(other, s, c) <=> b[n] \in Placed(rows, s, c)
        BY <1>1, <1>3, <2>2, Zenon DEF Placed
      <3>2. Placed(other, s, c) \in SUBSET DOMAIN other /\ Placed(rows, s, c) \in SUBSET T
        BY <2>1, <2>4 DEF Placed
      <3>3. Matching(b, DOMAIN other, T, Placed(other, s, c), Placed(rows, s, c))
        BY <1>1, <3>1, <3>2, Zenon DEF Matching
      <3>. QED  BY <2>5, <3>3, AsMany
    <2>11. Share(other, s) = Share(rows, s)
      <3>1. /\ Share(other, s) = [c \in Cells |-> (MassUnits * Cardinality(Placed(other, s, c)))
                                                    \div Cardinality(Both(other, s))]
            /\ Share(rows, s) = [c \in Cells |-> (MassUnits * Cardinality(Placed(rows, s, c)))
                                                    \div Cardinality(Both(rows, s))]
        BY Zenon DEF Share
      <3>. QED  BY <2>7, <2>10, <3>1
    <2>. QED  BY <2>7, <2>8, <2>9, <2>11, Zenon DEF SameOfSource
  <1>. QED  BY <1>4, <1>5

\* The same sources in the same number say the same of the rows.
Kept(other, rows, U) ==
  /\ SourcesIn(other) = U /\ U \in SUBSET SourcesIn(rows)
  /\ \A s \in U : SameOfSource(other, rows, s)

LEMMA KeptCounts ==
  ASSUME NEW rows, NEW other, NEW U, Kept(other, rows, U), UnitsDivide(rows)
  PROVE  /\ Counted(other) = Counted(rows) \cap U /\ UnitsDivide(other)
         /\ Aside(other) = Aside(rows) \cap U
         /\ \A s \in Counted(other) : Share(other, s) = Share(rows, s)
  <1>1. /\ SourcesIn(other) = U /\ U \in SUBSET SourcesIn(rows)
        /\ \A s \in U : /\ IsOneSided(other, s) <=> IsOneSided(rows, s)
                        /\ Both(other, s) = {} <=> Both(rows, s) = {}
                        /\ Cardinality(Both(other, s)) = Cardinality(Both(rows, s))
                        /\ Share(other, s) = Share(rows, s)
    BY Zenon DEF Kept, SameOfSource
  <1>2. \A s : /\ s \in Counted(other)
                    <=> s \in U /\ ~IsOneSided(other, s) /\ Both(other, s) # {}
               /\ s \in Counted(rows)
                    <=> s \in SourcesIn(rows) /\ ~IsOneSided(rows, s) /\ Both(rows, s) # {}
               /\ s \in Aside(other) <=> s \in U /\ IsOneSided(other, s)
               /\ s \in Aside(rows) <=> s \in SourcesIn(rows) /\ IsOneSided(rows, s)
    BY <1>1, Zenon DEF Counted, Aside
  <1>3. \A s : s \in U => s \in SourcesIn(rows)
    BY <1>1
  <1>4. \A s : /\ s \in Counted(other) <=> s \in Counted(rows) /\ s \in U
               /\ s \in Aside(other) <=> s \in Aside(rows) /\ s \in U
    BY <1>1, <1>2, <1>3, Zenon
  <1>5. Counted(other) = Counted(rows) \cap U /\ Aside(other) = Aside(rows) \cap U
    BY <1>4, Zenon
  <1>6. UnitsDivide(other)
    BY <1>1, <1>4, Zenon DEF UnitsDivide
  <1>. QED  BY <1>1, <1>4, <1>5, <1>6, Zenon

\* The order of the rows does not matter.
LEMMA ReverseKeeps ==
  ASSUME NEW sources, NEW rows \in RatingRows(sources)
  PROVE  Reverse(rows) \in RatingRows(sources) /\ Kept(Reverse(rows), rows, SourcesIn(rows))
  <1>. DEFINE n == Len(rows)
              other == Reverse(rows)
              b == [i \in 1..n |-> n - i + 1]
              named == [i \in DOMAIN rows |-> rows[i].source]
              T == DOMAIN rows
  <1>1. RowPlaces(rows)
    BY RowsHavePlaces
  <1>2. n \in Nat /\ T = 1..n
    BY <1>1 DEF RowPlaces
  <1>3. other = [i \in 1..n |-> rows[(n - i) + 1]]
    BY Zenon DEF Reverse
  <1>4. other \in RatingRows(sources)
    <2>. DEFINE Row == [source : sources, pair : Marks \X Marks]
    <2>1. rows \in Seq(Row)
      BY DEF RatingRows
    <2>. HIDE DEF Row
    <2>2. \A i \in 1..n : (n - i) + 1 \in 1..n
      BY <1>2
    <2>3. \A i \in 1..n : rows[i] \in Row
      BY <2>1
    <2>. HIDE DEF n
    <2>4. other \in [1..n -> Row]
      BY <1>3, <2>2, <2>3
    <2>5. other \in Seq(Row)
      BY <1>2, <2>4
    <2>. QED  BY <2>5 DEF RatingRows, Row
  <1>5. RowPlaces(other)
    <2>. HIDE DEF other
    <2>. QED  BY <1>4, RowsHavePlaces
  <1>. HIDE DEF n
  <1>6. DOMAIN other = 1..n /\ \A i \in 1..n : other[i] = rows[b[i]] /\ b[i] \in 1..n
    BY <1>2, <1>3
  <1>7. b \in Bijection(1..n, 1..n)
    <2>1. \A i, k \in 1..n : b[i] = b[k] => i = k
      BY <1>2
    <2>2. ASSUME NEW k \in 1..n PROVE \E i \in 1..n : b[i] = k
      <3>1. n - k + 1 \in 1..n /\ b[n - k + 1] = k
        BY <1>2
      <3>. QED  BY <3>1, Zenon
    <2>3. b \in [1..n -> 1..n] /\ DOMAIN b = 1..n
      BY <1>2
    <2>4. \A i \in 1..n : b[i] \in 1..n
      BY <1>6
    <2>. HIDE DEF b
    <2>5. OneToOne(b, 1..n, 1..n)
      BY <2>1, <2>2, <2>3, <2>4, Zenon DEF OneToOne
    <2>. QED  BY <2>5, BijectionFacts
  <1>8. Rearranged(other, rows, T, b)
    <2>. HIDE DEF other, b
    <2>1. PlacedBy(other, rows, T, b)
      BY <1>2, <1>6, <1>7 DEF PlacedBy
    <2>2. \A i \in T : \A j \in DOMAIN rows : rows[j].source = rows[i].source => j \in T
      OBVIOUS
    <2>. QED  BY <2>1, <2>2 DEF Rearranged
  <1>. HIDE DEF other, b
  <1>9. /\ SourcesIn(other) = ValuesOf(named, T)
        /\ \A s \in SourcesIn(other) : SameOfSource(other, rows, s)
    BY <1>1, <1>5, <1>8, SourcesStay
  <1>10. ValuesOf(named, T) = SourcesIn(rows)
    BY DEF ValuesOf, SourcesIn
  <1>11. Kept(other, rows, SourcesIn(rows))
    BY <1>9, <1>10 DEF Kept
  <1>. QED  BY <1>4, <1>11 DEF other

\* Nor does a source that is left out change what the others have.
LEMMA LeavingOut ==
  ASSUME NEW sources, NEW rows \in RatingRows(sources), NEW s
  PROVE  LET others == {i \in DOMAIN rows : rows[i].source # s} IN
         /\ At(rows, others) \in RatingRows(sources)
         /\ Kept(At(rows, others), rows, SourcesIn(rows) \ {s})
  <1>. DEFINE T == {i \in DOMAIN rows : rows[i].source # s}
              other == At(rows, T)
              named == [i \in DOMAIN rows |-> rows[i].source]
              Row == [source : sources, pair : Marks \X Marks]
  <1>1. RowPlaces(rows)
    BY RowsHavePlaces
  <1>2. T \in SUBSET DOMAIN rows /\ T \in SUBSET Int /\ IsFiniteSet(T) /\ Cardinality(T) \in Nat
    <2>1. T \in SUBSET DOMAIN rows
      OBVIOUS
    <2>. HIDE DEF T
    <2>. QED  BY <1>1, <2>1 DEF RowPlaces
  <1>3. \A i \in DOMAIN rows : rows[i] \in Row
    <2>1. rows \in Seq(Row)
      BY DEF RatingRows
    <2>. HIDE DEF Row
    <2>. QED  BY <2>1, MembersOf
  <1>4. \A i \in T : \A j \in DOMAIN rows : rows[j].source = rows[i].source => j \in T
    OBVIOUS
  <1>5. ValuesOf(named, T) = SourcesIn(rows) \ {s}
    BY DEF ValuesOf, SourcesIn
  <1>. HIDE DEF T, Row
  <1>6. /\ DOMAIN other = 1..Cardinality(T)
        /\ other = [k \in 1..Cardinality(T) |-> other[k]]
        /\ \E b : PlacedBy(other, rows, T, b)
    BY <1>2, AtIsPlaced
  <1>. HIDE DEF other, named
  <1>7. PICK b : PlacedBy(other, rows, T, b)
    BY <1>6
  <1>8. other \in RatingRows(sources)
    <2>1. b \in Bijection(DOMAIN other, T) /\ \A n \in DOMAIN other : other[n] = rows[b[n]]
      BY <1>7, Zenon DEF PlacedBy
    <2>2. OneToOne(b, DOMAIN other, T)
      BY <2>1, BijectionFacts
    <2>3. \A n \in DOMAIN other : other[n] \in Row
      BY <1>2, <1>3, <2>1, <2>2 DEF OneToOne
    <2>4. other \in [1..Cardinality(T) -> Row]
      BY <1>6, <2>3
    <2>5. other \in Seq(Row)
      BY <1>2, <2>4
    <2>. QED  BY <2>5 DEF RatingRows, Row
  <1>9. RowPlaces(other)
    BY <1>8, RowsHavePlaces
  <1>10. Rearranged(other, rows, T, b)
    BY <1>2, <1>4, <1>7, Zenon DEF Rearranged
  <1>11. /\ SourcesIn(other) = ValuesOf(named, T)
         /\ \A t \in SourcesIn(other) : SameOfSource(other, rows, t)
    BY <1>1, <1>9, <1>10, SourcesStay DEF named
  <1>12. Kept(other, rows, SourcesIn(rows) \ {s})
    <2>1. SourcesIn(rows) \ {s} \in SUBSET SourcesIn(rows)
      OBVIOUS
    <2>. QED  BY <1>5, <1>11, <2>1, Zenon DEF Kept
  <1>. QED  BY <1>8, <1>12 DEF other, T

LEMMA ShareNat ==
  ASSUME NEW rows, RowPlaces(rows), UnitsDivide(rows), NEW s \in Counted(rows), NEW c \in Cells
  PROVE  Share(rows, s)[c] \in Nat
  <1>. DEFINE l == Cardinality(Both(rows, s))
              k == Cardinality(Placed(rows, s, c))
  <1>1. /\ Both(rows, s) \in SUBSET DOMAIN rows /\ Both(rows, s) # {}
        /\ Placed(rows, s, c) \in SUBSET DOMAIN rows
    BY DEF Both, Own, Counted, Placed
  <1>2. IsFiniteSet(Both(rows, s)) /\ l \in Nat /\ k \in Nat
    BY <1>1 DEF RowPlaces
  <1>3. l # 0
    BY <1>1, <1>2, FS_EmptySet
  <1>4. PICK q \in Nat : MassUnits = l * q
    BY DEF UnitsDivide
  <1>5. Share(rows, s)[c] = (MassUnits * k) \div l
    BY DEF Share
  <1>. HIDE DEF l, k
  <1>6. MassUnits * k = l * (q * k) /\ q * k \in Nat
    BY <1>2, <1>4
  <1>7. (l * (q * k)) \div l = q * k
    BY <1>2, <1>3, <1>6, DivideBack
  <1>. QED  BY <1>5, <1>6, <1>7

SharesOf(rows, S, c) == [s \in S |-> Share(rows, s)[c]]

LEMMA MassOf ==
  ASSUME NEW rows
  PROVE  Mass(rows) = [c \in Cells |-> SumFunction(SharesOf(rows, Counted(rows), c))]
  BY Zenon DEF Mass, SharesOf

LEMMA MassStays ==
  ASSUME NEW rows, NEW other, Counted(other) = Counted(rows),
         \A s \in Counted(rows) : Share(other, s) = Share(rows, s)
  PROVE  Mass(other) = Mass(rows) /\ WithoutEach(other) = WithoutEach(rows)
  <1>1. \A c \in Cells :
          SharesOf(other, Counted(other), c) = SharesOf(rows, Counted(rows), c)
    BY DEF SharesOf
  <1>2. Mass(other) = Mass(rows)
    BY <1>1, MassOf
  <1>3. WithoutEach(other) = WithoutEach(rows)
    BY <1>2 DEF WithoutEach
  <1>. QED  BY <1>2, <1>3

LEMMA MassWithout ==
  ASSUME NEW rows, RowPlaces(rows), UnitsDivide(rows), IsFiniteSet(Counted(rows)),
         NEW s \in Counted(rows), NEW other, Counted(other) = Counted(rows) \ {s},
         \A t \in Counted(other) : Share(other, t) = Share(rows, t)
  PROVE  Mass(other) = Subtract(Mass(rows), Share(rows, s))
  <1>. DEFINE C == Counted(rows)
  <1>1. ASSUME NEW c \in Cells
        PROVE  SumFunction(SharesOf(other, Counted(other), c)) = Mass(rows)[c] - Share(rows, s)[c]
    <2>. DEFINE f == SharesOf(rows, C, c)
                g == SharesOf(other, Counted(other), c)
    <2>1. f \in [C -> Int] /\ f[s] = Share(rows, s)[c]
      <3>1. \A t \in C : Share(rows, t)[c] \in Int
        <4>1. \A t \in C : Share(rows, t)[c] \in Nat
          BY ShareNat
        <4>. QED  BY <4>1
      <3>. QED  BY <3>1 DEF SharesOf
    <2>2. g = Part(f, C \ {s})
      BY DEF SharesOf, Part
    <2>3. SumFunction(f) = Mass(rows)[c]
      BY MassOf
    <2>. HIDE DEF f, g, C
    <2>4. SumFunction(f) = f[s] + SumFunction(Part(f, C \ {s}))
      BY <2>1, SumFacts DEF C
    <2>5. IsFiniteSet(C \ {s}) /\ Part(f, C \ {s}) \in [C \ {s} -> Int]
      <3>1. IsFiniteSet(C \ {s})
        BY FS_Subset DEF C
      <3>2. Part(f, C \ {s}) \in [C \ {s} -> Int]
        BY <2>1 DEF Part
      <3>. QED  BY <3>1, <3>2
    <2>6. SumFunction(g) \in Int
      BY <2>2, <2>5, SumFacts
    <2>7. f[s] \in Int
      BY <2>1 DEF C
    <2>. QED  BY <2>1, <2>2, <2>3, <2>4, <2>6, <2>7 DEF g
  <1>2. Mass(other) = [c \in Cells |-> SumFunction(SharesOf(other, Counted(other), c))]
    BY MassOf
  <1>3. Subtract(Mass(rows), Share(rows, s)) = [c \in Cells |-> Mass(rows)[c] - Share(rows, s)[c]]
    BY Zenon DEF Subtract
  <1>. QED  BY <1>1, <1>2, <1>3

\* The agreement of a scope is one. Whatever rows of two reviewers' ratings there
\* are, and whatever their order, the contract and the engine come to one status
\* and one kappa, what passes the payload check passes the output check, every
\* source is counted once, and no single source can turn the status into a pass
\* (agreement_unit_vectors, source_weighted_quadratic_kappa, _agreement_status,
\* _agreement_result, _validate_agreement_payload, _validate_agreement_output).
THEOREM AgreementIsUnique ==
  ASSUME AgreementPolicy, NEW sources, NEW rows \in RatingRows(sources), UnitsDivide(rows)
  PROVE  AgreementIsOne(rows)
  <1>. DEFINE v == Vectors(rows)
              point == Kappa(Mass(rows))
              W == WithoutEach(rows)
              status == ContractStatus(v)
              r == AgreementResult(v)
  <1>0. None \notin Scores
    BY DEF AgreementPolicy
  <1>1. RowPlaces(rows)
    BY RowsHavePlaces
  <1>2. /\ Found(rows) /\ CountsOf(v, rows)
        /\ SourceWeighted(v.sources) = point /\ status = StatusFrom(v, point, W)
        /\ r = ResultFrom(v, point, Least(W))
    BY <1>1, StatusOfVectors
  <1>. HIDE DEF v
  <1>3. /\ v.unilateral = Cardinality(Aside(rows)) /\ Len(v.sources) = Cardinality(Counted(rows))
        /\ Cardinality(Aside(rows)) \in Nat /\ Cardinality(Counted(rows)) \in Nat
        /\ v.bilateral \in Nat /\ IsFiniteSet(Counted(rows))
        /\ v.unilateral + v.bilateral + Len(v.sources) = Len(SourcesOf(rows))
    BY <1>2, Zenon DEF CountsOf
  <1>4. /\ r.status = status /\ r.point = point /\ IsKappa(r.least) /\ IsKappa(r.point)
        /\ r.applicable = Len(v.sources) /\ r.bilateral = v.bilateral
        /\ r.unilateral = v.unilateral
    <2>1. v.unilateral \in Nat /\ Len(v.sources) \in Nat
      BY <1>3
    <2>. HIDE DEF point, W, r, status
    <2>. QED  BY <1>2, <2>1, ResultAgrees DEF point, W
  <1>5. UnitsDivide(rows) /\ IsKappa(point) /\ \A k \in W : IsKappa(k)
    BY <1>2, Zenon DEF Found
  <1>. HIDE DEF point, W, r, status
  <1>6. ResultHolds(v, r, status)
    <2>1. \A f : IsKappa(f) => f = None \/ f.den > 0
      BY DEF IsKappa, Fractions
    <2>2. ASSUME PayloadAccepted(v) PROVE ResultAccepted(r)
      <3>1. Len(v.sources) + v.bilateral + v.unilateral <= MaxUnits
        BY <2>2, Zenon DEF PayloadAccepted
      <3>2. r.applicable + r.bilateral + r.unilateral <= MaxUnits
        BY <1>4, <3>1, Zenon
      <3>3. \A f \in {r.least, r.point} : f = None \/ f.den > 0
        BY <1>4, <2>1, Zenon
      <3>. QED  BY <3>2, <3>3, Zenon DEF ResultAccepted
    <2>3. SameKappa(r.point, SourceWeighted(v.sources))
      BY <1>2, <1>4, Zenon DEF SameKappa
    <2>. QED  BY <1>4, <2>2, <2>3, Zenon DEF ResultHolds
  <1>7. ContractStatus(Vectors(Reverse(rows))) = status
    <2>. DEFINE other == Reverse(rows)
                w == Vectors(other)
    <2>1. other \in RatingRows(sources) /\ Kept(other, rows, SourcesIn(rows))
      BY ReverseKeeps
    <2>. HIDE DEF other
    <2>2. /\ Counted(other) = Counted(rows) \cap SourcesIn(rows) /\ UnitsDivide(other)
          /\ Aside(other) = Aside(rows) \cap SourcesIn(rows)
          /\ \A s \in Counted(other) : Share(other, s) = Share(rows, s)
      BY <2>1, KeptCounts
    <2>3. Counted(other) = Counted(rows) /\ Aside(other) = Aside(rows)
      <3>1. Counted(rows) \in SUBSET SourcesIn(rows) /\ Aside(rows) \in SUBSET SourcesIn(rows)
        BY DEF Counted, Aside
      <3>. QED  BY <2>2, <3>1
    <2>4. Mass(other) = Mass(rows) /\ WithoutEach(other) = WithoutEach(rows)
      BY <2>2, <2>3, MassStays
    <2>5. RowPlaces(other)
      BY <2>1, RowsHavePlaces
    <2>6. /\ CountsOf(w, other)
          /\ ContractStatus(w) = StatusFrom(w, Kappa(Mass(other)), WithoutEach(other))
      BY <2>2, <2>5, StatusOfVectors
    <2>. HIDE DEF w
    <2>7. w.unilateral = v.unilateral /\ Len(w.sources) = Len(v.sources)
      BY <1>3, <2>3, <2>6, Zenon DEF CountsOf
    <2>8. ContractStatus(w) = StatusFrom(w, point, W)
      BY <2>4, <2>6, Zenon DEF point, W
    <2>9. StatusFrom(w, point, W) = StatusFrom(v, point, W)
      BY <2>7, Zenon DEF StatusFrom
    <2>. QED  BY <1>2, <2>8, <2>9, Zenon DEF w, other
  <1>8. ASSUME r.status = "AGREEMENT_PASS", NEW s \in SourcesIn(rows)
        PROVE  LET others == {i \in DOMAIN rows : rows[i].source # s}
               IN Sufficient(SourceWeighted(Vectors(At(rows, others)).sources))
    <2>. DEFINE other == At(rows, {i \in DOMAIN rows : rows[i].source # s})
                w == Vectors(other)
    <2>1. other \in RatingRows(sources) /\ Kept(other, rows, SourcesIn(rows) \ {s})
      BY LeavingOut
    <2>. HIDE DEF other
    <2>2. /\ Counted(other) = Counted(rows) \cap (SourcesIn(rows) \ {s}) /\ UnitsDivide(other)
          /\ \A t \in Counted(other) : Share(other, t) = Share(rows, t)
      BY <2>1, KeptCounts
    <2>3. Counted(other) = Counted(rows) \ {s}
      <3>1. Counted(rows) \in SUBSET SourcesIn(rows)
        BY DEF Counted
      <3>. QED  BY <2>2, <3>1
    <2>4. RowPlaces(other)
      BY <2>1, RowsHavePlaces
    <2>5. SourceWeighted(w.sources) = Kappa(Mass(other))
      BY <2>2, <2>4, StatusOfVectors
    <2>6. /\ point # None /\ ~Below(point, Floor) /\ None \notin W
          /\ \A k \in W : ~Below(k, Floor)
      <3>1. StatusFrom(v, point, W) = "AGREEMENT_PASS"
        BY <1>2, <1>4, <1>8
      <3>. QED  BY <3>1 DEF StatusFrom
    <2>7. CASE s \in Counted(rows)
      <3>1. Mass(other) = Subtract(Mass(rows), Share(rows, s))
        BY <1>1, <1>3, <2>2, <2>3, <2>7, MassWithout
      <3>2. Kappa(Mass(other)) \in W
        BY <2>7, <3>1 DEF W, WithoutEach
      <3>. QED  BY <2>5, <2>6, <3>2 DEF Sufficient, w, other
    <2>8. CASE s \notin Counted(rows)
      <3>1. Counted(other) = Counted(rows)
        BY <2>3, <2>8
      <3>2. Mass(other) = Mass(rows)
        BY <2>2, <3>1, MassStays
      <3>. QED  BY <2>5, <2>6, <3>2, Zenon DEF Sufficient, w, other, point
    <2>. QED  BY <2>7, <2>8
  <1>9. VectorsHold(rows, v, r, status)
    BY <1>3, <1>6, <1>7, <1>8, Zenon DEF VectorsHold, SourcesIn
  <1>. QED  BY <1>9, Zenon DEF AgreementIsOne, r, status, v

----------------------------------------------------------------------------
(* Few rows: what the theorems above ask of rows, when there are few.      *)

\* There are no more sources than rows, in all or in one stratum.
LEMMA FewSources ==
  ASSUME NEW T, NEW rows \in Seq(T), NEW stratum
  PROVE  /\ Cardinality(SourcesIn(rows)) \in 0..Len(rows)
         /\ Cardinality(Units(rows, stratum)) \in 0..Len(rows)
  <1>. DEFINE D == DOMAIN rows
              E == {i \in D : rows[i].stratum = stratum}
              src == [i \in D |-> rows[i].source]
  <1>1. D = 1..Len(rows) /\ Len(rows) \in Nat
    OBVIOUS
  <1>2. IsFiniteSet(D) /\ Cardinality(D) = Len(rows)
    <2>1. IsFiniteSet(1..Len(rows)) /\ Cardinality(1..Len(rows)) = Len(rows)
      BY SMTT(60), <1>1, FS_Interval
    <2>. QED  BY <1>1, <2>1, Zenon
  <1>3. SourcesIn(rows) = ValuesOf(src, D) /\ Units(rows, stratum) = ValuesOf(src, E)
    BY DEF SourcesIn, Units, ValuesOf
  <1>4. D \in SUBSET D /\ E \in SUBSET D /\ DOMAIN src = D
    OBVIOUS
  <1>. HIDE DEF D, E, src
  <1>5. /\ Cardinality(ValuesOf(src, D)) \in Nat /\ Cardinality(ValuesOf(src, E)) \in Nat
        /\ Cardinality(ValuesOf(src, D)) <= Cardinality(D)
        /\ Cardinality(ValuesOf(src, E)) <= Cardinality(ValuesOf(src, D))
    BY <1>2, <1>4, FiniteValues
  <1>. QED  BY <1>1, <1>2, <1>3, <1>5

\* Units that one, two and three divide are enough for three rows.
LEMMA FewRatings ==
  ASSUME NEW sources, NEW rows \in RatingRows(sources), Len(rows) <= 3,
         NEW q \in Nat, MassUnits = 6 * q
  PROVE  UnitsDivide(rows)
  <1>1. DOMAIN rows = 1..Len(rows) /\ Len(rows) \in Nat
    BY DEF RatingRows
  <1>2. ASSUME NEW s \in Counted(rows)
        PROVE  Cardinality(Both(rows, s)) \in 1..3
    <2>. DEFINE I == Both(rows, s)
    <2>1. I \in SUBSET (1..Len(rows)) /\ I # {}
      BY <1>1 DEF Counted, Both, Own
    <2>. HIDE DEF I
    <2>2. IsFiniteSet(I) /\ Cardinality(I) \in Nat /\ Cardinality(I) <= Len(rows)
      BY <1>1, <2>1, OutcomeSize
    <2>3. Cardinality(I) # 0
      BY <2>1, <2>2, FS_EmptySet, Zenon
    <2>. QED  BY <1>1, <2>2, <2>3 DEF I
  <1>3. /\ 6 * q \in Nat /\ 3 * q \in Nat /\ 2 * q \in Nat
        /\ 6 * q = 1 * (6 * q) /\ 6 * q = 2 * (3 * q) /\ 6 * q = 3 * (2 * q)
    OBVIOUS
  <1>4. \A n \in 1..3 : \E p \in Nat : MassUnits = n * p
    <2>1. \A n \in 1..3 : n = 1 \/ n = 2 \/ n = 3
      OBVIOUS
    <2>. QED  BY <1>3, <2>1
  <1>. QED  BY <1>2, <1>4, Zenon DEF UnitsDivide

----------------------------------------------------------------------------
(* The reports. A set of a mod's files or occurrences is counted, and every *)
(* count of a report is one of these: the reports agree because the sets    *)
(* they count split each other.                                             *)

\* A mod as the commands see one.
FileRecords == [kind : {"english", "foreign"} \cup Skips, unsupported : Nat]
OccurrenceRecords ==
  [file : Nat, state : {"changed", "unchanged", "fallback"},
   decision : {"accept", "edit", "reject"}, alters : BOOLEAN, whitespace : BOOLEAN]
ModOK(mod) == mod.files \in Seq(FileRecords) /\ mod.occurrences \in Seq(OccurrenceRecords)

LEMMA CountIsCardinality ==
  ASSUME NEW X
  PROVE  Num(X) = Cardinality(X)
  BY DEF Num

LEMMA TwoParts ==
  ASSUME NEW D, IsFiniteSet(D), NEW X, NEW Y, X \cup Y = D, X \cap Y = {}
  PROVE  /\ Num(X) \in Nat /\ Num(Y) \in Nat /\ Num(D) \in Nat
         /\ Num(D) = Num(X) + Num(Y)
  <1>1. X \in SUBSET D /\ Y \in SUBSET D
    OBVIOUS
  <1>2. IsFiniteSet(X) /\ IsFiniteSet(Y)
    BY <1>1, FS_Subset
  <1>3. Cardinality(X) \in Nat /\ Cardinality(Y) \in Nat
    BY <1>2, FS_CardinalityType
  <1>4. Cardinality(X \cup Y) = Cardinality(X) + Cardinality(Y) - Cardinality(X \cap Y)
    BY <1>2, FS_Union
  <1>5. Cardinality({}) = 0
    BY FS_EmptySet
  <1>6. Cardinality(D) = Cardinality(X \cup Y) /\ Cardinality(X \cap Y) = Cardinality({})
    OBVIOUS
  <1>. QED  BY <1>3, <1>4, <1>5, <1>6, CountIsCardinality

LEMMA NumOfSubset ==
  ASSUME NEW D, IsFiniteSet(D), NEW X \in SUBSET D
  PROVE  IsFiniteSet(X) /\ Num(X) \in Nat /\ Num(D) \in Nat /\ Num(X) <= Num(D)
  BY FS_Subset, FS_CardinalityType, CountIsCardinality

LEMMA Indices ==
  ASSUME NEW n \in Nat
  PROVE  IsFiniteSet(1..n) /\ Num(1..n) = n
  <1>1. 1 \in Int /\ n \in Int
    OBVIOUS
  <1>2. IsFiniteSet(1..n) /\ Cardinality(1..n) = IF 1 > n THEN 0 ELSE n - 1 + 1
    BY <1>1, FS_Interval
  <1>. QED  BY <1>2, CountIsCardinality

LEMMA UnsupportedCount ==
  ASSUME NEW mod, ModOK(mod)
  PROVE  UnsupportedIn(mod) \in Nat
  <1>. DEFINE files == FilesOf(mod, {"english"})
              of == [f \in files |-> UnsupportedOf(mod, f)]
              all == {UnsupportedOf(mod, f) : f \in files}
  <1>1. Len(mod.files) \in Nat /\ DOMAIN mod.files = 1..Len(mod.files)
    BY DEF ModOK
  <1>2. files \in SUBSET (1..Len(mod.files))
    BY <1>1 DEF FilesOf
  <1>3. IsFiniteSet(files)
    BY <1>1, <1>2, Indices, FS_Subset
  <1>4. of \in Surjection(files, all)
    BY DEF Surjection
  <1>5. IsFiniteSet(all)
    BY <1>3, <1>4, FS_Surjection
  <1>6. ASSUME NEW f \in files PROVE IsFiniteSet(UnsupportedOf(mod, f))
    <2>1. mod.files[f].unsupported \in Nat
      <3>1. mod.files[f] \in FileRecords
        BY <1>1, <1>2, <1>6 DEF ModOK
      <3>. QED  BY <3>1 DEF FileRecords
    <2>2. IsFiniteSet({f}) /\ IsFiniteSet(1..mod.files[f].unsupported)
      BY <2>1, Indices, FS_Singleton
    <2>. QED  BY <2>2, FS_Product DEF UnsupportedOf
  <1>7. IsFiniteSet(UNION all)
    BY <1>5, <1>6, FS_UNION
  <1>8. Cardinality(UNION all) \in Nat
    BY <1>7, FS_CardinalityType
  <1>. QED  BY <1>8, CountIsCardinality DEF UnsupportedIn

\* The counts of a mod, and how they add up.
LEMMA ModCounts ==
  ASSUME NEW mod, ModOK(mod)
  PROVE  /\ Len(mod.files) \in Nat /\ Len(mod.occurrences) \in Nat
         /\ UnsupportedIn(mod) \in Nat
         /\ \A kinds : /\ Num(FilesOf(mod, kinds)) \in Nat
                       /\ Num(FilesOf(mod, kinds)) <= Len(mod.files)
         /\ IsFiniteSet(DOMAIN mod.occurrences)
         /\ Num(DOMAIN mod.occurrences) = Len(mod.occurrences)
         /\ DOMAIN mod.occurrences = 1..Len(mod.occurrences)
         /\ \A i \in DOMAIN mod.occurrences :
              /\ mod.occurrences[i].state \in {"changed", "unchanged", "fallback"}
              /\ mod.occurrences[i].decision \in {"accept", "edit", "reject"}
  <1>1. /\ Len(mod.files) \in Nat /\ DOMAIN mod.files = 1..Len(mod.files)
        /\ Len(mod.occurrences) \in Nat /\ DOMAIN mod.occurrences = 1..Len(mod.occurrences)
    BY DEF ModOK
  <1>2. ASSUME NEW kinds
        PROVE  /\ Num(FilesOf(mod, kinds)) \in Nat
               /\ Num(FilesOf(mod, kinds)) <= Len(mod.files)
    <2>1. FilesOf(mod, kinds) \in SUBSET (1..Len(mod.files))
      BY <1>1 DEF FilesOf
    <2>. QED  BY <1>1, <2>1, Indices, NumOfSubset
  <1>3. IsFiniteSet(DOMAIN mod.occurrences) /\ Num(DOMAIN mod.occurrences) = Len(mod.occurrences)
    BY <1>1, Indices
  <1>4. \A i \in DOMAIN mod.occurrences :
              /\ mod.occurrences[i].state \in {"changed", "unchanged", "fallback"}
              /\ mod.occurrences[i].decision \in {"accept", "edit", "reject"}
    <2>1. ASSUME NEW i \in DOMAIN mod.occurrences
          PROVE  mod.occurrences[i] \in OccurrenceRecords
      BY <1>1 DEF ModOK
    <2>. QED  BY <2>1 DEF OccurrenceRecords
  <1>. QED  BY <1>1, <1>2, <1>3, <1>4, UnsupportedCount

\* The states of any of the occurrences.
LEMMA StateCounts ==
  ASSUME NEW mod, ModOK(mod), NEW chosen \in SUBSET DOMAIN mod.occurrences
  PROVE  LET count(states) == Num(chosen \cap Occurring(mod, states))
         IN /\ Num(chosen) \in Nat /\ Num(DOMAIN mod.occurrences \ chosen) \in Nat
            /\ Num(chosen) + Num(DOMAIN mod.occurrences \ chosen) = Len(mod.occurrences)
            /\ \A states : count(states) \in Nat
            /\ count({"changed", "unchanged"}) = count({"changed"}) + count({"unchanged"})
            /\ count({"changed", "unchanged"}) + count({"fallback"}) = Num(chosen)
  <1>1. IsFiniteSet(DOMAIN mod.occurrences) /\ Num(DOMAIN mod.occurrences) = Len(mod.occurrences)
    BY ModCounts
  <1>2. IsFiniteSet(chosen)
    BY <1>1, NumOfSubset
  <1>3. /\ Num(chosen) \in Nat /\ Num(DOMAIN mod.occurrences \ chosen) \in Nat
        /\ Num(DOMAIN mod.occurrences) = Num(chosen) + Num(DOMAIN mod.occurrences \ chosen)
    <2>. DEFINE D == DOMAIN mod.occurrences
                Y == D \ chosen
    <2>1. chosen \cup Y = D /\ chosen \cap Y = {} /\ IsFiniteSet(D)
      BY <1>1
    <2>. HIDE DEF D, Y
    <2>2. Num(chosen) \in Nat /\ Num(Y) \in Nat /\ Num(D) = Num(chosen) + Num(Y)
      BY <2>1, TwoParts, Z3
    <2>. QED  BY <2>2 DEF D, Y
  <1>4. \A states : Num(chosen \cap Occurring(mod, states)) \in Nat
    <2>1. \A states : chosen \cap Occurring(mod, states) \in SUBSET chosen
      OBVIOUS
    <2>. QED  BY <1>2, <2>1, NumOfSubset
  <1>5. Num(chosen \cap Occurring(mod, {"changed", "unchanged"}))
          = Num(chosen \cap Occurring(mod, {"changed"}))
              + Num(chosen \cap Occurring(mod, {"unchanged"}))
    <2>. DEFINE D == chosen \cap Occurring(mod, {"changed", "unchanged"})
                X == chosen \cap Occurring(mod, {"changed"})
                Y == chosen \cap Occurring(mod, {"unchanged"})
    <2>1. X \cup Y = D /\ X \cap Y = {} /\ D \in SUBSET chosen
      BY DEF Occurring
    <2>2. IsFiniteSet(D)
      BY <1>2, <2>1, NumOfSubset
    <2>. QED  BY <2>1, <2>2, TwoParts
  <1>6. Num(chosen) = Num(chosen \cap Occurring(mod, {"changed", "unchanged"}))
                        + Num(chosen \cap Occurring(mod, {"fallback"}))
    <2>. DEFINE X == chosen \cap Occurring(mod, {"changed", "unchanged"})
                Y == chosen \cap Occurring(mod, {"fallback"})
    <2>1. \A i \in chosen : mod.occurrences[i].state \in {"changed", "unchanged", "fallback"}
      BY ModCounts
    <2>2. X \cup Y = chosen /\ X \cap Y = {}
      BY <2>1 DEF Occurring
    <2>. QED  BY <1>2, <2>2, TwoParts
  <1>. QED  BY <1>1, <1>3, <1>4, <1>5, <1>6

----------------------------------------------------------------------------
(* The report of a finished job.                                           *)

Numbered == {"discovered", "english", "skipped", "deferred", "planned", "calls", "occurrences"}

\* What a report that the review accepts says, count by count.
LEMMA AcceptedCounts ==
  ASSUME NEW mod, NEW r, ReviewAccepts(mod, r)
  PROVE  LET all == Len(mod.occurrences) + UnsupportedIn(mod)
         IN /\ r.counts.discovered = Len(mod.files)
            /\ r.counts.english = Num(FilesOf(mod, {"english"}))
            /\ r.counts.skipped = Num(FilesOf(mod, Skips))
            /\ r.counts.deferred = 0
            /\ r.counts.planned = Len(mod.occurrences)
            /\ r.counts.calls = r.resumability.calls
            /\ r.counts.occurrences = all
            /\ r.counts.total[1] = all
            /\ r.counts.completed[1] = all
            /\ r.counts.translated[1] = Num(Occurring(mod, {"changed", "unchanged"}))
            /\ r.counts.unchanged[1] = Num(Occurring(mod, {"unchanged"}))
            /\ r.counts.fallback[1] = Num(Occurring(mod, {"fallback"})) + UnsupportedIn(mod)
            /\ r.counts.unsupported[1] = UnsupportedIn(mod)
            /\ r.counts.pending[1] = 0
            /\ r.counts.reused[1] = r.resumability.reused
  BY Zenon DEF ReviewAccepts

\* The review knows every count but two, which the resumability repeats: two
\* reports that it accepts for one mod differ in nothing it can see.
LEMMA ReviewDetermines ==
  ASSUME NEW mod, NEW r, NEW q, ReviewAccepts(mod, r), ReviewAccepts(mod, q),
         q.resumability = r.resumability
  PROVE  /\ \A name \in Numbered : q.counts[name] = r.counts[name]
         /\ \A name \in Paired : q.counts[name][1] = r.counts[name][1]
  <1>1. /\ q.counts.discovered = r.counts.discovered
        /\ q.counts.english = r.counts.english
        /\ q.counts.skipped = r.counts.skipped
        /\ q.counts.deferred = r.counts.deferred
        /\ q.counts.planned = r.counts.planned
        /\ q.counts.calls = r.counts.calls
        /\ q.counts.occurrences = r.counts.occurrences
    BY AcceptedCounts
  <1>2. /\ q.counts.total[1] = r.counts.total[1]
        /\ q.counts.completed[1] = r.counts.completed[1]
        /\ q.counts.translated[1] = r.counts.translated[1]
        /\ q.counts.unchanged[1] = r.counts.unchanged[1]
        /\ q.counts.fallback[1] = r.counts.fallback[1]
        /\ q.counts.unsupported[1] = r.counts.unsupported[1]
        /\ q.counts.pending[1] = r.counts.pending[1]
        /\ q.counts.reused[1] = r.counts.reused[1]
    BY AcceptedCounts
  <1>. QED  BY <1>1, <1>2 DEF Numbered, Paired

\* What the report of a job says of the occurrences of the mod.
LEMMA JobCounts ==
  ASSUME NEW mod, ModOK(mod)
  PROVE  /\ Num(Occurring(mod, {"changed", "unchanged"})) \in Nat
         /\ Num(Occurring(mod, {"changed"})) \in Nat
         /\ Num(Occurring(mod, {"unchanged"})) \in Nat
         /\ Num(Occurring(mod, {"fallback"})) \in Nat
         /\ Num(Occurring(mod, {"changed", "unchanged"}))
              = Num(Occurring(mod, {"changed"})) + Num(Occurring(mod, {"unchanged"}))
         /\ Num(Occurring(mod, {"changed", "unchanged"}))
                + Num(Occurring(mod, {"fallback"}))
              = Len(mod.occurrences)
  <1>. DEFINE D == DOMAIN mod.occurrences
  <1>1. \A states : D \cap Occurring(mod, states) = Occurring(mod, states)
    BY DEF Occurring
  <1>2. Num(D) = Len(mod.occurrences)
    BY ModCounts
  <1>. QED  BY ZenonT(90), <1>1, <1>2, StateCounts

IsJobReport(mod, reused, report) ==
  LET c == report.counts
      selected == Len(mod.occurrences)
      all == selected + UnsupportedIn(mod)
      accepted == Num(Occurring(mod, {"changed", "unchanged"}))
      unchanged == Num(Occurring(mod, {"unchanged"}))
      failed == UnsupportedIn(mod) + Num(Occurring(mod, {"fallback"}))
  IN /\ c.discovered = Len(mod.files)
     /\ c.english = Num(FilesOf(mod, {"english"}))
     /\ c.skipped = Num(FilesOf(mod, Skips))
     /\ c.deferred = 0
     /\ c.planned = selected
     /\ c.calls = selected - reused
     /\ c.occurrences = all
     /\ c.total = <<all, all>>
     /\ c.completed = <<all, all>>
     /\ c.translated = <<accepted, accepted>>
     /\ c.unchanged = <<unchanged, unchanged>>
     /\ c.fallback = <<failed, failed>>
     /\ c.unsupported = <<UnsupportedIn(mod), UnsupportedIn(mod)>>
     /\ c.pending = <<0, 0>>
     /\ c.reused = <<reused, reused>>
     /\ DOMAIN c = Numbered \cup Paired
     /\ report.schema = 3
     /\ report.resumability = [reused |-> reused, calls |-> selected - reused]
     /\ report.status = Status([fallback |-> failed, deferred |-> 0,
                                skipped |-> Num(FilesOf(mod, Skips)),
                                occurrences |-> all], FALSE)
     /\ DOMAIN report = {"schema", "counts", "status", "resumability"}

LEMMA JobReport ==
  ASSUME NEW mod, NEW reused
  PROVE  IsJobReport(mod, reused, WorkspaceReport(mod, reused))
  BY ZenonT(90) DEF IsJobReport, WorkspaceReport, InspectCounts, Numbered, Paired

LEMMA JobReportAccepted ==
  ASSUME NEW mod, ModOK(mod), NEW reused \in Nat, reused <= Len(mod.occurrences),
         NEW report, IsJobReport(mod, reused, report)
  PROVE  ReviewAccepts(mod, report)
  <1>. DEFINE c == report.counts
  <1>1. /\ Len(mod.files) \in Nat /\ Len(mod.occurrences) \in Nat /\ UnsupportedIn(mod) \in Nat
    BY ModCounts
  <1>2. \A p \in Paired : c[p][1] = c[p][2]
    BY DEF IsJobReport, Paired
  <1>3. c.fallback[1] = Num(Occurring(mod, {"fallback"})) + UnsupportedIn(mod)
    BY <1>1, JobCounts DEF IsJobReport
  <1>4. /\ c.reused[1] + c.calls = Len(mod.occurrences)
        /\ c.reused[1] = report.resumability.reused
        /\ c.calls = report.resumability.calls
    BY <1>1 DEF IsJobReport
  <1>5. report.status = Status([fallback |-> c.fallback[1], deferred |-> c.deferred,
                                skipped |-> c.skipped, occurrences |-> c.occurrences], FALSE)
    BY DEF IsJobReport
  <1>6. /\ report.schema = 3
        /\ c.occurrences = c.total[1] /\ c.pending[1] = 0 /\ c.deferred = 0
        /\ c.completed[1] = c.total[1]
        /\ c.discovered = Len(mod.files)
        /\ c.english = Num(FilesOf(mod, {"english"}))
        /\ c.skipped = Num(FilesOf(mod, Skips))
        /\ c.occurrences = Len(mod.occurrences) + UnsupportedIn(mod)
        /\ c.planned = Len(mod.occurrences)
        /\ c.translated[1] = Num(Occurring(mod, {"changed", "unchanged"}))
        /\ c.unchanged[1] = Num(Occurring(mod, {"unchanged"}))
        /\ c.unsupported[1] = UnsupportedIn(mod)
    BY DEF IsJobReport
  <1>7. Num(Occurring(mod, {"changed", "unchanged"})) + Num(Occurring(mod, {"fallback"}))
          = Len(mod.occurrences)
    BY JobCounts
  <1>. QED  BY <1>2, <1>3, <1>4, <1>5, <1>6, <1>7, Zenon DEF ReviewAccepts

LEMMA JobReportTyped ==
  ASSUME NEW mod, ModOK(mod), NEW reused \in Nat,
         NEW report, IsJobReport(mod, reused, report)
  PROVE  /\ \A name \in Numbered : report.counts[name] \in Int
         /\ \A name \in Paired : report.counts[name][1] \in Int
  <1>. DEFINE c == report.counts
  <1>1. /\ Len(mod.files) \in Nat /\ Len(mod.occurrences) \in Nat /\ UnsupportedIn(mod) \in Nat
        /\ Num(FilesOf(mod, {"english"})) \in Nat /\ Num(FilesOf(mod, Skips)) \in Nat
    BY ModCounts
  <1>2. /\ c.discovered \in Int /\ c.english \in Int /\ c.skipped \in Int /\ c.deferred \in Int
        /\ c.planned \in Int /\ c.calls \in Int /\ c.occurrences \in Int
    BY <1>1 DEF IsJobReport
  <1>3. /\ c.total[1] \in Int /\ c.completed[1] \in Int /\ c.unsupported[1] \in Int
        /\ c.pending[1] \in Int /\ c.reused[1] \in Int
    BY <1>1 DEF IsJobReport
  <1>4. /\ Num(Occurring(mod, {"changed", "unchanged"})) \in Int
        /\ Num(Occurring(mod, {"unchanged"})) \in Int
        /\ UnsupportedIn(mod) + Num(Occurring(mod, {"fallback"})) \in Int
    BY <1>1, JobCounts
  <1>5. c.translated[1] \in Int /\ c.unchanged[1] \in Int /\ c.fallback[1] \in Int
    BY <1>4 DEF IsJobReport
  <1>. QED  BY <1>2, <1>3, <1>5 DEF Numbered, Paired

LEMMA JobReportIsExact ==
  ASSUME NEW mod, ModOK(mod), NEW reused \in Nat, reused <= Len(mod.occurrences),
         NEW report, IsJobReport(mod, reused, report)
  PROVE  ReportAccepted(mod, report)
  <1>1. ReviewAccepts(mod, report)
    BY JobReportAccepted
  <1>2. ASSUME NEW name \in DOMAIN report.counts,
               ReviewAccepts(mod, Shifted(report, name))
        PROVE  FALSE
    <2>. DEFINE other == Shifted(report, name)
    <2>1. other.resumability = report.resumability
      BY DEF Shifted, IsJobReport
    <2>2. CASE name \in Paired
      <3>1. other.counts[name] = <<report.counts[name][1] + 1, report.counts[name][2] + 1>>
        BY <2>2 DEF Shifted, IsJobReport
      <3>2. other.counts[name][1] = report.counts[name][1]
        BY <1>1, <1>2, <2>1, <2>2, ReviewDetermines
      <3>3. report.counts[name][1] \in Int
        BY <2>2, JobReportTyped
      <3>. QED  BY <3>1, <3>2, <3>3
    <2>3. CASE name \notin Paired
      <3>1. other.counts[name] = report.counts[name] + 1
        BY <2>3 DEF Shifted, IsJobReport
      <3>2. name \in Numbered
        BY <2>3 DEF IsJobReport
      <3>3. other.counts[name] = report.counts[name]
        BY <1>1, <1>2, <2>1, <3>2, ReviewDetermines
      <3>4. report.counts[name] \in Int
        BY <3>2, JobReportTyped
      <3>. QED  BY <3>1, <3>3, <3>4
    <2>. QED  BY <2>2, <2>3
  <1>. QED  BY <1>1, <1>2 DEF ReportAccepted

----------------------------------------------------------------------------
(* The report of a pilot.                                                  *)

PilotCounted == {"discovered", "english", "occurrences", "fallback", "skipped", "planned",
                 "translated", "unchanged", "deferred"}

\* The counts of the occurrences that a pilot takes, and of the rest.
PlannedIn(mod, chosen) == Num(chosen)
DeferredIn(mod, chosen) == Num(DOMAIN mod.occurrences \ chosen)
TranslatedIn(mod, chosen) == Num(chosen \cap Occurring(mod, {"changed", "unchanged"}))
ChangedIn(mod, chosen) == Num(chosen \cap Occurring(mod, {"changed"}))
UnchangedIn(mod, chosen) == Num(chosen \cap Occurring(mod, {"unchanged"}))
FailedIn(mod, chosen) == Num(chosen \cap Occurring(mod, {"fallback"}))
EnglishIn(mod) == Num(FilesOf(mod, {"english"}))
SkippedIn(mod) == Num(FilesOf(mod, Skips))

IsPilotReport(mod, limit, dryRun, report) ==
  LET c == report.counts
      chosen == Selected(mod, limit)
  IN /\ c.discovered = Len(mod.files)
     /\ c.english = EnglishIn(mod)
     /\ c.occurrences = Len(mod.occurrences) + UnsupportedIn(mod)
     /\ c.fallback = UnsupportedIn(mod) + (IF dryRun THEN 0 ELSE FailedIn(mod, chosen))
     /\ c.skipped = SkippedIn(mod)
     /\ c.planned = PlannedIn(mod, chosen)
     /\ c.translated = (IF dryRun THEN 0 ELSE TranslatedIn(mod, chosen))
     /\ c.unchanged = (IF dryRun THEN 0 ELSE UnchangedIn(mod, chosen))
     /\ c.deferred = DeferredIn(mod, chosen)
     /\ DOMAIN c = PilotCounted
     /\ report.schema = 2 /\ report.limit = limit /\ report.dryRun = dryRun
     /\ report.status = Status(c, dryRun)
     /\ DOMAIN report = {"schema", "status", "limit", "dryRun", "counts"}

LEMMA PilotReport ==
  ASSUME NEW mod, NEW limit, NEW dryRun \in BOOLEAN
  PROVE  IsPilotReport(mod, limit, dryRun, SinglePassReport(mod, limit, dryRun))
  BY DEF IsPilotReport, SinglePassReport, InspectCounts, PilotCounted, PlannedIn, DeferredIn,
           TranslatedIn, UnchangedIn, FailedIn, EnglishIn, SkippedIn

\* The occurrences of a mod, split into those that a pilot takes and the rest.
Splits(mod, chosen) ==
  /\ Len(mod.files) \in Nat /\ Len(mod.occurrences) \in Nat
  /\ UnsupportedIn(mod) \in Nat /\ EnglishIn(mod) \in Nat /\ SkippedIn(mod) \in Nat
  /\ PlannedIn(mod, chosen) \in Nat /\ DeferredIn(mod, chosen) \in Nat
  /\ PlannedIn(mod, chosen) + DeferredIn(mod, chosen) = Len(mod.occurrences)
  /\ TranslatedIn(mod, chosen) \in Nat /\ ChangedIn(mod, chosen) \in Nat
  /\ UnchangedIn(mod, chosen) \in Nat /\ FailedIn(mod, chosen) \in Nat
  /\ TranslatedIn(mod, chosen) = ChangedIn(mod, chosen) + UnchangedIn(mod, chosen)
  /\ TranslatedIn(mod, chosen) + FailedIn(mod, chosen) = PlannedIn(mod, chosen)

LEMMA PilotCounts ==
  ASSUME NEW mod, ModOK(mod), NEW limit
  PROVE  Splits(mod, Selected(mod, limit))
  <1>1. Selected(mod, limit) \in SUBSET DOMAIN mod.occurrences
    BY DEF Selected
  <1>2. /\ Len(mod.files) \in Nat /\ Len(mod.occurrences) \in Nat /\ UnsupportedIn(mod) \in Nat
        /\ Num(FilesOf(mod, {"english"})) \in Nat /\ Num(FilesOf(mod, Skips)) \in Nat
    BY ModCounts
  <1>. QED  BY <1>1, <1>2, StateCounts DEF Splits, PlannedIn, DeferredIn, TranslatedIn, ChangedIn,
                                       UnchangedIn, FailedIn, EnglishIn, SkippedIn

LEMMA PilotReportBalances ==
  ASSUME NEW mod, ModOK(mod), NEW limit, NEW dryRun \in BOOLEAN,
         NEW report, IsPilotReport(mod, limit, dryRun, report)
  PROVE  CountsBalance(report)
  <1>. DEFINE c == report.counts
              chosen == Selected(mod, limit)
  <1>0. Splits(mod, chosen)
    BY PilotCounts
  <1>1. CASE dryRun
    <2>1. c.translated = 0 /\ c.unchanged = 0 /\ c.fallback = UnsupportedIn(mod)
      BY <1>1, <1>0 DEF IsPilotReport, Splits
    <2>2. /\ c.occurrences = Len(mod.occurrences) + UnsupportedIn(mod)
          /\ c.planned = PlannedIn(mod, chosen) /\ c.deferred = DeferredIn(mod, chosen)
      BY DEF IsPilotReport
    <2>3. /\ Len(mod.occurrences) \in Nat /\ UnsupportedIn(mod) \in Nat
          /\ PlannedIn(mod, chosen) \in Nat /\ DeferredIn(mod, chosen) \in Nat
          /\ PlannedIn(mod, chosen) + DeferredIn(mod, chosen) = Len(mod.occurrences)
      BY <1>0 DEF Splits
    <2>4. c.occurrences = c.planned + c.fallback + c.deferred
      BY <2>1, <2>2, <2>3
    <2>. QED  BY <1>1, <2>1, <2>4 DEF CountsBalance, IsPilotReport
  <1>2. CASE ~dryRun
    <2>1. c.unchanged <= c.translated
      BY <1>2, <1>0 DEF IsPilotReport, Splits
    <2>2. /\ c.occurrences = Len(mod.occurrences) + UnsupportedIn(mod)
          /\ c.translated = TranslatedIn(mod, chosen)
          /\ c.fallback = UnsupportedIn(mod) + FailedIn(mod, chosen)
          /\ c.deferred = DeferredIn(mod, chosen)
      BY <1>2 DEF IsPilotReport
    <2>3. /\ Len(mod.occurrences) \in Nat /\ UnsupportedIn(mod) \in Nat
          /\ TranslatedIn(mod, chosen) \in Nat /\ FailedIn(mod, chosen) \in Nat
          /\ PlannedIn(mod, chosen) \in Nat /\ DeferredIn(mod, chosen) \in Nat
          /\ PlannedIn(mod, chosen) + DeferredIn(mod, chosen) = Len(mod.occurrences)
          /\ TranslatedIn(mod, chosen) + FailedIn(mod, chosen) = PlannedIn(mod, chosen)
      BY <1>0 DEF Splits
    <2>4. c.occurrences = c.translated + c.fallback + c.deferred
      BY <2>2, <2>3
    <2>. QED  BY <1>2, <2>1, <2>4 DEF CountsBalance, IsPilotReport
  <1>. QED  BY <1>1, <1>2

LEMMA PilotReportAccepted ==
  ASSUME NEW mod, ModOK(mod), NEW limit, limit # NoLimit, mod.occurrences # <<>>,
         NEW report, IsPilotReport(mod, limit, FALSE, report)
  PROVE  PilotReviewAccepts(mod, report)
  <1>. DEFINE c == report.counts
  <1>0. Splits(mod, Selected(mod, limit))
    BY PilotCounts
  <1>1. Len(mod.occurrences) > 0
    BY DEF ModOK
  <1>. DEFINE chosen == Selected(mod, limit)
  <1>5. /\ c.occurrences = Len(mod.occurrences) + UnsupportedIn(mod)
        /\ c.deferred = DeferredIn(mod, chosen)
    BY DEF IsPilotReport
  <1>6. /\ Len(mod.occurrences) \in Nat /\ UnsupportedIn(mod) \in Nat
        /\ PlannedIn(mod, chosen) \in Nat /\ DeferredIn(mod, chosen) \in Nat
        /\ PlannedIn(mod, chosen) + DeferredIn(mod, chosen) = Len(mod.occurrences)
    BY <1>0 DEF Splits
  <1>2. c.occurrences \in Nat /\ c.occurrences # 0
    BY <1>1, <1>5, <1>6
  <1>3. report.status \in {"technical_safe", "technical_safe_partial"}
    BY <1>2 DEF IsPilotReport, Status
  <1>4. c.occurrences = PlannedIn(mod, chosen) + UnsupportedIn(mod) + c.deferred
    BY <1>5, <1>6
  <1>. QED  BY <1>3, <1>4 DEF PilotReviewAccepts, IsPilotReport, PlannedIn, DeferredIn,
                            TranslatedIn, UnchangedIn, FailedIn, EnglishIn, SkippedIn

\* The review knows every count of a pilot.
LEMMA PilotReviewDetermines ==
  ASSUME NEW mod, NEW r, NEW q, PilotReviewAccepts(mod, r), PilotReviewAccepts(mod, q),
         q.limit = r.limit
  PROVE  \A name \in PilotCounted : q.counts[name] = r.counts[name]
  BY DEF PilotReviewAccepts, PilotCounted

LEMMA PilotReportTyped ==
  ASSUME NEW mod, ModOK(mod), NEW limit, NEW report, IsPilotReport(mod, limit, FALSE, report)
  PROVE  \A name \in PilotCounted : report.counts[name] \in Int
  <1>. DEFINE c == report.counts
  <1>0. Splits(mod, Selected(mod, limit))
    BY PilotCounts
  <1>. DEFINE chosen == Selected(mod, limit)
  <1>2. /\ c.discovered = Len(mod.files)
        /\ c.english = EnglishIn(mod)
        /\ c.occurrences = Len(mod.occurrences) + UnsupportedIn(mod)
        /\ c.fallback = UnsupportedIn(mod) + FailedIn(mod, chosen)
        /\ c.skipped = SkippedIn(mod)
        /\ c.planned = PlannedIn(mod, chosen)
        /\ c.translated = TranslatedIn(mod, chosen)
        /\ c.unchanged = UnchangedIn(mod, chosen)
        /\ c.deferred = DeferredIn(mod, chosen)
    BY DEF IsPilotReport
  <1>3. /\ Len(mod.files) \in Nat /\ Len(mod.occurrences) \in Nat
        /\ UnsupportedIn(mod) \in Nat /\ EnglishIn(mod) \in Nat /\ SkippedIn(mod) \in Nat
        /\ PlannedIn(mod, chosen) \in Nat /\ DeferredIn(mod, chosen) \in Nat
        /\ TranslatedIn(mod, chosen) \in Nat /\ UnchangedIn(mod, chosen) \in Nat
        /\ FailedIn(mod, chosen) \in Nat
    BY <1>0 DEF Splits
  <1>1. /\ c.discovered \in Int /\ c.english \in Int /\ c.occurrences \in Int
        /\ c.fallback \in Int /\ c.skipped \in Int /\ c.planned \in Int
        /\ c.translated \in Int /\ c.unchanged \in Int /\ c.deferred \in Int
    BY <1>2, <1>3
  <1>. QED  BY <1>1 DEF PilotCounted

LEMMA PilotReportIsExact ==
  ASSUME NEW mod, ModOK(mod), NEW limit, NEW dryRun \in BOOLEAN,
         NEW report, IsPilotReport(mod, limit, dryRun, report)
  PROVE  PilotAccepted(mod, report)
  <1>1. CountsBalance(report)
    BY PilotReportBalances
  <1>2. ASSUME ~report.dryRun, report.limit # NoLimit, mod.occurrences # <<>>
        PROVE  /\ PilotReviewAccepts(mod, report)
               /\ \A name \in DOMAIN report.counts :
                    ~PilotReviewAccepts(mod, Shifted(report, name))
    <2>1. IsPilotReport(mod, limit, FALSE, report) /\ limit # NoLimit
      BY <1>2 DEF IsPilotReport
    <2>2. PilotReviewAccepts(mod, report)
      BY <1>2, <2>1, PilotReportAccepted
    <2>3. ASSUME NEW name \in DOMAIN report.counts,
                 PilotReviewAccepts(mod, Shifted(report, name))
          PROVE  FALSE
      <3>. DEFINE other == Shifted(report, name)
      <3>1. other.limit = report.limit /\ other.counts[name] = report.counts[name] + 1
        BY DEF Shifted, IsPilotReport
      <3>2. name \in PilotCounted
        BY DEF IsPilotReport
      <3>3. other.counts[name] = report.counts[name]
        BY <2>2, <2>3, <3>1, <3>2, PilotReviewDetermines
      <3>4. report.counts[name] \in Int
        BY <2>1, <3>2, PilotReportTyped
      <3>. QED  BY <3>1, <3>3, <3>4
    <2>. QED  BY <2>2, <2>3
  <1>. QED  BY <1>1, <1>2 DEF PilotAccepted

----------------------------------------------------------------------------
(* The application and the package.                                        *)

\* A decision of each kind for each occurrence.
LEMMA DecisionsAddUp ==
  ASSUME NEW mod, ModOK(mod)
  PROVE  LET accept == Num(Decided(mod, {"accept"}))
             edit == Num(Decided(mod, {"edit"}))
             reject == Num(Decided(mod, {"reject"}))
         IN /\ accept \in Nat /\ edit \in Nat /\ reject \in Nat
            /\ accept + edit + reject = Len(mod.occurrences)
  <1>. DEFINE D == DOMAIN mod.occurrences
              X == Decided(mod, {"accept"})
              Y == Decided(mod, {"edit"})
              Z == Decided(mod, {"reject"})
              XY == X \cup Y
  <1>1. IsFiniteSet(D) /\ Num(D) = Len(mod.occurrences)
        /\ \A i \in D : mod.occurrences[i].decision \in {"accept", "edit", "reject"}
    BY ModCounts
  <1>2. XY \cup Z = D /\ XY \cap Z = {} /\ X \cap Y = {} /\ XY \in SUBSET D
    BY <1>1 DEF Decided
  <1>. HIDE DEF X, Y, Z, D
  <1>3. Num(XY) \in Nat /\ Num(Z) \in Nat /\ Num(D) = Num(XY) + Num(Z)
    <2>. HIDE DEF XY
    <2>. QED  BY <1>1, <1>2, TwoParts, Z3
  <1>4. IsFiniteSet(XY)
    BY <1>1, <1>2, FS_Subset
  <1>5. Num(X) \in Nat /\ Num(Y) \in Nat /\ Num(XY) = Num(X) + Num(Y)
    BY <1>2, <1>4, TwoParts
  <1>6. Num(X) \in Nat /\ Num(Y) \in Nat /\ Num(Z) \in Nat
        /\ Num(X) + Num(Y) + Num(Z) = Len(mod.occurrences)
    BY <1>1, <1>3, <1>5
  <1>. QED  BY <1>6 DEF X, Y, Z

\* What the decisions change, and what of it goes back to English.
LEMMA ChangesAddUp ==
  ASSUME NEW mod, ModOK(mod)
  PROVE  LET changes == Num(ChangedSpans(mod))
             returned == Num(ChangedSpans(mod) \cap Decided(mod, {"reject"}))
         IN /\ changes \in Nat /\ returned \in Nat
            /\ returned <= changes
            /\ changes <= Num(Decided(mod, {"edit"})) + returned
            /\ returned <= Num(Decided(mod, {"reject"}))
  <1>. DEFINE D == DOMAIN mod.occurrences
              C == ChangedSpans(mod)
              X == {i \in Decided(mod, {"edit"}) : mod.occurrences[i].alters}
              Y == Decided(mod, {"reject"}) \cap Occurring(mod, {"changed"})
              E == Decided(mod, {"edit"})
              Z == Decided(mod, {"reject"})
  <1>1. IsFiniteSet(D)
    BY ModCounts
  <1>2. /\ C \in SUBSET D /\ E \in SUBSET D /\ Z \in SUBSET D
        /\ X \cup Y = C /\ X \cap Y = {} /\ X \in SUBSET E /\ Y \in SUBSET Z /\ C \cap Z = Y
    BY DEF ChangedSpans, Decided, Occurring
  <1>. HIDE DEF C, D, X, Y, E, Z
  <1>3. IsFiniteSet(C) /\ IsFiniteSet(E) /\ IsFiniteSet(Z)
    BY <1>1, <1>2, FS_Subset
  <1>4. Num(X) \in Nat /\ Num(Y) \in Nat /\ Num(C) \in Nat /\ Num(C) = Num(X) + Num(Y)
    <2>1. X \cup Y = C /\ X \cap Y = {} /\ IsFiniteSet(C)
      BY <1>2, <1>3
    <2>. QED  BY <2>1, TwoParts, Z3
  <1>5. Num(X) <= Num(E) /\ Num(E) \in Nat
    BY <1>2, <1>3, NumOfSubset
  <1>6. Num(Y) <= Num(Z)
    BY <1>2, <1>3, NumOfSubset
  <1>7. /\ Num(C) \in Nat /\ Num(Y) \in Nat /\ Num(Y) <= Num(C)
        /\ Num(C) <= Num(E) + Num(Y) /\ Num(Y) <= Num(Z)
    BY <1>4, <1>5, <1>6
  <1>8. C \cap Z = Y
    BY <1>2
  <1>. QED  BY <1>7, <1>8, Zenon DEF C, E, Z

LEMMA DecisionsBalance ==
  ASSUME NEW mod, ModOK(mod), mod.occurrences # <<>>, NEW report
  PROVE  DecisionCountsHold(ApplicationReport(mod, report).decisions)
  <1>. DEFINE d == ApplicationReport(mod, report).decisions
  <1>1. /\ d.total = Len(mod.occurrences)
        /\ d.accept = Num(Decided(mod, {"accept"})) /\ d.edit = Num(Decided(mod, {"edit"}))
        /\ d.reject = Num(Decided(mod, {"reject"})) /\ d.changed = Num(ChangedSpans(mod))
        /\ d.restored = Num(ChangedSpans(mod) \cap Decided(mod, {"reject"}))
    BY DEF ApplicationReport
  <1>2. Len(mod.occurrences) > 0
    BY DEF ModOK
  <1>3. /\ Num(Decided(mod, {"accept"})) + Num(Decided(mod, {"edit"}))
             + Num(Decided(mod, {"reject"})) = Len(mod.occurrences)
    BY DecisionsAddUp
  <1>4. /\ Num(ChangedSpans(mod) \cap Decided(mod, {"reject"})) <= Num(ChangedSpans(mod))
        /\ Num(ChangedSpans(mod)) <= Num(Decided(mod, {"edit"}))
                                       + Num(ChangedSpans(mod) \cap Decided(mod, {"reject"}))
        /\ Num(ChangedSpans(mod) \cap Decided(mod, {"reject"}))
             <= Num(Decided(mod, {"reject"}))
    BY ChangesAddUp
  <1>. HIDE DEF d
  <1>5. DecisionCountsHold(d)
    BY <1>1, <1>2, <1>3, <1>4 DEF DecisionCountsHold
  <1>. QED  BY <1>5 DEF d

LEMMA JobIsPackageable ==
  ASSUME NEW mod, ModOK(mod), NEW reused \in Nat, reused <= Len(mod.occurrences),
         NEW report, IsJobReport(mod, reused, report), NEW allow \in BOOLEAN,
         \A i \in DOMAIN mod.occurrences : mod.occurrences[i].state # "fallback"
  PROVE  Packageable(mod, report, allow)
  <1>. SUFFICES ASSUME mod.occurrences # <<>>
                PROVE  PackageAccepts(ApplicationReport(mod, report), allow)
                         <=> (ApplicationReport(mod, report).approved \/ allow)
    BY DEF Packageable
  <1>. DEFINE app == ApplicationReport(mod, report)
              s == app.summary
              b == app.base
              U == UnsupportedIn(mod)
              residue == s.unsupported > 0 \/ s.skipped > 0
  \* The numbers of the mod.
  <1>1. /\ Len(mod.files) \in Nat /\ Len(mod.occurrences) \in Nat /\ U \in Nat
        /\ Num(FilesOf(mod, {"english"})) \in Nat /\ Num(FilesOf(mod, Skips)) \in Nat
        /\ Num(FilesOf(mod, {"english"})) <= Len(mod.files)
        /\ Num(FilesOf(mod, Skips)) <= Len(mod.files)
    BY ModCounts
  <1>2. Len(mod.occurrences) > 0
    BY DEF ModOK
  <1>3. Num(Occurring(mod, {"fallback"})) = 0
    <2>1. Occurring(mod, {"fallback"}) = {}
      BY DEF Occurring
    <2>. QED  BY <2>1, FS_EmptySet, CountIsCardinality
  <1>4. /\ Num(Occurring(mod, {"changed"})) \in Nat
        /\ Num(Occurring(mod, {"unchanged"})) \in Nat
        /\ Num(Occurring(mod, {"changed", "unchanged"}))
             = Num(Occurring(mod, {"changed"})) + Num(Occurring(mod, {"unchanged"}))
        /\ Num(Occurring(mod, {"changed", "unchanged"})) = Len(mod.occurrences)
    BY <1>1, <1>3, JobCounts
  <1>5. Num({i \in DOMAIN mod.occurrences : mod.occurrences[i].whitespace})
          <= Len(mod.occurrences)
    <2>1. /\ IsFiniteSet(DOMAIN mod.occurrences)
          /\ Num(DOMAIN mod.occurrences) = Len(mod.occurrences)
      BY ModCounts
    <2>2. {i \in DOMAIN mod.occurrences : mod.occurrences[i].whitespace}
            \in SUBSET DOMAIN mod.occurrences
      BY SMTT(60)
    <2>. QED  BY <2>1, <2>2, NumOfSubset
  \* What the application report says.
  <1>6. /\ s.total = Len(mod.occurrences) + U /\ s.entries = Len(mod.occurrences)
        /\ s.changed = Num(Occurring(mod, {"changed"}))
        /\ s.unchanged = Num(Occurring(mod, {"unchanged"}))
        /\ s.fallback = Num(Occurring(mod, {"fallback"}))
        /\ s.unsupported = U /\ s.skipped = Num(FilesOf(mod, Skips))
        /\ s.deferred = report.counts.deferred /\ s.pending = report.counts.pending[2]
        /\ s.whitespace = Num({i \in DOMAIN mod.occurrences : mod.occurrences[i].whitespace})
    BY DEF ApplicationReport, Summary
  <1>7. /\ app.decisions.total = Len(mod.occurrences)
        /\ app.residue = [unsupported |-> s.unsupported, skipped |-> s.skipped]
        /\ b = report.counts /\ app.baseStatus = report.status
    BY DEF ApplicationReport
  <1>0. app.approved <=> (s.unsupported = 0 /\ s.skipped = 0)
    BY DEF ApplicationReport
  <1>8. DecisionCountsHold(app.decisions)
    BY DecisionsBalance
  <1>. HIDE DEF app
  \* What the report of the job says.
  <1>9. \A p \in Paired : b[p][1] = b[p][2]
    BY <1>7 DEF IsJobReport, Paired
  <1>10. /\ b.total[1] = s.total /\ b.occurrences = s.total /\ b.completed[1] = s.total
         /\ b.planned = s.entries /\ b.unsupported[1] = s.unsupported
         /\ b.skipped = s.skipped /\ b.pending[1] = 0 /\ b.deferred = 0
         /\ b.unchanged[1] = s.unchanged
         /\ b.translated[1] = Num(Occurring(mod, {"changed", "unchanged"}))
         /\ b.fallback[1] = U + s.fallback
         /\ b.reused[1] = reused /\ b.calls = s.entries - reused
         /\ b.english = Num(FilesOf(mod, {"english"})) /\ b.discovered = Len(mod.files)
    BY <1>6, <1>7 DEF IsJobReport
  <1>11. s.pending = 0 /\ s.deferred = 0
    BY <1>6 DEF IsJobReport
  \* The sums.
  <1>12. /\ s.entries \in Nat /\ s.changed \in Nat /\ s.unchanged \in Nat /\ s.fallback = 0
         /\ s.unsupported \in Nat /\ s.skipped \in Nat /\ s.entries > 0
         /\ s.entries = s.changed + s.unchanged /\ s.total = s.entries + s.unsupported
         /\ s.whitespace <= s.entries
         /\ b.translated[1] = s.changed + s.unchanged
         /\ b.english <= b.discovered /\ b.skipped <= b.discovered
    BY <1>1, <1>2, <1>3, <1>4, <1>5, <1>6, <1>10
  <1>13. /\ s.changed + s.unchanged + s.fallback = s.entries
         /\ s.entries + s.unsupported = s.total
         /\ b.fallback[1] = s.fallback + s.unsupported
         /\ b.translated[1] + b.fallback[1] = s.total
         /\ b.reused[1] + b.calls = s.entries
    BY <1>1, <1>6, <1>10, <1>12
  <1>14. app.baseStatus = (IF residue THEN "technical_safe_partial" ELSE "technical_safe")
    <2>1. app.baseStatus = Status([fallback |-> U + s.fallback, deferred |-> 0,
                                   skipped |-> s.skipped, occurrences |-> s.total], FALSE)
      BY <1>6, <1>7 DEF IsJobReport
    <2>2. U + s.fallback = s.unsupported /\ s.total > 0
      BY <1>6, <1>12
    <2>. QED  BY <1>12, <2>1, <2>2 DEF Status
  <1>15. app.approved <=> ~residue
    <2>1. residue <=> ~(s.unsupported = 0 /\ s.skipped = 0)
      BY <1>12
    <2>. QED  BY <1>0, <2>1, Zenon
  <1>16. PackageAccepts(app, allow) <=> (residue => allow)
    <2>1. /\ s.entries = app.decisions.total
          /\ b.translated[1] = s.changed + s.unchanged
          /\ s.whitespace <= s.entries /\ b.english <= b.discovered
          /\ b.skipped <= b.discovered
      BY <1>6, <1>7, <1>12
    <2>2. app.residue = [unsupported |-> s.unsupported, skipped |-> s.skipped]
      BY <1>7
    <2>. QED  BY <1>8, <1>9, <1>10, <1>11, <1>13, <1>14, <1>15, <2>1, <2>2, Zenon
              DEF PackageAccepts
  <1>17. PackageAccepts(app, allow) <=> (app.approved \/ allow)
    BY <1>15, <1>16
  <1>. QED  BY <1>17 DEF app

\* The reports of every mod, whatever its files and its occurrences, whatever a
\* resumed job reused and whatever a pilot was limited to.
THEOREM EveryReportHolds ==
  ASSUME NEW mod, ModOK(mod), NEW reused \in Nat, NEW limit
  PROVE  ReportsHold(mod, reused, limit)
  <1>. SUFFICES ASSUME reused <= Len(mod.occurrences)
                PROVE  LET report == WorkspaceReport(mod, reused)
                       IN /\ ReportAccepted(mod, report)
                          /\ \A dry \in BOOLEAN :
                               PilotAccepted(mod, SinglePassReport(mod, limit, dry))
                          /\ \A allow \in BOOLEAN :
                               (\A i \in DOMAIN mod.occurrences :
                                  mod.occurrences[i].state # "fallback")
                                 => Packageable(mod, report, allow)
    BY DEF ReportsHold
  <1>1. IsJobReport(mod, reused, WorkspaceReport(mod, reused))
    BY JobReport
  <1>2. ReportAccepted(mod, WorkspaceReport(mod, reused))
    BY <1>1, JobReportIsExact
  <1>3. ASSUME NEW dry \in BOOLEAN
        PROVE  PilotAccepted(mod, SinglePassReport(mod, limit, dry))
    <2>1. IsPilotReport(mod, limit, dry, SinglePassReport(mod, limit, dry))
      BY PilotReport
    <2>. QED  BY <2>1, PilotReportIsExact
  <1>4. ASSUME NEW allow \in BOOLEAN,
               \A i \in DOMAIN mod.occurrences : mod.occurrences[i].state # "fallback"
        PROVE  Packageable(mod, WorkspaceReport(mod, reused), allow)
    BY <1>1, <1>4, JobIsPackageable
  <1>. QED  BY <1>2, <1>3, <1>4
================================================================================
