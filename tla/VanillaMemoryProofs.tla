-------------------------- MODULE VanillaMemoryProofs --------------------------
(***************************************************************************)
(* Why build-vanilla-memory reports one generation of its sources, leaves  *)
(* nothing behind a failure and never loses a tree of somebody else: for   *)
(* any number of builders, source parts, edits, foreign changes and stops. *)
(*   - Generations only grow, so a part that differs at the rename differs *)
(*     for good, and the last look at every part would notice (Reads).     *)
(*   - A builder's tree is at one place at most, and what each step knows  *)
(*     of that place follows from its position (Places, Alone).            *)
(*   - As long as nobody else touched the output path, a builder past its  *)
(*     rename still owns what is there (Claims).                           *)
(* And why what is retrieved from the memory is exact (RetrievalIsExact):  *)
(*   - The index of a batch is one scan; for each query what the scan has  *)
(*     found so far has a closed form, unless the budget ran out on it.    *)
(*   - The closed form is that of the query alone, so an answer is the one *)
(*     the query gets alone or no answer.                                  *)
(***************************************************************************)
EXTENDS MemoryPublication, TLAPS, Sequences, WellFoundedInduction, NaturalsInduction

CONSTANT NoLimit     \* a budget without a bound
Q == INSTANCE VanillaRetrieval

Owned(d, o) == d # None /\ d.owner = o
Aside(o) == \E q \in Proc : Owned(isolated[q], o)
Exists(o) == Owned(output, o) \/ Aside(o) \/ \E q \in Proc : Owned(temp[q], o)

\* What a builder knows of its sources.
Reads(p) ==
  /\ \A k \in Part : seen[p][k] <= source[k]
  /\ pc[p] \in {"build", "publish", "validate"} => at[p] = 1
  /\ pc[p] = "after" => fresh[p] \/ \E k \in Part : k >= at[p] /\ seen[p][k] < source[k]
  /\ pc[p] \in {"validate", "terminal"} => fresh[p]
  /\ outcome[p] = "success" => fresh[p]
  /\ outcome[p] # "none" => pc[p] = "end"
  /\ cause[p] # "success"

\* What the position of a builder says of its two private places.
Places(p) ==
  /\ temp[p] # None => temp[p].owner = p /\ pc[p] \in {"before", "publish", "end"}
  /\ pc[p] \in {"before", "publish"} => temp[p] # None
  /\ isolated[p] # None => pc[p] \in {"compare", "giveback", "remove", "end"}
  /\ pc[p] \in {"compare", "giveback", "remove"} => isolated[p] # None
  /\ pc[p] = "remove" => isolated[p].owner = p

\* The tree of a builder is at one place at most, and nowhere when it has
\* none yet, has taken it back or has failed.
Alone(p) ==
  /\ pc[p] \in {"idle", "again", "snapshot", "build", "prove"} => ~Exists(p)
  /\ outcome[p] \in {"drift", "mismatch", "refused"} => ~Exists(p)
  /\ temp[p] # None => ~Owned(output, p) /\ ~Aside(p)
  /\ Owned(output, p) => ~Aside(p)
  /\ \A q, r \in Proc : Owned(isolated[q], p) /\ Owned(isolated[r], p) => q = r

\* Nobody else touched the output path: a builder past its rename owns it.
Claims(p) ==
  spent["touch"] = 0 /\ (pc[p] \in {"after", "validate", "terminal", "isolate"}
                           \/ outcome[p] = "success") => Owned(output, p)

IInv ==
  /\ TypeOK
  /\ \A p \in Proc : Reads(p) /\ Places(p) /\ Alone(p) /\ Claims(p)

Position == {"idle", "again", "snapshot", "build", "before", "publish",
             "after", "validate", "terminal", "isolate", "compare",
             "giveback", "remove", "prove", "end"}

LocalsTyped ==
  /\ pc \in [Proc -> Position]
  /\ at \in [Proc -> Part] /\ attempt \in [Proc -> 1..2]
  /\ seen \in [Proc -> Generation]
  /\ cause \in [Proc -> Outcome] /\ outcome \in [Proc -> Outcome]
  /\ fresh \in [Proc -> BOOLEAN]

\* The moves between steps keep the types.
LEMMA MovesTyped ==
  ASSUME LocalsTyped, NEW p \in Proc
  PROVE  /\ \A l \in Position : Goto(p, l) => pc' \in [Proc -> Position]
         /\ \A o \in Outcome : End(p, o) => LocalsTyped'
         /\ Retry(p) => LocalsTyped'
         /\ \A why \in Outcome : TakeBack(p, why) => LocalsTyped'
<1>1. \A l \in Position : Goto(p, l) => pc' \in [Proc -> Position]
  BY DEF Goto, LocalsTyped
<1>2. \A o \in Outcome : End(p, o) => LocalsTyped'
  BY <1>1 DEF End, LocalsTyped, Position
<1>3. Retry(p) => LocalsTyped'
  <2>1. CASE attempt[p] = 1
    BY <1>1, <2>1 DEF Retry, LocalsTyped, Position
  <2>2. CASE attempt[p] # 1
    BY <1>2, <2>2 DEF Retry, Outcome
  <2> QED BY <2>1, <2>2
<1>4. \A why \in Outcome : TakeBack(p, why) => LocalsTyped'
  BY <1>1 DEF TakeBack, LocalsTyped, Position
<1> QED BY <1>1, <1>2, <1>3, <1>4

LEMMA OwnIsDirectory ==
  ASSUME LocalsTyped, NEW p \in Proc
  PROVE  Own(p) \in Directory /\ Own(p) # None /\ Own(p).owner = p
<1>1. attempt[p] \in 0..2 /\ seen[p] \in Generation
  BY DEF LocalsTyped
<1>2. Own(p) \in Directory
  BY <1>1 DEF Own, Directory
<1>3. Own(p).owner = p
  BY DEF Own
<1> QED BY <1>2, <1>3, SentinelAssumption

LEMMA AlienIsDirectory ==
  ASSUME NEW f \in Others PROVE Alien(f) \in Directory /\ Alien(f).owner = f
  BY DEF Alien, Directory, Generation

LEMMA PartsOrdered ==
  /\ 1 \in Part /\ K \in Part
  /\ \A k \in Part : k # K => k + 1 \in Part
  BY PublicationAssumption DEF Part

LEMMA Split == TypeOK <=>
  /\ source \in Generation
  /\ output \in Directory \cup {None}
  /\ temp \in [Proc -> Directory \cup {None}]
  /\ isolated \in [Proc -> Directory \cup {None}]
  /\ LocalsTyped
  /\ spent \in [{"edit", "touch", "stop"} -> Nat]
  BY DEF TypeOK, LocalsTyped, Position

LEMMA SplitNext == TypeOK' <=>
  /\ source' \in Generation
  /\ output' \in Directory \cup {None}
  /\ temp' \in [Proc -> Directory \cup {None}]
  /\ isolated' \in [Proc -> Directory \cup {None}]
  /\ LocalsTyped'
  /\ spent' \in [{"edit", "touch", "stop"} -> Nat]
  BY DEF TypeOK, LocalsTyped, Position

\* A step of a builder keeps the types.
LEMMA StepTyped ==
  ASSUME IInv, NEW p \in Proc, Step(p)
  PROVE  TypeOK'
<1>. USE Split, SplitNext DEF IInv
<1>1. CASE Begin(p)
  BY <1>1, MovesTyped, PartsOrdered DEF Begin, LocalsTyped, Position, Outcome, Goto
<1>2. CASE Snapshot(p)
  <2>1. seen' \in [Proc -> Generation]
    BY <1>2 DEF Snapshot, LocalsTyped, Generation
  <2>2. at' \in [Proc -> Part]
    BY <1>2, PartsOrdered DEF Snapshot, NextPart, LocalsTyped
  <2>3. pc' \in [Proc -> Position] /\ outcome' = outcome
    BY <1>2, MovesTyped DEF Snapshot, NextPart, LocalsTyped, Position
  <2> QED BY <1>2, <2>1, <2>2, <2>3 DEF Snapshot, LocalsTyped
<1>3. CASE SnapshotDrift(p)
  BY <1>3, MovesTyped DEF SnapshotDrift
<1>4. CASE Build(p)
  BY <1>4, MovesTyped, OwnIsDirectory DEF Build, LocalsTyped, Position
<1>5. CASE Verify(p)
  <2>1. at' \in [Proc -> Part]
    BY <1>5, PartsOrdered DEF Verify, NextPart, LocalsTyped
  <2>2. pc' \in [Proc -> Position] /\ outcome' \in [Proc -> Outcome]
    BY <1>5, MovesTyped DEF Verify, NextPart, LocalsTyped, Position, Outcome
  <2> QED BY <1>5, <2>1, <2>2 DEF Verify, LocalsTyped
<1>6. CASE Drift(p)
  BY <1>6, MovesTyped DEF Drift, Outcome
<1>7. CASE Publish(p)
  <2>1. LocalsTyped'
    BY ZenonT(90), <1>7, MovesTyped DEF Publish, LocalsTyped, Position, Outcome
  <2> QED BY <1>7, <2>1 DEF Publish
<1>8. CASE Validate(p)
  BY <1>8, MovesTyped DEF Validate, LocalsTyped, Position, Outcome
<1>9. CASE Isolate(p)
  <2>1. LocalsTyped'
    BY <1>9, MovesTyped DEF Isolate, LocalsTyped, Position, Outcome
  <2> QED BY <1>9, <2>1 DEF Isolate
<1>10. CASE Compare(p)
  BY <1>10, MovesTyped DEF Compare, Continue, LocalsTyped, Position
<1>11. CASE GiveBack(p)
  BY <1>11, MovesTyped DEF GiveBack, Outcome
<1>12. CASE Remove(p)
  <2>1. LocalsTyped'
    BY <1>12, MovesTyped DEF Remove, LocalsTyped, Position
  <2>2. isolated' \in [Proc -> Directory \cup {None}]
    <3>1. isolated[p] \in Directory
      BY <1>12 DEF Remove, Places
    <3>2. CASE isolated[p].files = {}
      BY <1>12, <3>2 DEF Remove
    <3>3. CASE isolated[p].files # {}
      <4>1. PICK left \in SUBSET File : isolated' = [isolated EXCEPT ![p].files = left]
        BY <1>12, <3>1, <3>3 DEF Remove, Directory
      <4>2. [isolated[p] EXCEPT !.files = left] \in Directory
        BY <3>1 DEF Directory
      <4> QED BY <4>1, <4>2
    <3> QED BY <3>2, <3>3
  <2> QED BY <1>12, <2>1, <2>2 DEF Remove
<1>13. CASE Prove(p)
  <2>1. cause[p] \in Outcome
    BY DEF LocalsTyped
  <2> QED BY <1>13, <2>1, MovesTyped DEF Prove, Outcome
<1> QED
  BY <1>1, <1>2, <1>3, <1>4, <1>5, <1>6, <1>7, <1>8, <1>9, <1>10, <1>11, <1>12, <1>13
  DEF Step

\* The step of a builder leaves the positions of all others alone, and Reads
\* and Places speak of nothing else that it changes.
LocalOthers(p) ==
  \A q \in Proc \ {p} :
    /\ pc'[q] = pc[q] /\ at'[q] = at[q] /\ seen'[q] = seen[q] /\ fresh'[q] = fresh[q]
    /\ cause'[q] = cause[q] /\ outcome'[q] = outcome[q] /\ temp'[q] = temp[q] /\ isolated'[q] = isolated[q]

LEMMA OthersStay ==
  ASSUME IInv, NEW p \in Proc, Step(p)
  PROVE  LocalOthers(p) /\ UNCHANGED <<source, spent>>
<1>. USE Split DEF IInv, LocalsTyped
<1>1. CASE Begin(p)
  BY <1>1 DEF LocalOthers, Begin, Goto, End
<1>2. CASE Snapshot(p)
  BY <1>2 DEF LocalOthers, Snapshot, NextPart, Goto
<1>3. CASE SnapshotDrift(p)
  BY <1>3 DEF LocalOthers, SnapshotDrift, Retry, Goto, End
<1>4. CASE Build(p)
  BY <1>4 DEF LocalOthers, Build, Goto
<1>5. CASE Verify(p)
  BY ZenonT(90), <1>5 DEF LocalOthers, Verify, NextPart, Goto
<1>6. CASE Drift(p)
  BY <1>6 DEF LocalOthers, Drift, TakeBack, Retry, Goto, End
<1>7. CASE Publish(p)
  BY <1>7 DEF LocalOthers, Publish, Goto, End
<1>8. CASE Validate(p)
  BY <1>8 DEF LocalOthers, Validate, TakeBack, Goto
<1>9. CASE Isolate(p)
  BY <1>9 DEF LocalOthers, Isolate, Goto, End
<1>10. CASE Compare(p)
  BY <1>10 DEF LocalOthers, Compare, Continue, Goto
<1>11. CASE GiveBack(p)
  BY <1>11 DEF LocalOthers, GiveBack, End, Goto
<1>12. CASE Remove(p)
  BY <1>12 DEF LocalOthers, Remove, Goto
<1>13. CASE Prove(p)
  BY <1>13 DEF LocalOthers, Prove, Retry, End, Goto
<1> QED
  BY <1>1, <1>2, <1>3, <1>4, <1>5, <1>6, <1>7, <1>8, <1>9, <1>10, <1>11, <1>12, <1>13
  DEF Step

\* How a round of verifications ends.
LEMMA RoundEnds ==
  ASSUME IInv, NEW p \in Proc, Verify(p), at[p] = K
  PROVE  /\ at'[p] = 1
         /\ \/ pc[p] = "before" /\ pc'[p] = "publish" /\ outcome' = outcome
            \/ pc[p] = "after" /\ pc'[p] = "validate" /\ outcome' = outcome
            \/ pc[p] = "terminal" /\ pc'[p] = "end" /\ outcome'[p] = "success"
         /\ UNCHANGED <<output, temp, isolated>>
<1>1. /\ at \in [Proc -> Part] /\ pc \in [Proc -> Position]
      /\ outcome \in [Proc -> Outcome]
  BY Split DEF IInv, LocalsTyped
<1>2. /\ at'[p] = 1 /\ UNCHANGED <<output, temp, isolated>>
  BY <1>1 DEF Verify, NextPart
<1>3. pc[p] = "before" => pc'[p] = "publish" /\ outcome' = outcome
  BY <1>1 DEF Verify, NextPart, Goto
<1>4. pc[p] = "after" => pc'[p] = "validate" /\ outcome' = outcome
  BY <1>1 DEF Verify, NextPart, Goto
<1>5. pc[p] = "terminal" => pc'[p] = "end" /\ outcome'[p] = "success"
  BY <1>1 DEF Verify, NextPart, Goto
<1> QED BY <1>2, <1>3, <1>4, <1>5 DEF Verify

\* What a builder knows of the sources and of its places after its own step.
LEMMA StepReads ==
  ASSUME IInv, NEW p \in Proc, Step(p)
  PROVE  Reads(p)'
<1>. USE Split, PartsOrdered DEF IInv, LocalsTyped, Reads, Generation
<1>0. source' = source
  BY OthersStay
<1>1. CASE Begin(p)
  BY <1>1 DEF Begin, Goto, End
<1>2. CASE Snapshot(p)
  BY <1>2 DEF Snapshot, NextPart, Goto
<1>3. CASE SnapshotDrift(p)
  BY <1>3 DEF SnapshotDrift, Retry, Goto, End
<1>4. CASE Build(p)
  BY <1>4 DEF Build, Goto
<1>5. CASE Verify(p)
  <2>1. /\ seen' = seen /\ fresh' = fresh /\ source[at[p]] = seen[p][at[p]]
        /\ pc[p] \in {"before", "after", "terminal"} /\ outcome[p] = "none"
        /\ cause'[p] = cause[p] /\ cause[p] # "success"
    BY <1>5 DEF Verify, Current, Outcome
  <2>2. CASE at[p] # K
    <3>1. pc' = pc /\ outcome' = outcome /\ at'[p] = at[p] + 1
      BY <1>5, <2>2 DEF Verify, NextPart
    <3>2. \A k \in Part : k >= at[p] /\ seen[p][k] < source[k] => k >= at[p] + 1
      BY <2>1 DEF Part
    <3> QED BY <1>0, <2>1, <3>1, <3>2
  <2>3. CASE at[p] = K
    <3>1. pc[p] = "after" => fresh[p]
      BY <2>1, <2>3 DEF Part
    <3> QED BY <1>0, <1>5, <2>1, <2>3, <3>1, RoundEnds
  <2> QED BY <2>2, <2>3
<1>6. CASE Drift(p)
  BY <1>6 DEF Drift, TakeBack, Retry, Goto, End
<1>7. CASE Publish(p)
  <2>1. CASE output = None
    <3>1. fresh'[p] = (source = seen[p]) /\ pc'[p] = "after" /\ seen' = seen /\ at'[p] = 1
      BY <1>7, <2>1 DEF Publish, Goto
    <3>2. source # seen[p] => \E k \in Part : seen[p][k] < source[k]
      <4>1. source \in [Part -> Nat] /\ seen[p] \in [Part -> Nat]
        OBVIOUS
      <4>2. (\A k \in Part : seen[p][k] = source[k]) => source = seen[p]
        BY ONLY <4>1, SMT
      <4>3. \A k \in Part : seen[p][k] <= source[k]
        OBVIOUS
      <4> QED BY ONLY <4>1, <4>2, <4>3, SMT
    <3>3. \A k \in Part : k >= 1
      BY DEF Part
    <3>4. outcome'[p] = outcome[p]
      BY <1>7, <2>1 DEF Publish
    <3>5. outcome[p] # "success" /\ outcome[p] = "none" /\ cause'[p] = cause[p]
      BY <1>7, <2>1 DEF Publish
    <3> QED BY <1>0, <3>1, <3>2, <3>3, <3>4, <3>5
  <2>2. CASE output # None
    BY <1>7, <2>2 DEF Publish, End, Goto
  <2> QED BY <2>1, <2>2
<1>8. CASE Validate(p)
  BY <1>8 DEF Validate, TakeBack, Goto
<1>9. CASE Isolate(p)
  BY <1>9 DEF Isolate, Goto, End
<1>10. CASE Compare(p)
  BY <1>10 DEF Compare, Continue, Goto
<1>11. CASE GiveBack(p)
  BY <1>11 DEF GiveBack, End, Goto
<1>12. CASE Remove(p)
  BY <1>12 DEF Remove, Goto
<1>13. CASE Prove(p)
  BY <1>13 DEF Prove, Retry, End, Goto
<1> QED
  BY <1>1, <1>2, <1>3, <1>4, <1>5, <1>6, <1>7, <1>8, <1>9, <1>10, <1>11, <1>12, <1>13
  DEF Step

LEMMA StepPlaces ==
  ASSUME IInv, NEW p \in Proc, Step(p)
  PROVE  Places(p)'
<1>. USE Split DEF IInv, LocalsTyped, Places
<1>1. CASE Begin(p)
  BY <1>1 DEF Begin, Goto, End
<1>2. CASE Snapshot(p)
  BY <1>2 DEF Snapshot, NextPart, Goto
<1>3. CASE SnapshotDrift(p)
  BY <1>3 DEF SnapshotDrift, Retry, Goto, End
<1>4. CASE Build(p)
  BY <1>4, OwnIsDirectory DEF Build, Goto
<1>5. CASE Verify(p)
  <2>1. CASE at[p] # K
    BY <1>5, <2>1 DEF Verify, NextPart
  <2>2. CASE at[p] = K
    BY <1>5, <2>2, RoundEnds
  <2> QED BY <2>1, <2>2
<1>6. CASE Drift(p)
  BY <1>6 DEF Drift, TakeBack, Retry, Goto, End
<1>7. CASE Publish(p)
  BY <1>7 DEF Publish, Goto, End
<1>8. CASE Validate(p)
  BY <1>8 DEF Validate, TakeBack, Goto
<1>9. CASE Isolate(p)
  BY <1>9 DEF Isolate, Goto, End
<1>10. CASE Compare(p)
  <2>1. isolated[p] = Own(p) => isolated[p].owner = p
    BY OwnIsDirectory
  <2> QED BY <1>10, <2>1 DEF Compare, Continue, Goto
<1>11. CASE GiveBack(p)
  BY <1>11 DEF GiveBack, End, Goto
<1>12. CASE Remove(p)
  BY <1>12, SentinelAssumption DEF Remove, Goto, Directory
<1>13. CASE Prove(p)
  BY <1>13 DEF Prove, Retry, End, Goto
<1> QED
  BY <1>1, <1>2, <1>3, <1>4, <1>5, <1>6, <1>7, <1>8, <1>9, <1>10, <1>11, <1>12, <1>13
  DEF Step

\* Nothing moves: only the builder that takes the step has something to show.
Still == UNCHANGED <<output, temp, isolated>>

LEMMA StillAlone ==
  ASSUME IInv, NEW p \in Proc, LocalOthers(p), Still, NEW q \in Proc,
         q = p => /\ pc'[p] \in {"idle", "again", "snapshot", "build", "prove"} => ~Exists(p)
                  /\ outcome'[p] \in {"drift", "mismatch", "refused"} => ~Exists(p)
  PROVE  Alone(q)'
<1>1. Exists(q)' <=> Exists(q)
  BY DEF Still, Exists, Aside, Owned
<1>2. Aside(q)' <=> Aside(q)
  BY DEF Still, Aside, Owned
<1>3. Alone(q)
  BY DEF IInv
<1>4. CASE q = p
  BY <1>1, <1>2, <1>3, <1>4 DEF Still, Alone, Owned
<1>5. CASE q # p
  BY <1>1, <1>2, <1>3, <1>5 DEF Still, Alone, Owned, LocalOthers
<1> QED BY <1>4, <1>5

\* A builder gives up its temporary directory.
LEMMA DropAlone ==
  ASSUME IInv, NEW p \in Proc, LocalOthers(p), NEW q \in Proc,
         temp' = [temp EXCEPT ![p] = None], UNCHANGED <<output, isolated>>,
         q = p => /\ pc'[p] \in {"idle", "again", "snapshot", "build", "prove"} => ~Exists(p)'
                  /\ outcome'[p] \in {"drift", "mismatch", "refused"} => ~Exists(p)'
  PROVE  Alone(q)'
<1>1. Exists(q)' => Exists(q)
  BY DEF Exists, Aside, Owned, IInv, TypeOK
<1>2. Aside(q)' <=> Aside(q)
  BY DEF Aside, Owned
<1>3. Alone(q)
  BY DEF IInv
<1>4. CASE q = p
  BY <1>1, <1>2, <1>3, <1>4 DEF Alone, Owned, IInv, TypeOK
<1>5. CASE q # p
  BY <1>1, <1>2, <1>3, <1>5 DEF Alone, Owned, LocalOthers
<1> QED BY <1>4, <1>5

LEMMA StepAlone ==
  ASSUME IInv, NEW p \in Proc, Step(p), NEW q \in Proc
  PROVE  Alone(q)'
<1>. USE Split, OthersStay DEF IInv, LocalsTyped
<1>0. Reads(p) /\ Places(p) /\ Alone(p)
  OBVIOUS
<1>1. CASE Begin(p)
  BY <1>0, <1>1, StillAlone DEF Begin, Goto, End, Still, Alone
<1>2. CASE Snapshot(p)
  BY <1>0, <1>2, StillAlone DEF Snapshot, NextPart, Goto, Still, Alone
<1>3. CASE SnapshotDrift(p)
  BY <1>0, <1>3, StillAlone DEF SnapshotDrift, Retry, Goto, End, Still, Alone
<1>4. CASE Build(p)
  <2>1. /\ temp' = [temp EXCEPT ![p] = Own(p)] /\ UNCHANGED <<output, isolated>>
        /\ pc'[p] = "before" /\ outcome'[p] = outcome[p] /\ ~Exists(p)
    BY <1>4 DEF Build, Goto, Alone
  <2>2. Own(p).owner = p /\ Own(p) # None
    BY OwnIsDirectory
  <2>3. Aside(q)' <=> Aside(q)
    BY <2>1 DEF Aside, Owned
  <2>4. CASE q = p
    <3>1. outcome[p] = "none"
      BY <1>0, <1>4 DEF Reads, Build
    <3> QED BY <2>1, <2>2, <2>3, <2>4, <3>1 DEF Alone, Exists, Owned
  <2>5. CASE q # p
    <3>1. Exists(q)' => Exists(q)
      BY <2>1, <2>2, <2>3, <2>5 DEF Exists, Owned
    <3>2. Alone(q) /\ temp'[q] = temp[q] /\ pc'[q] = pc[q] /\ outcome'[q] = outcome[q]
      BY <2>5 DEF LocalOthers
    <3> QED BY <2>1, <2>3, <3>1, <3>2 DEF Alone, Owned
  <2> QED BY <2>4, <2>5
<1>5. CASE Verify(p)
  <2>1. CASE at[p] # K
    BY <1>0, <1>5, <2>1, StillAlone DEF Verify, NextPart, Still, Alone
  <2>2. CASE at[p] = K
    BY <1>0, <1>5, <2>2, StillAlone, RoundEnds DEF Still, Alone
  <2> QED BY <2>1, <2>2
<1>6. CASE Drift(p)
  <2>1. CASE pc[p] = "before"
    <3>1. temp' = [temp EXCEPT ![p] = None] /\ UNCHANGED <<output, isolated>>
      BY <1>6, <2>1 DEF Drift
    <3>2. ~Exists(p)'
      BY <1>0, <2>1, <3>1 DEF Exists, Aside, Owned, Places, Alone
    <3> QED BY <3>1, <3>2, DropAlone
  <2>2. CASE pc[p] # "before"
    <3>1. Still /\ pc'[p] = "isolate" /\ outcome'[p] = outcome[p]
      BY <1>6, <2>2 DEF Drift, TakeBack, Goto, Still
    <3> QED BY <1>0, <3>1, StillAlone DEF Alone
  <2> QED BY <2>1, <2>2
<1>7. CASE Publish(p)
  <2>1. CASE output # None
    <3>1. temp' = [temp EXCEPT ![p] = None] /\ UNCHANGED <<output, isolated>>
      BY <1>7, <2>1 DEF Publish
    <3>2. ~Exists(p)'
      BY <1>0, <1>7, <3>1 DEF Exists, Aside, Owned, Places, Alone, Publish
    <3> QED BY <3>1, <3>2, DropAlone
  <2>2. CASE output = None
    <3>1. /\ temp' = [temp EXCEPT ![p] = None] /\ output' = temp[p] /\ isolated' = isolated
          /\ pc'[p] = "after" /\ outcome'[p] = outcome[p] /\ outcome[p] = "none"
      BY <1>0, <1>7, <2>2 DEF Publish, Goto, Reads
    <3>2. temp[p] # None /\ temp[p].owner = p
      BY <1>0, <1>7 DEF Publish, Places
    <3>3. Aside(q)' <=> Aside(q)
      BY <3>1 DEF Aside, Owned
    <3>4. CASE q = p
      BY <1>0, <3>1, <3>2, <3>3, <3>4 DEF Alone, Owned
    <3>5. CASE q # p
      <4>1. Exists(q)' => Exists(q)
        BY <3>1, <3>2, <3>3, <3>5 DEF Exists, Owned
      <4>2. Alone(q) /\ temp'[q] = temp[q] /\ pc'[q] = pc[q] /\ outcome'[q] = outcome[q]
        BY <3>5 DEF LocalOthers
      <4>3. ~Owned(output, q)'
        BY <3>1, <3>2, <3>5 DEF Owned
      <4> QED BY <3>1, <3>3, <4>1, <4>2, <4>3 DEF Alone, Owned
    <3> QED BY <3>4, <3>5
  <2> QED BY <2>1, <2>2
<1>8. CASE Validate(p)
  BY <1>0, <1>8, StillAlone DEF Validate, TakeBack, Goto, Still, Alone
<1>9. CASE Isolate(p)
  <2>1. CASE output = None
    BY <1>0, <1>9, <2>1, StillAlone DEF Isolate, End, Goto, Still, Alone
  <2>2. CASE output # None
    <3>1. /\ isolated' = [isolated EXCEPT ![p] = output] /\ output' = None /\ temp' = temp
          /\ pc'[p] = "compare" /\ outcome'[p] = outcome[p] /\ isolated[p] = None
      BY <1>0, <1>9, <2>2 DEF Isolate, Goto, Places
    <3>2. Aside(q)' <=> Aside(q) \/ Owned(output, q)
      BY <2>2, <3>1 DEF Aside, Owned
    <3>3. Exists(q)' => Exists(q)
      BY <3>1, <3>2 DEF Exists, Owned
    <3>4. \A x, y \in Proc : Owned(isolated'[x], q) /\ Owned(isolated'[y], q) => x = y
      <4>1. Alone(q)
        OBVIOUS
      <4>2. \A x \in Proc : Owned(isolated'[x], q) =>
               \/ x = p /\ Owned(output, q)
               \/ Owned(isolated[x], q)
        BY <3>1 DEF Owned
      <4>3. Owned(output, q) => \A x \in Proc : ~Owned(isolated[x], q)
        BY <4>1 DEF Alone, Aside
      <4> QED BY <4>1, <4>2, <4>3 DEF Alone
    <3>5. Alone(q) /\ temp'[q] = temp[q] /\ outcome'[q] = outcome[q]
      BY <3>1 DEF LocalOthers
    <3>6. q # p => pc'[q] = pc[q]
      BY DEF LocalOthers
    <3>7. ~Owned(output, q)'
      BY <3>1 DEF Owned
    <3> QED BY <3>1, <3>2, <3>3, <3>4, <3>5, <3>6, <3>7 DEF Alone
  <2> QED BY <2>1, <2>2
<1>10. CASE Compare(p)
  BY <1>0, <1>10, StillAlone DEF Compare, Continue, Goto, Still, Alone
<1>11. CASE GiveBack(p)
  <2>1. CASE output # None
    BY <1>0, <1>11, <2>1, StillAlone DEF GiveBack, End, Goto, Still, Alone
  <2>2. CASE output = None
    <3>1. /\ isolated' = [isolated EXCEPT ![p] = None] /\ output' = isolated[p]
          /\ temp' = temp /\ pc'[p] = "end" /\ outcome'[p] = "unproven"
      BY <1>11, <2>2 DEF GiveBack, End, Goto
    <3>2. Aside(q)' => Aside(q)
      BY <3>1 DEF Aside, Owned
    <3>3. Owned(output, q)' => Aside(q)
      BY <3>1 DEF Owned, Aside
    <3>4. Exists(q)' => Exists(q)
      BY <3>1, <3>2, <3>3 DEF Exists
    <3>5. Alone(q) /\ temp'[q] = temp[q]
      BY <3>1
    <3>6. q # p => pc'[q] = pc[q] /\ outcome'[q] = outcome[q]
      BY DEF LocalOthers
    <3>7. Owned(output, q)' => ~Aside(q)'
      <4>1. \A x \in Proc : Owned(isolated'[x], q) => x # p /\ Owned(isolated[x], q)
        BY <3>1 DEF Owned
      <4> QED BY <3>1, <3>5, <4>1 DEF Alone, Aside, Owned
    <3>8. \A x \in Proc : Owned(isolated'[x], q) => Owned(isolated[x], q)
      BY <3>1 DEF Owned
    <3> QED BY <3>1, <3>2, <3>3, <3>4, <3>5, <3>6, <3>7, <3>8 DEF Alone
  <2> QED BY <2>1, <2>2
<1>12. CASE Remove(p)
  <2>1. isolated[p] # None /\ isolated[p].owner = p /\ isolated[p] \in Directory
    BY <1>0, <1>12 DEF Places, Remove
  <2>2. UNCHANGED <<output, temp>> /\ outcome'[p] = outcome[p] /\ outcome[p] = "none"
    BY <1>0, <1>12 DEF Remove, Reads
  <2>3. \A x \in Proc : Owned(isolated'[x], q) => Owned(isolated[x], q)
    <3>1. CASE isolated[p].files = {}
      BY <1>12, <3>1 DEF Remove, Owned
    <3>2. CASE isolated[p].files # {}
      BY <1>12, <2>1, <3>2 DEF Remove, Owned, Directory
    <3> QED BY <3>1, <3>2
  <2>4. Aside(q)' => Aside(q)
    BY <2>3 DEF Aside
  <2>5. Exists(q)' => Exists(q)
    BY <2>2, <2>4 DEF Exists
  <2>6. pc'[p] = "prove" => ~Exists(p)'
    <3>1. SUFFICES ASSUME pc'[p] = "prove" PROVE ~Exists(p)'
      OBVIOUS
    <3>2. isolated' = [isolated EXCEPT ![p] = None]
      BY <1>12, <3>1 DEF Remove, Goto
    <3>3. Owned(isolated[p], p)
      BY <2>1 DEF Owned
    <3>4. Aside(p)
      BY <3>3 DEF Aside
    <3>5. ~Owned(output, p) /\ temp[p] = None
      BY <1>0, <3>4 DEF Alone
    <3>6. \A x \in Proc : ~Owned(isolated'[x], p)
      BY <1>0, <3>2, <3>3 DEF Alone, Owned
    <3>7. \A x \in Proc : ~Owned(temp[x], p)
      BY <3>5 DEF Places, Owned
    <3> QED BY <2>2, <3>5, <3>6, <3>7 DEF Exists, Aside
  <2>7. pc'[p] \in {"prove", "remove"}
    BY <1>12 DEF Remove, Goto
  <2>8. Alone(q)
    OBVIOUS
  <2>9. CASE q = p
    BY <2>2, <2>3, <2>4, <2>5, <2>6, <2>7, <2>8, <2>9 DEF Alone
  <2>10. CASE q # p
    BY <2>2, <2>3, <2>4, <2>5, <2>8, <2>10 DEF Alone, LocalOthers
  <2> QED BY <2>9, <2>10
<1>13. CASE Prove(p)
  BY <1>0, <1>13, StillAlone DEF Prove, Retry, End, Goto, Still, Alone
<1> QED
  BY <1>1, <1>2, <1>3, <1>4, <1>5, <1>6, <1>7, <1>8, <1>9, <1>10, <1>11, <1>12, <1>13
  DEF Step

\* As long as nobody touches the output, what a builder published stays there.
LEMMA StepClaims ==
  ASSUME IInv, NEW p \in Proc, Step(p), NEW q \in Proc
  PROVE  Claims(q)'
<1>. USE Split, OthersStay DEF IInv, LocalsTyped
<1>0. Reads(p) /\ Places(p) /\ Claims(p) /\ Claims(q) /\ spent' = spent
  OBVIOUS
<1>1. CASE Begin(p)
  BY <1>0, <1>1 DEF Begin, Goto, End, Claims, Owned, LocalOthers
<1>2. CASE Snapshot(p)
  BY <1>0, <1>2 DEF Snapshot, NextPart, Goto, Claims, Owned, LocalOthers
<1>3. CASE SnapshotDrift(p)
  BY <1>0, <1>3 DEF SnapshotDrift, Retry, Goto, End, Claims, Owned, LocalOthers
<1>4. CASE Build(p)
  BY <1>0, <1>4 DEF Build, Goto, Claims, Owned, LocalOthers
<1>5. CASE Verify(p)
  <2>1. CASE at[p] # K
    BY <1>0, <1>5, <2>1 DEF Verify, NextPart, Claims, Owned, LocalOthers
  <2>2. CASE at[p] = K
    BY <1>0, <1>5, <2>2, RoundEnds DEF Claims, Owned, LocalOthers
  <2> QED BY <2>1, <2>2
<1>6. CASE Drift(p)
  BY <1>0, <1>6 DEF Drift, TakeBack, Retry, Goto, End, Claims, Owned, LocalOthers
<1>7. CASE Publish(p)
  BY <1>0, <1>7 DEF Publish, Goto, End, Claims, Owned, LocalOthers, Places
<1>8. CASE Validate(p)
  BY <1>0, <1>8 DEF Validate, TakeBack, Goto, Claims, Owned, LocalOthers
<1>9. CASE Isolate(p)
  <2>1. pc'[p] \in {"end", "compare"} /\ outcome'[p] # "success"
    BY <1>0, <1>9 DEF Isolate, Goto, End, Reads
  <2>2. CASE q = p
    BY <2>1, <2>2 DEF Claims
  <2>3. CASE q # p
    <3>1. spent["touch"] = 0 => Owned(output, p)
      BY <1>0, <1>9 DEF Isolate, Claims
    <3>2. spent["touch"] = 0 => ~Owned(output, q)
      BY <2>3, <3>1 DEF Owned
    <3> QED BY <1>0, <2>3, <3>2 DEF Claims, LocalOthers
  <2> QED BY <2>2, <2>3
<1>10. CASE Compare(p)
  BY <1>0, <1>10 DEF Compare, Continue, Goto, Claims, Owned, LocalOthers
<1>11. CASE GiveBack(p)
  BY <1>0, <1>11 DEF GiveBack, End, Goto, Claims, Owned, LocalOthers
<1>12. CASE Remove(p)
  BY <1>0, <1>12 DEF Remove, Goto, Claims, Owned, LocalOthers
<1>13. CASE Prove(p)
  BY <1>0, <1>13 DEF Prove, Retry, End, Goto, Claims, Owned, LocalOthers, Reads
<1> QED
  BY <1>1, <1>2, <1>3, <1>4, <1>5, <1>6, <1>7, <1>8, <1>9, <1>10, <1>11, <1>12, <1>13
  DEF Step

-----------------------------------------------------------------------------
(* Stops and the environment.                                              *)

LEMMA InterruptKeeps ==
  ASSUME IInv, NEW p \in Proc, Interrupt(p)
  PROVE  IInv'
<1>. USE Split, SplitNext DEF IInv
<1>0. /\ temp' = [temp EXCEPT ![p] = None] /\ UNCHANGED <<source, output, isolated>>
      /\ spent'["touch"] = spent["touch"] /\ spent' \in [{"edit", "touch", "stop"} -> Nat]
      /\ outcome[p] = "none" /\ LocalsTyped
  BY DEF Interrupt, Spend, Reads
<1>1. \/ /\ pc[p] \in {"after", "validate", "terminal"} /\ TakeBack(p, "stopped")
      \/ End(p, "stopped")
  BY DEF Interrupt
<1>2. TypeOK'
  BY <1>0, <1>1, MovesTyped DEF Outcome
<1>3. LocalOthers(p)
  BY <1>0, <1>1 DEF LocalOthers, TakeBack, End, Goto, LocalsTyped
<1>4. /\ pc'[p] \in {"isolate", "end"} /\ at' = at /\ seen' = seen /\ fresh' = fresh
      /\ pc'[p] = "isolate" => outcome'[p] = "none"
                                 /\ pc[p] \in {"after", "validate", "terminal"}
      /\ outcome'[p] \in {"none", "stopped"} /\ cause'[p] # "success"
  BY <1>0, <1>1 DEF TakeBack, End, Goto, LocalsTyped, Reads
<1>5. ASSUME NEW q \in Proc PROVE Reads(q)'
  BY <1>0, <1>3, <1>4 DEF Reads, LocalOthers
<1>6. ASSUME NEW q \in Proc PROVE Places(q)'
  BY <1>0, <1>3, <1>4 DEF Places, LocalOthers
<1>7. ASSUME NEW q \in Proc PROVE Alone(q)'
  BY <1>0, <1>3, <1>4, DropAlone
<1>8. ASSUME NEW q \in Proc PROVE Claims(q)'
  BY <1>0, <1>3, <1>4 DEF Claims, LocalOthers, Owned
<1> QED BY <1>2, <1>5, <1>6, <1>7, <1>8

LEMMA KillKeeps ==
  ASSUME IInv, NEW p \in Proc, Kill(p)
  PROVE  IInv'
<1>. USE Split, SplitNext DEF IInv
<1>0. /\ UNCHANGED <<source, output, temp, isolated>> /\ End(p, "killed")
      /\ spent'["touch"] = spent["touch"] /\ spent' \in [{"edit", "touch", "stop"} -> Nat]
      /\ LocalsTyped
  BY DEF Kill, Spend
<1>2. TypeOK'
  BY <1>0, MovesTyped DEF Outcome
<1>3. LocalOthers(p) /\ Still
  BY <1>0 DEF LocalOthers, Still, End, Goto, LocalsTyped
<1>4. pc'[p] = "end" /\ outcome'[p] = "killed" /\ UNCHANGED <<at, seen, fresh, cause>>
  BY <1>0 DEF End, Goto, LocalsTyped
<1>5. ASSUME NEW q \in Proc PROVE Reads(q)'
  BY <1>0, <1>3, <1>4 DEF Reads, LocalOthers
<1>6. ASSUME NEW q \in Proc PROVE Places(q)'
  BY <1>0, <1>3, <1>4 DEF Places, LocalOthers
<1>7. ASSUME NEW q \in Proc PROVE Alone(q)'
  BY <1>0, <1>3, <1>4, StillAlone
<1>8. ASSUME NEW q \in Proc PROVE Claims(q)'
  BY <1>0, <1>3, <1>4 DEF Claims, LocalOthers, Owned
<1> QED BY <1>2, <1>5, <1>6, <1>7, <1>8

\* An edit only makes generations grow: what was stale stays stale.
LEMMA EditKeeps ==
  ASSUME IInv, NEW k \in Part, Edit(k)
  PROVE  IInv'
<1>. USE Split, SplitNext DEF IInv
<1>0. /\ source' = [source EXCEPT ![k] = @ + 1] /\ UNCHANGED <<output, temp, isolated, local>>
      /\ spent'["touch"] = spent["touch"] /\ spent' \in [{"edit", "touch", "stop"} -> Nat]
  BY DEF Edit, Spend
<1>1. source \in [Part -> Nat] /\ source' \in Generation
  BY <1>0 DEF Generation
<1>2. \A i \in Part : source'[i] >= source[i] /\ source'[i] \in Nat
  BY <1>0, <1>1
<1>3. TypeOK'
  BY <1>0, <1>1 DEF LocalsTyped, local
<1>4. ASSUME NEW q \in Proc PROVE Reads(q)'
  <2>1. seen[q] \in [Part -> Nat] /\ Reads(q)
    BY DEF LocalsTyped, Generation
  <2>2. \A i \in Part : seen[q][i] <= source'[i]
                          /\ (seen[q][i] < source[i] => seen[q][i] < source'[i])
    BY <1>1, <1>2, <2>1 DEF Reads
  <2> QED BY <1>0, <2>1, <2>2 DEF Reads, local
<1>5. ASSUME NEW q \in Proc PROVE Places(q)' /\ Alone(q)' /\ Claims(q)'
  <2>1. Places(q)'
    BY <1>0 DEF Places, local
  <2>2. Alone(q)'
    BY <1>0 DEF Alone, Exists, Aside, Owned, local
  <2>3. Claims(q)'
    BY <1>0 DEF Claims, Owned, local
  <2> QED BY <2>1, <2>2, <2>3
<1> QED BY <1>3, <1>4, <1>5

LEMMA TouchKeeps ==
  ASSUME IInv, Touch
  PROVE  IInv'
<1>. USE Split, SplitNext DEF IInv
<1>0. /\ UNCHANGED <<source, temp, isolated, local>>
      /\ spent'["touch"] > 0 /\ spent' \in [{"edit", "touch", "stop"} -> Nat]
  BY DEF Touch, Spend
<1>1. \/ \E f \in Others : output' = Alien(f)
      \/ output' = None
      \/ output # None /\ output' = [output EXCEPT !.changed = TRUE]
  BY DEF Touch
<1>2. /\ output' \in Directory \cup {None}
      /\ \A q \in Proc : Owned(output, q)' => Owned(output, q)
  <2>1. CASE \E f \in Others : output' = Alien(f)
    BY <2>1, AlienIsDirectory, SentinelAssumption DEF Owned
  <2>2. CASE output' = None
    BY <2>2 DEF Owned
  <2>3. CASE output # None /\ output' = [output EXCEPT !.changed = TRUE]
    BY <2>3 DEF Owned, Directory
  <2> QED BY <1>1, <2>1, <2>2, <2>3
<1>3. TypeOK'
  BY <1>0, <1>2 DEF LocalsTyped, local
<1>4. ASSUME NEW q \in Proc PROVE Reads(q)' /\ Places(q)' /\ Alone(q)' /\ Claims(q)'
  <2>1. Reads(q)'
    BY <1>0 DEF Reads, local
  <2>2. Places(q)'
    BY <1>0 DEF Places, local
  <2>3. Aside(q)' <=> Aside(q)
    BY <1>0 DEF Aside, Owned
  <2>4. Exists(q)' => Exists(q)
    BY <1>0, <1>2, <2>3 DEF Exists, Owned
  <2>5. Alone(q)'
    BY <1>0, <1>2, <2>3, <2>4 DEF Alone, local, Owned
  <2>6. Claims(q)'
    BY <1>0 DEF Claims
  <2> QED BY <2>1, <2>2, <2>5, <2>6
<1> QED BY <1>3, <1>4

-----------------------------------------------------------------------------
LEMMA Initially == Init => IInv
<1>1. SUFFICES ASSUME Init PROVE IInv
  OBVIOUS
<1>2. TypeOK
  BY <1>1, PartsOrdered DEF Init, TypeOK, Generation, Outcome
<1>3. ASSUME NEW p \in Proc PROVE Reads(p) /\ Places(p) /\ Alone(p) /\ Claims(p)
  <2>1. \A o : ~Exists(o) /\ ~Aside(o)
    BY <1>1 DEF Init, Exists, Aside, Owned
  <2>2. \A k \in Part : seen[p][k] <= source[k]
    BY <1>1 DEF Init
  <2>3. pc[p] = "idle" /\ outcome[p] = "none" /\ cause[p] = "none"
        /\ temp[p] = None /\ isolated[p] = None
    BY <1>1 DEF Init
  <2>4. \A q \in Proc : isolated[q] = None
    BY <1>1 DEF Init
  <2> QED BY <2>1, <2>2, <2>3, <2>4 DEF Reads, Places, Alone, Claims, Owned
<1> QED BY <1>2, <1>3 DEF IInv

LEMMA Inductive == IInv /\ [Next]_vars => IInv'
<1>. SUFFICES ASSUME IInv, [Next]_vars PROVE IInv'
  OBVIOUS
<1>1. ASSUME NEW p \in Proc, Step(p) PROVE IInv'
  <2>1. ASSUME NEW q \in Proc PROVE Reads(q)' /\ Places(q)'
    <3>1. CASE q = p
      BY <1>1, <3>1, StepReads, StepPlaces
    <3>2. CASE q # p
      BY <1>1, <3>2, OthersStay DEF IInv, Reads, Places, LocalOthers
    <3> QED BY <3>1, <3>2
  <2> QED BY <1>1, <2>1, StepTyped, StepAlone, StepClaims DEF IInv
<1>2. CASE UNCHANGED vars
  <2>1. TypeOK'
    BY <1>2 DEF IInv, vars, local, TypeOK
  <2>2. ASSUME NEW q \in Proc PROVE Reads(q)' /\ Places(q)' /\ Alone(q)' /\ Claims(q)'
    <3>1. Reads(q)'
      BY <1>2 DEF IInv, vars, local, Reads
    <3>2. Places(q)'
      BY <1>2 DEF IInv, vars, local, Places
    <3>3. Alone(q)'
      BY <1>2 DEF IInv, vars, local, Alone, Exists, Aside, Owned
    <3>4. Claims(q)'
      BY <1>2 DEF IInv, vars, local, Claims, Owned
    <3> QED BY <3>1, <3>2, <3>3, <3>4
  <2> QED BY <2>1, <2>2 DEF IInv
<1> QED
  BY <1>1, <1>2, InterruptKeeps, KillKeeps, EditKeeps, TouchKeeps DEF Next, Ended

LEMMA Invariance == Spec => []IInv
  BY Initially, Inductive, PTL DEF Spec

\* Every variable keeps its type for all numbers of builders and parts.
THEOREM TypeCorrect == Spec => []TypeOK
<1>1. IInv => TypeOK
  BY DEF IInv
<1> QED BY <1>1, Invariance, PTL

\* A build that is reported was, at the moment of its rename, one generation of
\* both source trees, although others edit them while they are read and verified.
THEOREM ReportedIsOneGeneration == Spec => []SuccessIsOneGeneration
<1>1. IInv => SuccessIsOneGeneration
  BY DEF IInv, Reads, SuccessIsOneGeneration
<1> QED BY <1>1, Invariance, PTL

LEMMA SomewhereExists ==
  ASSUME TypeOK, NEW o PROVE Somewhere(o) <=> Exists(o)
  BY DEF TypeOK, Somewhere, Directories, Range, Exists, Aside, Owned

\* A drift, a mismatch or a refusal that is reported leaves nothing of its own.
THEOREM FailureIsClean == Spec => []FailureLeavesNothing
<1>1. IInv => FailureLeavesNothing
  BY SomewhereExists DEF IInv, Alone, FailureLeavesNothing
<1> QED BY <1>1, Invariance, PTL

\* A builder never has two directories, also not across its two attempts.
THEOREM NeverTwoTrees == Spec => []OneTreeAtATime
<1>1. ASSUME IInv, NEW p \in Proc, NEW d \in Directories, NEW e \in Directories,
             d.owner = p, e.owner = p
      PROVE  d = e
  <2>1. ASSUME NEW x \in Directories, x.owner = p
        PROVE  \/ x = output /\ Owned(output, p)
               \/ x = temp[p] /\ temp[p] # None
               \/ \E q \in Proc : x = isolated[q] /\ Owned(isolated[q], p)
    <3>1. CASE x = output
      BY <2>1, <3>1 DEF Owned, Directories
    <3>2. ASSUME NEW q \in Proc, x = temp[q] PROVE x = temp[p] /\ temp[p] # None
      BY <1>1, <2>1, <3>2 DEF IInv, Places, Directories
    <3>3. ASSUME NEW q \in Proc, x = isolated[q] PROVE Owned(isolated[q], p)
      BY <2>1, <3>3 DEF Owned, Directories
    <3> QED BY <1>1, <2>1, <3>1, <3>2, <3>3 DEF Directories, Range, IInv, TypeOK
  <2>2. Alone(p)
    BY <1>1 DEF IInv
  <2> QED BY <1>1, <2>1, <2>2 DEF Alone, Aside
<1>2. IInv => OneTreeAtATime
  BY <1>1 DEF OneTreeAtATime
<1> QED BY <1>2, Invariance, PTL

\* Two builders of one output do not both succeed, unless others worked there.
THEOREM OnlyOneSucceeds == Spec => []OneSuccess
<1>1. IInv => OneSuccess
  <2>. SUFFICES ASSUME IInv, NEW p \in Proc, NEW q \in Proc, p # q,
                       outcome[p] = "success", outcome[q] = "success"
                PROVE  spent["touch"] > 0
    BY DEF OneSuccess
  <2>1. spent["touch"] = 0 => Owned(output, p) /\ Owned(output, q)
    BY DEF IInv, Claims
  <2>2. spent["touch"] \in Nat
    BY DEF IInv, TypeOK
  <2> QED BY <2>1, <2>2 DEF Owned
<1> QED BY <1>1, Invariance, PTL

\* No step of a builder, no stop and no kill makes a directory of others vanish.
THEOREM OthersAreSafe == Spec => OnlyOwnTreesGo
<1>1. ASSUME IInv, [Next]_vars, spent'["touch"] = spent["touch"],
             NEW o \in Proc \cup Others, Exists(o), ~Exists(o)'
      PROVE  o \in Proc /\ pc'[o] # pc[o]
  <2>. USE <1>1, Split DEF IInv, LocalsTyped
  <2>1. ASSUME NEW p \in Proc, Step(p) PROVE o \in Proc /\ pc'[o] # pc[o]
    <3>. USE <2>1
    <3>1. Places(p)
      OBVIOUS
    <3>2. CASE Still
      BY <3>2 DEF Still, Exists, Aside, Owned
    <3>3. CASE Build(p)
      BY <3>1, <3>3 DEF Build, Places, Exists, Aside, Owned
    <3>4. CASE Drift(p)
      <4>1. CASE pc[p] = "before"
        <5>1. o = p
          BY <3>1, <3>4, <4>1 DEF Drift, Exists, Aside, Owned, Places
        <5> QED BY <3>4, <4>1, <5>1 DEF Drift, Retry, End, Goto
      <4>2. CASE pc[p] # "before"
        BY <3>2, <3>4, <4>2 DEF Drift, Still
      <4> QED BY <4>1, <4>2
    <3>5. CASE Publish(p)
      <4>1. CASE output = None
        <5>1. output' = temp[p] /\ temp' = [temp EXCEPT ![p] = None] /\ isolated' = isolated
          BY <3>5, <4>1 DEF Publish
        <5> QED BY <4>1, <5>1 DEF Exists, Aside, Owned
      <4>2. CASE output # None
        <5>1. o = p
          BY <3>1, <3>5, <4>2 DEF Publish, Exists, Aside, Owned, Places
        <5> QED BY <3>5, <4>2, <5>1 DEF Publish, End, Goto
      <4> QED BY <4>1, <4>2
    <3>6. CASE Isolate(p)
      <4>1. CASE output = None
        BY <3>2, <3>6, <4>1 DEF Isolate, Still
      <4>2. CASE output # None
        <5>1. isolated' = [isolated EXCEPT ![p] = output] /\ temp' = temp /\ isolated[p] = None
          BY <3>1, <3>6, <4>2 DEF Isolate, Places
        <5> QED BY <5>1 DEF Exists, Aside, Owned
      <4> QED BY <4>1, <4>2
    <3>7. CASE GiveBack(p)
      <4>1. CASE output # None
        BY <3>2, <3>7, <4>1 DEF GiveBack, Still
      <4>2. CASE output = None
        <5>1. isolated' = [isolated EXCEPT ![p] = None] /\ temp' = temp /\ output' = isolated[p]
          BY <3>7, <4>2 DEF GiveBack
        <5> QED BY <4>2, <5>1 DEF Exists, Aside, Owned
      <4> QED BY <4>1, <4>2
    <3>8. CASE Remove(p)
      <4>1. isolated[p] \in Directory /\ isolated[p].owner = p /\ UNCHANGED <<output, temp>>
        BY <3>1, <3>8 DEF Remove, Places
      <4>2. CASE isolated[p].files = {}
        <5>1. isolated' = [isolated EXCEPT ![p] = None] /\ pc'[p] # pc[p]
          BY <3>8, <4>2 DEF Remove, Goto
        <5>2. o = p
          BY <4>1, <5>1 DEF Exists, Aside, Owned
        <5> QED BY <5>1, <5>2
      <4>3. CASE isolated[p].files # {}
        <5>1. PICK left : isolated' = [isolated EXCEPT ![p].files = left]
          BY <3>8, <4>3 DEF Remove
        <5>2. isolated'[p].owner = p /\ isolated'[p] # None
          <6>1. isolated'[p] = [isolated[p] EXCEPT !.files = left]
            BY <5>1
          <6>2. isolated'[p].owner = p
            BY <4>1, <6>1 DEF Directory
          <6>3. TypeOK' /\ isolated'[p] \in Directory \cup {None}
            BY StepTyped DEF TypeOK
          <6>4. pc' = pc /\ pc[p] = "remove"
            BY <3>8, <4>3 DEF Remove
          <6>5. isolated'[p] # None
            BY <6>4, StepPlaces DEF Places
          <6> QED BY <6>2, <6>5
        <5>3. \A x \in Proc \ {p} : isolated'[x] = isolated[x]
          BY <5>1
        <5> QED BY <4>1, <5>2, <5>3 DEF Exists, Aside, Owned
      <4> QED BY <4>2, <4>3
    <3> QED
      BY <3>2, <3>3, <3>4, <3>5, <3>6, <3>7, <3>8
      DEF Step, Still, Begin, Snapshot, SnapshotDrift, Verify, Validate, Compare,
          Continue, Prove
  <2>2. ASSUME NEW p \in Proc, Interrupt(p) PROVE o \in Proc /\ pc'[o] # pc[o]
    <3>1. temp' = [temp EXCEPT ![p] = None] /\ UNCHANGED <<output, isolated>>
      BY <2>2 DEF Interrupt
    <3>2. o = p
      BY <3>1 DEF Exists, Aside, Owned, Places
    <3> QED BY <2>2, <3>2 DEF Interrupt, TakeBack, End, Goto
  <2>3. ASSUME Still PROVE FALSE
    BY <2>3 DEF Still, Exists, Aside, Owned
  <2>4. ASSUME Touch PROVE FALSE
    BY <2>4 DEF Touch, Spend
  <2> QED
    BY <2>1, <2>2, <2>3, <2>4 DEF Next, Kill, Edit, Ended, vars, Still
<1>2. IInv /\ IInv' /\ [Next]_vars =>
        [spent'["touch"] = spent["touch"] =>
           \A o \in Proc \cup Others :
             Somewhere(o) /\ ~Somewhere(o)' => o \in Proc /\ pc'[o] # pc[o]]_vars
  <2>1. ASSUME TypeOK', NEW o PROVE Somewhere(o)' <=> Exists(o)'
    BY <2>1 DEF TypeOK, Somewhere, Directories, Range, Exists, Aside, Owned
  <2> QED BY <1>1, <2>1, SomewhereExists DEF IInv
<1> QED BY <1>2, Invariance, PTL DEF Spec, OnlyOwnTreesGo

----------------------------------------------------------------------------
\* The memory and the index of a batch.
LEMMA LeastIn ==
  ASSUME NEW T \in SUBSET Nat, T # {}
  PROVE  \E k \in T : \A i \in T : k <= i
  <1>1. \E k \in T : \A i \in T : ~(<<i, k>> \in OpToRel(<, Nat))
    BY NatLessThanWellFounded, WFMin
  <1>2. ASSUME NEW k \in T, NEW i \in T, ~(<<i, k>> \in OpToRel(<, Nat))
        PROVE  k <= i
    <2>1. k \in Nat /\ i \in Nat /\ <<i, k>> \in Nat \X Nat
      OBVIOUS
    <2>2. ~(i < k)
      BY <1>2, <2>1 DEF OpToRel
    <2>. QED  BY <2>1, <2>2
  <1>. QED  BY <1>1, <1>2

IsSeq(s) == s \in Seq({s[i] : i \in DOMAIN s})
MemoryOK(memory) ==
  /\ IsSeq(memory.rows) /\ IsSeq(memory.occupied) /\ IsSeq(memory.pairs)
  /\ \A i \in DOMAIN memory.rows :
       memory.rows[i].strict \in BOOLEAN /\ memory.rows[i].alias \in BOOLEAN

\* The index after each row of the scan.
Scans(memory, queries, limits, after) ==
  after = [n \in 0..Q!ScanLength(memory) |->
             IF n = 0 THEN Q!Empty(queries, limits)
             ELSE Q!Scan(after[n - 1], memory, queries, limits, n)]

\* The rows of the first n that have the key of a query, and the pairs about it.
RowsOf(memory, query, n) ==
  {m \in DOMAIN Q!KeyRows(memory) : m <= n /\ Q!KeyRows(memory)[m].key = query.key}
About(memory, query, j) ==
  memory.pairs[j].key = query.key \/ Q!SameText(memory.pairs[j], query)

IndexOK(memory, index) ==
  /\ DOMAIN index = {"units", "facts", "seeds", "references", "overflow"}
  /\ index.seeds \subseteq DOMAIN memory.pairs
  /\ index.references \subseteq DOMAIN memory.pairs

Found(memory, query, index, n) ==
  LET rows == Q!KeyRows(memory)
  IN /\ query.key \in DOMAIN index.facts <=> RowsOf(memory, query, n) # {}
     /\ query.key \in DOMAIN index.facts =>
          /\ index.facts[query.key].quarantined
               <=> \E m \in RowsOf(memory, query, n) : ~rows[m].strict
          /\ index.facts[query.key].alias
               <=> \E m \in RowsOf(memory, query, n) : rows[m].alias
     /\ \A j \in DOMAIN memory.pairs : About(memory, query, j) =>
          /\ j \in index.seeds <=> Len(rows) + j <= n
          /\ j \in index.references <=> Len(rows) + Len(memory.pairs) + j <= n

FoundFor(memory, queries, limits, i, index, n) ==
  \/ i \in index.overflow
  \/ i \in Q!Active(queries, limits) /\ Found(memory, queries[i], index, n)

Unlimited(limits) == limits.units = NoLimit /\ limits.batch = NoLimit

LEMMA RowFacts ==
  ASSUME NEW memory, MemoryOK(memory)
  PROVE  LET rows == Q!KeyRows(memory)
         IN /\ Len(rows) = Len(memory.rows) + Len(memory.occupied)
            /\ Len(rows) \in Nat /\ DOMAIN rows = 1..Len(rows)
            /\ Len(memory.pairs) \in Nat /\ DOMAIN memory.pairs = 1..Len(memory.pairs)
            /\ \A i \in DOMAIN memory.rows : i \in DOMAIN rows /\ rows[i] = memory.rows[i]
            /\ \A i \in DOMAIN memory.occupied :
                 /\ Len(memory.rows) + i \in DOMAIN rows
                 /\ rows[Len(memory.rows) + i]
                      = [key |-> memory.occupied[i], strict |-> FALSE, alias |-> FALSE]
            /\ \A i \in DOMAIN rows : rows[i].strict \in BOOLEAN /\ rows[i].alias \in BOOLEAN
            /\ Q!ScanLength(memory) = Len(rows) + 2 * Len(memory.pairs)
            /\ Q!ScanLength(memory) \in Nat
  <1>. DEFINE a == memory.rows  o == memory.occupied
              b == [i \in DOMAIN o |-> [key |-> o[i], strict |-> FALSE, alias |-> FALSE]]
  <1>1. Len(a) \in Nat /\ DOMAIN a = 1..Len(a) /\ Len(o) \in Nat /\ DOMAIN o = 1..Len(o)
    BY DEF MemoryOK, IsSeq
  <1>2. Len(memory.pairs) \in Nat /\ DOMAIN memory.pairs = 1..Len(memory.pairs)
    BY DEF MemoryOK, IsSeq
  <1>3. /\ b \in Seq({b[i] : i \in DOMAIN o}) /\ Len(b) = Len(o) /\ DOMAIN b = 1..Len(o)
        /\ \A i \in DOMAIN o : b[i] = [key |-> o[i], strict |-> FALSE, alias |-> FALSE]
    <2>. DEFINE x(i) == [key |-> o[i], strict |-> FALSE, alias |-> FALSE]
    <2>1. b = [i \in 1..Len(o) |-> x(i)] /\ \A i \in 1..Len(o) : b[i] = x(i)
      BY <1>1
    <2>2. b \in [1..Len(o) -> {b[i] : i \in DOMAIN o}]
      <3>. HIDE DEF x, b
      <3>1. \A i \in 1..Len(o) : x(i) \in {b[j] : j \in DOMAIN o}
        BY <1>1, <2>1
      <3>. QED  BY <2>1, <3>1
    <2>3. b \in Seq({b[i] : i \in DOMAIN o}) /\ Len(b) = Len(o)
      <3>. HIDE DEF b
      <3>. QED  BY <1>1, <2>2
    <2>. QED  BY <1>1, <2>1, <2>3
  <1>4. a \in Seq({a[i] : i \in DOMAIN a})
    BY DEF MemoryOK, IsSeq
  <1>5. Q!KeyRows(memory) = a \o b
    BY DEF Q!KeyRows
  <1>. DEFINE r == Q!KeyRows(memory)
  <1>6. \A i \in DOMAIN a : a[i].strict \in BOOLEAN /\ a[i].alias \in BOOLEAN
    BY DEF MemoryOK
  <1>. HIDE DEF a, o, b, r
  <1>7. /\ Len(r) = Len(a) + Len(o) /\ DOMAIN r = 1..Len(r)
        /\ \A i \in 1..Len(a) : r[i] = a[i]
        /\ \A i \in 1..Len(o) : r[Len(a) + i] = b[i]
    <2>1. a \in Seq({a[i] : i \in DOMAIN a} \cup {b[i] : i \in DOMAIN o})
          /\ b \in Seq({a[i] : i \in DOMAIN a} \cup {b[i] : i \in DOMAIN o})
      BY <1>1, <1>3, <1>4
    <2>2. Len(a \o b) = Len(a) + Len(b) /\ DOMAIN (a \o b) = 1..(Len(a) + Len(b))
          /\ \A i \in 1..Len(a) : (a \o b)[i] = a[i]
      BY <1>1, <2>1
    <2>3. \A i \in 1..Len(b) : (a \o b)[Len(a) + i] = b[i]
      BY <1>1, <1>3, <2>1
    <2>. QED  BY <1>3, <1>5, <2>2, <2>3 DEF r
  <1>8. ASSUME NEW i \in DOMAIN r PROVE r[i].strict \in BOOLEAN /\ r[i].alias \in BOOLEAN
    <2>1. i \in 1..Len(a) \/ (i - Len(a) \in 1..Len(o) /\ i = Len(a) + (i - Len(a)))
      BY <1>1, <1>7
    <2>2. CASE i \in 1..Len(a)
      BY <1>1, <1>6, <1>7, <2>2
    <2>3. CASE i - Len(a) \in 1..Len(o) /\ i = Len(a) + (i - Len(a))
      <3>1. r[i] = b[i - Len(a)] /\ b[i - Len(a)].strict = FALSE /\ b[i - Len(a)].alias = FALSE
        BY SMTT(60), <1>1, <1>3, <1>7, <2>3
      <3>. QED  BY <3>1
    <2>. QED  BY <2>1, <2>2, <2>3
  <1>9. Q!ScanLength(memory) = Len(r) + 2 * Len(memory.pairs)
    BY DEF Q!ScanLength, r
  <1>10. Len(r) \in Nat /\ Q!ScanLength(memory) \in Nat
    <2>1. Len(r) \in Nat
      BY <1>1, <1>7
    <2>2. 2 * Len(memory.pairs) \in Nat
      BY <1>2
    <2>. QED  BY <1>9, <2>1, <2>2
  <1>11. ASSUME NEW i \in 1..Len(o)
         PROVE  /\ r[Len(a) + i] = [key |-> o[i], strict |-> FALSE, alias |-> FALSE]
                /\ Len(a) + i \in DOMAIN r
    <2>1. r[Len(a) + i] = b[i] /\ i \in DOMAIN o
      BY <1>1, <1>7
    <2>2. Len(a) + i \in 1..(Len(a) + Len(o))
      BY <1>1
    <2>. QED  BY <1>3, <1>7, <2>1, <2>2
  <1>12. \A i \in 1..Len(a) : i \in DOMAIN r
    BY <1>1, <1>7
  <1>. QED  BY <1>1, <1>2, <1>7, <1>8, <1>9, <1>10, <1>11, <1>12 DEF r, a, o

\* There is such a scan: there is no first row where it cannot go on.
LEMMA ScanExists ==
  ASSUME NEW memory, MemoryOK(memory), NEW queries, NEW limits
  PROVE  \E after : Scans(memory, queries, limits, after)
  <1>. DEFINE L == Q!ScanLength(memory)
              E == Q!Empty(queries, limits)
              RowStep(x, n) == Q!Scan(x, memory, queries, limits, n)
              Upto(g, m) == g = [n \in 0..m |-> IF n = 0 THEN E ELSE RowStep(g[n - 1], n)]
              T == {m \in 0..L : ~\E g : Upto(g, m)}
  <1>0. L \in Nat
    BY RowFacts
  <1>. HIDE DEF L, E, RowStep
  <1>1. ASSUME T # {} PROVE FALSE
    <2>1. T \in SUBSET Nat
      BY <1>0
    <2>2. PICK k \in T : \A i \in T : k <= i
      <3>. HIDE DEF T
      <3>. QED  BY <1>1, <2>1, LeastIn
    <2>3. \E g : Upto(g, 0)
      <3>. DEFINE g == [n \in 0..0 |-> E]
      <3>1. \A n \in 0..0 : n = 0
        OBVIOUS
      <3>2. g = [n \in 0..0 |-> g[n]] /\ \A n \in 0..0 : g[n] = E
        OBVIOUS
      <3>. HIDE DEF g
      <3>3. \A n \in 0..0 : g[n] = IF n = 0 THEN E ELSE RowStep(g[n - 1], n)
        BY <3>1, <3>2, Zenon
      <3>4. Upto(g, 0)
        BY <3>2, <3>3, Zenon
      <3>. QED  BY <3>4
    <2>4. k # 0 /\ k \in 1..L /\ ~(\E g : Upto(g, k))
      <3>. HIDE DEF Upto
      <3>1. k \in 0..L /\ ~(\E g : Upto(g, k))
        BY <2>2
      <3>2. k # 0
        BY <2>3, <3>1
      <3>. QED  BY <1>0, <3>1, <3>2
    <2>5. k - 1 \in 0..L /\ k - 1 \notin T
      <3>. HIDE DEF T
      <3>. QED  BY <1>0, <2>1, <2>2, <2>4
    <2>6. PICK g : Upto(g, k - 1)
      <3>. HIDE DEF Upto
      <3>. QED  BY <2>5, Zenon
    <2>. DEFINE h == [n \in 0..k |-> IF n = k THEN RowStep(g[k - 1], k) ELSE g[n]]
    <2>7. \A n \in 0..(k - 1) : g[n] = IF n = 0 THEN E ELSE RowStep(g[n - 1], n)
      BY <2>6, Zenon
    <2>8. \A n \in 0..k : h[n] = IF n = k THEN RowStep(g[k - 1], k) ELSE g[n]
      OBVIOUS
    <2>9. \A n \in 0..k : h[n] = IF n = 0 THEN E ELSE RowStep(h[n - 1], n)
      <3>. HIDE DEF h
      <3>. SUFFICES ASSUME NEW n \in 0..k
                    PROVE  h[n] = IF n = 0 THEN E ELSE RowStep(h[n - 1], n)
        OBVIOUS
      <3>1. CASE n = 0
        <4>1. 0 \in 0..k /\ 0 # k /\ 0 \in 0..(k - 1)
          BY <1>0, <2>4
        <4>. QED  BY <2>7, <2>8, <3>1, <4>1
      <3>2. CASE n # 0
        <4>1. n - 1 \in 0..k /\ n - 1 # k /\ k \in Nat
          BY <1>0, <2>4, <3>2
        <4>2. h[n - 1] = g[n - 1]
          BY <2>8, <4>1
        <4>3. CASE n = k
          BY <2>8, <3>2, <4>2, <4>3
        <4>4. CASE n # k
          <5>1. n \in 0..(k - 1)
            BY <1>0, <2>4, <4>4
          <5>. QED  BY <2>7, <2>8, <3>2, <4>2, <4>4, <5>1
        <4>. QED  BY <4>3, <4>4
      <3>. QED  BY <3>1, <3>2
    <2>10. Upto(h, k)
      <3>1. h = [n \in 0..k |-> h[n]]
        OBVIOUS
      <3>. HIDE DEF h
      <3>. QED  BY <2>9, <3>1, Zenon
    <2>. QED  BY <2>4, <2>10, Zenon
  <1>2. \E g : Upto(g, L)
    <2>1. L \in 0..L
      BY <1>0
    <2>. HIDE DEF Upto
    <2>. QED  BY <1>1, <2>1
  <1>. QED  BY <1>2, Zenon DEF Scans, L, E, RowStep

\* And so the index is the last one of such a scan.
LEMMA IndexIsScan ==
  ASSUME NEW memory, MemoryOK(memory), NEW queries, NEW limits
  PROVE  \E after : /\ Scans(memory, queries, limits, after)
                    /\ Q!Index(memory, queries, limits) = after[Q!ScanLength(memory)]
  <1>. DEFINE after == CHOOSE f : Scans(memory, queries, limits, f)
  <1>1. Scans(memory, queries, limits, after)
    BY ScanExists
  <1>2. Q!Index(memory, queries, limits) = after[Q!ScanLength(memory)]
    BY DEF Q!Index, Scans
  <1>. QED  BY <1>1, <1>2

----------------------------------------------------------------------------
LEMMA ReserveFacts ==
  ASSUME NEW memory, NEW index, IndexOK(memory, index), NEW limits, NEW some, NEW count
  PROVE  LET taken == Q!Reserve(index, limits, some, count)
         IN /\ IndexOK(memory, taken)
            /\ taken.facts = index.facts /\ taken.seeds = index.seeds
            /\ taken.references = index.references
            /\ taken.overflow = index.overflow
                 \cup (IF Q!Spare(index, limits, count) THEN {} ELSE some)
  <1>. DEFINE taken == Q!Reserve(index, limits, some, count)
  <1>1. CASE Q!Spare(index, limits, count)
    <2>1. taken = [index EXCEPT !.units = @ + count]
      BY <1>1 DEF Q!Reserve
    <2>. HIDE DEF taken
    <2>2. /\ DOMAIN taken = DOMAIN index /\ taken.facts = index.facts
          /\ taken.seeds = index.seeds /\ taken.references = index.references
          /\ taken.overflow = index.overflow
      BY <2>1 DEF IndexOK
    <2>. QED  BY <1>1, <2>2 DEF IndexOK, taken
  <1>2. CASE ~Q!Spare(index, limits, count)
    <2>1. taken = [index EXCEPT !.units = limits.units, !.overflow = @ \cup some]
      BY <1>2 DEF Q!Reserve
    <2>. HIDE DEF taken
    <2>2. /\ DOMAIN taken = DOMAIN index /\ taken.facts = index.facts
          /\ taken.seeds = index.seeds /\ taken.references = index.references
          /\ taken.overflow = index.overflow \cup some
      BY <2>1 DEF IndexOK
    <2>. QED  BY <1>2, <2>2 DEF IndexOK, taken
  <1>. QED  BY <1>1, <1>2

LEMMA RowsGrow ==
  ASSUME NEW memory, MemoryOK(memory), NEW query, NEW n \in Nat \ {0}
  PROVE  LET rows == Q!KeyRows(memory)
         IN /\ n \notin DOMAIN rows => RowsOf(memory, query, n) = RowsOf(memory, query, n - 1)
            /\ n \in DOMAIN rows =>
                 RowsOf(memory, query, n)
                   = RowsOf(memory, query, n - 1)
                       \cup (IF rows[n].key = query.key THEN {n} ELSE {})
  <1>. DEFINE rows == Q!KeyRows(memory)
  <1>1. DOMAIN rows \subseteq Nat
    BY RowFacts
  <1>2. \A m \in DOMAIN rows : m <= n <=> m <= n - 1 \/ m = n
    BY <1>1
  <1>3. \A m \in Nat : n <= m => ~(m <= n - 1)
    OBVIOUS
  <1>. QED  BY <1>1, <1>2, <1>3 DEF RowsOf

\* A row that has the key of a query is known of it, or the query overflows.
LEMMA KeyFactStep ==
  ASSUME NEW memory, MemoryOK(memory), NEW queries, NEW limits, NEW i \in DOMAIN queries,
         NEW index, IndexOK(memory, index), NEW n \in DOMAIN Q!KeyRows(memory),
         FoundFor(memory, queries, limits, i, index, n - 1)
  PROVE  LET next == Q!KeyFact(index, queries, limits, Q!KeyRows(memory)[n])
         IN IndexOK(memory, next) /\ FoundFor(memory, queries, limits, i, next, n)
  <1>. DEFINE rows == Q!KeyRows(memory)
              row == rows[n]
              query == queries[i]
              some == Q!KeyQueries(queries, limits, row.key)
              known == row.key \in DOMAIN index.facts
              fact == IF known THEN index.facts[row.key]
                      ELSE [quarantined |-> FALSE, alias |-> FALSE]
              both == [quarantined |-> fact.quarantined \/ ~row.strict,
                       alias |-> fact.alias \/ row.alias]
              grown == [k \in DOMAIN index.facts \cup {row.key} |->
                          IF k # row.key THEN index.facts[k] ELSE both]
              taken == Q!Reserve(index, limits, some, 1)
              next == Q!KeyFact(index, queries, limits, row)
              spare == Q!Spare(index, limits, 1)
  <1>1. next = IF some = {} THEN index
               ELSE IF known THEN [index EXCEPT !.facts = grown]
               ELSE IF spare THEN [taken EXCEPT !.facts = grown] ELSE taken
    BY DEF Q!KeyFact
  <1>2. /\ IndexOK(memory, taken)
        /\ taken.facts = index.facts /\ taken.seeds = index.seeds
        /\ taken.references = index.references
        /\ taken.overflow = index.overflow \cup (IF spare THEN {} ELSE some)
    BY ReserveFacts
  <1>3. /\ n \in Nat \ {0} /\ n - 1 \in Nat /\ Len(rows) \in Nat /\ n <= Len(rows)
        /\ Len(memory.pairs) \in Nat /\ DOMAIN memory.pairs = 1..Len(memory.pairs)
    BY RowFacts
  <1>4. RowsOf(memory, query, n)
          = RowsOf(memory, query, n - 1) \cup (IF row.key = query.key THEN {n} ELSE {})
    BY <1>3, RowsGrow
  <1>5. /\ query.key \in DOMAIN grown <=> query.key \in DOMAIN index.facts \/ row.key = query.key
        /\ query.key # row.key /\ query.key \in DOMAIN index.facts =>
             grown[query.key] = index.facts[query.key]
        /\ grown[row.key] = both
    OBVIOUS
  <1>6. i \in Q!Active(queries, limits) /\ row.key = query.key => i \in some
    BY DEF Q!KeyQueries
  <1>7. row.strict \in BOOLEAN /\ row.alias \in BOOLEAN
    BY RowFacts
  <1>8. ~known => fact.quarantined = FALSE /\ fact.alias = FALSE
    OBVIOUS
  <1>9. known => fact = index.facts[row.key]
    OBVIOUS
  <1>10. /\ both.quarantined = (fact.quarantined \/ ~row.strict)
         /\ both.alias = (fact.alias \/ row.alias)
    OBVIOUS
  <1>11. \A m \in RowsOf(memory, query, n - 1) : m \in DOMAIN rows
    BY DEF RowsOf
  <1>12. ASSUME NEW x, DOMAIN x = DOMAIN index, x.seeds = index.seeds,
                x.references = index.references
         PROVE  IndexOK(memory, x)
    BY <1>12 DEF IndexOK
  <1>. HIDE DEF fact, both, grown, taken, next, spare, rows, row, query, some
  \* What is known of the query after a row that is taken in.
  <1>20. ASSUME NEW x, x.facts = grown, x.seeds = index.seeds,
                x.references = index.references,
                Found(memory, query, index, n - 1)
         PROVE  Found(memory, query, x, n)
    <2>1. query.key \in DOMAIN x.facts <=> RowsOf(memory, query, n) # {}
      BY <1>4, <1>5, <1>20 DEF Found
    <2>2. \A j \in DOMAIN memory.pairs : About(memory, query, j) =>
            /\ j \in x.seeds <=> Len(rows) + j <= n
            /\ j \in x.references <=> Len(rows) + Len(memory.pairs) + j <= n
      <3>1. \A j \in DOMAIN memory.pairs :
              /\ (Len(rows) + j <= n) = FALSE /\ (Len(rows) + j <= n - 1) = FALSE
              /\ (Len(rows) + Len(memory.pairs) + j <= n) = FALSE
              /\ (Len(rows) + Len(memory.pairs) + j <= n - 1) = FALSE
        BY <1>3
      <3>. QED  BY <1>20, <3>1 DEF Found, rows
    <2>3. CASE row.key # query.key
      <3>1. RowsOf(memory, query, n) = RowsOf(memory, query, n - 1)
        BY <1>4, <2>3
      <3>2. query.key \in DOMAIN x.facts =>
              query.key \in DOMAIN index.facts /\ x.facts[query.key] = index.facts[query.key]
        BY <1>5, <1>20, <2>3
      <3>. QED  BY <1>20, <2>1, <2>2, <3>1, <3>2 DEF Found, rows
    <2>4. CASE row.key = query.key
      <3>1. RowsOf(memory, query, n) = RowsOf(memory, query, n - 1) \cup {n} /\ rows[n] = row
        BY <1>4, <2>4 DEF row
      <3>2. x.facts[query.key] = both
        BY <1>5, <1>20, <2>4
      <3>3. fact.quarantined <=> \E m \in RowsOf(memory, query, n - 1) : ~rows[m].strict
        <4>1. CASE known
          BY <1>9, <1>20, <2>4, <4>1 DEF Found, rows
        <4>2. CASE ~known
          BY <1>8, <1>20, <2>4, <4>2 DEF Found
        <4>. QED  BY <4>1, <4>2
      <3>4. fact.alias <=> \E m \in RowsOf(memory, query, n - 1) : rows[m].alias
        <4>1. CASE known
          BY <1>9, <1>20, <2>4, <4>1 DEF Found, rows
        <4>2. CASE ~known
          BY <1>8, <1>20, <2>4, <4>2 DEF Found
        <4>. QED  BY <4>1, <4>2
      <3>5. x.facts[query.key].quarantined
              <=> \E m \in RowsOf(memory, query, n) : ~rows[m].strict
        BY <1>10, <3>1, <3>2, <3>3
      <3>6. x.facts[query.key].alias <=> \E m \in RowsOf(memory, query, n) : rows[m].alias
        BY <1>10, <3>1, <3>2, <3>4
      <3>. QED  BY <2>1, <2>2, <3>5, <3>6 DEF Found, rows
    <2>. QED  BY <2>3, <2>4
  \* And after one that is not about it.
  <1>21. ASSUME NEW x, x.facts = index.facts, x.seeds = index.seeds,
                x.references = index.references, row.key # query.key,
                Found(memory, query, index, n - 1)
         PROVE  Found(memory, query, x, n)
    <2>1. \A j \in DOMAIN memory.pairs :
            /\ (Len(rows) + j <= n) = FALSE /\ (Len(rows) + j <= n - 1) = FALSE
            /\ (Len(rows) + Len(memory.pairs) + j <= n) = FALSE
            /\ (Len(rows) + Len(memory.pairs) + j <= n - 1) = FALSE
      BY <1>3
    <2>2. RowsOf(memory, query, n) = RowsOf(memory, query, n - 1)
      BY <1>4, <1>21
    <2>. QED  BY <1>21, <2>1, <2>2 DEF Found, rows
  <1>22. \/ i \in index.overflow
         \/ i \in Q!Active(queries, limits) /\ Found(memory, query, index, n - 1)
    BY DEF FoundFor, query
  <1>23. FoundFor(memory, queries, limits, i, next, n)
           <=> \/ i \in next.overflow
               \/ i \in Q!Active(queries, limits) /\ Found(memory, query, next, n)
    BY DEF FoundFor, query
  <1>30. CASE some = {}
    <2>1. next = index
      BY <1>1, <1>30
    <2>2. i \in Q!Active(queries, limits) => row.key # query.key
      BY <1>6, <1>30
    <2>. QED  BY <1>21, <1>22, <1>23, <2>1, <2>2 DEF next, row, rows
  <1>31. CASE some # {} /\ known
    <2>1. next = [index EXCEPT !.facts = grown]
      BY <1>1, <1>31
    <2>2. /\ DOMAIN next = DOMAIN index /\ next.facts = grown /\ next.seeds = index.seeds
          /\ next.references = index.references /\ next.overflow = index.overflow
      BY <2>1 DEF IndexOK
    <2>3. IndexOK(memory, next)
      BY <1>12, <2>2
    <2>. QED  BY <1>20, <1>22, <1>23, <2>2, <2>3 DEF next, row, rows
  <1>32. CASE some # {} /\ ~known /\ spare
    <2>1. next = [taken EXCEPT !.facts = grown]
      BY <1>1, <1>32
    <2>2. /\ DOMAIN next = DOMAIN taken /\ next.facts = grown /\ next.seeds = taken.seeds
          /\ next.references = taken.references /\ next.overflow = taken.overflow
      BY <1>2, <2>1 DEF IndexOK
    <2>3. /\ DOMAIN next = DOMAIN index /\ next.seeds = index.seeds
          /\ next.references = index.references /\ next.overflow = index.overflow
      BY <1>2, <1>32, <2>2 DEF IndexOK
    <2>4. IndexOK(memory, next)
      BY <1>12, <2>3
    <2>. QED  BY <1>20, <1>22, <1>23, <2>2, <2>3, <2>4 DEF next, row, rows
  <1>33. CASE some # {} /\ ~known /\ ~spare
    <2>1. next = taken /\ next.overflow = index.overflow \cup some
      BY <1>1, <1>2, <1>33
    <2>2. row.key = query.key => i \in next.overflow
      BY <1>6, <1>22, <2>1
    <2>. QED  BY <1>2, <1>21, <1>22, <1>23, <2>1, <2>2 DEF next, row, rows
  <1>. QED  BY <1>30, <1>31, <1>32, <1>33

LEMMA PairFacts ==
  ASSUME NEW memory, NEW queries, NEW limits, NEW i \in Q!Active(queries, limits), NEW j,
         About(memory, queries[i], j)
  PROVE  i \in Q!PairQueries(queries, limits, memory.pairs[j])
  BY DEF About, Q!PairQueries, Q!KeyQueries, Q!SameText

\* A pair about a query is taken in, and its tokens later, or the query overflows.
LEMMA SeedStep ==
  ASSUME NEW memory, MemoryOK(memory), NEW queries, NEW limits, NEW i \in DOMAIN queries,
         NEW index, IndexOK(memory, index), NEW j \in DOMAIN memory.pairs,
         NEW n, n = Len(Q!KeyRows(memory)) + j,
         FoundFor(memory, queries, limits, i, index, n - 1)
  PROVE  LET next == Q!Seed(index, memory.pairs, queries, limits, j)
         IN IndexOK(memory, next) /\ FoundFor(memory, queries, limits, i, next, n)
  <1>. DEFINE R == Len(Q!KeyRows(memory))
              P == Len(memory.pairs)
              query == queries[i]
              some == Q!PairQueries(queries, limits, memory.pairs[j])
              taken == Q!Reserve(index, limits, some, 1)
              next == Q!Seed(index, memory.pairs, queries, limits, j)
              spare == Q!Spare(index, limits, 1)
  <1>1. next = IF some = {} THEN index
               ELSE IF spare THEN [taken EXCEPT !.seeds = @ \cup {j}] ELSE taken
    BY DEF Q!Seed
  <1>2. /\ IndexOK(memory, taken)
        /\ taken.facts = index.facts /\ taken.seeds = index.seeds
        /\ taken.references = index.references
        /\ taken.overflow = index.overflow \cup (IF spare THEN {} ELSE some)
    BY ReserveFacts
  <1>0. /\ R \in Nat /\ P \in Nat /\ DOMAIN memory.pairs = 1..P
        /\ DOMAIN Q!KeyRows(memory) = 1..R
    BY RowFacts
  <1>3. /\ n \in Nat \ {0} /\ n \notin DOMAIN Q!KeyRows(memory) /\ R \in Nat /\ P \in Nat
        /\ n = R + j /\ DOMAIN memory.pairs = 1..P
    BY <1>0
  <1>4. RowsOf(memory, query, n) = RowsOf(memory, query, n - 1)
    BY <1>3, RowsGrow
  <1>5. \/ i \in index.overflow
        \/ i \in Q!Active(queries, limits) /\ Found(memory, query, index, n - 1)
    BY DEF FoundFor
  <1>6. FoundFor(memory, queries, limits, i, next, n)
          <=> \/ i \in next.overflow
              \/ i \in Q!Active(queries, limits) /\ Found(memory, query, next, n)
    BY DEF FoundFor
  <1>7. i \in Q!Active(queries, limits) /\ About(memory, query, j) => i \in some
    BY PairFacts
  <1>8. \A k \in 1..P : /\ R + k <= n <=> R + k <= n - 1 \/ k = j
                        /\ ~(R + P + k <= n) /\ ~(R + P + k <= n - 1)
    BY SMTT(60), <1>3
  <1>. HIDE DEF R, P, query, some, taken, next, spare
  <1>9. ASSUME NEW x, x.facts = index.facts, x.references = index.references,
               \/ x.seeds = index.seeds \cup {j}
               \/ x.seeds = index.seeds /\ ~About(memory, query, j),
               Found(memory, query, index, n - 1)
        PROVE  Found(memory, query, x, n)
    <2>1. ASSUME NEW k \in DOMAIN memory.pairs, About(memory, query, k)
          PROVE  /\ k \in x.seeds <=> R + k <= n
                 /\ k \in x.references <=> R + P + k <= n
      <3>1. /\ k \in index.seeds <=> R + k <= n - 1
            /\ k \in index.references <=> R + P + k <= n - 1
        BY <1>9, <2>1 DEF Found, R, P
      <3>. QED  BY <1>3, <1>8, <1>9, <2>1, <3>1
    <2>. QED  BY <1>4, <1>9, <2>1 DEF Found, R, P
  <1>10. CASE some = {}
    <2>1. next = index
      BY <1>1, <1>10
    <2>. QED  BY <1>5, <1>6, <1>7, <1>9, <1>10, <2>1 DEF next
  <1>11. CASE some # {} /\ spare
    <2>1. next = [taken EXCEPT !.seeds = @ \cup {j}]
      BY <1>1, <1>11
    <2>2. /\ DOMAIN next = DOMAIN taken /\ next.facts = taken.facts
          /\ next.seeds = taken.seeds \cup {j}
          /\ next.references = taken.references /\ next.overflow = taken.overflow
      BY <1>2, <2>1 DEF IndexOK
    <2>3. IndexOK(memory, next)
      BY <1>2, <2>2 DEF IndexOK
    <2>. QED  BY <1>2, <1>5, <1>6, <1>9, <1>11, <2>2, <2>3 DEF next
  <1>12. CASE some # {} /\ ~spare
    <2>1. next = taken /\ next.overflow = index.overflow \cup some
      BY <1>1, <1>2, <1>12
    <2>. QED  BY <1>2, <1>5, <1>6, <1>7, <1>9, <2>1 DEF next
  <1>. QED  BY <1>10, <1>11, <1>12

LEMMA TokensStep ==
  ASSUME NEW memory, MemoryOK(memory), NEW queries, NEW limits, NEW i \in DOMAIN queries,
         NEW index, IndexOK(memory, index), NEW j \in DOMAIN memory.pairs,
         NEW n, n = Len(Q!KeyRows(memory)) + Len(memory.pairs) + j,
         FoundFor(memory, queries, limits, i, index, n - 1)
  PROVE  LET next == Q!Tokens(index, memory.pairs, queries, limits, j)
         IN IndexOK(memory, next) /\ FoundFor(memory, queries, limits, i, next, n)
  <1>. DEFINE R == Len(Q!KeyRows(memory))
              P == Len(memory.pairs)
              query == queries[i]
              some == Q!PairQueries(queries, limits, memory.pairs[j])
              count == memory.pairs[j].tokens
              taken == Q!Reserve(index, limits, some, count)
              next == Q!Tokens(index, memory.pairs, queries, limits, j)
              spare == Q!Spare(index, limits, count)
  <1>1. next = IF j \notin index.seeds THEN index
               ELSE IF spare THEN [taken EXCEPT !.references = @ \cup {j}] ELSE taken
    BY DEF Q!Tokens
  <1>2. /\ IndexOK(memory, taken)
        /\ taken.facts = index.facts /\ taken.seeds = index.seeds
        /\ taken.references = index.references
        /\ taken.overflow = index.overflow \cup (IF spare THEN {} ELSE some)
    BY ReserveFacts
  <1>0. /\ R \in Nat /\ P \in Nat /\ DOMAIN memory.pairs = 1..P
        /\ DOMAIN Q!KeyRows(memory) = 1..R
    BY RowFacts
  <1>3. /\ n \in Nat \ {0} /\ n \notin DOMAIN Q!KeyRows(memory) /\ R \in Nat /\ P \in Nat
        /\ n = R + P + j /\ DOMAIN memory.pairs = 1..P
    BY <1>0
  <1>4. RowsOf(memory, query, n) = RowsOf(memory, query, n - 1)
    BY <1>3, RowsGrow
  <1>5. \/ i \in index.overflow
        \/ i \in Q!Active(queries, limits) /\ Found(memory, query, index, n - 1)
    BY DEF FoundFor
  <1>6. FoundFor(memory, queries, limits, i, next, n)
          <=> \/ i \in next.overflow
              \/ i \in Q!Active(queries, limits) /\ Found(memory, query, next, n)
    BY DEF FoundFor
  <1>7. i \in Q!Active(queries, limits) /\ About(memory, query, j) => i \in some
    BY PairFacts
  <1>8. \A k \in 1..P : /\ R + k <= n /\ R + k <= n - 1
                        /\ R + P + k <= n <=> R + P + k <= n - 1 \/ k = j
    BY SMTT(60), <1>3
  <1>. HIDE DEF R, P, query, some, count, taken, next, spare
  <1>9. ASSUME NEW x, x.facts = index.facts, x.seeds = index.seeds,
               \/ x.references = index.references \cup {j}
               \/ x.references = index.references /\ ~About(memory, query, j),
               Found(memory, query, index, n - 1)
        PROVE  Found(memory, query, x, n)
    <2>1. ASSUME NEW k \in DOMAIN memory.pairs, About(memory, query, k)
          PROVE  /\ k \in x.seeds <=> R + k <= n
                 /\ k \in x.references <=> R + P + k <= n
      <3>1. /\ k \in index.seeds <=> R + k <= n - 1
            /\ k \in index.references <=> R + P + k <= n - 1
        BY <1>9, <2>1 DEF Found, R, P
      <3>. QED  BY <1>3, <1>8, <1>9, <2>1, <3>1
    <2>. QED  BY <1>4, <1>9, <2>1 DEF Found, R, P
  <1>10. CASE j \notin index.seeds
    <2>1. next = index
      BY <1>1, <1>10
    <2>2. Found(memory, query, index, n - 1) => ~About(memory, query, j)
      BY <1>3, <1>8, <1>10 DEF Found, R
    <2>. QED  BY <1>5, <1>6, <1>9, <2>1, <2>2 DEF next
  <1>11. CASE j \in index.seeds /\ spare
    <2>1. next = [taken EXCEPT !.references = @ \cup {j}]
      BY <1>1, <1>11
    <2>2. /\ DOMAIN next = DOMAIN taken /\ next.facts = taken.facts
          /\ next.references = taken.references \cup {j}
          /\ next.seeds = taken.seeds /\ next.overflow = taken.overflow
      BY <1>2, <2>1 DEF IndexOK
    <2>3. IndexOK(memory, next)
      BY <1>2, <2>2 DEF IndexOK
    <2>. QED  BY <1>2, <1>5, <1>6, <1>9, <1>11, <2>2, <2>3 DEF next
  <1>12. CASE j \in index.seeds /\ ~spare
    <2>1. next = taken /\ next.overflow = index.overflow \cup some
      BY <1>1, <1>2, <1>12
    <2>. QED  BY <1>2, <1>5, <1>6, <1>7, <1>9, <2>1 DEF next
  <1>. QED  BY <1>10, <1>11, <1>12

\* So it goes on from row to row, and nothing overflows without a limit.
LEMMA ScanStep ==
  ASSUME NEW memory, MemoryOK(memory), NEW queries, NEW limits, NEW i \in DOMAIN queries,
         NEW index, IndexOK(memory, index), NEW n \in 1..Q!ScanLength(memory),
         FoundFor(memory, queries, limits, i, index, n - 1)
  PROVE  LET next == Q!Scan(index, memory, queries, limits, n)
         IN IndexOK(memory, next) /\ FoundFor(memory, queries, limits, i, next, n)
  <1>. DEFINE R == Len(Q!KeyRows(memory))
              P == Len(memory.pairs)
  <1>1. /\ R \in Nat /\ P \in Nat /\ n \in 1..(R + 2 * P) /\ DOMAIN memory.pairs = 1..P
        /\ DOMAIN Q!KeyRows(memory) = 1..R
    BY RowFacts
  <1>2. Q!Scan(index, memory, queries, limits, n)
          = IF n <= R THEN Q!KeyFact(index, queries, limits, Q!KeyRows(memory)[n])
            ELSE IF n <= R + P THEN Q!Seed(index, memory.pairs, queries, limits, n - R)
            ELSE Q!Tokens(index, memory.pairs, queries, limits, n - R - P)
    BY DEF Q!Scan
  <1>3. CASE n <= R
    <2>1. n \in DOMAIN Q!KeyRows(memory)
      BY <1>1, <1>3
    <2>. QED  BY <1>2, <1>3, <2>1, KeyFactStep
  <1>4. CASE ~(n <= R) /\ n <= R + P
    <2>1. n - R \in DOMAIN memory.pairs /\ n = R + (n - R)
      BY <1>1, <1>4
    <2>. QED  BY <1>2, <1>4, <2>1, SeedStep
  <1>5. CASE ~(n <= R) /\ ~(n <= R + P)
    <2>1. n - R - P \in DOMAIN memory.pairs /\ n = R + P + (n - R - P)
      BY SMTT(60), <1>1, <1>5
    <2>. QED  BY <1>2, <1>5, <2>1, TokensStep
  <1>. QED  BY <1>3, <1>4, <1>5

LEMMA NothingLost ==
  ASSUME NEW memory, NEW queries, NEW limits, limits.units = NoLimit, NEW index,
         IndexOK(memory, index), NEW n
  PROVE  LET next == Q!Scan(index, memory, queries, limits, n)
         IN IndexOK(memory, next) => next.overflow = index.overflow
  <1>1. \A count : Q!Spare(index, limits, count)
    BY DEF Q!Spare
  <1>2. ASSUME NEW some, NEW count
        PROVE  LET taken == Q!Reserve(index, limits, some, count)
               IN IndexOK(memory, taken) /\ taken.overflow = index.overflow
    BY <1>1, ReserveFacts
  <1>3. ASSUME NEW row
        PROVE  Q!KeyFact(index, queries, limits, row).overflow = index.overflow
    BY <1>1, <1>2 DEF Q!KeyFact, IndexOK
  <1>4. ASSUME NEW j
        PROVE  /\ Q!Seed(index, memory.pairs, queries, limits, j).overflow = index.overflow
               /\ Q!Tokens(index, memory.pairs, queries, limits, j).overflow = index.overflow
    BY <1>1, <1>2 DEF Q!Seed, Q!Tokens, IndexOK
  <1>. QED  BY <1>3, <1>4 DEF Q!Scan

\* What the finished index holds of a query.
LEMMA IndexFacts ==
  ASSUME NEW memory, MemoryOK(memory), NEW queries, NEW limits, NEW i \in DOMAIN queries
  PROVE  LET index == Q!Index(memory, queries, limits)
         IN /\ IndexOK(memory, index)
            /\ FoundFor(memory, queries, limits, i, index, Q!ScanLength(memory))
            /\ Unlimited(limits) => index.overflow = {}
  <1>. DEFINE L == Q!ScanLength(memory)
              Holds(x, n) == /\ IndexOK(memory, x)
                             /\ FoundFor(memory, queries, limits, i, x, n)
                             /\ Unlimited(limits) => x.overflow = {}
  <1>0. L \in Nat
    BY RowFacts
  <1>1. PICK after : /\ Scans(memory, queries, limits, after)
                     /\ Q!Index(memory, queries, limits) = after[L]
    BY IndexIsScan
  <1>2. /\ after[0] = Q!Empty(queries, limits)
        /\ \A n \in 1..L : after[n] = Q!Scan(after[n - 1], memory, queries, limits, n)
    BY <1>0, <1>1 DEF Scans
  <1>3. Holds(Q!Empty(queries, limits), 0)
    <2>. DEFINE x == Q!Empty(queries, limits)
    <2>1. /\ DOMAIN x = {"units", "facts", "seeds", "references", "overflow"}
          /\ x.seeds = {} /\ x.references = {} /\ DOMAIN x.facts = {}
          /\ x.overflow = DOMAIN queries \ Q!Active(queries, limits)
      BY DEF Q!Empty
    <2>2. RowsOf(memory, queries[i], 0) = {}
      BY RowFacts DEF RowsOf
    <2>3. \A j \in DOMAIN memory.pairs :
            /\ ~(Len(Q!KeyRows(memory)) + j <= 0)
            /\ ~(Len(Q!KeyRows(memory)) + Len(memory.pairs) + j <= 0)
      <3>1. /\ Len(Q!KeyRows(memory)) \in Nat /\ Len(memory.pairs) \in Nat
            /\ DOMAIN memory.pairs = 1..Len(memory.pairs)
        BY RowFacts
      <3>. QED  BY <3>1
    <2>. HIDE DEF x
    <2>4. Found(memory, queries[i], x, 0)
      BY <2>1, <2>2, <2>3 DEF Found
    <2>5. IndexOK(memory, x)
      BY <2>1 DEF IndexOK
    <2>6. Unlimited(limits) => x.overflow = {}
      BY <2>1 DEF Unlimited, Q!Active, Q!Above
    <2>. QED  BY <2>1, <2>4, <2>5, <2>6 DEF FoundFor, x
  <1>4. ASSUME NEW n \in 1..L, Holds(after[n - 1], n - 1)
        PROVE  Holds(after[n], n)
    <2>1. /\ IndexOK(memory, after[n]) /\ FoundFor(memory, queries, limits, i, after[n], n)
      BY <1>2, <1>4, ScanStep
    <2>2. Unlimited(limits) => after[n].overflow = {}
      BY <1>2, <1>4, <2>1, NothingLost DEF Unlimited
    <2>. QED  BY <2>1, <2>2
  <1>. DEFINE T == {n \in 0..L : ~Holds(after[n], n)}
  <1>. HIDE DEF Holds, L
  <1>5. ASSUME T # {} PROVE FALSE
    <2>1. T \in SUBSET Nat
      OBVIOUS
    <2>2. PICK k \in T : \A n \in T : k <= n
      <3>. HIDE DEF T
      <3>. QED  BY <1>5, <2>1, LeastIn
    <2>3. k # 0 /\ k \in 0..L /\ ~Holds(after[k], k)
      BY <1>2, <1>3
    <2>4. k - 1 \in 0..L /\ k - 1 \notin T /\ k \in 1..L
      <3>. HIDE DEF T
      <3>. QED  BY <1>0, <2>1, <2>2, <2>3
    <2>5. Holds(after[k - 1], k - 1)
      BY <2>4
    <2>. QED  BY <1>4, <2>3, <2>4, <2>5
  <1>6. Holds(after[L], L)
    BY <1>0, <1>5
  <1>. QED  BY <1>1, <1>6 DEF Holds, L

\* In particular of its key and of its pairs: every row of them.
Known(memory, query, index) ==
  /\ query.key \in DOMAIN index.facts
       <=> \E m \in DOMAIN Q!KeyRows(memory) : Q!KeyRows(memory)[m].key = query.key
  /\ query.key \in DOMAIN index.facts =>
       /\ index.facts[query.key].quarantined
            <=> \E m \in DOMAIN Q!KeyRows(memory) :
                  Q!KeyRows(memory)[m].key = query.key /\ ~Q!KeyRows(memory)[m].strict
       /\ index.facts[query.key].alias
            <=> \E m \in DOMAIN Q!KeyRows(memory) :
                  Q!KeyRows(memory)[m].key = query.key /\ Q!KeyRows(memory)[m].alias
  /\ {j \in index.references : About(memory, query, j)}
       = {j \in DOMAIN memory.pairs : About(memory, query, j)}

LEMMA IndexIsKnown ==
  ASSUME NEW memory, MemoryOK(memory), NEW queries, NEW limits, NEW i \in DOMAIN queries
  PROVE  LET index == Q!Index(memory, queries, limits)
         IN /\ i \in index.overflow \/ Known(memory, queries[i], index)
            /\ Unlimited(limits) => index.overflow = {}
  <1>. DEFINE index == Q!Index(memory, queries, limits)
              L == Q!ScanLength(memory)
              query == queries[i]
              rows == Q!KeyRows(memory)
  <1>1. /\ IndexOK(memory, index)
        /\ i \in index.overflow \/ Found(memory, query, index, L)
        /\ Unlimited(limits) => index.overflow = {}
    BY IndexFacts DEF FoundFor
  <1>2. /\ Len(rows) \in Nat /\ DOMAIN rows = 1..Len(rows) /\ Len(memory.pairs) \in Nat
        /\ DOMAIN memory.pairs = 1..Len(memory.pairs)
        /\ L = Len(rows) + 2 * Len(memory.pairs)
    BY RowFacts
  <1>. HIDE DEF index, query, rows, L
  <1>3. \A m \in DOMAIN rows : m <= L
    BY <1>2
  <1>4. RowsOf(memory, query, L) = {m \in DOMAIN rows : rows[m].key = query.key}
    BY <1>3 DEF RowsOf, rows
  <1>5. \A j \in DOMAIN memory.pairs : Len(rows) + Len(memory.pairs) + j <= L
    BY <1>2
  <1>6. ASSUME Found(memory, query, index, L) PROVE Known(memory, query, index)
    <2>1. \A j \in DOMAIN memory.pairs : About(memory, query, j) => j \in index.references
      BY <1>5, <1>6 DEF Found, rows
    <2>2. index.references \subseteq DOMAIN memory.pairs
      BY <1>1 DEF IndexOK
    <2>. QED  BY <1>4, <1>6, <2>1, <2>2 DEF Found, Known, rows
  <1>. QED  BY <1>1, <1>6 DEF index, query

----------------------------------------------------------------------------
\* A query is answered from what is known of it, so from an index with a budget as
\* from any other index that knows as much, unless the budget is spent.
Spent == Q!Terminal("excluded_candidate_overflow")

LEMMA SameAnswer ==
  ASSUME NEW memory, NEW query, NEW limits, NEW few, NEW all,
         Known(memory, query, few), Known(memory, query, all)
  PROVE  LET pairs == memory.pairs
             answer(index, budget) ==
               IF query.key \in DOMAIN index.facts THEN Q!ByKey(index, pairs, query, budget)
               ELSE Q!ByText(index, pairs, query, budget)
         IN answer(few, limits) \in {Spent, answer(all, Q!NoBudget)}
  <1>. DEFINE pairs == memory.pairs
              OwnOf(index) == {j \in index.references : pairs[j].key = query.key}
              Usable(own) == {j \in own : /\ Q!SameText(pairs[j], query)
                                          /\ Q!Compatible(query, pairs[j])}
              Same(index) == {j \in index.references : Q!SameText(pairs[j], query)}
  <1>1. OwnOf(few) = OwnOf(all) /\ Same(few) = Same(all)
    <2>1. {j \in few.references : About(memory, query, j)}
            = {j \in all.references : About(memory, query, j)}
      BY DEF Known
    <2>2. ASSUME NEW j, About(memory, query, j)
          PROVE  j \in few.references <=> j \in all.references
      BY <2>1, <2>2
    <2>3. \A j : pairs[j].key = query.key \/ Q!SameText(pairs[j], query) => About(memory, query, j)
      BY DEF About
    <2>. QED  BY <2>2, <2>3
  <1>2. /\ query.key \in DOMAIN few.facts <=> query.key \in DOMAIN all.facts
        /\ query.key \in DOMAIN few.facts =>
             /\ few.facts[query.key].quarantined <=> all.facts[query.key].quarantined
             /\ few.facts[query.key].alias <=> all.facts[query.key].alias
    BY DEF Known
  <1>3. /\ Q!NoBudget.examined = NoLimit /\ Q!NoBudget.returned = 1
        /\ \A n : ~Q!Above(n, Q!NoBudget.examined)
    BY DEF Q!NoBudget, Q!Above
  <1>4. ASSUME NEW status, NEW pair
        PROVE  Q!Returned(status, pair, limits)
                 \in {Spent, Q!Returned(status, pair, Q!NoBudget)}
    <2>1. ~(1 > Q!NoBudget.returned)
      BY <1>3
    <2>. QED  BY <2>1 DEF Q!Returned, Spent
  <1>5. ASSUME query.key \in DOMAIN few.facts
        PROVE  Q!ByKey(few, pairs, query, limits)
                 \in {Spent, Q!ByKey(all, pairs, query, Q!NoBudget)}
    <2>. DEFINE own == OwnOf(few)  usable == Usable(own)
                best == pairs[Q!Ranked(query, pairs, usable)]
                Key(index, budget) ==
                  IF index.facts[query.key].quarantined
                  THEN Q!Terminal("excluded_quarantined_key")
                  ELSE IF index.facts[query.key].alias THEN Q!Terminal("excluded_key_alias")
                  ELSE IF Q!Above(Q!Cardinality(own), budget.examined) THEN Spent
                  ELSE IF usable = {} THEN Q!Terminal("excluded_key_conflict")
                  ELSE Q!Returned("exact_key_context", best, budget)
    <2>1. Q!ByKey(few, pairs, query, limits) = Key(few, limits)
      BY DEF Q!ByKey, Spent
    <2>2. Q!ByKey(all, pairs, query, Q!NoBudget) = Key(all, Q!NoBudget)
      <3>1. OwnOf(all) = own
        BY <1>1
      <3>. QED  BY <3>1 DEF Q!ByKey, Spent
    <2>. HIDE DEF own, usable, best
    <2>3. Q!Returned("exact_key_context", best, limits)
            \in {Spent, Q!Returned("exact_key_context", best, Q!NoBudget)}
      BY <1>4
    <2>. QED  BY <1>2, <1>3, <1>5, <2>1, <2>2, <2>3
  <1>6. Q!ByText(few, pairs, query, limits)
          \in {Spent, Q!ByText(all, pairs, query, Q!NoBudget)}
    <2>. DEFINE same == Same(few)
                first == pairs[Q!Ranked(query, pairs, same)]
                Text(budget) ==
                  IF same = {} THEN Q!Terminal("no_match")
                  ELSE IF Q!Above(Q!Cardinality(same), budget.examined) THEN Spent
                  ELSE IF \E j \in same : pairs[j].alias THEN Q!Terminal("excluded_key_alias")
                  ELSE IF \/ \E j \in same : pairs[j].ambiguous
                          \/ \E j, k \in same : pairs[j].russian # pairs[k].russian
                  THEN Q!Terminal("excluded_ambiguous_text")
                  ELSE IF ~Q!Compatible(query, first) THEN Q!Terminal("no_match")
                  ELSE Q!Returned("exact_text_consensus", first, budget)
    <2>1. Q!ByText(few, pairs, query, limits) = Text(limits)
      BY DEF Q!ByText, Spent
    <2>2. Q!ByText(all, pairs, query, Q!NoBudget) = Text(Q!NoBudget)
      <3>1. Same(all) = same
        BY <1>1
      <3>. QED  BY <3>1 DEF Q!ByText, Spent
    <2>. HIDE DEF same, first
    <2>3. Q!Returned("exact_text_consensus", first, limits)
            \in {Spent, Q!Returned("exact_text_consensus", first, Q!NoBudget)}
      BY <1>4
    <2>. QED  BY <1>3, <2>1, <2>2, <2>3
  <1>. HIDE DEF pairs
  <1>. QED  BY <1>2, <1>5, <1>6 DEF pairs

\* The answer a batch gives is the answer the query gets alone, or none.
LEMMA AnswerOrNone ==
  ASSUME NEW memory, MemoryOK(memory), NEW queries, NEW limits, NEW i \in DOMAIN queries
  PROVE  Q!RetrieveBatch(memory, queries, limits)[i]
           \in {Spent, Q!Reference(memory, queries[i])}
  <1>. DEFINE query == queries[i]
              one == <<query>>
              few == Q!Index(memory, queries, limits)
              all == Q!Index(memory, one, Q!NoBudget)
              answer(index, budget) ==
                IF query.key \in DOMAIN index.facts
                THEN Q!ByKey(index, memory.pairs, query, budget)
                ELSE Q!ByText(index, memory.pairs, query, budget)
  <1>1. 1 \in DOMAIN one /\ one[1] = query
    OBVIOUS
  <1>2. Known(memory, query, all) /\ all.overflow = {}
    <2>. HIDE DEF one, query
    <2>1. Unlimited(Q!NoBudget)
      BY DEF Q!NoBudget, Unlimited
    <2>2. /\ 1 \in all.overflow \/ Known(memory, one[1], all)
          /\ Unlimited(Q!NoBudget) => all.overflow = {}
      BY <1>1, IndexIsKnown
    <2>. QED  BY <1>1, <2>1, <2>2
  <1>3. i \in few.overflow \/ Known(memory, query, few)
    BY IndexIsKnown
  <1>. HIDE DEF few, all
  <1>4. Q!Reference(memory, query) = answer(all, Q!NoBudget)
    <2>1. Q!Reference(memory, query) = Q!Retrieve(all, memory.pairs, one, 1, Q!NoBudget)
      BY <1>1 DEF Q!Reference, Q!RetrieveBatch, all
    <2>. HIDE DEF one
    <2>. QED  BY <1>1, <1>2, <2>1 DEF Q!Retrieve
  <1>5. Q!RetrieveBatch(memory, queries, limits)[i]
          = IF i \in few.overflow THEN Spent ELSE answer(few, limits)
    BY DEF Q!RetrieveBatch, Q!Retrieve, few, Spent
  <1>. HIDE DEF query
  <1>6. i \notin few.overflow => answer(few, limits) \in {Spent, answer(all, Q!NoBudget)}
    BY <1>2, <1>3, SameAnswer
  <1>. HIDE DEF answer
  <1>. QED  BY <1>4, <1>5, <1>6 DEF query

----------------------------------------------------------------------------
\* A candidate is one of those found for the query.
LEMMA RankedIn ==
  ASSUME NEW query, NEW pairs, NEW some \in SUBSET Nat, some # {}
  PROVE  Q!Ranked(query, pairs, some) \in some
  <1>. DEFINE near == {j \in some : pairs[j].path = query.path}
              from == IF near = {} THEN some ELSE near
  <1>1. from \in SUBSET Nat /\ from # {} /\ from \subseteq some
    OBVIOUS
  <1>. HIDE DEF from
  <1>2. Q!Min(from) \in from
    BY <1>1, LeastIn DEF Q!Min
  <1>. QED  BY <1>1, <1>2 DEF Q!Ranked, from

\* What a returned reference is to the query.
Exact(memory, query, answer, c) ==
  /\ Q!SameText(c, query)
  /\ Q!Protected(c.russian) = Q!Protected(query.text)
  /\ \A r \in Q!ToSet(memory.rows) : r.key = query.key => r.strict /\ ~r.alias
  /\ query.key \notin Q!ToSet(memory.occupied)
  /\ answer.status = "exact_text_consensus" =>
       \A p \in Q!ToSet(memory.pairs) : Q!SameText(p, query) => p.russian = c.russian

\* A key of which no row is quarantined or an alias is in no table of the memory.
LEMMA NoRowAgainst ==
  ASSUME NEW memory, MemoryOK(memory), NEW query,
         \A m \in DOMAIN Q!KeyRows(memory) : Q!KeyRows(memory)[m].key = query.key =>
           Q!KeyRows(memory)[m].strict /\ ~Q!KeyRows(memory)[m].alias
  PROVE  /\ \A r \in Q!ToSet(memory.rows) : r.key = query.key => r.strict /\ ~r.alias
         /\ query.key \notin Q!ToSet(memory.occupied)
  <1>. DEFINE rows == Q!KeyRows(memory)
  <1>1. /\ \A i \in DOMAIN memory.rows : i \in DOMAIN rows /\ rows[i] = memory.rows[i]
        /\ \A i \in DOMAIN memory.occupied :
             /\ Len(memory.rows) + i \in DOMAIN rows
             /\ rows[Len(memory.rows) + i]
                  = [key |-> memory.occupied[i], strict |-> FALSE, alias |-> FALSE]
    BY RowFacts
  <1>. HIDE DEF rows
  <1>2. \A m \in DOMAIN rows : rows[m].key = query.key => rows[m].strict /\ ~rows[m].alias
    BY DEF rows
  <1>3. \A r \in Q!ToSet(memory.rows) : r.key = query.key => r.strict /\ ~r.alias
    BY <1>1, <1>2 DEF Q!ToSet
  <1>4. ASSUME NEW i \in DOMAIN memory.occupied PROVE query.key # memory.occupied[i]
    <2>. DEFINE m == Len(memory.rows) + i
                taken == [key |-> memory.occupied[i], strict |-> FALSE, alias |-> FALSE]
    <2>1. m \in DOMAIN rows /\ rows[m] = taken
      BY <1>1, Zenon
    <2>2. taken.key = memory.occupied[i] /\ ~taken.strict
      OBVIOUS
    <2>. HIDE DEF m, taken
    <2>. QED  BY <1>2, <2>1, <2>2
  <1>5. query.key \notin Q!ToSet(memory.occupied)
    BY <1>4 DEF Q!ToSet
  <1>. QED  BY <1>3, <1>5

LEMMA KeyIsExact ==
  ASSUME NEW memory, MemoryOK(memory), Q!StrictPairs(memory), NEW query, NEW limits,
         NEW index, IndexOK(memory, index), Known(memory, query, index),
         query.key \in DOMAIN index.facts
  PROVE  LET answer == Q!ByKey(index, memory.pairs, query, limits)
         IN \A c \in Q!ToSet(answer.candidates) : Exact(memory, query, answer, c)
  <1>. DEFINE pairs == memory.pairs
              fact == index.facts[query.key]
              own == {j \in index.references : pairs[j].key = query.key}
              usable == {j \in own : Q!SameText(pairs[j], query) /\ Q!Compatible(query, pairs[j])}
              best == Q!Ranked(query, pairs, usable)
              answer == Q!ByKey(index, pairs, query, limits)
  <1>0. \A status : Q!Terminal(status).candidates = <<>> /\ Q!ToSet(<<>>) = {}
    BY DEF Q!Terminal, Q!ToSet
  <1>1. answer = IF fact.quarantined THEN Q!Terminal("excluded_quarantined_key")
                 ELSE IF fact.alias THEN Q!Terminal("excluded_key_alias")
                 ELSE IF Q!Above(Q!Cardinality(own), limits.examined) THEN Spent
                 ELSE IF usable = {} THEN Q!Terminal("excluded_key_conflict")
                 ELSE Q!Returned("exact_key_context", pairs[best], limits)
    BY DEF Q!ByKey, Spent
  <1>2. usable \in SUBSET DOMAIN pairs /\ \A j \in usable : Q!SameText(pairs[j], query)
    BY DEF IndexOK
  <1>3. DOMAIN pairs \subseteq Nat
    <2>1. Len(pairs) \in Nat /\ DOMAIN pairs = 1..Len(pairs)
      BY DEF MemoryOK, IsSeq
    <2>. QED  BY <2>1
  <1>4. usable # {} => best \in usable
    <2>. HIDE DEF usable
    <2>. QED  BY <1>2, <1>3, RankedIn
  <1>5. ~fact.quarantined /\ ~fact.alias =>
          \A m \in DOMAIN Q!KeyRows(memory) : Q!KeyRows(memory)[m].key = query.key =>
            Q!KeyRows(memory)[m].strict /\ ~Q!KeyRows(memory)[m].alias
    BY DEF Known
  <1>. HIDE DEF answer, own, usable, best, fact
  <1>. SUFFICES ASSUME NEW c \in Q!ToSet(answer.candidates)
                PROVE  Exact(memory, query, answer, c)
    BY DEF answer
  <1>6. /\ ~fact.quarantined /\ ~fact.alias /\ usable # {}
        /\ answer = Q!Returned("exact_key_context", pairs[best], limits)
    BY <1>0, <1>1 DEF Spent
  <1>7. answer = [status |-> "exact_key_context", candidates |-> <<pairs[best]>>]
    BY <1>0, <1>6 DEF Q!Returned
  <1>8. c = pairs[best] /\ answer.status = "exact_key_context"
    BY <1>7 DEF Q!ToSet
  <1>9. Q!SameText(c, query) /\ Q!Protected(c.russian) = Q!Protected(query.text)
    BY <1>2, <1>4, <1>6, <1>8 DEF Q!StrictPairs, Q!SameText
  <1>. QED  BY <1>5, <1>6, <1>8, <1>9, NoRowAgainst DEF Exact

LEMMA TextIsExact ==
  ASSUME NEW memory, MemoryOK(memory), Q!StrictPairs(memory), NEW query, NEW limits,
         NEW index, IndexOK(memory, index), Known(memory, query, index),
         query.key \notin DOMAIN index.facts
  PROVE  LET answer == Q!ByText(index, memory.pairs, query, limits)
         IN \A c \in Q!ToSet(answer.candidates) : Exact(memory, query, answer, c)
  <1>. DEFINE pairs == memory.pairs
              same == {j \in index.references : Q!SameText(pairs[j], query)}
              first == Q!Ranked(query, pairs, same)
              answer == Q!ByText(index, pairs, query, limits)
              divided == \E j, k \in same : pairs[j].russian # pairs[k].russian
  <1>0. \A status : Q!Terminal(status).candidates = <<>> /\ Q!ToSet(<<>>) = {}
    BY DEF Q!Terminal, Q!ToSet
  <1>1. answer = IF same = {} THEN Q!Terminal("no_match")
                 ELSE IF Q!Above(Q!Cardinality(same), limits.examined) THEN Spent
                 ELSE IF \E j \in same : pairs[j].alias THEN Q!Terminal("excluded_key_alias")
                 ELSE IF (\E j \in same : pairs[j].ambiguous) \/ divided
                 THEN Q!Terminal("excluded_ambiguous_text")
                 ELSE IF ~Q!Compatible(query, pairs[first]) THEN Q!Terminal("no_match")
                 ELSE Q!Returned("exact_text_consensus", pairs[first], limits)
    BY DEF Q!ByText, Spent
  <1>2. same \in SUBSET DOMAIN pairs /\ \A j \in same : Q!SameText(pairs[j], query)
    BY DEF IndexOK
  <1>3. DOMAIN pairs \subseteq Nat
    <2>1. Len(pairs) \in Nat /\ DOMAIN pairs = 1..Len(pairs)
      BY DEF MemoryOK, IsSeq
    <2>. QED  BY <2>1
  <1>4. \A j \in DOMAIN pairs : Q!SameText(pairs[j], query) => j \in same
    <2>1. {j \in index.references : About(memory, query, j)}
            = {j \in DOMAIN pairs : About(memory, query, j)}
      BY DEF Known
    <2>2. \A j : Q!SameText(pairs[j], query) => About(memory, query, j)
      BY DEF About
    <2>. QED  BY <2>1, <2>2
  <1>5. ~divided => \A j, k \in same : pairs[j].russian = pairs[k].russian
    OBVIOUS
  <1>6. \A m \in DOMAIN Q!KeyRows(memory) : Q!KeyRows(memory)[m].key # query.key
    BY DEF Known
  <1>. HIDE DEF same
  <1>7. same # {} => first \in same
    BY <1>2, <1>3, RankedIn
  <1>. HIDE DEF answer, first, divided
  <1>. SUFFICES ASSUME NEW c \in Q!ToSet(answer.candidates)
                PROVE  Exact(memory, query, answer, c)
    BY DEF answer
  <1>8. /\ same # {} /\ ~divided
        /\ answer = Q!Returned("exact_text_consensus", pairs[first], limits)
    BY <1>0, <1>1 DEF Spent
  <1>9. answer = [status |-> "exact_text_consensus", candidates |-> <<pairs[first]>>]
    BY <1>0, <1>8 DEF Q!Returned
  <1>10. c = pairs[first]
    BY <1>9 DEF Q!ToSet
  <1>11. Q!SameText(c, query) /\ Q!Protected(c.russian) = Q!Protected(query.text)
    BY <1>2, <1>7, <1>8, <1>10 DEF Q!StrictPairs, Q!SameText
  <1>12. \A p \in Q!ToSet(pairs) : Q!SameText(p, query) => p.russian = c.russian
    BY <1>4, <1>5, <1>7, <1>8, <1>10 DEF Q!ToSet
  <1>. QED  BY <1>6, <1>11, <1>12, NoRowAgainst DEF Exact

\* Retrieval is exact: whatever the memory, the queries asked of it together and the
\* budget they share, a query is answered as it would be alone and without a budget,
\* or abstains because the budget is spent; and every reference that is returned is an
\* answer to this very query: its English text, suffix and tokens, a key in no
\* quarantine and no alias, and one Russian for the text when only the text agrees.
\* (retrieve_exact_context_v1, _extract_batch_index, _retrieve_one)
THEOREM RetrievalIsExact ==
  ASSUME NEW memory, MemoryOK(memory), Q!StrictPairs(memory), NEW queries, NEW limits
  PROVE  LET results == Q!RetrieveBatch(memory, queries, limits)
         IN /\ Q!BudgetOnlyAbstains(memory, queries, results)
            /\ Q!ReturnedIsExact(memory, queries, results)
  <1>. DEFINE results == Q!RetrieveBatch(memory, queries, limits)
              index == Q!Index(memory, queries, limits)
  <1>1. Spent.status = "excluded_candidate_overflow" /\ Q!ToSet(Spent.candidates) = {}
    BY DEF Spent, Q!Terminal, Q!ToSet
  <1>2. Q!BudgetOnlyAbstains(memory, queries, results)
    <2>1. \A i \in DOMAIN queries : results[i] \in {Spent, Q!Reference(memory, queries[i])}
      BY AnswerOrNone
    <2>. HIDE DEF results
    <2>. QED  BY <1>1, <2>1 DEF Q!BudgetOnlyAbstains
  <1>3. ASSUME NEW i \in DOMAIN queries, NEW c \in Q!ToSet(results[i].candidates)
        PROVE  Exact(memory, queries[i], results[i], c)
    <2>1. results[i]
            = IF i \in index.overflow THEN Spent
              ELSE IF queries[i].key \in DOMAIN index.facts
              THEN Q!ByKey(index, memory.pairs, queries[i], limits)
              ELSE Q!ByText(index, memory.pairs, queries[i], limits)
      BY DEF Q!RetrieveBatch, Q!Retrieve, Spent
    <2>2. IndexOK(memory, index) /\ (i \in index.overflow \/ Known(memory, queries[i], index))
      BY IndexFacts, IndexIsKnown
    <2>. HIDE DEF results, index
    <2>3. i \notin index.overflow
      BY <1>1, <1>3, <2>1
    <2>. QED  BY <1>3, <2>1, <2>2, <2>3, KeyIsExact, TextIsExact
  <1>4. Q!ReturnedIsExact(memory, queries, results)
    <2>. HIDE DEF results
    <2>. QED  BY <1>3 DEF Q!ReturnedIsExact, Exact
  <1>. QED  BY <1>2, <1>4
================================================================================
