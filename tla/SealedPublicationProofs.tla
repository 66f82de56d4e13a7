------------------------ MODULE SealedPublicationProofs ------------------------
(***************************************************************************)
(* Why a published directory is made from one moment of the disk, for any  *)
(* number of texts, commands at a time, invocations and writes by others.  *)
(*                                                                         *)
(* MadeFromOneMoment is not inductive: it needs what an invocation may rely*)
(* on before it publishes.  Good says it.  A stamp is never used twice, so *)
(* a part whose stamp is still the one that was read has not been written  *)
(* since, and was the same when the last part was read (Kept).  The first  *)
(* verification turns this, part by part, into a fact about the past that  *)
(* no later write can undo (Settled), and it comes before any publication. *)
(*                                                                         *)
(* OneLineage needs the checks between parts.  A delivered report binds    *)
(* the texts it names (Genuine), the parts of a command in progress have   *)
(* passed its checks together (Vouched), and so its product is tied to     *)
(* what the first command made (Chained).                                  *)
(***************************************************************************)
EXTENDS SealedPublication, TLAPS

\* The first stage in which a command verifies its inputs.
FirstVerify(c) == IF c = "translate" THEN 2 ELSE 3

\* The stages of a command: parts are read in the first one only, and one in
\* which all parts are verified comes before the product is delivered.
StagesFit(c) ==
  /\ Len(Stages[c]) \in Nat
  /\ Stages[c][1] = "read"
  /\ FirstVerify(c) \in 2..Len(Stages[c])
  /\ Stages[c][FirstVerify(c)] = "verify"
  /\ \A i \in 1..Len(Stages[c]) :
       /\ Stages[c][i] = "read" => i = 1
       /\ Stages[c][i] = "verify" => i >= FirstVerify(c)
       /\ Stages[c][i] \in {"publish", "answer"} => i > FirstVerify(c)

\* Every part that a command reads is among those it verifies.
AllVerified(c) ==
  \A i \in 1..Len(Reads[c]) :
    \E j \in 1..Len(Verifies[c]) : Verifies[c][j] = Reads[c][i]

LEMMA CommandNames ==
  Commands = {"translate", "review", "apply", "package", "consolidate",
              "coverage", "compare"}
  BY DEF Commands, Script

LEMMA Intervals ==
  /\ 1..2 = {1, 2} /\ 1..3 = {1, 2, 3} /\ 1..4 = {1, 2, 3, 4}
  /\ 1..5 = {1, 2, 3, 4, 5} /\ 1..7 = {1, 2, 3, 4, 5, 6, 7}
  /\ 1..9 = {1, 2, 3, 4, 5, 6, 7, 8, 9}
  OBVIOUS

\* Every command keeps to both.
LEMMA Plan ==
  ASSUME NEW c \in Commands
  PROVE  /\ StagesFit(c) /\ AllVerified(c)
         /\ Len(Reads[c]) \in Nat \ {0} /\ Len(Verifies[c]) \in Nat \ {0}
         /\ DOMAIN Reads[c] = 1..Len(Reads[c])
  <1>1. CASE c = "translate"
    <2>1. /\ Stages[c] = Translate.stages /\ Reads[c] = Translate.reads
          /\ Verifies[c] = Translate.verifies
      BY <1>1 DEF Stages, Reads, Verifies, Script
    <2>2. Stages[c] = <<"read", "verify", "verify", "verify", "publish">>
      BY <2>1 DEF Translate
    <2>3. Len(Translate.reads) = 2 /\ Len(Translate.verifies) = 2
      BY DEF Translate
    <2>4. DOMAIN Translate.reads = 1..2
      BY DEF Translate
    <2>5. FirstVerify(c) = 2
      BY <1>1 DEF FirstVerify
    <2>6. StagesFit(c)
      BY <2>2, <2>5 DEF StagesFit
    <2>7. /\ Translate.verifies[1] = Translate.reads[1]
          /\ Translate.verifies[2] = Translate.reads[2]
      BY DEF Translate
    <2>8. \A i \in 1..2 : \E j \in 1..2 :
            Translate.verifies[j] = Translate.reads[i]
      BY ONLY <2>7, Intervals, Zenon
    <2>9. AllVerified(c)
      BY <2>1, <2>3, <2>8 DEF AllVerified
    <2>. QED  BY <2>1, <2>3, <2>4, <2>6, <2>9
  <1>2. CASE c = "review"
    <2>1. /\ Stages[c] = Review.stages /\ Reads[c] = Review.reads
          /\ Verifies[c] = Review.verifies
      BY <1>2 DEF Stages, Reads, Verifies, Script
    <2>2. Stages[c] = <<"read", "check", "verify", "publish">>
      BY <2>1 DEF Review
    <2>3. Len(Review.reads) = 4 /\ Len(Review.verifies) = 4
      BY DEF Review
    <2>4. DOMAIN Review.reads = 1..4
      BY DEF Review
    <2>5. FirstVerify(c) = 3
      BY <1>2 DEF FirstVerify
    <2>6. StagesFit(c)
      BY <2>2, <2>5 DEF StagesFit
    <2>7. /\ Review.verifies[4] = Review.reads[1]
          /\ Review.verifies[1] = Review.reads[2]
          /\ Review.verifies[2] = Review.reads[3]
          /\ Review.verifies[3] = Review.reads[4]
      BY DEF Review
    <2>8. \A i \in 1..4 : \E j \in 1..4 :
            Review.verifies[j] = Review.reads[i]
      BY ONLY <2>7, Intervals, Zenon
    <2>9. AllVerified(c)
      BY <2>1, <2>3, <2>8 DEF AllVerified
    <2>. QED  BY <2>1, <2>3, <2>4, <2>6, <2>9
  <1>3. CASE c = "apply"
    <2>1. /\ Stages[c] = Apply.stages /\ Reads[c] = Apply.reads
          /\ Verifies[c] = Apply.verifies
      BY <1>3 DEF Stages, Reads, Verifies, Script
    <2>2. Stages[c] = <<"read", "check", "verify", "verify", "verify",
                        "publish">>
      BY <2>1 DEF Apply
    <2>3. Len(Apply.reads) = 5 /\ Len(Apply.verifies) = 5
      BY DEF Apply
    <2>4. DOMAIN Apply.reads = 1..5
      BY DEF Apply
    <2>5. FirstVerify(c) = 3
      BY <1>3 DEF FirstVerify
    <2>6. StagesFit(c)
      BY <2>2, <2>5 DEF StagesFit
    <2>7. /\ Apply.verifies[4] = Apply.reads[1]
          /\ Apply.verifies[1] = Apply.reads[2]
          /\ Apply.verifies[2] = Apply.reads[3]
          /\ Apply.verifies[3] = Apply.reads[4]
          /\ Apply.verifies[5] = Apply.reads[5]
      BY DEF Apply
    <2>8. \A i \in 1..5 : \E j \in 1..5 :
            Apply.verifies[j] = Apply.reads[i]
      BY ONLY <2>7, Intervals, Zenon
    <2>9. AllVerified(c)
      BY <2>1, <2>3, <2>8 DEF AllVerified
    <2>. QED  BY <2>1, <2>3, <2>4, <2>6, <2>9
  <1>4. CASE c = "package"
    <2>1. /\ Stages[c] = Package.stages /\ Reads[c] = Package.reads
          /\ Verifies[c] = Package.verifies
      BY <1>4 DEF Stages, Reads, Verifies, Script
    <2>2. Stages[c] = <<"read", "check", "verify", "publish">>
      BY <2>1 DEF Package
    <2>3. Len(Package.reads) = 2 /\ Len(Package.verifies) = 2
      BY DEF Package
    <2>4. DOMAIN Package.reads = 1..2
      BY DEF Package
    <2>5. FirstVerify(c) = 3
      BY <1>4 DEF FirstVerify
    <2>6. StagesFit(c)
      BY <2>2, <2>5 DEF StagesFit
    <2>7. /\ Package.verifies[1] = Package.reads[1]
          /\ Package.verifies[2] = Package.reads[2]
      BY DEF Package
    <2>8. \A i \in 1..2 : \E j \in 1..2 :
            Package.verifies[j] = Package.reads[i]
      BY ONLY <2>7, Intervals, Zenon
    <2>9. AllVerified(c)
      BY <2>1, <2>3, <2>8 DEF AllVerified
    <2>. QED  BY <2>1, <2>3, <2>4, <2>6, <2>9
  <1>5. CASE c = "consolidate"
    <2>1. /\ Stages[c] = Consolidate.stages /\ Reads[c] = Consolidate.reads
          /\ Verifies[c] = Consolidate.verifies
      BY <1>5 DEF Stages, Reads, Verifies, Script
    <2>2. Stages[c] = <<"read", "check", "verify", "publish", "inspect",
                        "verify">>
      BY <2>1 DEF Consolidate
    <2>3. Len(Consolidate.reads) = 9 /\ Len(Consolidate.verifies) = 9
      BY DEF Consolidate
    <2>4. DOMAIN Consolidate.reads = 1..9
      BY DEF Consolidate
    <2>5. FirstVerify(c) = 3
      BY <1>5 DEF FirstVerify
    <2>6. StagesFit(c)
      BY <2>2, <2>5 DEF StagesFit
    <2>7. /\ Consolidate.verifies[1] = Consolidate.reads[1]
          /\ Consolidate.verifies[2] = Consolidate.reads[2]
          /\ Consolidate.verifies[3] = Consolidate.reads[3]
          /\ Consolidate.verifies[4] = Consolidate.reads[4]
          /\ Consolidate.verifies[8] = Consolidate.reads[5]
          /\ Consolidate.verifies[5] = Consolidate.reads[6]
          /\ Consolidate.verifies[6] = Consolidate.reads[7]
          /\ Consolidate.verifies[7] = Consolidate.reads[8]
          /\ Consolidate.verifies[9] = Consolidate.reads[9]
      BY DEF Consolidate
    <2>8. \A i \in 1..9 : \E j \in 1..9 :
            Consolidate.verifies[j] = Consolidate.reads[i]
      BY ONLY <2>7, Intervals, ZenonT(60)
    <2>9. AllVerified(c)
      BY <2>1, <2>3, <2>8 DEF AllVerified
    <2>. QED  BY <2>1, <2>3, <2>4, <2>6, <2>9
  <1>6. CASE c = "coverage"
    <2>1. /\ Stages[c] = Coverage.stages /\ Reads[c] = Coverage.reads
          /\ Verifies[c] = Coverage.verifies
      BY <1>6 DEF Stages, Reads, Verifies, Script
    <2>2. Stages[c] = <<"read", "check", "verify", "answer">>
      BY <2>1 DEF Coverage
    <2>3. Len(Coverage.reads) = 3 /\ Len(Coverage.verifies) = 5
      BY DEF Coverage
    <2>4. DOMAIN Coverage.reads = 1..3
      BY DEF Coverage
    <2>5. FirstVerify(c) = 3
      BY <1>6 DEF FirstVerify
    <2>6. StagesFit(c)
      BY <2>2, <2>5 DEF StagesFit
    <2>7. /\ Coverage.verifies[1] = Coverage.reads[1]
          /\ Coverage.verifies[2] = Coverage.reads[2]
          /\ Coverage.verifies[3] = Coverage.reads[3]
      BY DEF Coverage
    <2>8. \A i \in 1..3 : \E j \in 1..5 :
            Coverage.verifies[j] = Coverage.reads[i]
      BY ONLY <2>7, Intervals, Zenon
    <2>9. AllVerified(c)
      BY <2>1, <2>3, <2>8 DEF AllVerified
    <2>. QED  BY <2>1, <2>3, <2>4, <2>6, <2>9
  <1>7. CASE c = "compare"
    <2>1. /\ Stages[c] = Compare.stages /\ Reads[c] = Compare.reads
          /\ Verifies[c] = Compare.verifies
      BY <1>7 DEF Stages, Reads, Verifies, Script
    <2>2. Stages[c] = <<"read", "check", "verify", "verify", "publish">>
      BY <2>1 DEF Compare
    <2>3. Len(Compare.reads) = 7 /\ Len(Compare.verifies) = 9
      BY DEF Compare
    <2>4. DOMAIN Compare.reads = 1..7
      BY DEF Compare
    <2>5. FirstVerify(c) = 3
      BY <1>7 DEF FirstVerify
    <2>6. StagesFit(c)
      BY <2>2, <2>5 DEF StagesFit
    <2>7. /\ Compare.verifies[1] = Compare.reads[1]
          /\ Compare.verifies[2] = Compare.reads[2]
          /\ Compare.verifies[5] = Compare.reads[3]
          /\ Compare.verifies[6] = Compare.reads[4]
          /\ Compare.verifies[7] = Compare.reads[5]
          /\ Compare.verifies[8] = Compare.reads[6]
          /\ Compare.verifies[9] = Compare.reads[7]
      BY DEF Compare
    <2>8. \A i \in 1..7 : \E j \in 1..9 :
            Compare.verifies[j] = Compare.reads[i]
      BY ONLY <2>7, Intervals, ZenonT(60)
    <2>9. AllVerified(c)
      BY <2>1, <2>3, <2>8 DEF AllVerified
    <2>. QED  BY <2>1, <2>3, <2>4, <2>6, <2>9
  <1>. QED  BY <1>1, <1>2, <1>3, <1>4, <1>5, <1>6, <1>7, CommandNames

----------------------------------------------------------------------------
Fields == {"pc", "stage", "k", "pins", "tries", "snap", "moment", "made"}

\* What other programs may do between two steps of a command: to a part they
\* leave as it is, they give it a stamp that was never used, or they remove it.
Later(dk, ck, dk2, ck2) ==
  /\ ck2 \in Nat /\ ck2 >= ck
  /\ \A q \in Parts : \/ dk2[q] = dk[q]
                      \/ dk2[q].stamp = 0
                      \/ dk2[q].stamp > ck

DiskOK(dk, ck) ==
  /\ ck \in Nat
  /\ DOMAIN dk = Parts
  /\ \A q \in Parts : /\ dk[q].stamp \in 0..ck
                      /\ dk[q].stamp = 0 => dk[q].data = Absent

\* A part that was read has, as long as its stamp is the one that was read, the
\* data that were read, and had them when the last part was read.
Kept(p, dk, ck) ==
  \A q \in DOMAIN p.snap :
    /\ p.snap[q].stamp \in 1..ck
    /\ dk[q].stamp = p.snap[q].stamp =>
         dk[q].data = p.snap[q].data /\ p.moment[q] = p.snap[q].data

\* The part q was on disk as it was read when the last part was read.
Settled(p, q) == q \in DOMAIN p.snap => p.moment[q] = p.snap[q].data

\* How far an invocation has come: what it has read, and what it has settled.
Progress(c, p) ==
  /\ p.stage \in 1..Len(Stages[c]) /\ p.k \in Nat \ {0}
  /\ p.stage = 1 => /\ p.k <= Len(Reads[c])
                    /\ DOMAIN p.snap = {Reads[c][j] : j \in 1..(p.k - 1)}
  /\ p.stage > 1 => DOMAIN p.snap = Inputs(c)
  /\ DOMAIN p.snap # {} => /\ DOMAIN p.moment = Inputs(c)
                           /\ p.moment = [q \in Inputs(c) |-> p.moment[q]]
  /\ p.stage = FirstVerify(c) =>
       /\ p.k <= Len(Verifies[c])
       /\ \A j \in 1..(p.k - 1) : Settled(p, Verifies[c][j])
  /\ p.stage > FirstVerify(c) => \A q \in Inputs(c) : Settled(p, q)
  /\ p.stage <= FirstVerify(c) => p.made = Nothing

Good(c, p, dk, ck) ==
  /\ DOMAIN p = Fields
  /\ p.made # Nothing => p.made = Product(c, p.moment)
  /\ p.pc = "run" => Progress(c, p) /\ Kept(p, dk, ck)

\* The inductive invariant.
IInv ==
  /\ offered \subseteq Commands
  /\ DOMAIN proc = Commands
  /\ DiskOK(disk, clock)
  /\ \A c \in Commands : Good(c, proc[c], disk, clock)

----------------------------------------------------------------------------
LEMMA InputsAreParts ==
  ASSUME NEW c \in Commands
  PROVE  Inputs(c) \subseteq Parts /\ Writes[c] \subseteq Parts
  BY DEF Parts

\* What a command may rely on survives what happens to the disk meanwhile.
LEMMA Frame ==
  ASSUME NEW c \in Commands, NEW p, NEW dk, NEW ck \in Nat, NEW dk2, NEW ck2,
         Good(c, p, dk, ck), Later(dk, ck, dk2, ck2)
  PROVE  Good(c, p, dk2, ck2)
  <1>1. SUFFICES ASSUME p.pc = "run" PROVE Kept(p, dk2, ck2)
    BY DEF Good
  <1>2. DOMAIN p.snap \subseteq Inputs(c)
    <2>1. Progress(c, p)
      BY <1>1 DEF Good
    <2>2. CASE p.stage > 1
      BY <2>1, <2>2 DEF Progress
    <2>3. CASE p.stage = 1
      <3>1. \A j \in 1..(p.k - 1) : j \in DOMAIN Reads[c]
        BY <2>1, <2>3, Plan DEF Progress
      <3>. QED  BY <2>1, <2>3, <3>1 DEF Progress, Inputs
    <2>. QED  BY <2>1, <2>2, <2>3, Plan DEF Progress, StagesFit
  <1>3. SUFFICES ASSUME NEW q \in DOMAIN p.snap
                 PROVE  /\ p.snap[q].stamp \in 1..ck2
                        /\ dk2[q].stamp = p.snap[q].stamp =>
                             dk2[q].data = p.snap[q].data /\ p.moment[q] = p.snap[q].data
    BY DEF Kept
  <1>4. q \in Parts
    BY <1>2, InputsAreParts
  <1>5. /\ p.snap[q].stamp \in 1..ck
        /\ dk[q].stamp = p.snap[q].stamp =>
             dk[q].data = p.snap[q].data /\ p.moment[q] = p.snap[q].data
    BY <1>1 DEF Good, Kept
  <1>6. ck2 \in Nat /\ ck2 >= ck
    BY DEF Later
  <1>7. \/ dk2[q] = dk[q] \/ dk2[q].stamp = 0 \/ dk2[q].stamp > ck
    BY <1>4 DEF Later
  <1>. QED  BY <1>5, <1>6, <1>7

\* The steps of an invocation, field by field.
LEMMA NextStageFields ==
  ASSUME NEW c \in Commands, NEW p, DOMAIN p = Fields,
         NEW q, q = NextStage(c, p)
  PROVE  /\ DOMAIN q = Fields /\ q.made = p.made
         /\ q.made # Nothing => q.moment = p.moment
         /\ q.pc = "run" => /\ p.stage # Len(Stages[c])
                            /\ q.stage = p.stage + 1 /\ q.k = 1
                            /\ q.snap = p.snap /\ q.moment = p.moment
  <1>1. CASE p.stage = Len(Stages[c])
    BY <1>1 DEF NextStage, Ended, Idle, Fields
  <1>2. CASE p.stage # Len(Stages[c])
    BY <1>2 DEF NextStage, Fields
  <1>. QED  BY <1>1, <1>2

\* A stage other than the first that ends, or a stage that goes from part to
\* part, keeps what an invocation relies on.
LEMMA StageEnds ==
  ASSUME NEW c \in Commands, NEW p, NEW dk, NEW ck, DOMAIN p = Fields,
         p.made # Nothing => p.made = Product(c, p.moment),
         p.stage \in 1..Len(Stages[c]),
         DOMAIN p.snap = Inputs(c), DOMAIN p.moment = Inputs(c),
         p.moment = [q \in Inputs(c) |-> p.moment[q]],
         p.stage >= FirstVerify(c) => \A q \in Inputs(c) : Settled(p, q),
         p.stage < FirstVerify(c) => p.made = Nothing,
         Kept(p, dk, ck)
  PROVE  Good(c, NextStage(c, p), dk, ck)
  <1>. DEFINE n == NextStage(c, p)
  <1>1. /\ DOMAIN n = Fields /\ n.made = p.made
        /\ n.made # Nothing => n.moment = p.moment
        /\ n.pc = "run" => /\ p.stage # Len(Stages[c])
                           /\ n.stage = p.stage + 1 /\ n.k = 1
                           /\ n.snap = p.snap /\ n.moment = p.moment
    BY NextStageFields
  <1>. HIDE DEF n
  <1>2. ASSUME n.pc = "run" PROVE Progress(c, n) /\ Kept(n, dk, ck)
    <2>1. /\ p.stage # Len(Stages[c]) /\ n.stage = p.stage + 1 /\ n.k = 1
          /\ n.snap = p.snap /\ n.moment = p.moment
      BY <1>1, <1>2
    <2>2. /\ Len(Stages[c]) \in Nat /\ FirstVerify(c) \in Nat
          /\ Len(Verifies[c]) \in Nat \ {0}
      BY Plan DEF StagesFit
    <2>3. n.stage \in 1..Len(Stages[c]) /\ n.stage # 1
      BY <2>1, <2>2
    <2>4. n.stage > FirstVerify(c) => \A q \in Inputs(c) : Settled(n, q)
      BY <2>1, <2>2 DEF Settled
    <2>5. Kept(n, dk, ck)
      BY <2>1 DEF Kept
    <2>6. n.stage <= FirstVerify(c) => n.made = Nothing
      BY <1>1, <2>1, <2>2
    <2>7. n.stage = FirstVerify(c) =>
            /\ n.k <= Len(Verifies[c])
            /\ \A j \in 1..(n.k - 1) : Settled(n, Verifies[c][j])
      BY <2>1, <2>2
    <2>8. Progress(c, n)
      BY <2>1, <2>3, <2>4, <2>6, <2>7 DEF Progress
    <2>. QED  BY <2>5, <2>8
  <1>3. n.made # Nothing => n.made = Product(c, n.moment)
    BY <1>1
  <1>. QED  BY <1>1, <1>2, <1>3 DEF Good, n

----------------------------------------------------------------------------
\* One lemma for each action of a command: what it does to the invocation.

\* Begin, and the retry of the coverage: nothing is read yet.
LEMMA FreshIsGood ==
  ASSUME NEW c \in Commands, NEW dk, NEW ck, NEW p, DOMAIN p = Fields,
         p.stage = 1, p.k = 1, p.snap = NoSnapshot, p.made = Nothing
  PROVE  Good(c, p, dk, ck)
  <1>2. DOMAIN p.snap = {}
    BY DEF NoSnapshot
  <1>3. /\ Len(Stages[c]) \in Nat /\ FirstVerify(c) \in 2..Len(Stages[c])
        /\ Len(Reads[c]) \in Nat \ {0}
    BY Plan DEF StagesFit
  <1>4. {Reads[c][j] : j \in 1..(p.k - 1)} = {}
    OBVIOUS
  <1>5. Progress(c, p)
    BY <1>2, <1>3, <1>4 DEF Progress
  <1>6. Kept(p, dk, ck)
    BY <1>2 DEF Kept
  <1>. QED  BY <1>5, <1>6 DEF Good

\* What a read adds to an invocation.
LEMMA TakenIsKept ==
  ASSUME NEW c \in Commands, NEW part \in Inputs(c), NEW p, Kept(p, disk, clock),
         DOMAIN p.snap \subseteq Inputs(c), DiskOK(disk, clock),
         disk[part].data # Absent,
         DOMAIN p = Fields, NEW q, q = Taken(c, p, part)
  PROVE  /\ DOMAIN q.snap = DOMAIN p.snap \cup {part}
         /\ DOMAIN q.moment = Inputs(c)
         /\ q.moment = [x \in Inputs(c) |-> q.moment[x]]
         /\ Kept(q, disk, clock)
  <1>1. q.moment = [x \in Inputs(c) |-> disk[x].data]
    BY DEF Data, Taken, Fields
  <1>2. /\ DOMAIN q.snap = DOMAIN p.snap \cup {part}
        /\ \A x \in DOMAIN q.snap : q.snap[x] = IF x = part THEN disk[x] ELSE p.snap[x]
    BY DEF Taken, Fields
  <1>3. SUFFICES ASSUME NEW x \in DOMAIN q.snap
                 PROVE  /\ q.snap[x].stamp \in 1..clock
                        /\ disk[x].stamp = q.snap[x].stamp =>
                             disk[x].data = q.snap[x].data /\ q.moment[x] = q.snap[x].data
    BY <1>1, <1>2 DEF Kept
  <1>4. x \in Inputs(c) /\ x \in Parts
    BY <1>2, InputsAreParts
  <1>5. q.moment[x] = disk[x].data
    BY <1>1, <1>4
  <1>6. CASE x = part
    <2>1. disk[x].stamp \in 0..clock /\ disk[x].stamp # 0 /\ clock \in Nat
      BY <1>4, <1>6 DEF DiskOK
    <2>. QED  BY <1>2, <1>5, <1>6, <2>1
  <1>7. CASE x # part
    <2>1. q.snap[x] = p.snap[x] /\ x \in DOMAIN p.snap
      BY <1>2, <1>7
    <2>. QED  BY <2>1, <1>5 DEF Kept
  <1>. QED  BY <1>6, <1>7

LEMMA ReadIsGood ==
  ASSUME IInv, NEW c \in Commands, Read(c)
  PROVE  Good(c, proc'[c], disk, clock)
  <1>. DEFINE p == proc[c]
              part == Reads[c][p.k]
              q == Taken(c, p, part)
  <1>1. /\ Running(c) /\ Stage(c) = "read" /\ disk[part].data # Absent
        /\ proc'[c] = NextPart(c, q, Reads[c])
    BY DEF Read, IInv
  <1>2. DOMAIN p = Fields /\ Progress(c, p) /\ Kept(p, disk, clock)
    BY <1>1 DEF IInv, Good, Running
  <1>3. p.stage = 1
    BY <1>1, <1>2, Plan DEF StagesFit, Progress, Stage
  <1>4. /\ p.k \in 1..Len(Reads[c])
        /\ DOMAIN p.snap = {Reads[c][j] : j \in 1..(p.k - 1)}
        /\ Len(Stages[c]) \in Nat /\ FirstVerify(c) \in 2..Len(Stages[c])
        /\ Len(Reads[c]) \in Nat \ {0} /\ DOMAIN Reads[c] = 1..Len(Reads[c])
        /\ p.made = Nothing
    BY <1>2, <1>3, Plan DEF Progress, StagesFit
  <1>5. part \in Inputs(c) /\ DOMAIN p.snap \subseteq Inputs(c)
    BY SMTT(60), <1>4 DEF Inputs
  <1>6. /\ DOMAIN q = Fields /\ q.k = p.k
        /\ q.stage = 1 /\ q.pc = p.pc /\ q.made = Nothing
    BY <1>2, <1>3, <1>4 DEF Fields, Taken
  <1>. HIDE DEF p, q, part
  <1>7. /\ DOMAIN q.snap = DOMAIN p.snap \cup {part}
        /\ DOMAIN q.moment = Inputs(c)
        /\ q.moment = [x \in Inputs(c) |-> q.moment[x]]
        /\ Kept(q, disk, clock)
    BY <1>1, <1>2, <1>5, <1>6, TakenIsKept DEF IInv, q
  <1>8. DOMAIN q.snap = {Reads[c][j] : j \in 1..q.k}
    BY SMTT(60), <1>4, <1>6, <1>7 DEF part
  <1>9. CASE q.k = Len(Reads[c])
    <2>1. DOMAIN q.snap = Inputs(c)
      BY <1>4, <1>8, <1>9 DEF Inputs
    <2>2. proc'[c] = NextStage(c, q)
      BY <1>1, <1>9 DEF NextPart
    <2>3. 1 \in 1..Len(Stages[c]) /\ 1 < FirstVerify(c)
      BY <1>4
    <2>4. Good(c, NextStage(c, q), disk, clock)
      BY <1>4, <1>6, <1>7, <2>1, <2>3, StageEnds
    <2>. QED  BY <2>2, <2>4
  <1>10. CASE q.k # Len(Reads[c])
    <2>. DEFINE n == [q EXCEPT !.k = @ + 1]
    <2>1. proc'[c] = n
      BY <1>1, <1>10 DEF NextPart
    <2>2. /\ DOMAIN n = Fields /\ n.snap = q.snap /\ n.moment = q.moment
          /\ n.k = q.k + 1 /\ n.stage = 1 /\ n.made = Nothing /\ n.pc = q.pc
      BY <1>6 DEF Fields
    <2>. HIDE DEF n
    <2>3. Kept(n, disk, clock)
      BY <1>7, <2>2 DEF Kept
    <2>4. n.k \in 1..Len(Reads[c]) /\ n.k - 1 = q.k
      BY <1>4, <1>6, <1>10, <2>2
    <2>5. Progress(c, n)
      BY SMTT(60), <1>4, <1>7, <1>8, <2>2, <2>4 DEF Progress
    <2>. QED  BY <2>1, <2>2, <2>3, <2>5 DEF Good
  <1>. QED  BY <1>9, <1>10

\* What holds of an invocation past its first stage, for the actions below.
LEMMA PastReading ==
  ASSUME IInv, NEW c \in Commands, Running(c), Stage(c) # "read"
  PROVE  /\ DOMAIN proc[c] = Fields
         /\ Progress(c, proc[c]) /\ Kept(proc[c], disk, clock)
         /\ DOMAIN proc[c].snap = Inputs(c) /\ DOMAIN proc[c].moment = Inputs(c)
         /\ proc[c].moment = [q \in Inputs(c) |-> proc[c].moment[q]]
         /\ proc[c].made # Nothing => proc[c].made = Product(c, proc[c].moment)
         /\ proc[c].stage \in 2..Len(Stages[c])
         /\ FirstVerify(c) \in Nat /\ Len(Verifies[c]) \in Nat
  <1>1. /\ DOMAIN proc[c] = Fields
        /\ Progress(c, proc[c]) /\ Kept(proc[c], disk, clock)
        /\ proc[c].made # Nothing => proc[c].made = Product(c, proc[c].moment)
    BY DEF IInv, Good, Running
  <1>2. /\ Len(Stages[c]) \in Nat /\ FirstVerify(c) \in 2..Len(Stages[c])
        /\ Len(Verifies[c]) \in Nat /\ Stages[c][1] = "read"
    BY Plan DEF StagesFit
  <1>3. proc[c].stage \in 1..Len(Stages[c]) /\ proc[c].stage # 1
    BY <1>1, <1>2 DEF Progress, Stage
  <1>4. DOMAIN proc[c].snap = Inputs(c)
    BY <1>1, <1>2, <1>3 DEF Progress
  <1>5. Inputs(c) # {}
    <2>1. Len(Reads[c]) \in Nat \ {0} /\ DOMAIN Reads[c] = 1..Len(Reads[c])
      BY Plan
    <2>2. 1 \in DOMAIN Reads[c]
      BY <2>1
    <2>. QED  BY <2>2 DEF Inputs
  <1>6. /\ DOMAIN proc[c].moment = Inputs(c)
        /\ proc[c].moment = [q \in Inputs(c) |-> proc[c].moment[q]]
    BY <1>1, <1>4, <1>5 DEF Progress
  <1>. QED  BY <1>1, <1>2, <1>3, <1>4, <1>6

\* The checks and the inspection only end a stage, and it is not a verification.
LEMMA EndIsGood ==
  ASSUME IInv, NEW c \in Commands, Running(c),
         Stage(c) \in {"check", "inspect"}, proc'[c] = NextStage(c, proc[c])
  PROVE  Good(c, proc'[c], disk, clock)
  <1>. DEFINE p == proc[c]
  <1>1. /\ DOMAIN p = Fields /\ Progress(c, p) /\ Kept(p, disk, clock)
        /\ DOMAIN p.snap = Inputs(c) /\ DOMAIN p.moment = Inputs(c)
        /\ p.moment = [q \in Inputs(c) |-> p.moment[q]]
        /\ p.made # Nothing => p.made = Product(c, p.moment)
        /\ p.stage \in 2..Len(Stages[c]) /\ FirstVerify(c) \in Nat
    BY PastReading
  <1>2. p.stage # FirstVerify(c)
    BY Plan DEF StagesFit, Stage
  <1>3. p.stage >= FirstVerify(c) => \A q \in Inputs(c) : Settled(p, q)
    BY <1>1, <1>2 DEF Progress
  <1>4. p.stage < FirstVerify(c) => p.made = Nothing
    BY <1>1 DEF Progress
  <1>5. p.stage \in 1..Len(Stages[c])
    BY <1>1
  <1>6. Good(c, NextStage(c, p), disk, clock)
    BY <1>1, <1>3, <1>4, <1>5, StageEnds
  <1>. QED  BY <1>6

\* A part that still has the stamp it was read with was on disk, as it was read,
\* when the last part was read: the verification settles it for good.
LEMMA VerifyIsGood ==
  ASSUME IInv, NEW c \in Commands, Verify(c)
  PROVE  Good(c, proc'[c], disk, clock)
  <1>. DEFINE p == proc[c]
              part == Verifies[c][p.k]
  <1>1. /\ Running(c) /\ Stage(c) = "verify" /\ disk[part] = p.snap[part]
        /\ proc'[c] = NextPart(c, p, Verifies[c])
    BY DEF Verify, IInv, Unchanged
  <1>2. /\ DOMAIN p = Fields /\ Progress(c, p) /\ Kept(p, disk, clock)
        /\ DOMAIN p.snap = Inputs(c) /\ DOMAIN p.moment = Inputs(c)
        /\ p.moment = [q \in Inputs(c) |-> p.moment[q]]
        /\ p.made # Nothing => p.made = Product(c, p.moment)
        /\ p.stage \in 2..Len(Stages[c])
        /\ FirstVerify(c) \in Nat /\ Len(Verifies[c]) \in Nat
    BY <1>1, PastReading
  <1>3. p.stage >= FirstVerify(c)
    BY SMTT(60), <1>1, <1>2, Plan DEF StagesFit, Stage
  <1>4. Settled(p, part)
    BY <1>1, <1>2 DEF Kept, Settled
  <1>5. p.stage \in 1..Len(Stages[c]) /\ p.k \in Nat \ {0}
    BY <1>2 DEF Progress
  <1>6. \A j \in 1..p.k : p.stage = FirstVerify(c) => Settled(p, Verifies[c][j])
    <2>1. SUFFICES ASSUME NEW j \in 1..p.k, p.stage = FirstVerify(c)
                   PROVE  Settled(p, Verifies[c][j])
      OBVIOUS
    <2>2. CASE j = p.k
      BY <1>4, <2>2
    <2>3. CASE j # p.k
      <3>1. j \in 1..(p.k - 1)
        BY <1>5, <2>3
      <3>. QED  BY <1>2, <2>1, <3>1 DEF Progress
    <2>. QED  BY <2>2, <2>3
  <1>. HIDE DEF p, part
  <1>7. CASE p.k = Len(Verifies[c])
    <2>1. \A q \in Inputs(c) : Settled(p, q)
      <3>1. CASE p.stage > FirstVerify(c)
        BY <1>2, <3>1 DEF Progress
      <3>2. CASE p.stage = FirstVerify(c)
        <4>1. SUFFICES ASSUME NEW i \in 1..Len(Reads[c])
                       PROVE  Settled(p, Reads[c][i])
          BY Plan DEF Inputs
        <4>2. PICK j \in 1..Len(Verifies[c]) : Verifies[c][j] = Reads[c][i]
          BY Plan DEF AllVerified
        <4>. QED  BY <1>6, <1>7, <3>2, <4>2
      <3>. QED  BY <1>2, <1>3, <3>1, <3>2
    <2>2. Good(c, NextStage(c, p), disk, clock)
      <3>1. ~(p.stage < FirstVerify(c))
        BY <1>2, <1>3
      <3>. QED  BY <1>2, <1>5, <2>1, <3>1, StageEnds
    <2>3. proc'[c] = NextStage(c, p)
      BY <1>1, <1>7 DEF NextPart
    <2>. QED  BY <2>2, <2>3
  <1>8. CASE p.k # Len(Verifies[c])
    <2>. DEFINE n == [p EXCEPT !.k = @ + 1]
    <2>1. proc'[c] = n
      BY <1>1, <1>8 DEF NextPart
    <2>2. /\ DOMAIN n = Fields /\ n.snap = p.snap /\ n.moment = p.moment
          /\ n.k = p.k + 1 /\ n.stage = p.stage /\ n.made = p.made /\ n.pc = p.pc
      BY <1>2 DEF Fields
    <2>. HIDE DEF n
    <2>3. Kept(n, disk, clock)
      BY <1>2, <2>2 DEF Kept
    <2>4. p.stage = FirstVerify(c) => p.k <= Len(Verifies[c])
      BY <1>2 DEF Progress
    <2>5. n.stage = FirstVerify(c) =>
            /\ n.k <= Len(Verifies[c])
            /\ \A j \in 1..(n.k - 1) : Settled(n, Verifies[c][j])
      BY SMTT(60), <1>2, <1>5, <1>6, <1>8, <2>2, <2>4 DEF Settled
    <2>6. n.stage > FirstVerify(c) => \A q \in Inputs(c) : Settled(n, q)
      BY <1>2, <2>2 DEF Progress, Settled
    <2>7. n.stage <= FirstVerify(c) => n.made = Nothing
      BY <1>2, <2>2 DEF Progress
    <2>8. Progress(c, n)
      BY <1>2, <1>5, <2>2, <2>5, <2>6, <2>7 DEF Progress
    <2>. QED  BY <1>2, <2>1, <2>2, <2>3, <2>8 DEF Good
  <1>. QED  BY <1>7, <1>8

\* The product of what was read is the product of one moment.
LEMMA MakingIsGood ==
  ASSUME IInv, NEW c \in Commands, Running(c), Stage(c) \in {"publish", "answer"},
         proc'[c] = NextStage(c, [proc[c] EXCEPT !.made = Product(c, Data(proc[c].snap))])
  PROVE  Good(c, proc'[c], disk, clock)
  <1>. DEFINE p == proc[c]
              n == [p EXCEPT !.made = Product(c, Data(p.snap))]
  <1>1. /\ DOMAIN p = Fields /\ Progress(c, p) /\ Kept(p, disk, clock)
        /\ DOMAIN p.snap = Inputs(c) /\ DOMAIN p.moment = Inputs(c)
        /\ p.moment = [q \in Inputs(c) |-> p.moment[q]]
        /\ p.stage \in 2..Len(Stages[c]) /\ FirstVerify(c) \in Nat
    BY PastReading
  <1>2. p.stage > FirstVerify(c)
    BY <1>1, Plan DEF StagesFit, Stage
  <1>3. \A q \in Inputs(c) : Settled(p, q)
    BY <1>1, <1>2 DEF Progress
  <1>4. Data(p.snap) = p.moment
    <2>1. \A q \in Inputs(c) : p.moment[q] = p.snap[q].data
      BY <1>1, <1>3 DEF Settled
    <2>2. Data(p.snap) = [q \in Inputs(c) |-> p.snap[q].data]
      BY <1>1 DEF Data
    <2>. QED  BY <1>1, <2>1, <2>2
  <1>5. /\ DOMAIN n = Fields /\ n.snap = p.snap /\ n.moment = p.moment
        /\ n.stage = p.stage /\ n.made = Product(c, p.moment)
    BY <1>1, <1>4 DEF Fields
  <1>6. proc'[c] = NextStage(c, n)
    OBVIOUS
  <1>. HIDE DEF n, p
  <1>7. Kept(n, disk, clock) /\ \A q \in Inputs(c) : Settled(n, q)
    BY <1>1, <1>3, <1>5 DEF Kept, Settled
  <1>8. n.stage \in 1..Len(Stages[c]) /\ ~(n.stage < FirstVerify(c))
    BY <1>1, <1>2, <1>5
  <1>9. Good(c, NextStage(c, n), disk, clock)
    BY <1>1, <1>5, <1>7, <1>8, StageEnds
  <1>. QED  BY <1>6, <1>9

\* An end of any kind keeps what was published and the moment it was made of.
LEMMA FailIsGood ==
  ASSUME IInv, NEW c \in Commands, proc'[c] = Ended(proc[c], "failed")
  PROVE  Good(c, proc'[c], disk, clock)
  <1>1. DOMAIN proc[c] = Fields
        /\ (proc[c].made # Nothing => proc[c].made = Product(c, proc[c].moment))
    BY DEF IInv, Good
  <1>2. /\ DOMAIN proc'[c] = Fields /\ proc'[c].pc = "failed"
        /\ proc'[c].made = proc[c].made
        /\ proc[c].made # Nothing => proc'[c].moment = proc[c].moment
    BY <1>1 DEF Ended, Idle, Fields
  <1>. QED  BY <1>1, <1>2 DEF Good

----------------------------------------------------------------------------
\* What the disk goes through.
LEMMA PlaceIsLater ==
  ASSUME IInv, NEW made, Place(made)
  PROVE  Later(disk, clock, disk', clock') /\ DiskOK(disk', clock')
  <1>1. /\ clock \in Nat /\ clock' = clock + 1 /\ DOMAIN disk' = Parts
        /\ \A q \in Parts : \/ disk'[q] = disk[q]
                            \/ disk'[q].stamp = clock + 1
    BY DEF IInv, DiskOK, Place
  <1>2. \A q \in Parts : /\ disk[q].stamp \in 0..clock
                         /\ disk[q].stamp = 0 => disk[q].data = Absent
    BY DEF IInv, DiskOK
  <1>3. Later(disk, clock, disk', clock')
    BY <1>1 DEF Later
  <1>4. DiskOK(disk', clock')
    BY <1>1, <1>2 DEF DiskOK
  <1>. QED  BY <1>3, <1>4

LEMMA SameDiskIsLater ==
  ASSUME IInv, UNCHANGED <<disk, clock>>
  PROVE  Later(disk, clock, disk', clock') /\ DiskOK(disk', clock')
  BY DEF IInv, DiskOK, Later

LEMMA MeddleIsLater ==
  ASSUME IInv, NEW q \in Parts, Meddle(q)
  PROVE  Later(disk, clock, disk', clock') /\ DiskOK(disk', clock')
  <1>1. PICK v : disk' = [disk EXCEPT ![q] = [data |-> v, stamp |-> clock + 1]]
    BY DEF Meddle
  <1>2. clock' = clock + 1 /\ clock \in Nat /\ DOMAIN disk = Parts
    BY DEF Meddle, IInv, DiskOK
  <1>3. /\ DOMAIN disk' = Parts /\ disk'[q].stamp = clock + 1
        /\ \A x \in Parts : x # q => disk'[x] = disk[x]
    BY <1>1, <1>2
  <1>4. \A x \in Parts : /\ disk[x].stamp \in 0..clock
                         /\ disk[x].stamp = 0 => disk[x].data = Absent
    BY DEF IInv, DiskOK
  <1>5. Later(disk, clock, disk', clock')
    BY <1>2, <1>3 DEF Later
  <1>6. DiskOK(disk', clock')
    BY <1>2, <1>3, <1>4 DEF DiskOK
  <1>. QED  BY <1>5, <1>6

LEMMA DiscardIsLater ==
  ASSUME IInv, NEW c \in Commands, Discard(c)
  PROVE  Later(disk, clock, disk', clock') /\ DiskOK(disk', clock')
  <1>1. /\ clock' = clock /\ clock \in Nat /\ DOMAIN disk' = Parts
        /\ \A x \in Parts : disk'[x] = disk[x] \/ disk'[x] = Nowhere
    BY DEF Discard, IInv, DiskOK
  <1>2. \A x \in Parts : /\ disk[x].stamp \in 0..clock
                         /\ disk[x].stamp = 0 => disk[x].data = Absent
    BY DEF IInv, DiskOK
  <1>3. Nowhere.stamp = 0 /\ Nowhere.data = Absent
    BY DEF Nowhere
  <1>4. Later(disk, clock, disk', clock')
    BY <1>1, <1>3 DEF Later
  <1>5. DiskOK(disk', clock')
    <2>1. SUFFICES ASSUME NEW x \in Parts
                   PROVE  /\ disk'[x].stamp \in 0..clock
                          /\ disk'[x].stamp = 0 => disk'[x].data = Absent
      BY <1>1 DEF DiskOK
    <2>2. CASE disk'[x] = disk[x]
      BY <1>2, <2>2
    <2>3. CASE disk'[x] = Nowhere
      BY <1>1, <1>3, <2>3
    <2>. QED  BY <1>1, <2>2, <2>3
  <1>. QED  BY <1>4, <1>5

----------------------------------------------------------------------------
\* One command moves, the disk goes on: the others keep what they rely on.
LEMMA OneMoves ==
  ASSUME IInv, offered' = offered, NEW c \in Commands, DOMAIN proc' = Commands,
         \A o \in Commands : o # c => proc'[o] = proc[o],
         Good(c, proc'[c], disk, clock),
         Later(disk, clock, disk', clock'), DiskOK(disk', clock')
  PROVE  IInv'
  <1>1. ASSUME NEW o \in Commands PROVE Good(o, proc'[o], disk, clock)
    BY DEF IInv
  <1>2. ASSUME NEW o \in Commands PROVE Good(o, proc'[o], disk', clock')
    <2>1. clock \in Nat
      BY DEF IInv, DiskOK
    <2>. QED  BY <1>1, <2>1, Frame
  <1>. QED  BY <1>2 DEF IInv

LEMMA StepInv ==
  ASSUME IInv, offered' = offered, NEW c \in Commands, Step(c)
  PROVE  IInv'
  <1>. DEFINE Moves == /\ DOMAIN proc' = Commands
                       /\ \A o \in Commands : o # c => proc'[o] = proc[o]
  <1>0. DOMAIN proc = Commands
    BY DEF IInv
  <1>1. CASE Begin(c)
    <2>1. /\ DOMAIN proc'[c] = Fields /\ proc'[c].stage = 1 /\ proc'[c].k = 1
          /\ proc'[c].snap = NoSnapshot /\ proc'[c].made = Nothing /\ Moves
      BY <1>0, <1>1 DEF Begin, Idle, Fields
    <2>2. UNCHANGED <<disk, clock>>
      BY <1>1 DEF Begin
    <2>3. Good(c, proc'[c], disk, clock)
      BY <2>1, FreshIsGood
    <2>. QED  BY <2>1, <2>2, <2>3, SameDiskIsLater, OneMoves
  <1>2. CASE Read(c)
    <2>1. Moves /\ UNCHANGED <<disk, clock>>
      BY <1>0, <1>2 DEF Read
    <2>2. Good(c, proc'[c], disk, clock)
      BY <1>2, ReadIsGood
    <2>. QED  BY <2>1, <2>2, SameDiskIsLater, OneMoves
  <1>3. CASE Check(c)
    <2>1. /\ Moves /\ UNCHANGED <<disk, clock>> /\ Running(c) /\ Stage(c) = "check"
          /\ proc'[c] = NextStage(c, proc[c])
      BY <1>0, <1>3 DEF Check
    <2>2. Good(c, proc'[c], disk, clock)
      BY <2>1, EndIsGood
    <2>. QED  BY <2>1, <2>2, SameDiskIsLater, OneMoves
  <1>4. CASE Verify(c)
    <2>1. Moves /\ UNCHANGED <<disk, clock>>
      BY <1>0, <1>4 DEF Verify
    <2>2. Good(c, proc'[c], disk, clock)
      BY <1>4, VerifyIsGood
    <2>. QED  BY <2>1, <2>2, SameDiskIsLater, OneMoves
  <1>5. CASE Retry(c)
    <2>1. /\ DOMAIN proc'[c] = Fields /\ proc'[c].stage = 1 /\ proc'[c].k = 1
          /\ proc'[c].snap = NoSnapshot /\ proc'[c].made = Nothing /\ Moves
      BY <1>0, <1>5 DEF Retry, Idle, Fields
    <2>2. UNCHANGED <<disk, clock>>
      BY <1>5 DEF Retry
    <2>3. Good(c, proc'[c], disk, clock)
      BY <2>1, FreshIsGood
    <2>. QED  BY <2>1, <2>2, <2>3, SameDiskIsLater, OneMoves
  <1>6. CASE Answer(c)
    <2>1. /\ Moves /\ UNCHANGED <<disk, clock>> /\ Running(c) /\ Stage(c) = "answer"
          /\ proc'[c] = NextStage(c, [proc[c] EXCEPT !.made = Product(c, Data(proc[c].snap))])
      BY <1>0, <1>6 DEF Answer
    <2>2. Good(c, proc'[c], disk, clock)
      BY <2>1, MakingIsGood
    <2>. QED  BY <2>1, <2>2, SameDiskIsLater, OneMoves
  <1>7. CASE Publish(c)
    <2>1. /\ Moves /\ Running(c) /\ Stage(c) = "publish"
          /\ Place(Product(c, Data(proc[c].snap)))
          /\ proc'[c] = NextStage(c, [proc[c] EXCEPT !.made = Product(c, Data(proc[c].snap))])
      BY <1>0, <1>7 DEF Publish
    <2>2. Good(c, proc'[c], disk, clock)
      BY <2>1, MakingIsGood
    <2>3. Later(disk, clock, disk', clock') /\ DiskOK(disk', clock')
      BY <2>1, PlaceIsLater
    <2>. QED  BY <2>1, <2>2, <2>3, OneMoves
  <1>8. CASE Inspect(c)
    <2>1. /\ Moves /\ UNCHANGED <<disk, clock>> /\ Running(c) /\ Stage(c) = "inspect"
          /\ proc'[c] = NextStage(c, proc[c])
      BY <1>0, <1>8 DEF Inspect
    <2>2. Good(c, proc'[c], disk, clock)
      BY <2>1, EndIsGood
    <2>. QED  BY <2>1, <2>2, SameDiskIsLater, OneMoves
  <1>9. CASE Fail(c)
    <2>1. /\ Moves /\ UNCHANGED <<disk, clock>>
          /\ proc'[c] = Ended(proc[c], "failed")
      BY <1>0, <1>9 DEF Fail
    <2>2. Good(c, proc'[c], disk, clock)
      BY <2>1, FailIsGood
    <2>. QED  BY <2>1, <2>2, SameDiskIsLater, OneMoves
  <1>. QED  BY <1>1, <1>2, <1>3, <1>4, <1>5, <1>6, <1>7, <1>8, <1>9 DEF Step

\* The disk alone goes on.
LEMMA DiskMoves ==
  ASSUME IInv, UNCHANGED <<offered, proc>>,
         Later(disk, clock, disk', clock'), DiskOK(disk', clock')
  PROVE  IInv'
  <1>1. ASSUME NEW o \in Commands PROVE Good(o, proc'[o], disk', clock')
    BY Frame DEF IInv, DiskOK
  <1>. QED  BY <1>1 DEF IInv

LEMMA InitInv == Init => IInv
  <1>. SUFFICES ASSUME Init PROVE IInv
    OBVIOUS
  <1>2. offered \subseteq Commands
    BY MenuAssumption DEF Init
  <1>3. /\ DOMAIN proc = Commands
        /\ \A c \in Commands : Good(c, proc[c], disk, clock)
    <2>1. DOMAIN Idle = Fields /\ Idle.pc = "idle" /\ Idle.made = Nothing
      BY DEF Idle, Fields
    <2>. QED  BY <2>1 DEF Init, Good
  <1>4. DiskOK(disk, clock)
    BY DEF Init, DiskOK, Nowhere
  <1>. QED  BY <1>2, <1>3, <1>4 DEF IInv

LEMMA NextInv == IInv /\ [Next]_vars => IInv'
  <1>. SUFFICES ASSUME IInv, [Next]_vars PROVE IInv'
    OBVIOUS
  <1>2. CASE UNCHANGED vars
    BY <1>2, SameDiskIsLater, DiskMoves DEF vars
  <1>3. CASE Next
    <2>0. offered' = offered /\ offered \subseteq Commands
      BY <1>3 DEF Next, IInv
    <2>1. ASSUME NEW c \in offered, Step(c) PROVE IInv'
      BY <2>0, <2>1, StepInv
    <2>2. ASSUME NEW c \in offered, Discard(c) PROVE IInv'
      <3>1. proc' = proc
        BY <2>2 DEF Discard
      <3>. QED  BY <2>0, <2>2, <3>1, DiscardIsLater, DiskMoves
    <2>3. CASE Resume
      <3>1. proc' = proc /\ \E made : Place(made)
        BY <2>3 DEF Resume
      <3>. QED  BY <2>0, <3>1, PlaceIsLater, DiskMoves
    <2>4. CASE Decide
      <3>1. proc' = proc /\ \E made : Place(made)
        BY <2>4 DEF Decide
      <3>. QED  BY <2>0, <3>1, PlaceIsLater, DiskMoves
    <2>5. CASE Supplement
      <3>1. proc' = proc /\ \E made : Place(made)
        BY <2>5 DEF Supplement
      <3>. QED  BY <2>0, <3>1, PlaceIsLater, DiskMoves
    <2>6. ASSUME NEW q \in Watched, Meddle(q) PROVE IInv'
      <3>1. q \in Parts
        BY <2>0, InputsAreParts DEF Watched
      <3>2. proc' = proc
        BY <2>6 DEF Meddle
      <3>. QED  BY <2>0, <2>6, <3>1, <3>2, MeddleIsLater, DiskMoves
    <2>. QED  BY <1>3, <2>1, <2>2, <2>3, <2>4, <2>5, <2>6 DEF Next
  <1>. QED  BY <1>2, <1>3

\* What a command has published is made of one state of the disk, whatever other
\* programs wrote while it read and verified its inputs part by part.
THEOREM PublishedFromOneMoment == Spec => []MadeFromOneMoment
  <1>1. IInv => MadeFromOneMoment
    BY DEF IInv, Good, MadeFromOneMoment
  <1>. QED  BY <1>1, InitInv, NextInv, PTL DEF Spec
----------------------------------------------------------------------------
(* OneLineage. What was delivered as a report binds the texts it names, so *)
(* a report that equals its pin is worth what it says (Genuine), and what  *)
(* a command checks of the parts it has read holds until it publishes.     *)

Bound(application) ==
  /\ Coherent(application)
  /\ application.output.source = application.source
  /\ application.output.candidate = application.candidate

Genuine(dl) ==
  /\ dl["raw report"] # Absent =>
       dl["raw report"].output.source = dl["raw report"].source
  /\ dl["reviewed report"] # Absent => Bound(dl["reviewed report"])

\* What OneLineage says of the product m of the command c.
Chained(c, m) ==
  m # Nothing =>
    /\ c = "compare" =>
         LET pack == m["ab pack"]
         IN /\ pack.reviewed.source = pack.source
            /\ pack.baseline = pack.reviewed.candidate
            /\ pack.baseline.source = pack.source
    /\ c = "apply" => Coherent(m["reviewed report"])
    /\ c = "package" =>
         LET application == m["package report"].application
         IN Coherent(application) /\ application.output = m["package text"]
    /\ c = "consolidate" =>
         LET application == m["final report"].application
         IN /\ Coherent(application)
            /\ application.output = m["final text"]
            /\ m["final replace"].of = application.output.source.replace

\* What the invocation p may rely on.
Vouched(c, p) ==
  /\ Chained(c, p.made)
  /\ p.pc = "run" =>
       /\ Genuine(p.pins)
       /\ \A q \in DOMAIN p.snap : p.snap[q].data # Absent
       /\ p.stage > 2 /\ c # "translate" => Checked(c, Data(p.snap), p.pins)

LineInv ==
  /\ \A c \in Commands : Vouched(c, proc[c])
  /\ Genuine(delivered)

\* The inputs of the commands whose products OneLineage is about.
LEMMA ReadBy ==
  /\ {"raw report", "text", "replace", "raw text", "decisions"} \subseteq Inputs("apply")
  /\ {"reviewed report", "reviewed text"} \subseteq Inputs("package")
  /\ {"reviewed report", "reviewed text", "supplement", "text", "replace"}
       \subseteq Inputs("consolidate")
  /\ {"text", "replace", "raw text", "raw report", "reviewed report", "reviewed text"}
       \subseteq Inputs("compare")
  <1>1. ASSUME NEW c \in Commands, NEW k \in 1..Len(Reads[c])
        PROVE  Reads[c][k] \in Inputs(c)
    BY Plan DEF Inputs
  <1>2. /\ Reads["apply"] = Apply.reads /\ Len(Apply.reads) = 5
        /\ Reads["package"] = Package.reads /\ Len(Package.reads) = 2
        /\ Reads["consolidate"] = Consolidate.reads /\ Len(Consolidate.reads) = 9
        /\ Reads["compare"] = Compare.reads /\ Len(Compare.reads) = 7
    BY CommandNames DEF Reads, Script, Apply, Package, Consolidate, Compare
  <1>3. /\ "apply" \in Commands /\ "package" \in Commands
        /\ "consolidate" \in Commands /\ "compare" \in Commands
    BY CommandNames
  <1>4. {"raw report", "text", "replace", "raw text", "decisions"} \subseteq Inputs("apply")
    <2>1. \A k \in {1, 2, 3, 4, 5} : Apply.reads[k] \in Inputs("apply")
      BY <1>1, <1>2, <1>3, Intervals
    <2>2. /\ Apply.reads[1] = "raw report" /\ Apply.reads[2] = "text"
          /\ Apply.reads[3] = "replace" /\ Apply.reads[4] = "raw text"
          /\ Apply.reads[5] = "decisions"
      BY DEF Apply
    <2>. QED  BY <2>1, <2>2
  <1>5. {"reviewed report", "reviewed text"} \subseteq Inputs("package")
    <2>1. \A k \in {1, 2} : Package.reads[k] \in Inputs("package")
      BY <1>1, <1>2, <1>3, Intervals
    <2>2. Package.reads[1] = "reviewed report" /\ Package.reads[2] = "reviewed text"
      BY DEF Package
    <2>. QED  BY <2>1, <2>2
  <1>6. {"reviewed report", "reviewed text", "supplement", "text", "replace"}
          \subseteq Inputs("consolidate")
    <2>1. \A k \in {1, 2, 6, 7, 8} : Consolidate.reads[k] \in Inputs("consolidate")
      BY <1>1, <1>2, <1>3, Intervals
    <2>2. /\ Consolidate.reads[1] = "reviewed report"
          /\ Consolidate.reads[2] = "reviewed text"
          /\ Consolidate.reads[6] = "supplement"
          /\ Consolidate.reads[7] = "text" /\ Consolidate.reads[8] = "replace"
      BY DEF Consolidate
    <2>. QED  BY <2>1, <2>2
  <1>7. {"text", "replace", "raw text", "raw report", "reviewed report",
         "reviewed text"} \subseteq Inputs("compare")
    <2>1. \A k \in {1, 2, 3, 4, 5, 6} : Compare.reads[k] \in Inputs("compare")
      BY <1>1, <1>2, <1>3, Intervals
    <2>2. /\ Compare.reads[1] = "text" /\ Compare.reads[2] = "replace"
          /\ Compare.reads[3] = "raw text" /\ Compare.reads[4] = "raw report"
          /\ Compare.reads[5] = "reviewed report" /\ Compare.reads[6] = "reviewed text"
      BY DEF Compare
    <2>. QED  BY <2>1, <2>2
  <1>. QED  BY <1>4, <1>5, <1>6, <1>7

\* What the reviewer applied is bound to the translation it was taken on.
LEMMA AppliedIsBound ==
  ASSUME NEW d, NEW pins, Genuine(pins), d["raw report"] # Absent,
         RawSealed(d, pins), DecisionsFit(d)
  PROVE  Bound(ReviewedReport(d))
  <1>1. /\ d["raw report"].source = SourceOf(d) /\ d["raw report"].output = d["raw text"]
        /\ d["raw text"].source = SourceOf(d)
    BY DEF RawSealed, Genuine
  <1>2. d["decisions"].page =
          [report |-> d["raw report"], source |-> SourceOf(d), candidate |-> d["raw text"]]
    BY DEF DecisionsFit, PageOf
  <1>3. /\ ReviewedReport(d).base = d["raw report"]
        /\ ReviewedReport(d).source = SourceOf(d)
        /\ ReviewedReport(d).candidate = d["raw text"]
        /\ ReviewedReport(d).decisions = d["decisions"]
        /\ ReviewedReport(d).output = ReviewedText(d)
    BY DEF ReviewedReport
  <1>4. ReviewedText(d).source = SourceOf(d) /\ ReviewedText(d).candidate = d["raw text"]
    BY DEF ReviewedText
  <1>. QED  BY <1>1, <1>2, <1>3, <1>4 DEF Bound, Coherent

\* The product of a command that has checked its inputs.
LEMMA ProductIsChained ==
  ASSUME NEW c \in Commands, NEW d, NEW pins, Genuine(pins),
         \A q \in Inputs(c) : d[q] # Absent,
         c # "translate" => Checked(c, d, pins)
  PROVE  Chained(c, Product(c, d))
  <1>1. CASE c = "compare"
    <2>1. /\ BaselineBound(d, pins) /\ ReviewedValuesBound(d, pins)
      BY <1>1 DEF Checked
    <2>2. /\ d["raw report"].source = SourceOf(d) /\ d["raw report"].output = d["raw text"]
          /\ d["raw text"].source = SourceOf(d)
      BY <1>1, <2>1, ReadBy DEF BaselineBound, RawSealed, Genuine
    <2>3. /\ d["reviewed text"].source = SourceOf(d)
          /\ d["reviewed text"].candidate = d["raw text"]
      BY <1>1, <2>1, ReadBy DEF ReviewedValuesBound, ReviewedSealed, Genuine, Bound
    <2>4. /\ Product(c, d)["ab pack"].reviewed = d["reviewed text"]
          /\ Product(c, d)["ab pack"].baseline = d["raw text"]
          /\ Product(c, d)["ab pack"].source = SourceOf(d)
      BY <1>1 DEF Product, CompareMakes, One
    <2>. QED  BY <1>1, <2>2, <2>3, <2>4 DEF Chained
  <1>2. CASE c = "apply"
    <2>1. RawSealed(d, pins) /\ DecisionsFit(d)
      BY <1>2 DEF Checked
    <2>2. Product(c, d)["reviewed report"] = ReviewedReport(d)
      BY <1>2 DEF Product, ApplyMakes, Two
    <2>3. Bound(ReviewedReport(d))
      BY <1>2, <2>1, ReadBy, AppliedIsBound
    <2>. QED  BY <1>2, <2>2, <2>3 DEF Chained, Bound
  <1>3. CASE c = "package"
    <2>1. ReviewedSealed(d, pins)
      BY <1>3 DEF Checked
    <2>2. /\ Bound(d["reviewed report"])
          /\ d["reviewed report"].output = d["reviewed text"]
      BY <1>3, <2>1, ReadBy DEF ReviewedSealed, Genuine
    <2>3. /\ Product(c, d)["package text"] = d["reviewed text"]
          /\ Product(c, d)["package report"].application = d["reviewed report"]
      BY <1>3 DEF Product, PackageMakes, Two
    <2>. QED  BY <1>3, <2>2, <2>3 DEF Chained, Bound
  <1>4. CASE c = "consolidate"
    <2>1. InputsBound(d, pins)
      BY <1>4 DEF Checked
    <2>2. /\ Bound(d["reviewed report"])
          /\ d["reviewed report"].output = d["reviewed text"]
      BY <1>4, <2>1, ReadBy DEF InputsBound, ReviewedSealed, Genuine
    <2>3. d["reviewed text"].source = SourceOf(d)
      BY <2>1, <2>2 DEF InputsBound, Bound
    <2>4. d["supplement"].text.of = d["replace"]
      BY <2>1 DEF InputsBound, SupplementBound
    <2>5. /\ Product(c, d)["final text"] = d["reviewed text"]
          /\ Product(c, d)["final replace"] = d["supplement"].text
          /\ Product(c, d)["final report"].application = d["reviewed report"]
      BY <1>4 DEF Product, ConsolidateMakes
    <2>6. SourceOf(d).replace = d["replace"]
      BY DEF SourceOf
    <2>. QED  BY <1>4, <2>2, <2>3, <2>4, <2>5, <2>6 DEF Chained, Bound
  <1>5. CASE c \in {"translate", "review", "coverage"}
    BY <1>5 DEF Chained
  <1>. QED  BY <1>1, <1>2, <1>3, <1>4, <1>5, CommandNames

\* A delivery leaves genuine reports genuine.
LEMMA DeliveryIsGenuine ==
  ASSUME NEW made, Genuine(delivered), Place(made),
         "raw report" \in DOMAIN made =>
           made["raw report"].output.source = made["raw report"].source,
         "reviewed report" \in DOMAIN made => Bound(made["reviewed report"])
  PROVE  Genuine(delivered')
  <1>1. "raw report" \in Parts /\ "reviewed report" \in Parts
    BY ReadBy, InputsAreParts, CommandNames
  <1>2. \A q \in Parts : delivered'[q] = IF q \in DOMAIN made THEN made[q] ELSE delivered[q]
    BY DEF Place
  <1>. QED  BY <1>1, <1>2 DEF Genuine

LEMMA ProductIsGenuine ==
  ASSUME NEW c \in Commands, NEW d, NEW pins, Genuine(pins),
         \A q \in Inputs(c) : d[q] # Absent,
         c # "translate" => Checked(c, d, pins)
  PROVE  /\ "raw report" \in DOMAIN Product(c, d) =>
              Product(c, d)["raw report"].output.source = Product(c, d)["raw report"].source
         /\ "reviewed report" \in DOMAIN Product(c, d) =>
              Bound(Product(c, d)["reviewed report"])
  <1>1. CASE c = "translate"
    <2>1. /\ Product(c, d)["raw report"] = RawReport(d, 2)
          /\ DOMAIN Product(c, d) = {"raw text", "raw report"}
      BY <1>1 DEF Product, TranslateMakes, Two
    <2>2. RawReport(d, 2).output.source = RawReport(d, 2).source
      BY DEF RawReport, RawText
    <2>. QED  BY <2>1, <2>2
  <1>2. CASE c = "apply"
    <2>1. RawSealed(d, pins) /\ DecisionsFit(d)
      BY <1>2 DEF Checked
    <2>2. /\ Product(c, d)["reviewed report"] = ReviewedReport(d)
          /\ DOMAIN Product(c, d) = {"reviewed text", "reviewed report"}
      BY <1>2 DEF Product, ApplyMakes, Two
    <2>3. Bound(ReviewedReport(d))
      BY <1>2, <2>1, ReadBy, AppliedIsBound
    <2>. QED  BY <2>2, <2>3
  <1>3. CASE c = "review"
    <2>1. DOMAIN Product(c, d) = {"page"}
      BY <1>3 DEF Product, ReviewMakes, One
    <2>. QED  BY <2>1
  <1>4. CASE c = "package"
    <2>1. DOMAIN Product(c, d) = {"package text", "package report"}
      BY <1>4 DEF Product, PackageMakes, Two
    <2>. QED  BY <2>1
  <1>5. CASE c = "consolidate"
    <2>1. DOMAIN Product(c, d) = {"final text", "final replace", "final report"}
      BY <1>5 DEF Product, ConsolidateMakes
    <2>. QED  BY <2>1
  <1>6. CASE c = "coverage"
    <2>1. DOMAIN Product(c, d) = {"answer"}
      BY <1>6 DEF Product, CoverageMakes, One
    <2>. QED  BY <2>1
  <1>7. CASE c = "compare"
    <2>1. DOMAIN Product(c, d) = {"ab pack"}
      BY <1>7 DEF Product, CompareMakes, One
    <2>. QED  BY <2>1
  <1>. QED  BY <1>1, <1>2, <1>3, <1>4, <1>5, <1>6, <1>7, CommandNames

\* After its first stage a command has read all its inputs.
LEMMA HasRead ==
  ASSUME IInv, LineInv, NEW c \in Commands, proc[c].pc = "run", proc[c].stage > 1
  PROVE  /\ DOMAIN proc[c].snap = Inputs(c)
         /\ \A q \in Inputs(c) : Data(proc[c].snap)[q] # Absent
  <1>1. DOMAIN proc[c].snap = Inputs(c)
    BY DEF IInv, Good, Progress
  <1>2. \A q \in DOMAIN proc[c].snap : proc[c].snap[q].data # Absent
    BY DEF LineInv, Vouched
  <1>. QED  BY <1>1, <1>2 DEF Data

\* Which stages come before the check of the inputs.
LEMMA CheckIsSecond ==
  ASSUME NEW c \in Commands, NEW i \in 1..Len(Stages[c])
  PROVE  /\ Stages[c][i] = "check" => i = 2
         /\ i = 2 /\ c # "translate" => Stages[c][i] = "check"
         /\ Stages[c][i] \in {"publish", "answer", "inspect"} => i > 2
  <1>1. CASE c = "translate"
    <2>1. Stages[c] = <<"read", "verify", "verify", "verify", "publish">>
      BY <1>1 DEF Stages, Script, Translate
    <2>. QED  BY <1>1, <2>1
  <1>2. CASE c = "review"
    <2>1. Stages[c] = <<"read", "check", "verify", "publish">>
      BY <1>2 DEF Stages, Script, Review
    <2>. QED  BY <1>2, <2>1
  <1>7. CASE c = "package"
    <2>1. Stages[c] = <<"read", "check", "verify", "publish">>
      BY <1>7 DEF Stages, Script, Package
    <2>. QED  BY <1>7, <2>1
  <1>3. CASE c = "apply"
    <2>1. Stages[c] = <<"read", "check", "verify", "verify", "verify", "publish">>
      BY <1>3 DEF Stages, Script, Apply
    <2>. QED  BY <1>3, <2>1
  <1>4. CASE c = "consolidate"
    <2>1. Stages[c] = <<"read", "check", "verify", "publish", "inspect", "verify">>
      BY <1>4 DEF Stages, Script, Consolidate
    <2>. QED  BY <1>4, <2>1
  <1>5. CASE c = "coverage"
    <2>1. Stages[c] = <<"read", "check", "verify", "answer">>
      BY <1>5 DEF Stages, Script, Coverage
    <2>. QED  BY <1>5, <2>1
  <1>6. CASE c = "compare"
    <2>1. Stages[c] = <<"read", "check", "verify", "verify", "publish">>
      BY <1>6 DEF Stages, Script, Compare
    <2>. QED  BY <1>6, <2>1
  <1>. QED  BY <1>1, <1>2, <1>3, <1>4, <1>5, <1>6, <1>7, CommandNames

\* A step of an invocation that changes neither its snapshot nor its product.
LEMMA OnwardIsVouched ==
  ASSUME NEW c \in Commands, NEW p, NEW n, Vouched(c, p), p.pc = "run",
         n.made = p.made,
         n.pc = "run" => /\ n.pins = p.pins /\ n.snap = p.snap
                         /\ n.stage > 2 /\ c # "translate" =>
                              Checked(c, Data(p.snap), p.pins)
  PROVE  Vouched(c, n)
  BY DEF Vouched

LEMMA NextStagePins ==
  ASSUME NEW c, NEW p, DOMAIN p = Fields, NextStage(c, p).pc = "run"
  PROVE  NextStage(c, p).pins = p.pins
  <1>1. CASE p.stage = Len(Stages[c])
    <2>1. NextStage(c, p).pc = "done"
      BY <1>1 DEF NextStage, Ended, Idle
    <2>. QED  BY <2>1
  <1>2. CASE p.stage # Len(Stages[c])
    BY <1>2 DEF NextStage, Fields
  <1>. QED  BY <1>1, <1>2

LEMMA FreshIsVouched ==
  ASSUME NEW c \in Commands, NEW n, n.made = Nothing, n.snap = NoSnapshot,
         n.stage = 1, n.pc = "run" => Genuine(n.pins)
  PROVE  Vouched(c, n)
  <1>1. DOMAIN NoSnapshot = {}
    BY DEF NoSnapshot
  <1>. QED  BY <1>1 DEF Vouched, Chained

LEMMA ReadIsVouched ==
  ASSUME IInv, LineInv, NEW c \in Commands, Read(c)
  PROVE  Vouched(c, proc'[c])
  <1>. DEFINE p == proc[c]
              part == Reads[c][p.k]
              q == Taken(c, p, part)
  <1>1. /\ p.pc = "run" /\ Stage(c) = "read" /\ disk[part].data # Absent
        /\ proc'[c] = NextPart(c, q, Reads[c])
    BY DEF Read, IInv, Running
  <1>2. DOMAIN p = Fields /\ Progress(c, p) /\ Vouched(c, p)
    BY <1>1 DEF IInv, Good, LineInv
  <1>3. p.stage = 1 /\ Len(Stages[c]) \in Nat /\ Len(Stages[c]) >= 2
    BY SMTT(60), <1>1, <1>2, Plan DEF StagesFit, Progress, Stage
  <1>4. /\ DOMAIN q = Fields /\ q.pc = "run" /\ q.pins = p.pins /\ q.made = p.made
        /\ q.stage = 1 /\ DOMAIN q.snap = DOMAIN p.snap \cup {part}
        /\ \A r \in DOMAIN q.snap : q.snap[r] = IF r = part THEN disk[r] ELSE p.snap[r]
    BY <1>1, <1>2, <1>3 DEF Fields, Taken
  <1>. HIDE DEF p, q, part
  <1>5. Genuine(q.pins) /\ \A r \in DOMAIN q.snap : q.snap[r].data # Absent
    BY <1>1, <1>2, <1>4 DEF Vouched
  <1>6. Chained(c, q.made)
    BY <1>2, <1>4 DEF Vouched
  <1>7. CASE q.k = Len(Reads[c])
    <2>1. proc'[c] = NextStage(c, q)
      BY <1>1, <1>7 DEF NextPart
    <2>2. /\ proc'[c].made = q.made
          /\ proc'[c].pc = "run" => /\ proc'[c].stage = 2 /\ proc'[c].snap = q.snap
                                    /\ proc'[c].pins = q.pins
      BY <1>3, <1>4, <2>1, NextStageFields, NextStagePins
    <2>. QED  BY <1>5, <1>6, <2>2 DEF Vouched
  <1>8. CASE q.k # Len(Reads[c])
    <2>1. /\ proc'[c].made = q.made /\ proc'[c].stage = 1
          /\ proc'[c].snap = q.snap /\ proc'[c].pins = q.pins
      BY <1>1, <1>4, <1>8 DEF NextPart, Fields
    <2>. QED  BY <1>5, <1>6, <2>1 DEF Vouched
  <1>. QED  BY <1>7, <1>8

\* A stage that ends: the inputs are checked from the third on.
LEMMA EndIsVouched ==
  ASSUME LineInv, NEW c \in Commands, proc[c].pc = "run",
         NEW p, DOMAIN p = Fields, p.snap = proc[c].snap, p.pins = proc[c].pins,
         Chained(c, p.made),
         c # "translate" => Checked(c, Data(p.snap), p.pins)
  PROVE  Vouched(c, NextStage(c, p))
  <1>. DEFINE n == NextStage(c, p)
  <1>1. /\ n.made = p.made
        /\ n.pc = "run" => n.snap = p.snap /\ n.pins = p.pins
    BY NextStageFields, NextStagePins
  <1>2. /\ Genuine(p.pins)
        /\ \A r \in DOMAIN p.snap : p.snap[r].data # Absent
    BY DEF LineInv, Vouched
  <1>. HIDE DEF n
  <1>3. Vouched(c, n)
    BY <1>1, <1>2 DEF Vouched
  <1>. QED  BY <1>3 DEF n

\* The stage an invocation is at, and what it has checked.
LEMMA StageFacts ==
  ASSUME IInv, LineInv, NEW c \in Commands, Running(c)
  PROVE  /\ proc[c].pc = "run" /\ DOMAIN proc[c] = Fields /\ Chained(c, proc[c].made)
         /\ proc[c].stage \in Nat
         /\ Stage(c) = "check" => proc[c].stage = 2
         /\ Stage(c) \in {"publish", "answer", "inspect"} => proc[c].stage > 2
         /\ Stage(c) = "verify" => proc[c].stage >= 2 /\ (c # "translate" => proc[c].stage > 2)
         /\ proc[c].stage > 2 /\ c # "translate" =>
              Checked(c, Data(proc[c].snap), proc[c].pins)
  <1>1. /\ proc[c].pc = "run" /\ DOMAIN proc[c] = Fields
        /\ proc[c].stage \in 1..Len(Stages[c]) /\ Len(Stages[c]) \in Nat
    BY Plan DEF Running, IInv, Good, Progress, StagesFit
  <1>2. Vouched(c, proc[c])
    BY DEF LineInv
  <1>3. Stage(c) = Stages[c][proc[c].stage]
    BY DEF Stage
  <1>4. Stage(c) = "verify" =>
          proc[c].stage >= 2 /\ (c # "translate" => proc[c].stage > 2)
    <2>1. FirstVerify(c) = IF c = "translate" THEN 2 ELSE 3
      BY DEF FirstVerify
    <2>2. Stage(c) = "verify" => proc[c].stage >= FirstVerify(c)
      BY <1>1, <1>3, Plan DEF StagesFit
    <2>. QED  BY <1>1, <2>1, <2>2
  <1>. QED  BY <1>1, <1>2, <1>3, <1>4, CheckIsSecond DEF Vouched

LEMMA MakingIsVouched ==
  ASSUME IInv, LineInv, NEW c \in Commands, Running(c),
         Stage(c) \in {"publish", "answer"}
  PROVE  LET made == Product(c, Data(proc[c].snap))
         IN /\ Vouched(c, NextStage(c, [proc[c] EXCEPT !.made = made]))
            /\ "raw report" \in DOMAIN made =>
                 made["raw report"].output.source = made["raw report"].source
            /\ "reviewed report" \in DOMAIN made => Bound(made["reviewed report"])
  <1>. DEFINE d == Data(proc[c].snap)
              made == Product(c, d)
  <1>1. /\ proc[c].pc = "run" /\ proc[c].stage > 2 /\ proc[c].stage \in Nat
        /\ DOMAIN proc[c] = Fields
        /\ c # "translate" => Checked(c, d, proc[c].pins)
    BY StageFacts
  <1>2. proc[c].stage > 1
    BY <1>1
  <1>3. \A q \in Inputs(c) : d[q] # Absent
    BY <1>1, <1>2, HasRead
  <1>4. Genuine(proc[c].pins)
    BY <1>1 DEF LineInv, Vouched
  <1>. HIDE DEF d
  <1>5. Chained(c, made)
    BY <1>1, <1>3, <1>4, ProductIsChained
  <1>6. /\ "raw report" \in DOMAIN made =>
             made["raw report"].output.source = made["raw report"].source
        /\ "reviewed report" \in DOMAIN made => Bound(made["reviewed report"])
    BY <1>1, <1>3, <1>4, ProductIsGenuine
  <1>. HIDE DEF made
  <1>7. Vouched(c, NextStage(c, [proc[c] EXCEPT !.made = made]))
    <2>. DEFINE p == [proc[c] EXCEPT !.made = made]
    <2>1. /\ DOMAIN p = Fields /\ p.snap = proc[c].snap
          /\ p.pins = proc[c].pins /\ p.made = made
      BY <1>1 DEF Fields
    <2>. HIDE DEF p
    <2>2. Vouched(c, NextStage(c, p))
      BY <1>1, <1>5, <2>1, EndIsVouched DEF d
    <2>. QED  BY <2>2 DEF p
  <1>. QED  BY <1>6, <1>7 DEF made, d

\* One command moves, and nothing else is delivered than what it vouches for.
LEMMA LineStep ==
  ASSUME IInv, LineInv, NEW c \in Commands, Step(c)
  PROVE  LineInv'
  <1>. DEFINE Moves == \A o \in Commands : o # c => proc'[o] = proc[o]
  <1>0. DOMAIN proc = Commands /\ Vouched(c, proc[c]) /\ Genuine(delivered)
    BY DEF IInv, LineInv
  <1>1. ASSUME Vouched(c, proc'[c]), Moves, Genuine(delivered') PROVE LineInv'
    BY <1>1 DEF LineInv
  <1>2. CASE Begin(c)
    <2>1. /\ proc'[c].stage = 1 /\ proc'[c].snap = NoSnapshot
          /\ proc'[c].made = Nothing /\ proc'[c].pins = delivered /\ Moves
          /\ delivered' = delivered
      BY <1>0, <1>2 DEF Begin, Idle
    <2>. QED  BY <1>0, <1>1, <2>1, FreshIsVouched
  <1>3. CASE Read(c)
    <2>1. Moves /\ delivered' = delivered
      BY <1>0, <1>3 DEF Read
    <2>. QED  BY <1>0, <1>1, <1>3, <2>1, ReadIsVouched
  <1>4. CASE Check(c)
    <2>1. /\ Moves /\ delivered' = delivered /\ Running(c)
          /\ Checked(c, Data(proc[c].snap), proc[c].pins)
          /\ proc'[c] = NextStage(c, proc[c])
      BY <1>0, <1>4 DEF Check
    <2>2. Vouched(c, proc'[c])
      BY <2>1, StageFacts, EndIsVouched
    <2>. QED  BY <1>0, <1>1, <2>1, <2>2
  <1>5. CASE Verify(c)
    <2>1. /\ Moves /\ delivered' = delivered /\ Running(c) /\ Stage(c) = "verify"
          /\ proc'[c] = NextPart(c, proc[c], Verifies[c])
      BY <1>0, <1>5 DEF Verify
    <2>2. /\ proc[c].pc = "run" /\ DOMAIN proc[c] = Fields
          /\ Chained(c, proc[c].made)
          /\ c # "translate" => Checked(c, Data(proc[c].snap), proc[c].pins)
      BY <2>1, StageFacts
    <2>3. CASE proc[c].k = Len(Verifies[c])
      <3>1. proc'[c] = NextStage(c, proc[c])
        BY <2>1, <2>3 DEF NextPart
      <3>2. Vouched(c, proc'[c])
        BY <2>2, <3>1, EndIsVouched
      <3>. QED  BY <1>0, <1>1, <2>1, <3>2
    <2>4. CASE proc[c].k # Len(Verifies[c])
      <3>1. /\ proc'[c].made = proc[c].made /\ proc'[c].snap = proc[c].snap
            /\ proc'[c].pins = proc[c].pins
        BY <2>1, <2>2, <2>4 DEF NextPart, Fields
      <3>2. Vouched(c, proc'[c])
        BY <1>0, <2>2, <3>1 DEF Vouched
      <3>. QED  BY <1>0, <1>1, <2>1, <3>2
    <2>. QED  BY <2>3, <2>4
  <1>6. CASE Retry(c)
    <2>1. /\ proc'[c].stage = 1 /\ proc'[c].snap = NoSnapshot
          /\ proc'[c].made = Nothing /\ proc'[c].pins = proc[c].pins /\ Moves
          /\ delivered' = delivered /\ Running(c)
      BY <1>0, <1>6 DEF Retry, Idle
    <2>2. Genuine(proc[c].pins)
      BY <1>0, <2>1 DEF Vouched, Running
    <2>. QED  BY <1>0, <1>1, <2>1, <2>2, FreshIsVouched
  <1>7. CASE Answer(c)
    <2>1. /\ Moves /\ delivered' = delivered /\ Running(c) /\ Stage(c) = "answer"
          /\ proc'[c] = NextStage(c, [proc[c] EXCEPT !.made = Product(c, Data(proc[c].snap))])
      BY <1>0, <1>7 DEF Answer
    <2>2. Vouched(c, proc'[c])
      BY <2>1, MakingIsVouched
    <2>. QED  BY <1>0, <1>1, <2>1, <2>2
  <1>8. CASE Publish(c)
    <2>. DEFINE made == Product(c, Data(proc[c].snap))
    <2>1. /\ Moves /\ Running(c) /\ Stage(c) = "publish" /\ Place(made)
          /\ proc'[c] = NextStage(c, [proc[c] EXCEPT !.made = made])
      BY <1>0, <1>8 DEF Publish
    <2>2. /\ Vouched(c, NextStage(c, [proc[c] EXCEPT !.made = made]))
          /\ "raw report" \in DOMAIN made =>
               made["raw report"].output.source = made["raw report"].source
          /\ "reviewed report" \in DOMAIN made => Bound(made["reviewed report"])
      BY <2>1, MakingIsVouched
    <2>. HIDE DEF made
    <2>3. Genuine(delivered')
      BY <1>0, <2>1, <2>2, DeliveryIsGenuine
    <2>. QED  BY <1>1, <2>1, <2>2, <2>3
  <1>9. CASE Inspect(c)
    <2>1. /\ Moves /\ delivered' = delivered /\ Running(c) /\ Stage(c) = "inspect"
          /\ proc'[c] = NextStage(c, proc[c])
      BY <1>0, <1>9 DEF Inspect
    <2>2. Vouched(c, proc'[c])
      BY <2>1, StageFacts, EndIsVouched
    <2>. QED  BY <1>0, <1>1, <2>1, <2>2
  <1>10. CASE Fail(c)
    <2>1. /\ Moves /\ delivered' = delivered
          /\ proc'[c].pc = "failed" /\ proc'[c].made = proc[c].made
      BY <1>0, <1>10 DEF Fail, Ended, Idle
    <2>2. Vouched(c, proc'[c])
      BY <1>0, <2>1 DEF Vouched
    <2>. QED  BY <1>0, <1>1, <2>1, <2>2
  <1>. QED  BY <1>2, <1>3, <1>4, <1>5, <1>6, <1>7, <1>8, <1>9, <1>10 DEF Step

\* What is delivered by others than the commands.
LEMMA LineOthers ==
  ASSUME LineInv, proc' = proc
  PROVE  /\ delivered' = delivered => LineInv'
         /\ Resume => LineInv'
         /\ Decide => LineInv'
         /\ Supplement => LineInv'
  <1>1. Genuine(delivered)
    BY DEF LineInv
  <1>2. Genuine(delivered') => LineInv'
    BY DEF LineInv
  <1>3. ASSUME Resume PROVE Genuine(delivered')
    <2>. DEFINE d == Data(disk)
                made == Two("raw text", RawText(d), "raw report", RawReport(d, 3))
    <2>1. Place(made)
      BY <1>3 DEF Resume
    <2>2. /\ made["raw report"] = RawReport(d, 3)
          /\ DOMAIN made = {"raw text", "raw report"}
      BY DEF Two
    <2>3. RawReport(d, 3).output.source = RawReport(d, 3).source
      BY DEF RawReport, RawText
    <2>. HIDE DEF made, d
    <2>. QED  BY <1>1, <2>1, <2>2, <2>3, DeliveryIsGenuine
  <1>4. ASSUME Decide PROVE Genuine(delivered')
    <2>1. PICK x : Place(One("decisions", x))
      BY <1>4 DEF Decide
    <2>2. DOMAIN One("decisions", x) = {"decisions"}
      BY DEF One
    <2>. QED  BY <1>1, <2>1, <2>2, DeliveryIsGenuine
  <1>5. ASSUME Supplement PROVE Genuine(delivered')
    <2>1. PICK x, y : Place(Two("supplement", x, "evidence", y))
      BY <1>5 DEF Supplement
    <2>2. DOMAIN Two("supplement", x, "evidence", y) = {"supplement", "evidence"}
      BY DEF Two
    <2>. QED  BY <1>1, <2>1, <2>2, DeliveryIsGenuine
  <1>. QED  BY <1>1, <1>2, <1>3, <1>4, <1>5

LEMMA LineInit == Init => LineInv
  <1>. SUFFICES ASSUME Init PROVE LineInv
    OBVIOUS
  <1>1. Idle.pc = "idle" /\ Idle.made = Nothing
    BY DEF Idle
  <1>2. \A c \in Commands : Vouched(c, proc[c])
    BY <1>1 DEF Init, Vouched, Chained
  <1>3. "raw report" \in Parts /\ "reviewed report" \in Parts
    BY ReadBy, InputsAreParts, CommandNames
  <1>4. delivered["raw report"] = Absent /\ delivered["reviewed report"] = Absent
    BY <1>3 DEF Init
  <1>. QED  BY <1>2, <1>4 DEF LineInv, Genuine

LEMMA LineNext == IInv /\ LineInv /\ [Next]_vars => LineInv'
  <1>. SUFFICES ASSUME IInv, LineInv, [Next]_vars PROVE LineInv'
    OBVIOUS
  <1>1. CASE UNCHANGED vars
    BY <1>1, LineOthers DEF vars
  <1>2. CASE Next
    <2>0. offered \subseteq Commands
      BY DEF IInv
    <2>1. ASSUME NEW c \in offered, Step(c) PROVE LineInv'
      BY <2>0, <2>1, LineStep
    <2>2. ASSUME NEW c \in offered, Discard(c) PROVE LineInv'
      BY <2>2, LineOthers DEF Discard
    <2>3. CASE Resume
      BY <2>3, LineOthers DEF Resume
    <2>4. CASE Decide
      BY <2>4, LineOthers DEF Decide
    <2>5. CASE Supplement
      BY <2>5, LineOthers DEF Supplement
    <2>6. ASSUME NEW q \in Watched, Meddle(q) PROVE LineInv'
      BY <2>6, LineOthers DEF Meddle
    <2>. QED  BY <1>2, <2>1, <2>2, <2>3, <2>4, <2>5, <2>6 DEF Next
  <1>. QED  BY <1>1, <1>2

\* Whatever other programs write between the commands, what the last command
\* publishes belongs together with what the first one made.
THEOREM PublishedOfOneLineage == Spec => []OneLineage
  <1>1. LineInv => OneLineage
    <2>. SUFFICES ASSUME LineInv PROVE OneLineage
      OBVIOUS
    <2>1. \A c \in Commands : Chained(c, proc[c].made)
      BY DEF LineInv, Vouched
    <2>2. /\ Chained("compare", proc["compare"].made)
          /\ Chained("apply", proc["apply"].made)
          /\ Chained("package", proc["package"].made)
          /\ Chained("consolidate", proc["consolidate"].made)
      BY <2>1, CommandNames
    <2>. QED  BY <2>2 DEF Chained, OneLineage
  <1>. QED  BY <1>1, InitInv, NextInv, LineInit, LineNext, PTL DEF Spec

----------------------------------------------------------------------------
(* Types. A part that is there has a stamp, and what is placed is never the *)
(* absence of a part: a command makes records of parts that it has read, or *)
(* copies them, and the one part that the consolidation takes out of        *)
(* another, the text of the supplement, is a record too (Filled).           *)

\* f is a record, or another function: what a command makes of what it has read.
IsRecord(f) == f = [y \in DOMAIN f |-> f[y]]

\* A delivery that holds a supplement holds its text.
Filled(dl) == dl["supplement"] # Absent => dl["supplement"].text # Absent

Typed(c, p) ==
  /\ p.pc \in {"idle", "run", "done", "failed"}
  /\ p.stage \in 1..Len(Stages[c])
  /\ DOMAIN p.snap \subseteq Inputs(c)
  /\ DOMAIN p.made \in {{}, Writes[c], {"answer"}}
  /\ p.tries \in 1..2
  /\ p.pc = "run" => Filled(p.pins)

BoundsOK ==
  /\ DOMAIN spent = {"starts", "meddles"}
  /\ spent.starts \in 0..MaxStarts /\ spent.meddles \in 0..MaxMeddles

TypeInv ==
  /\ \A q \in Parts : disk[q].data = Absent => disk[q].stamp = 0
  /\ \A c \in Commands : Typed(c, proc[c])
  /\ Filled(delivered)
  /\ BoundsOK

\* The shapes of what is made.
LEMMA RecordsAreNoAbsence ==
  ASSUME ~IsRecord(Absent), NEW a, NEW b, NEW x, NEW y, NEW z, NEW u
  PROVE  /\ [source |-> a] # Absent /\ [of |-> a] # Absent
         /\ [schema |-> a, source |-> b, output |-> x] # Absent
         /\ [report |-> a, source |-> b, candidate |-> x] # Absent
         /\ [source |-> a, candidate |-> b, choice |-> x] # Absent
         /\ [schema |-> a, base |-> b, source |-> x, candidate |-> y, decisions |-> z,
             output |-> u] # Absent
         /\ [application |-> a, output |-> b] # Absent
         /\ [application |-> a, supplement |-> b] # Absent
         /\ [source |-> a, memory |-> b] # Absent
         /\ [source |-> a, baseline |-> b, reviewed |-> x, memory |-> y] # Absent
         /\ [page |-> a, choice |-> b] # Absent
         /\ [text |-> a, source |-> b, main |-> x] # Absent
         /\ [supplement |-> a] # Absent
  <1>1. \A f : IsRecord(f) => f # Absent
    OBVIOUS
  <1>2. /\ IsRecord([source |-> a]) /\ IsRecord([of |-> a]) /\ IsRecord([supplement |-> a])
        /\ IsRecord([application |-> a, output |-> b])
        /\ IsRecord([application |-> a, supplement |-> b])
        /\ IsRecord([source |-> a, memory |-> b]) /\ IsRecord([page |-> a, choice |-> b])
    BY DEF IsRecord
  <1>3. /\ IsRecord([schema |-> a, source |-> b, output |-> x])
        /\ IsRecord([report |-> a, source |-> b, candidate |-> x])
        /\ IsRecord([source |-> a, candidate |-> b, choice |-> x])
        /\ IsRecord([text |-> a, source |-> b, main |-> x])
    BY DEF IsRecord
  <1>4. /\ IsRecord([schema |-> a, base |-> b, source |-> x, candidate |-> y,
                     decisions |-> z, output |-> u])
        /\ IsRecord([source |-> a, baseline |-> b, reviewed |-> x, memory |-> y])
    BY DEF IsRecord
  <1>. QED  BY <1>1, <1>2, <1>3, <1>4, Zenon

\* A product has the parts that its command writes, and all of them are there.
LEMMA ProductIsThere ==
  ASSUME ~IsRecord(Absent), NEW c \in Commands, NEW d, NEW pins, Filled(pins),
         \A q \in Inputs(c) : d[q] # Absent,
         c # "translate" => Checked(c, d, pins)
  PROVE  /\ DOMAIN Product(c, d) \in {Writes[c], {"answer"}}
         /\ "supplement" \notin DOMAIN Product(c, d)
         /\ \A q \in DOMAIN Product(c, d) : Product(c, d)[q] # Absent
  <1>1. CASE c = "translate"
    <2>1. /\ DOMAIN Product(c, d) = {"raw text", "raw report"}
          /\ Product(c, d)["raw text"] = RawText(d)
          /\ Product(c, d)["raw report"] = RawReport(d, 2)
      BY <1>1 DEF Product, TranslateMakes, Two
    <2>2. Writes[c] = {"raw text", "raw report"}
      BY <1>1 DEF Writes, Script, Translate
    <2>3. RawText(d) # Absent /\ RawReport(d, 2) # Absent
      BY RecordsAreNoAbsence, Zenon DEF RawText, RawReport
    <2>. QED  BY <2>1, <2>2, <2>3, Zenon
  <1>2. CASE c = "review"
    <2>1. DOMAIN Product(c, d) = {"page"} /\ Product(c, d)["page"] = PageOf(d)
      BY <1>2 DEF Product, ReviewMakes, One
    <2>2. Writes[c] = {"page"}
      BY <1>2 DEF Writes, Script, Review
    <2>3. PageOf(d) # Absent
      BY RecordsAreNoAbsence, Zenon DEF PageOf
    <2>. QED  BY <2>1, <2>2, <2>3, Zenon
  <1>3. CASE c = "apply"
    <2>1. /\ DOMAIN Product(c, d) = {"reviewed text", "reviewed report"}
          /\ Product(c, d)["reviewed text"] = ReviewedText(d)
          /\ Product(c, d)["reviewed report"] = ReviewedReport(d)
      BY <1>3 DEF Product, ApplyMakes, Two
    <2>2. Writes[c] = {"reviewed text", "reviewed report"}
      BY <1>3 DEF Writes, Script, Apply
    <2>3. ReviewedText(d) # Absent /\ ReviewedReport(d) # Absent
      BY RecordsAreNoAbsence, ZenonT(60) DEF ReviewedText, ReviewedReport
    <2>. QED  BY <2>1, <2>2, <2>3, Zenon
  <1>4. CASE c = "package"
    <2>. DEFINE r == [application |-> d["reviewed report"], output |-> d["reviewed text"]]
    <2>1. /\ DOMAIN Product(c, d) = {"package text", "package report"}
          /\ Product(c, d)["package text"] = d["reviewed text"]
          /\ Product(c, d)["package report"] = r
      BY <1>4 DEF Product, PackageMakes, Two
    <2>2. Writes[c] = {"package text", "package report"}
      BY <1>4 DEF Writes, Script, Package
    <2>3. d["reviewed text"] # Absent
      BY <1>4, ReadBy, Zenon
    <2>4. r # Absent
      BY RecordsAreNoAbsence, Zenon
    <2>. HIDE DEF r
    <2>. QED  BY <2>1, <2>2, <2>3, <2>4, Zenon
  <1>5. CASE c = "consolidate"
    <2>. DEFINE r == [application |-> d["reviewed report"], supplement |-> d["supplement"]]
    <2>1. /\ DOMAIN Product(c, d) = {"final text", "final replace", "final report"}
          /\ Product(c, d)["final text"] = d["reviewed text"]
          /\ Product(c, d)["final replace"] = d["supplement"].text
          /\ Product(c, d)["final report"] = r
      BY <1>5 DEF Product, ConsolidateMakes
    <2>2. Writes[c] = {"final text", "final replace", "final report"}
      BY <1>5 DEF Writes, Script, Consolidate
    <2>3. d["reviewed text"] # Absent /\ d["supplement"] # Absent
      BY <1>5, ReadBy, Zenon
    <2>4. d["supplement"] = pins["supplement"]
      BY <1>5 DEF Checked, InputsBound, SupplementBound
    <2>5. d["supplement"].text # Absent
      BY <2>3, <2>4 DEF Filled
    <2>6. r # Absent
      BY RecordsAreNoAbsence, Zenon
    <2>. HIDE DEF r
    <2>. QED  BY <2>1, <2>2, <2>3, <2>5, <2>6, Zenon
  <1>6. CASE c = "coverage"
    <2>. DEFINE r == [source |-> SourceOf(d), memory |-> d["memory"]]
    <2>1. DOMAIN Product(c, d) = {"answer"} /\ Product(c, d)["answer"] = r
      BY <1>6 DEF Product, CoverageMakes, One
    <2>2. r # Absent
      BY RecordsAreNoAbsence, Zenon
    <2>. HIDE DEF r
    <2>. QED  BY <2>1, <2>2, Zenon
  <1>7. CASE c = "compare"
    <2>. DEFINE r == [source |-> SourceOf(d), baseline |-> d["raw text"],
                      reviewed |-> d["reviewed text"], memory |-> d["memory"]]
    <2>1. DOMAIN Product(c, d) = {"ab pack"} /\ Product(c, d)["ab pack"] = r
      BY <1>7 DEF Product, CompareMakes, One
    <2>2. Writes[c] = {"ab pack"}
      BY <1>7 DEF Writes, Script, Compare
    <2>3. r # Absent
      BY RecordsAreNoAbsence, Zenon
    <2>. HIDE DEF r
    <2>. QED  BY <2>1, <2>2, <2>3, Zenon
  <1>. QED  BY <1>1, <1>2, <1>3, <1>4, <1>5, <1>6, <1>7, CommandNames

\* A command has a list of stages.
LEMMA StagesAreListed ==
  ASSUME NEW c \in Commands
  PROVE  DOMAIN Stages[c] = 1..Len(Stages[c])
  <1>1. CASE c = "translate"
    <2>1. Stages[c] = <<"read", "verify", "verify", "verify", "publish">>
      BY <1>1 DEF Stages, Script, Translate
    <2>. QED  BY <2>1
  <1>2. CASE c = "review"
    <2>1. Stages[c] = <<"read", "check", "verify", "publish">>
      BY <1>2 DEF Stages, Script, Review
    <2>. QED  BY <2>1
  <1>3. CASE c = "apply"
    <2>1. Stages[c] = <<"read", "check", "verify", "verify", "verify", "publish">>
      BY <1>3 DEF Stages, Script, Apply
    <2>. QED  BY <2>1
  <1>4. CASE c = "package"
    <2>1. Stages[c] = <<"read", "check", "verify", "publish">>
      BY <1>4 DEF Stages, Script, Package
    <2>. QED  BY <2>1
  <1>5. CASE c = "consolidate"
    <2>1. Stages[c] = <<"read", "check", "verify", "publish", "inspect", "verify">>
      BY <1>5 DEF Stages, Script, Consolidate
    <2>. QED  BY <2>1
  <1>6. CASE c = "coverage"
    <2>1. Stages[c] = <<"read", "check", "verify", "answer">>
      BY <1>6 DEF Stages, Script, Coverage
    <2>. QED  BY <2>1
  <1>7. CASE c = "compare"
    <2>1. Stages[c] = <<"read", "check", "verify", "verify", "publish">>
      BY <1>7 DEF Stages, Script, Compare
    <2>. QED  BY <2>1
  <1>. QED  BY <1>1, <1>2, <1>3, <1>4, <1>5, <1>6, <1>7, CommandNames

\* The steps of an invocation.
LEMMA IdleIsTyped ==
  ASSUME NEW c \in Commands, NEW p, DOMAIN p = Fields,
         p.pc \in {"idle", "run", "done", "failed"}, p.stage = 1,
         p.snap = NoSnapshot, p.tries \in 1..2,
         DOMAIN p.made \in {{}, Writes[c], {"answer"}},
         p.pc = "run" => Filled(p.pins)
  PROVE  Typed(c, p)
  <1>1. DOMAIN p.snap = {}
    BY DEF NoSnapshot
  <1>2. 1 \in 1..Len(Stages[c])
    BY Plan DEF StagesFit
  <1>. QED  BY <1>1, <1>2 DEF Typed

LEMMA EndIsTyped ==
  ASSUME NEW c \in Commands, NEW p, DOMAIN p = Fields, Typed(c, p),
         NEW pc \in {"done", "failed"}
  PROVE  Typed(c, Ended(p, pc))
  <1>. DEFINE n == Ended(p, pc)
  <1>1. /\ DOMAIN n = Fields /\ n.pc = pc /\ n.stage = 1 /\ n.snap = NoSnapshot
        /\ n.tries = 1 /\ n.made = p.made
    BY DEF Ended, Idle, Fields
  <1>. HIDE DEF n
  <1>2. Typed(c, n)
    BY <1>1, IdleIsTyped DEF Typed
  <1>. QED  BY <1>2 DEF n

LEMMA NextStageIsTyped ==
  ASSUME NEW c \in Commands, NEW p, DOMAIN p = Fields, Typed(c, p)
  PROVE  Typed(c, NextStage(c, p))
  <1>1. CASE p.stage = Len(Stages[c])
    BY <1>1, EndIsTyped DEF NextStage
  <1>2. CASE p.stage # Len(Stages[c])
    <2>. DEFINE n == [p EXCEPT !.stage = @ + 1, !.k = 1]
    <2>1. /\ n.pc = p.pc /\ n.stage = p.stage + 1 /\ n.snap = p.snap
          /\ n.made = p.made /\ n.tries = p.tries /\ n.pins = p.pins
      BY DEF Fields
    <2>2. p.stage + 1 \in 1..Len(Stages[c])
      BY <1>2, Plan DEF Typed, StagesFit
    <2>3. NextStage(c, p) = n
      BY <1>2 DEF NextStage
    <2>. HIDE DEF n
    <2>4. Typed(c, n)
      BY <2>1, <2>2 DEF Typed
    <2>. QED  BY <2>3, <2>4
  <1>. QED  BY <1>1, <1>2

LEMMA NextPartIsTyped ==
  ASSUME NEW c \in Commands, NEW p, NEW order, DOMAIN p = Fields, Typed(c, p)
  PROVE  Typed(c, NextPart(c, p, order))
  <1>1. CASE p.k = Len(order)
    BY <1>1, NextStageIsTyped DEF NextPart
  <1>2. CASE p.k # Len(order)
    <2>. DEFINE n == [p EXCEPT !.k = @ + 1]
    <2>1. /\ n.pc = p.pc /\ n.stage = p.stage /\ n.snap = p.snap
          /\ n.made = p.made /\ n.tries = p.tries /\ n.pins = p.pins
      BY DEF Fields
    <2>2. NextPart(c, p, order) = n
      BY <1>2 DEF NextPart
    <2>. HIDE DEF n
    <2>3. Typed(c, n)
      BY <2>1 DEF Typed
    <2>. QED  BY <2>2, <2>3
  <1>. QED  BY <1>1, <1>2

\* An invocation that reads, that makes its product, and one that begins.
LEMMA TakenIsTyped ==
  ASSUME NEW c \in Commands, NEW p, DOMAIN p = Fields, Typed(c, p),
         NEW part \in Inputs(c)
  PROVE  DOMAIN Taken(c, p, part) = Fields /\ Typed(c, Taken(c, p, part))
  <1>. DEFINE n == Taken(c, p, part)
  <1>1. /\ DOMAIN n = Fields /\ n.pc = p.pc /\ n.stage = p.stage /\ n.made = p.made
        /\ n.tries = p.tries /\ n.pins = p.pins /\ DOMAIN n.snap = DOMAIN p.snap \cup {part}
    BY DEF Taken, Fields
  <1>. HIDE DEF n
  <1>2. Typed(c, n)
    BY <1>1 DEF Typed
  <1>. QED  BY <1>1, <1>2 DEF n

LEMMA MadeIsTyped ==
  ASSUME NEW c \in Commands, NEW p, DOMAIN p = Fields, Typed(c, p),
         NEW made, DOMAIN made \in {Writes[c], {"answer"}}
  PROVE  Typed(c, NextStage(c, [p EXCEPT !.made = made]))
  <1>. DEFINE n == [p EXCEPT !.made = made]
  <1>1. /\ DOMAIN n = Fields /\ n.pc = p.pc /\ n.stage = p.stage /\ n.made = made
        /\ n.tries = p.tries /\ n.pins = p.pins /\ n.snap = p.snap
    BY DEF Fields
  <1>. HIDE DEF n
  <1>2. Typed(c, n)
    BY <1>1 DEF Typed
  <1>3. Typed(c, NextStage(c, n))
    BY <1>1, <1>2, NextStageIsTyped
  <1>. QED  BY <1>3 DEF n

LEMMA FreshIsTyped ==
  ASSUME NEW c \in Commands, NEW pins, Filled(pins), NEW p, DOMAIN p = Fields,
         p.pc = "run", p.pins = pins, p.stage = 1, p.snap = NoSnapshot,
         p.made = Nothing, p.tries \in 1..2
  PROVE  Typed(c, p)
  <1>1. DOMAIN p.made = {}
    BY DEF Nothing
  <1>. QED  BY <1>1, IdleIsTyped

\* A delivery of parts that are there.
LEMMA PlaceIsTyped ==
  ASSUME IInv, TypeInv, NEW made, Place(made),
         \A q \in DOMAIN made : made[q] # Absent,
         "supplement" \in DOMAIN made => made["supplement"].text # Absent
  PROVE  /\ \A q \in Parts : disk'[q].data = Absent => disk'[q].stamp = 0
         /\ Filled(delivered')
  <1>1. \A q \in Parts : /\ disk'[q] = IF q \in DOMAIN made
                                       THEN [data |-> made[q], stamp |-> clock + 1]
                                       ELSE disk[q]
                         /\ delivered'[q] = IF q \in DOMAIN made THEN made[q]
                                            ELSE delivered[q]
    BY DEF Place
  <1>2. \A q \in Parts : disk[q].data = Absent => disk[q].stamp = 0
    BY DEF TypeInv
  <1>3. "supplement" \in Parts
    BY ReadBy, InputsAreParts, CommandNames, Zenon
  <1>4. Filled(delivered)
    BY DEF TypeInv
  <1>5. Filled(delivered')
    <2>1. delivered'["supplement"] = IF "supplement" \in DOMAIN made THEN made["supplement"]
                                     ELSE delivered["supplement"]
      BY <1>1, <1>3
    <2>2. CASE "supplement" \in DOMAIN made
      BY <2>1, <2>2 DEF Filled
    <2>3. CASE "supplement" \notin DOMAIN made
      BY <1>4, <2>1, <2>3 DEF Filled
    <2>. QED  BY <2>2, <2>3
  <1>6. ASSUME NEW q \in Parts, disk'[q].data = Absent PROVE disk'[q].stamp = 0
    <2>1. CASE q \in DOMAIN made
      <3>1. disk'[q] = [data |-> made[q], stamp |-> clock + 1]
        BY <1>1, <2>1, Zenon
      <3>2. disk'[q].data = made[q]
        BY <3>1
      <3>. QED  BY <1>6, <2>1, <3>2
    <2>2. CASE q \notin DOMAIN made
      BY <1>1, <1>2, <1>6, <2>2
    <2>. QED  BY <2>1, <2>2
  <1>. QED  BY <1>5, <1>6

\* One command moves.
LEMMA StepIsTyped ==
  ASSUME ~IsRecord(Absent), IInv, LineInv, TypeInv, NEW c \in Commands, Step(c)
  PROVE  TypeInv'
  <1>. DEFINE Moves == \A o \in Commands : o # c => proc'[o] = proc[o]
              Rests == disk' = disk /\ delivered' = delivered
              p == proc[c]
              DiskTyped == \A q \in Parts : disk[q].data = Absent => disk[q].stamp = 0
  <1>0. /\ DOMAIN proc = Commands /\ Typed(c, p) /\ DOMAIN p = Fields
        /\ Filled(delivered) /\ BoundsOK /\ DiskTyped
    BY DEF IInv, Good, TypeInv
  <1>1. ASSUME Typed(c, proc'[c]), Moves, DiskTyped', Filled(delivered'), BoundsOK'
        PROVE  TypeInv'
    <2>1. \A o \in Commands : Typed(o, proc'[o])
      BY <1>1 DEF TypeInv
    <2>. QED  BY <1>1, <2>1 DEF TypeInv
  <1>2. ASSUME Typed(c, proc'[c]), Moves, Rests, UNCHANGED spent PROVE TypeInv'
    <2>1. DiskTyped' /\ Filled(delivered') /\ BoundsOK'
      BY <1>0, <1>2 DEF BoundsOK
    <2>. QED  BY <1>1, <1>2, <2>1
  <1>3. CASE Begin(c)
    <2>1. /\ Moves /\ Rests /\ spent.starts < MaxStarts
          /\ spent' = [spent EXCEPT !.starts = @ + 1]
          /\ proc'[c] = [Idle EXCEPT !.pc = "run", !.pins = delivered]
      BY <1>0, <1>3 DEF Begin
    <2>2. /\ DOMAIN proc'[c] = Fields /\ proc'[c].pc = "run" /\ proc'[c].pins = delivered
          /\ proc'[c].stage = 1 /\ proc'[c].snap = NoSnapshot /\ proc'[c].made = Nothing
          /\ proc'[c].tries \in 1..2
      BY <2>1 DEF Idle, Fields
    <2>3. Typed(c, proc'[c])
      BY <1>0, <2>2, FreshIsTyped
    <2>4. BoundsOK'
      BY <1>0, <2>1, SealedAssumption DEF BoundsOK
    <2>. QED  BY <1>0, <1>1, <2>1, <2>3, <2>4
  <1>4. CASE Read(c)
    <2>1. /\ Moves /\ Rests /\ UNCHANGED spent /\ p.pc = "run" /\ Stage(c) = "read"
          /\ proc'[c] = NextPart(c, Taken(c, p, Reads[c][p.k]), Reads[c])
      BY <1>0, <1>4 DEF Read, Running
    <2>2. Reads[c][p.k] \in Inputs(c)
      <3>1. Progress(c, p)
        BY <2>1 DEF IInv, Good
      <3>2. p.stage = 1
        BY <2>1, <3>1, Plan DEF StagesFit, Progress, Stage
      <3>3. p.k \in DOMAIN Reads[c]
        BY <3>1, <3>2, Plan DEF Progress
      <3>. QED  BY <3>3 DEF Inputs
    <2>3. /\ DOMAIN Taken(c, p, Reads[c][p.k]) = Fields
          /\ Typed(c, Taken(c, p, Reads[c][p.k]))
      BY <1>0, <2>2, TakenIsTyped
    <2>4. Typed(c, proc'[c])
      BY <2>1, <2>3, NextPartIsTyped
    <2>. QED  BY <1>2, <2>1, <2>4
  <1>5. CASE Check(c) \/ Inspect(c)
    <2>1. Moves /\ Rests /\ UNCHANGED spent /\ proc'[c] = NextStage(c, p)
      BY <1>0, <1>5 DEF Check, Inspect
    <2>2. Typed(c, proc'[c])
      BY <1>0, <2>1, NextStageIsTyped
    <2>. QED  BY <1>2, <2>1, <2>2
  <1>6. CASE Verify(c)
    <2>1. Moves /\ Rests /\ UNCHANGED spent /\ proc'[c] = NextPart(c, p, Verifies[c])
      BY <1>0, <1>6 DEF Verify
    <2>2. Typed(c, proc'[c])
      BY <1>0, <2>1, NextPartIsTyped
    <2>. QED  BY <1>2, <2>1, <2>2
  <1>7. CASE Retry(c)
    <2>1. /\ Moves /\ Rests /\ UNCHANGED spent /\ p.pc = "run"
          /\ proc'[c] = [Idle EXCEPT !.pc = "run", !.pins = p.pins, !.tries = 2]
      BY <1>0, <1>7 DEF Retry, Running
    <2>2. /\ DOMAIN proc'[c] = Fields /\ proc'[c].pc = "run" /\ proc'[c].pins = p.pins
          /\ proc'[c].stage = 1 /\ proc'[c].snap = NoSnapshot /\ proc'[c].made = Nothing
          /\ proc'[c].tries \in 1..2
      BY <2>1 DEF Idle, Fields
    <2>3. Filled(p.pins)
      BY <1>0, <2>1 DEF Typed
    <2>4. Typed(c, proc'[c])
      BY <2>2, <2>3, FreshIsTyped
    <2>. QED  BY <1>2, <2>1, <2>4
  <1>8. ASSUME Running(c), Stage(c) \in {"publish", "answer"}
        PROVE  LET made == Product(c, Data(p.snap))
               IN /\ Typed(c, NextStage(c, [p EXCEPT !.made = made]))
                  /\ "supplement" \notin DOMAIN made
                  /\ \A q \in DOMAIN made : made[q] # Absent
    <2>. DEFINE d == Data(p.snap)
                made == Product(c, d)
    <2>1. /\ p.pc = "run" /\ p.stage > 2 /\ p.stage \in Nat
          /\ c # "translate" => Checked(c, d, p.pins)
      BY <1>8, StageFacts
    <2>2. \A q \in Inputs(c) : d[q] # Absent
      BY <2>1, HasRead
    <2>3. Filled(p.pins)
      BY <1>0, <2>1 DEF Typed
    <2>. HIDE DEF d
    <2>4. /\ DOMAIN made \in {Writes[c], {"answer"}}
          /\ "supplement" \notin DOMAIN made
          /\ \A q \in DOMAIN made : made[q] # Absent
      BY <2>1, <2>2, <2>3, ProductIsThere
    <2>. HIDE DEF made
    <2>5. Typed(c, NextStage(c, [p EXCEPT !.made = made]))
      BY <1>0, <2>4, MadeIsTyped
    <2>. QED  BY <2>4, <2>5 DEF made, d
  <1>9. CASE Answer(c)
    <2>1. /\ Moves /\ Rests /\ UNCHANGED spent /\ Running(c) /\ Stage(c) = "answer"
          /\ proc'[c] = NextStage(c, [p EXCEPT !.made = Product(c, Data(p.snap))])
      BY <1>0, <1>9 DEF Answer
    <2>2. Typed(c, proc'[c])
      BY <1>8, <2>1
    <2>. QED  BY <1>2, <2>1, <2>2
  <1>10. CASE Publish(c)
    <2>. DEFINE made == Product(c, Data(p.snap))
    <2>1. /\ Moves /\ UNCHANGED spent /\ Running(c) /\ Stage(c) = "publish" /\ Place(made)
          /\ proc'[c] = NextStage(c, [p EXCEPT !.made = made])
      BY <1>0, <1>10 DEF Publish
    <2>2. /\ Typed(c, NextStage(c, [p EXCEPT !.made = made]))
          /\ "supplement" \notin DOMAIN made
          /\ \A q \in DOMAIN made : made[q] # Absent
      BY <1>8, <2>1
    <2>. HIDE DEF made
    <2>3. DiskTyped' /\ Filled(delivered')
      BY <2>1, <2>2, PlaceIsTyped
    <2>4. BoundsOK'
      BY <1>0, <2>1 DEF BoundsOK
    <2>. QED  BY <1>1, <2>1, <2>2, <2>3, <2>4
  <1>11. CASE Fail(c)
    <2>1. Moves /\ Rests /\ UNCHANGED spent /\ proc'[c] = Ended(p, "failed")
      BY <1>0, <1>11 DEF Fail
    <2>2. Typed(c, proc'[c])
      BY <1>0, <2>1, EndIsTyped
    <2>. QED  BY <1>2, <2>1, <2>2
  <1>. QED  BY <1>3, <1>4, <1>5, <1>6, <1>7, <1>9, <1>10, <1>11 DEF Step

\* The disk is changed by others than the commands.
LEMMA OthersAreTyped ==
  ASSUME TypeInv, proc' = proc, Filled(delivered'), BoundsOK',
         \A q \in Parts : disk'[q].data = Absent => disk'[q].stamp = 0
  PROVE  TypeInv'
  BY DEF TypeInv

LEMMA ResumeIsTyped ==
  ASSUME ~IsRecord(Absent), IInv, TypeInv, Resume
  PROVE  TypeInv'
  <1>. DEFINE d == Data(disk)
              made == Two("raw text", RawText(d), "raw report", RawReport(d, 3))
  <1>1. Place(made) /\ UNCHANGED <<proc, spent>>
    BY DEF Resume
  <1>2. RawText(d) # Absent /\ RawReport(d, 3) # Absent
    BY RecordsAreNoAbsence, Zenon DEF RawText, RawReport
  <1>3. /\ DOMAIN made = {"raw text", "raw report"}
        /\ made["raw text"] = RawText(d) /\ made["raw report"] = RawReport(d, 3)
    BY DEF Two
  <1>. HIDE DEF made, d
  <1>4. /\ \A q \in DOMAIN made : made[q] # Absent
        /\ "supplement" \notin DOMAIN made
    BY <1>2, <1>3, Zenon
  <1>5. BoundsOK'
    BY <1>1 DEF TypeInv, BoundsOK
  <1>. QED  BY <1>1, <1>4, <1>5, PlaceIsTyped, OthersAreTyped

LEMMA DecideIsTyped ==
  ASSUME ~IsRecord(Absent), IInv, TypeInv, Decide
  PROVE  TypeInv'
  <1>1. PICK choice \in Choices :
          Place(One("decisions", [page |-> disk["page"].data, choice |-> choice]))
    BY DEF Decide
  <1>. DEFINE x == [page |-> disk["page"].data, choice |-> choice]
              made == One("decisions", x)
  <1>2. x # Absent
    BY RecordsAreNoAbsence, Zenon
  <1>. HIDE DEF x
  <1>3. DOMAIN made = {"decisions"} /\ made["decisions"] = x
    BY DEF One
  <1>4. Place(made)
    BY <1>1 DEF x
  <1>. HIDE DEF made
  <1>5. /\ \A q \in DOMAIN made : made[q] # Absent
        /\ "supplement" \notin DOMAIN made
    BY <1>2, <1>3
  <1>6. proc' = proc /\ BoundsOK'
    <2>1. /\ proc' = proc /\ spent.meddles < MaxMeddles
          /\ spent' = [spent EXCEPT !.meddles =
                         IF disk["decisions"].data = Absent THEN @ ELSE @ + 1]
      BY DEF Decide
    <2>. QED  BY <2>1, SealedAssumption DEF TypeInv, BoundsOK
  <1>. QED  BY <1>4, <1>5, <1>6, PlaceIsTyped, OthersAreTyped

LEMMA SupplementIsTyped ==
  ASSUME ~IsRecord(Absent), IInv, TypeInv, Supplement
  PROVE  TypeInv'
  <1>. DEFINE replace == disk["replace"].data
              t == [of |-> replace]
              x == [text |-> t, source |-> replace, main |-> disk["package text"].data]
              y == [supplement |-> x]
              made == Two("supplement", x, "evidence", y)
  <1>1. Place(made) /\ UNCHANGED <<proc, spent>>
    BY DEF Supplement
  <1>2. t # Absent
    BY RecordsAreNoAbsence, Zenon
  <1>. HIDE DEF t
  <1>3. x # Absent
    BY RecordsAreNoAbsence, Zenon
  <1>4. x.text = t
    OBVIOUS
  <1>. HIDE DEF x
  <1>5. y # Absent
    BY RecordsAreNoAbsence, Zenon
  <1>. HIDE DEF y
  <1>6. /\ DOMAIN made = {"supplement", "evidence"}
        /\ made["supplement"] = x /\ made["evidence"] = y
    BY DEF Two
  <1>. HIDE DEF made
  <1>7. \A q \in DOMAIN made : made[q] # Absent
    BY <1>3, <1>5, <1>6
  <1>8. made["supplement"].text # Absent
    BY <1>2, <1>4, <1>6
  <1>9. BoundsOK'
    BY <1>1 DEF TypeInv, BoundsOK
  <1>. QED  BY <1>1, <1>7, <1>8, <1>9, PlaceIsTyped, OthersAreTyped

LEMMA MeddleIsTyped ==
  ASSUME IInv, TypeInv, NEW q \in Parts, Meddle(q)
  PROVE  TypeInv'
  <1>1. PICK v \in Variants(q) : disk' = [disk EXCEPT ![q] = [data |-> v, stamp |-> clock + 1]]
    BY DEF Meddle
  <1>2. v # Absent
    BY SealedAssumption DEF Variants
  <1>3. \A x \in Parts : disk'[x].data = Absent => disk'[x].stamp = 0
    BY <1>1, <1>2 DEF TypeInv, IInv, DiskOK
  <1>4. /\ proc' = proc /\ delivered' = delivered /\ spent.meddles < MaxMeddles
        /\ spent' = [spent EXCEPT !.meddles = @ + 1]
    BY DEF Meddle
  <1>5. BoundsOK'
    BY <1>4, SealedAssumption DEF TypeInv, BoundsOK
  <1>6. Filled(delivered')
    BY <1>4 DEF TypeInv
  <1>. QED  BY <1>3, <1>4, <1>5, <1>6, OthersAreTyped

LEMMA DiscardIsTyped ==
  ASSUME IInv, TypeInv, NEW c \in Commands, Discard(c)
  PROVE  TypeInv'
  <1>1. \A x \in Parts : disk'[x] = disk[x] \/ disk'[x] = Nowhere
    BY DEF Discard
  <1>2. \A x \in Parts : disk'[x].data = Absent => disk'[x].stamp = 0
    BY <1>1 DEF TypeInv, Nowhere
  <1>3. /\ proc' = proc /\ delivered' = delivered /\ spent.meddles < MaxMeddles
        /\ spent' = [spent EXCEPT !.meddles = @ + 1]
    BY DEF Discard
  <1>4. BoundsOK'
    BY <1>3, SealedAssumption DEF TypeInv, BoundsOK
  <1>5. Filled(delivered')
    BY <1>3 DEF TypeInv
  <1>. QED  BY <1>2, <1>3, <1>4, <1>5, OthersAreTyped

LEMMA TypeInit == Init => TypeInv
  <1>. SUFFICES ASSUME Init PROVE TypeInv
    OBVIOUS
  <1>1. \A c \in Commands : Typed(c, proc[c])
    <2>1. /\ DOMAIN Idle = Fields /\ Idle.pc = "idle" /\ Idle.stage = 1
          /\ Idle.snap = NoSnapshot /\ Idle.tries = 1 /\ Idle.made = Nothing
      BY DEF Idle, Fields
    <2>2. DOMAIN Idle.made = {}
      BY <2>1 DEF Nothing
    <2>3. \A c \in Commands : Typed(c, Idle)
      BY <2>1, <2>2, IdleIsTyped
    <2>. QED  BY <2>3 DEF Init
  <1>2. \A q \in Parts : disk[q].data = Absent => disk[q].stamp = 0
    BY SealedAssumption DEF Init, Nowhere
  <1>3. "supplement" \in Parts
    BY ReadBy, InputsAreParts, CommandNames, Zenon
  <1>4. Filled(delivered)
    BY <1>3 DEF Init, Filled
  <1>5. BoundsOK
    BY SealedAssumption DEF Init, BoundsOK
  <1>. QED  BY <1>1, <1>2, <1>4, <1>5 DEF TypeInv

LEMMA TypeNext ==
  ASSUME ~IsRecord(Absent), IInv, LineInv, TypeInv, [Next]_vars
  PROVE  TypeInv'
  <1>1. CASE UNCHANGED vars
    BY <1>1 DEF vars, TypeInv, BoundsOK
  <1>2. CASE Next
    <2>0. offered \subseteq Commands
      BY DEF IInv
    <2>1. ASSUME NEW c \in offered, Step(c) PROVE TypeInv'
      BY <2>0, <2>1, StepIsTyped
    <2>2. ASSUME NEW c \in offered, Discard(c) PROVE TypeInv'
      BY <2>0, <2>2, DiscardIsTyped
    <2>3. ASSUME NEW q \in Watched, Meddle(q) PROVE TypeInv'
      <3>1. q \in Parts
        BY <2>0, InputsAreParts DEF Watched
      <3>. QED  BY <2>3, <3>1, MeddleIsTyped
    <2>. QED  BY <1>2, <2>1, <2>2, <2>3, ResumeIsTyped, DecideIsTyped, SupplementIsTyped
                 DEF Next
  <1>. QED  BY <1>1, <1>2

\* What is on disk has a stamp exactly when it is there, a command has read only
\* what it reads and made only what it writes, for any texts, decisions, commands
\* at a time and programs beside them, whatever value stands for a part that is
\* not there, as long as no command makes it.
THEOREM SealedTyped ==
  ASSUME ~IsRecord(Absent)
  PROVE  Spec => []SealedTypeOK
  <1>1. IInv /\ TypeInv => SealedTypeOK
    <2>. SUFFICES ASSUME IInv, TypeInv PROVE SealedTypeOK
      OBVIOUS
    <2>1. \A q \in Parts : /\ disk[q].stamp \in 0..clock
                           /\ disk[q].stamp = 0 <=> disk[q].data = Absent
      BY DEF IInv, DiskOK, TypeInv
    <2>2. ASSUME NEW c \in Commands
          PROVE  /\ proc[c].pc \in {"idle", "run", "done", "failed"}
                 /\ proc[c].stage \in DOMAIN Stages[c]
                 /\ DOMAIN proc[c].snap \subseteq Inputs(c)
                 /\ DOMAIN proc[c].made \in {{}, Writes[c], {"answer"}}
                 /\ proc[c].tries \in 1..2
      BY StagesAreListed DEF TypeInv, Typed
    <2>3. clock \in Nat /\ spent.starts \in 0..MaxStarts /\ spent.meddles \in 0..MaxMeddles
      BY DEF IInv, DiskOK, TypeInv, BoundsOK
    <2>. QED  BY <2>1, <2>2, <2>3 DEF SealedTypeOK
  <1>2. IInv /\ LineInv /\ TypeInv /\ [Next]_vars => TypeInv'
    BY TypeNext
  <1>. QED  BY <1>1, <1>2, TypeInit, InitInv, NextInv, LineInit, LineNext, PTL DEF Spec
=============================================================================
