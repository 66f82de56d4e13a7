---------------------------- MODULE WorkflowProofs ----------------------------
(***************************************************************************)
(* What the workflow guarantees as a whole, for every value of its         *)
(* constants: each property that its run checks about one of the machines  *)
(* it is composed of, from the theorem about that machine, and about the   *)
(* algorithms it samples, from the theorems about all of their inputs.     *)
(*                                                                         *)
(* A behaviour of the workflow is, seen from each machine, a behaviour of  *)
(* that machine: it starts in one of its initial states, and a step of the *)
(* workflow is one of its steps or leaves it alone. The chain's theorems   *)
(* are taken as they are, the tree's by instantiating its module of proofs *)
(* on the workflow's own variables; those of the harness and of the blind  *)
(* comparison are proved here.                                             *)
(***************************************************************************)
EXTENDS MCWorkflow, SealedPublicationProofs, Integers, FiniteSetTheorems, FunctionTheorems,
        SequenceTheorems

TreeProofs == INSTANCE TreeSnapshotProofs
Algorithms == INSTANCE AlgorithmProofs WITH
  MassUnits <- 12, MinimumN <- 2, Floor <- [num |-> 3, den |-> 5],
  DimensionFloor <- [num |-> 1, den |-> 2], DimensionN <- 2,
  Alpha <- [num |-> 1, den |-> 3], Ceiling <- [num |-> 1, den |-> 2],
  CfaAlpha <- [num |-> 1, den |-> 8], CfaN <- 3, MaxUnits <- 9

workflowVars == <<subject, sealedVars, treeVars, buildVars, blindVars, sample>>

----------------------------------------------------------------------------
(* The chain of sealed directories.                                        *)

LEMMA ChainBehaves == WorkflowSpec => Spec
  <1>1. WorkflowInit => Init
    BY DEF WorkflowInit
  <1>2. [WorkflowNext]_workflowVars => [Next]_vars
    BY DEF WorkflowNext, workflowVars, sealedVars
  <1>. QED  BY <1>1, <1>2, PTL DEF WorkflowSpec, Spec, workflowVars

\* In the workflow every published directory is made from one moment of the disk.
THEOREM WorkflowFromOneMoment == WorkflowSpec => []MadeFromOneMoment
  BY ChainBehaves, PublishedFromOneMoment, PTL

\* In the workflow what is published belongs together from end to end.
THEOREM WorkflowOfOneLineage == WorkflowSpec => []OneLineage
  BY ChainBehaves, PublishedOfOneLineage, PTL

----------------------------------------------------------------------------
(* The tree of files.                                                      *)

LEMMA SameTreeInit == T!Init => TreeProofs!Init
  BY SMTT(60) DEF T!Init, TreeProofs!Init, T!Dirs, TreeProofs!Dirs, T!Files, TreeProofs!Files,
           T!DirOf, TreeProofs!DirOf, T!List, TreeProofs!List, T!Id, TreeProofs!Id, T!Stat,
           TreeProofs!Stat, T!Read, TreeProofs!Read, T!EngineReader,
           TreeProofs!EngineReader, T!ReviewReader, TreeProofs!ReviewReader,
           T!PackageReader, TreeProofs!PackageReader, T!TreeReader, TreeProofs!TreeReader,
           T!GenerationReader, TreeProofs!GenerationReader, T!RetrievalReader,
           TreeProofs!RetrievalReader, T!Readers, TreeProofs!Readers, T!NotOpen,
           TreeProofs!NotOpen, T!NothingSeen, TreeProofs!NothingSeen

LEMMA SameTreeNext == [T!Next]_(T!vars) => [TreeProofs!Next]_(TreeProofs!vars)
  BY DEF T!Dirs, TreeProofs!Dirs, T!Files, TreeProofs!Files, T!DirOf, TreeProofs!DirOf,
           T!List, TreeProofs!List, T!Id, TreeProofs!Id, T!Stat, TreeProofs!Stat, T!Read,
           TreeProofs!Read, T!Identity, TreeProofs!Identity, T!NotOpen, TreeProofs!NotOpen,
           T!NothingSeen, TreeProofs!NothingSeen, T!There, TreeProofs!There, T!Content,
           TreeProofs!Content, T!Next1, TreeProofs!Next1, T!InPass, TreeProofs!InPass,
           T!Agrees, TreeProofs!Agrees, T!With, TreeProofs!With, T!Noted, TreeProofs!Noted,
           T!Look, TreeProofs!Look, T!Listed, TreeProofs!Listed, T!PassOver,
           TreeProofs!PassOver, T!StatFile, TreeProofs!StatFile, T!Open, TreeProofs!Open,
           T!Close, TreeProofs!Close, T!Keep, TreeProofs!Keep, T!Same, TreeProofs!Same,
           T!Verify, TreeProofs!Verify, T!Reading, TreeProofs!Reading, T!Stamped,
           TreeProofs!Stamped, T!WriteHalf, TreeProofs!WriteHalf, T!Replace,
           TreeProofs!Replace, T!Remove, TreeProofs!Remove, T!SetBack, TreeProofs!SetBack,
           T!Edit, TreeProofs!Edit, T!Next, TreeProofs!Next, T!vars, TreeProofs!vars

LEMMA SameMoment == TreeProofs!SnapshotIsOneMoment => SnapshotIsOneMoment
  BY DEF SnapshotIsOneMoment, T!SnapshotIsOneMoment, TreeProofs!SnapshotIsOneMoment, T!Accepted,
           TreeProofs!Accepted, T!Dirs, TreeProofs!Dirs, T!Files, TreeProofs!Files, T!DirOf,
           TreeProofs!DirOf, T!List, TreeProofs!List, T!Id, TreeProofs!Id, T!Read,
           TreeProofs!Read

LEMMA TreeBehaves == WorkflowSpec => TreeProofs!Spec
  <1>1. WorkflowInit => TreeProofs!Init
    BY SameTreeInit DEF WorkflowInit
  <1>2. [WorkflowNext]_workflowVars => [T!Next]_(T!vars)
    BY DEF WorkflowNext, workflowVars, treeVars, T!vars
  <1>3. [WorkflowNext]_workflowVars => [TreeProofs!Next]_(TreeProofs!vars)
    BY <1>2, SameTreeNext
  <1>. QED  BY <1>1, <1>3, PTL DEF WorkflowSpec, TreeProofs!Spec, workflowVars

\* In the workflow what a reader accepts of a tree was on disk at one moment.
THEOREM WorkflowReadsOneMoment == WorkflowSpec => []SnapshotIsOneMoment
  BY TreeBehaves, TreeProofs!OneMoment, SameMoment, PTL

----------------------------------------------------------------------------
(* The candidate of the harness, for any number of builders, builds, blob  *)
(* sets and foreign entries. Nothing in the root is locked; the argument   *)
(* rests on files being created exclusively and never removed:             *)
(*   - a build with blobs claims the root by creating its first payload,   *)
(*     and only one build ever does (Claims);                              *)
(*   - a staged manifest has one holder, and while it is about to be       *)
(*     committed no builder's manifest is there (Holds);                   *)
(*   - once a manifest of a build with blobs is there, that build is over, *)
(*     so no other can write but one of no blobs to the pending name.      *)

Claims(b) == \/ build[b].pc = "create" /\ build[b].i > 1
             \/ build[b].pc = "fill"
             \/ /\ build[b].pc \in {"payloads", "stage", "fill manifest", "staged", "commit"}
                /\ build[b].blobs # <<>>

Holds(b) == build[b].pc \in {"fill manifest", "staged", "commit"}

BuildsOK ==
  /\ DOMAIN build = Builders
  /\ \A b \in Builders :
       /\ DOMAIN build[b] = {"pc", "blobs", "i"}
       /\ build[b].blobs \in BlobSets \cup {<<>>}
       /\ build[b].pc \in {"create", "fill"} =>
            /\ build[b].blobs \in BlobSets
            /\ build[b].i \in 1..Len(build[b].blobs)

OneClaims ==
  /\ \A b, c \in Builders : Claims(b) /\ Claims(c) => b = c
  /\ \A b \in Builders : Claims(b) => B!Payload[1] \in DOMAIN root

\* A file that is filled is still the one that its builder created.
FillsOwn ==
  \A b \in Builders : build[b].pc = "fill" =>
    B!Payload[build[b].i] \in DOMAIN root /\ root[B!Payload[build[b].i]] = Torn

OneHolds ==
  /\ \A b, c \in Builders : Holds(b) /\ Holds(c) => b = c
  /\ \A b \in Builders : Holds(b) => B!Pending \in DOMAIN root
  /\ \A b \in Builders : build[b].pc = "commit" =>
       /\ root[B!Pending] = <<build[b].blobs>>
       /\ B!Manifest \in DOMAIN root => root[B!Manifest] = Foreign

\* A manifest of a build with blobs ends all claims.
ClaimsEnd ==
  \A blobs \in BlobSets :
    (blobs # <<>> /\ B!Manifest \in DOMAIN root /\ root[B!Manifest] = <<blobs>>) =>
      /\ B!Payload[1] \in DOMAIN root
      /\ \A b \in Builders : ~Claims(b)

Exact(blobs, files) ==
  /\ B!Manifest \in DOMAIN files /\ files[B!Manifest] = <<blobs>>
  /\ \A i \in DOMAIN blobs : B!Payload[i] \in DOMAIN files /\ files[B!Payload[i]] = blobs[i]
  /\ blobs # <<>> => \A n \in DOMAIN files \ (B!PayloadsOf(blobs) \cup {B!Manifest}) :
                       \/ files[n] = Foreign
                       \/ n = B!Pending /\ files[n] \in {Torn, <<<<>>>>}

DoneIsExact == \A b \in Builders : build[b].pc = "done" => Exact(build[b].blobs, root)

BuildInv == BuildsOK /\ OneClaims /\ FillsOwn /\ OneHolds /\ ClaimsEnd /\ DoneIsExact

----------------------------------------------------------------------------
LEMMA PayloadNames ==
  /\ DOMAIN B!Payload = 1..2
  /\ \A i, j \in 1..2 : B!Payload[i] = B!Payload[j] => i = j
  /\ \A i \in 1..2 : B!Payload[i] # B!Manifest /\ B!Payload[i] # B!Pending
  /\ B!Manifest # B!Pending
  BY DEF B!Payload, B!Manifest, B!Pending

LEMMA BlobFacts ==
  ASSUME B!BuildBounds, NEW blobs \in BlobSets \cup {<<>>}
  PROVE  /\ Len(blobs) \in 0..2 /\ DOMAIN blobs = 1..Len(blobs)
         /\ blobs # <<>> => 1 \in DOMAIN blobs
         /\ \A i \in DOMAIN blobs : i \in 1..2 /\ blobs[i] # Torn
         /\ <<blobs>> # Torn /\ <<blobs>> # Foreign
  <1>1. CASE blobs = <<>>
    BY <1>1 DEF B!BuildBounds
  <1>2. CASE blobs \in BlobSets
    <2>. DEFINE Members == {blobs[i] : i \in DOMAIN blobs}
    <2>1. blobs \in Seq(Members) /\ Len(blobs) <= 2
      BY <1>2 DEF B!BuildBounds
    <2>. HIDE DEF Members
    <2>2. Len(blobs) \in 0..2 /\ DOMAIN blobs = 1..Len(blobs)
      <3>1. Len(blobs) \in Nat
        BY <2>1
      <3>2. DOMAIN blobs = 1..Len(blobs)
        BY <2>1
      <3>. QED  BY <2>1, <3>1, <3>2
    <2>3. blobs # <<>> => Len(blobs) # 0
      BY <2>1
    <2>4. \A i \in DOMAIN blobs : blobs[i] # Torn
      BY <1>2 DEF B!BuildBounds
    <2>5. <<blobs>> # Torn /\ <<blobs>> # Foreign
      BY DEF B!BuildBounds
    <2>. QED  BY <2>2, <2>3, <2>4, <2>5
  <1>. QED  BY <1>1, <1>2

LEMMA BuildWithFacts ==
  ASSUME NEW n, NEW v, root' = B!With(n, v)
  PROVE  /\ DOMAIN root' = DOMAIN root \cup {n} /\ root'[n] = v
         /\ \A m \in DOMAIN root : m # n => root'[m] = root[m]
  BY DEF B!With

LEMMA BuildGotoFacts ==
  ASSUME BuildsOK, NEW b \in Builders, NEW pc, B!Goto(b, pc)
  PROVE  /\ DOMAIN build' = Builders
         /\ build'[b].pc = pc /\ build'[b].blobs = build[b].blobs
         /\ build'[b].i = build[b].i /\ DOMAIN build'[b] = {"pc", "blobs", "i"}
         /\ \A c \in Builders : c # b => build'[c] = build[c]
  BY DEF B!Goto, BuildsOK

LEMMA OthersRest ==
  ASSUME NEW c, build'[c] = build[c]
  PROVE  /\ Claims(c)' <=> Claims(c)
         /\ Holds(c)' <=> Holds(c)
  BY DEF Claims, Holds

\* What was asked for stays exact when only the pending manifest is written.
LEMMA ExactStays ==
  ASSUME NEW blobs, Exact(blobs, root), NEW n, NEW v, root' = B!With(n, v),
         n = B!Pending, n \notin B!PayloadsOf(blobs) \cup {B!Manifest}, v \in {Torn, <<<<>>>>}
  PROVE  Exact(blobs, root')
  <1>1. /\ DOMAIN root' = DOMAIN root \cup {n} /\ root'[n] = v
        /\ \A m \in DOMAIN root : m # n => root'[m] = root[m]
    BY ZenonT(90), BuildWithFacts
  <1>2. B!Manifest \in DOMAIN root' /\ root'[B!Manifest] = <<blobs>>
    BY <1>1 DEF Exact
  <1>3. \A i \in DOMAIN blobs : B!Payload[i] \in DOMAIN root' /\ root'[B!Payload[i]] = blobs[i]
    BY <1>1 DEF Exact, B!PayloadsOf
  <1>4. ASSUME blobs # <<>>, NEW m \in DOMAIN root' \ (B!PayloadsOf(blobs) \cup {B!Manifest})
        PROVE  \/ root'[m] = Foreign
               \/ m = B!Pending /\ root'[m] \in {Torn, <<<<>>>>}
    <2>1. CASE m = n
      BY <1>1, <1>4, <2>1
    <2>2. CASE m # n
      BY <1>1, <1>4, <2>2 DEF Exact
    <2>. QED  BY <2>1, <2>2
  <1>. QED  BY <1>2, <1>3, <1>4 DEF Exact

\* Of a build of no blobs only the manifest counts.
LEMMA NoneStays ==
  ASSUME NEW blobs, blobs = <<>>, Exact(blobs, root),
         NEW n, NEW v, root' = B!With(n, v), n # B!Manifest
  PROVE  Exact(blobs, root')
  <1>1. /\ DOMAIN root' = DOMAIN root \cup {n}
        /\ \A m \in DOMAIN root : m # n => root'[m] = root[m]
    BY BuildWithFacts
  <1>2. B!Manifest \in DOMAIN root' /\ root'[B!Manifest] = <<blobs>>
    BY <1>1 DEF Exact
  <1>3. DOMAIN blobs = {}
    OBVIOUS
  <1>. QED  BY <1>2, <1>3 DEF Exact

\* A step of one builder that writes nothing.
LEMMA BuildOnly ==
  ASSUME BuildInv, UNCHANGED root, NEW b \in Builders, BuildsOK',
         \A c \in Builders : c # b => build'[c] = build[c],
         Claims(b)' => Claims(b), Holds(b)' => Holds(b), build'[b].pc # "fill",
         build'[b].pc = "commit" => /\ root[B!Pending] = <<build'[b].blobs>>
                                    /\ B!Manifest \in DOMAIN root => root[B!Manifest] = Foreign,
         build'[b].pc = "done" => Exact(build'[b].blobs, root)
  PROVE  BuildInv'
  <1>1. \A c \in Builders : (Claims(c)' => Claims(c)) /\ (Holds(c)' => Holds(c))
    BY OthersRest
  <1>2. OneClaims'
    BY <1>1 DEF BuildInv, OneClaims
  <1>3. FillsOwn'
    BY DEF BuildInv, FillsOwn
  <1>4. OneHolds'
    <2>1. \A c \in Builders : build'[c].pc = "commit" =>
            /\ root[B!Pending] = <<build'[c].blobs>>
            /\ B!Manifest \in DOMAIN root => root[B!Manifest] = Foreign
      BY DEF BuildInv, OneHolds
    <2>. QED  BY <1>1, <2>1 DEF BuildInv, OneHolds
  <1>5. ClaimsEnd'
    BY <1>1 DEF BuildInv, ClaimsEnd
  <1>6. DoneIsExact'
    <2>1. SUFFICES ASSUME NEW c \in Builders, build'[c].pc = "done"
                   PROVE  Exact(build'[c].blobs, root')
      BY DEF DoneIsExact
    <2>2. Exact(build'[c].blobs, root)
      BY <2>1 DEF BuildInv, DoneIsExact
    <2>. QED  BY <2>2 DEF Exact
  <1>. QED  BY <1>2, <1>3, <1>4, <1>5, <1>6 DEF BuildInv

LEMMA EnterInv ==
  ASSUME B!BuildBounds, BuildInv, NEW b \in Builders, B!Enter(b)
  PROVE  BuildInv'
  <1>1. PICK blobs \in BlobSets :
          build' = [build EXCEPT ![b] =
            [blobs |-> blobs, i |-> 1,
             pc |-> CASE B!State = "empty" -> IF blobs = <<>> THEN "payloads" ELSE "create"
                      [] B!State = "complete" -> "validate"
                      [] B!State = "incomplete" -> "refused"]]
    BY DEF B!Enter
  <1>2. B!State \in {"empty", "complete", "incomplete"}
    BY DEF B!State
  <1>3. /\ DOMAIN build' = Builders /\ \A c \in Builders : c # b => build'[c] = build[c]
        /\ build'[b].blobs = blobs /\ build'[b].i = 1
        /\ DOMAIN build'[b] = {"pc", "blobs", "i"}
        /\ \/ build'[b].pc \in {"validate", "refused"}
           \/ build'[b].pc = "payloads" /\ blobs = <<>>
           \/ build'[b].pc = "create" /\ blobs # <<>>
    BY <1>1, <1>2 DEF BuildInv, BuildsOK
  <1>4. blobs # <<>> => 1 \in 1..Len(blobs)
    BY BlobFacts
  <1>5. BuildsOK'
    BY <1>3, <1>4 DEF BuildInv, BuildsOK
  <1>6. ~Claims(b)' /\ ~Holds(b)'
    <2>1. build'[b].pc \in {"validate", "refused", "payloads", "create"}
      BY <1>3
    <2>2. ~(build'[b].pc = "create" /\ build'[b].i > 1)
      BY <1>3
    <2>3. build'[b].pc = "payloads" => build'[b].blobs = <<>>
      BY <1>3
    <2>. QED  BY <2>1, <2>2, <2>3 DEF Claims, Holds
  <1>7. build'[b].pc \notin {"fill", "commit", "done"}
    BY <1>3
  <1>8. UNCHANGED root
    BY DEF B!Enter
  <1>. QED  BY <1>3, <1>5, <1>6, <1>7, <1>8, BuildOnly

\* The checks, and the end of a build that failed.
LEMMA CheckInv ==
  ASSUME B!BuildBounds, BuildInv, NEW b \in Builders,
         \/ B!CheckPayloads(b) \/ B!CheckStaged(b) \/ B!ValidatePayloads(b)
         \/ B!ValidateManifest(b) \/ B!Stop(b)
  PROVE  BuildInv'
  <1>1. PICK pc \in {"stage", "commit", "manifest", "done", "refused"} :
          /\ B!Goto(b, pc)
          /\ pc = "stage" => build[b].pc = "payloads"
          /\ pc = "commit" => B!CheckStaged(b)
          /\ pc = "done" => B!ValidateManifest(b)
    BY DEF B!CheckPayloads, B!CheckStaged, B!ValidatePayloads, B!ValidateManifest, B!Stop
  <1>2. UNCHANGED root
    BY DEF B!CheckPayloads, B!CheckStaged, B!ValidatePayloads, B!ValidateManifest, B!Stop
  <1>3. /\ DOMAIN build' = Builders
        /\ build'[b].pc = pc /\ build'[b].blobs = build[b].blobs
        /\ build'[b].i = build[b].i /\ DOMAIN build'[b] = {"pc", "blobs", "i"}
        /\ \A c \in Builders : c # b => build'[c] = build[c]
    BY <1>1, BuildGotoFacts DEF BuildInv
  <1>4. BuildsOK'
    BY <1>3 DEF BuildInv, BuildsOK
  <1>5. pc = "commit" =>
          /\ build[b].pc = "staged" /\ root[B!Pending] = <<build[b].blobs>>
          /\ B!Manifest \notin DOMAIN root
    <2>1. SUFFICES ASSUME B!CheckStaged(b)
                   PROVE  /\ build[b].pc = "staged" /\ root[B!Pending] = <<build[b].blobs>>
                          /\ B!Manifest \notin DOMAIN root
      BY <1>1
    <2>2. DOMAIN root = B!PayloadsOf(build[b].blobs) \cup {B!Pending}
      BY <2>1 DEF B!CheckStaged, B!HoldsExactly
    <2>3. B!Manifest \notin B!PayloadsOf(build[b].blobs)
      <3>1. build[b].blobs \in BlobSets \cup {<<>>}
        BY DEF BuildInv, BuildsOK
      <3>. QED  BY <3>1, BlobFacts, PayloadNames DEF B!PayloadsOf
    <2>. QED  BY <2>1, <2>2, <2>3, PayloadNames DEF B!CheckStaged
  <1>6. pc = "done" => Exact(build[b].blobs, root)
    <2>1. SUFFICES ASSUME B!ValidateManifest(b) PROVE Exact(build[b].blobs, root)
      BY <1>1
    <2>2. PICK blobs \in BlobSets :
            root[B!Manifest] = <<blobs>> /\ B!HoldsExactly(blobs, {B!Manifest})
      BY <2>1 DEF B!ValidateManifest, B!DescribesTree
    <2>3. B!Manifest \in DOMAIN root /\ root[B!Manifest] = <<build[b].blobs>>
      BY <2>1 DEF B!ValidateManifest, B!DescribesTree
    <2>4. blobs = build[b].blobs
      BY <2>2, <2>3
    <2>. QED  BY <2>2, <2>3, <2>4 DEF B!HoldsExactly, B!PayloadsOf, Exact
  <1>7. (Claims(b)' => Claims(b)) /\ (Holds(b)' => Holds(b))
    BY <1>1, <1>3, <1>5 DEF Claims, Holds
  <1>. QED  BY <1>1, <1>2, <1>3, <1>4, <1>5, <1>6, <1>7, BuildOnly

----------------------------------------------------------------------------
\* While a build claims the root, no candidate with blobs has been reported.
LEMMA NoneReported ==
  ASSUME B!BuildBounds, BuildInv, NEW b \in Builders, Claims(b),
         NEW c \in Builders, build[c].pc = "done"
  PROVE  build[c].blobs = <<>>
  <1>1. Exact(build[c].blobs, root) /\ build[c].blobs \in BlobSets \cup {<<>>}
    BY DEF BuildInv, DoneIsExact, BuildsOK
  <1>. QED  BY <1>1 DEF Exact, BuildInv, ClaimsEnd

\* A payload that is created claims the root, or goes on with the claim.
LEMMA CreateInv ==
  ASSUME B!BuildBounds, BuildInv, NEW b \in Builders, B!Create(b)
  PROVE  BuildInv'
  <1>. DEFINE i == build[b].i
              blobs == build[b].blobs
              n == B!Payload[i]
  <1>1. /\ build[b].pc = "create" /\ n \notin DOMAIN root
        /\ root' = B!With(n, Torn) /\ B!Goto(b, "fill")
    BY DEF B!Create
  <1>2. blobs \in BlobSets /\ i \in 1..Len(blobs) /\ i \in 1..2 /\ i \in DOMAIN blobs
    BY <1>1, BlobFacts DEF BuildInv, BuildsOK
  <1>3. /\ DOMAIN build' = Builders /\ build'[b].pc = "fill" /\ build'[b].blobs = blobs
        /\ build'[b].i = i /\ DOMAIN build'[b] = {"pc", "blobs", "i"}
        /\ \A c \in Builders : c # b => build'[c] = build[c]
    BY <1>1, BuildGotoFacts DEF BuildInv
  <1>4. /\ DOMAIN root' = DOMAIN root \cup {n} /\ root'[n] = Torn
        /\ \A m \in DOMAIN root : root'[m] = root[m]
    BY <1>1, BuildWithFacts
  <1>5. n # B!Manifest /\ n # B!Pending /\ B!Manifest # B!Pending
    BY <1>2, PayloadNames
  <1>6. ASSUME NEW c \in Builders, Claims(c) PROVE c = b
    <2>1. CASE i = 1
      BY <1>1, <1>6, <2>1 DEF BuildInv, OneClaims
    <2>2. CASE i # 1
      <3>1. Claims(b)
        BY <1>1, <1>2, <2>2 DEF Claims
      <3>. QED  BY <1>6, <3>1 DEF BuildInv, OneClaims
    <2>. QED  BY <2>1, <2>2
  <1>7. B!Payload[1] \in DOMAIN root'
    <2>1. CASE i = 1
      BY <1>4, <2>1
    <2>2. CASE i # 1
      <3>1. Claims(b)
        BY <1>1, <1>2, <2>2 DEF Claims
      <3>. QED  BY <1>4, <3>1 DEF BuildInv, OneClaims
    <2>. QED  BY <2>1, <2>2
  <1>. HIDE DEF n, i, blobs
  <1>8. \A c \in Builders : c # b => (Claims(c)' <=> Claims(c)) /\ (Holds(c)' <=> Holds(c))
    BY <1>3, OthersRest
  <1>9. ~Holds(b)'
    BY <1>3 DEF Holds
  <1>10. BuildsOK'
    BY <1>2, <1>3 DEF BuildInv, BuildsOK
  <1>11. OneClaims'
    BY <1>6, <1>7, <1>8 DEF OneClaims
  <1>12. FillsOwn'
    <2>1. SUFFICES ASSUME NEW c \in Builders, build'[c].pc = "fill"
                   PROVE  /\ B!Payload[build'[c].i] \in DOMAIN root'
                          /\ root'[B!Payload[build'[c].i]] = Torn
      BY DEF FillsOwn
    <2>2. CASE c = b
      BY <1>3, <1>4, <2>2 DEF n
    <2>3. CASE c # b
      BY <1>3, <1>4, <2>1, <2>3 DEF BuildInv, FillsOwn
    <2>. QED  BY <2>2, <2>3
  <1>13. OneHolds'
    <2>1. \A c \in Builders : Holds(c)' => Holds(c)
      BY <1>8, <1>9
    <2>2. \A c \in Builders : Holds(c)' => B!Pending \in DOMAIN root'
      BY <1>4, <2>1 DEF BuildInv, OneHolds
    <2>3. ASSUME NEW c \in Builders, build'[c].pc = "commit"
          PROVE  /\ root'[B!Pending] = <<build'[c].blobs>>
                 /\ B!Manifest \in DOMAIN root' => root'[B!Manifest] = Foreign
      <3>1. build[c].pc = "commit" /\ build'[c] = build[c] /\ Holds(c)
        BY <1>3, <2>3 DEF Holds
      <3>. QED  BY <1>4, <1>5, <3>1 DEF BuildInv, OneHolds
    <2>. QED  BY <2>1, <2>2, <2>3 DEF BuildInv, OneHolds
  <1>14. ASSUME NEW bl \in BlobSets, bl # <<>>,
                B!Manifest \in DOMAIN root, root[B!Manifest] = <<bl>>
         PROVE  FALSE
    <2>1. B!Payload[1] \in DOMAIN root /\ ~Claims(b)
      BY <1>14 DEF BuildInv, ClaimsEnd
    <2>2. i = 1
      BY <1>1, <1>2, <2>1 DEF Claims, i
    <2>. QED  BY <1>1, <2>1, <2>2 DEF n
  <1>15. ClaimsEnd'
    BY <1>4, <1>5, <1>14 DEF ClaimsEnd
  <1>16. DoneIsExact'
    <2>1. SUFFICES ASSUME NEW c \in Builders, build'[c].pc = "done"
                   PROVE  Exact(build'[c].blobs, root')
      BY DEF DoneIsExact
    <2>2. build'[c] = build[c] /\ build[c].pc = "done"
      BY <1>3, <2>1
    <2>3. Exact(build[c].blobs, root) /\ build[c].blobs \in BlobSets \cup {<<>>}
      BY <2>2 DEF BuildInv, DoneIsExact, BuildsOK
    <2>4. build[c].blobs = <<>>
      BY <1>14, <2>3 DEF Exact
    <2>5. Exact(build[c].blobs, root')
      BY <1>1, <1>5, <2>3, <2>4, NoneStays
    <2>. QED  BY <2>2, <2>5
  <1>. QED  BY <1>10, <1>11, <1>12, <1>13, <1>15, <1>16 DEF BuildInv

\* A payload is filled by the one build that claims the root.
LEMMA FillInv ==
  ASSUME B!BuildBounds, BuildInv, NEW b \in Builders, B!Fill(b)
  PROVE  BuildInv'
  <1>. DEFINE i == build[b].i
              blobs == build[b].blobs
              n == B!Payload[i]
  <1>1. /\ build[b].pc = "fill" /\ root' = B!With(n, blobs[i])
        /\ build' = [build EXCEPT ![b].pc = IF i = Len(blobs) THEN "payloads" ELSE "create",
                                  ![b].i = IF i = Len(blobs) THEN i ELSE i + 1]
    BY DEF B!Fill
  <1>2. /\ blobs \in BlobSets /\ i \in 1..Len(blobs) /\ i \in 1..2 /\ blobs # <<>>
        /\ Len(blobs) \in 0..2 /\ i \in DOMAIN blobs /\ n \in DOMAIN root /\ Claims(b)
    <2>1. blobs \in BlobSets /\ i \in 1..Len(blobs) /\ n \in DOMAIN root /\ Claims(b)
      BY <1>1 DEF BuildInv, BuildsOK, FillsOwn, Claims
    <2>2. Len(blobs) \in 0..2 /\ DOMAIN blobs = 1..Len(blobs)
      BY <2>1, BlobFacts
    <2>3. blobs # <<>>
      BY <2>1
    <2>4. i \in DOMAIN blobs
      BY <2>1, <2>2
    <2>5. i \in 1..2
      BY <2>1, <2>4, BlobFacts
    <2>. QED  BY <2>1, <2>2, <2>3, <2>4, <2>5
  <1>3. /\ DOMAIN build' = Builders /\ build'[b].blobs = blobs
        /\ DOMAIN build'[b] = {"pc", "blobs", "i"}
        /\ \/ build'[b].pc = "payloads"
           \/ build'[b].pc = "create" /\ build'[b].i = i + 1 /\ i # Len(blobs)
        /\ \A c \in Builders : c # b => build'[c] = build[c]
    BY <1>1 DEF BuildInv, BuildsOK
  <1>4. /\ DOMAIN root' = DOMAIN root
        /\ \A m \in DOMAIN root : m # n => root'[m] = root[m]
    <2>1. root' = B!With(n, blobs[i]) /\ n \in DOMAIN root
      BY <1>1, <1>2
    <2>. HIDE DEF n, i, blobs
    <2>. QED  BY <2>1 DEF B!With
  <1>5. n # B!Manifest /\ n # B!Pending /\ B!Manifest # B!Pending
    BY <1>2, PayloadNames
  <1>6. build'[b].pc \notin {"fill", "commit", "done"}
    BY <1>3
  <1>. HIDE DEF n, i, blobs
  <1>7. ASSUME NEW c \in Builders, c # b
        PROVE  (Claims(c)' <=> Claims(c)) /\ (Holds(c)' <=> Holds(c)) /\ ~Claims(c)
    BY <1>2, <1>3, <1>7, OthersRest DEF BuildInv, OneClaims
  <1>8. ~Holds(b)'
    BY <1>3 DEF Holds
  <1>9. BuildsOK'
    <2>1. build'[b].pc = "create" => build'[b].i \in 1..Len(blobs)
      BY <1>2, <1>3
    <2>. QED  BY <1>2, <1>3, <2>1 DEF BuildInv, BuildsOK
  <1>10. OneClaims'
    BY <1>2, <1>4, <1>7 DEF BuildInv, OneClaims
  <1>11. FillsOwn'
    <2>1. ASSUME NEW c \in Builders PROVE build'[c].pc # "fill"
      BY <1>3, <1>6, <1>7 DEF Claims
    <2>. QED  BY <2>1 DEF FillsOwn
  <1>12. OneHolds'
    <2>1. \A c \in Builders : Holds(c)' => Holds(c)
      BY <1>7, <1>8
    <2>2. ASSUME NEW c \in Builders, build'[c].pc = "commit"
          PROVE  /\ root'[B!Pending] = <<build'[c].blobs>>
                 /\ B!Manifest \in DOMAIN root' => root'[B!Manifest] = Foreign
      <3>1. build[c].pc = "commit" /\ build'[c] = build[c] /\ Holds(c)
        BY <1>3, <1>6, <2>2 DEF Holds
      <3>. QED  BY <1>4, <1>5, <3>1 DEF BuildInv, OneHolds
    <2>. QED  BY <1>4, <2>1, <2>2 DEF BuildInv, OneHolds
  <1>13. ClaimsEnd'
    BY <1>2, <1>4, <1>5 DEF BuildInv, ClaimsEnd
  <1>14. DoneIsExact'
    <2>1. SUFFICES ASSUME NEW c \in Builders, build'[c].pc = "done"
                   PROVE  Exact(build'[c].blobs, root')
      BY DEF DoneIsExact
    <2>2. build'[c] = build[c] /\ build[c].pc = "done"
      BY <1>3, <1>6, <2>1
    <2>3. Exact(build[c].blobs, root) /\ build[c].blobs = <<>>
      BY <1>2, <2>2, NoneReported DEF BuildInv, DoneIsExact
    <2>4. root' = B!With(n, blobs[i]) /\ n # B!Manifest
      BY <1>1, <1>5
    <2>5. Exact(build[c].blobs, root')
      BY <2>3, <2>4, NoneStays
    <2>. QED  BY <2>2, <2>5
  <1>. QED  BY <1>9, <1>10, <1>11, <1>12, <1>13, <1>14 DEF BuildInv

\* The pending name is taken by one build at a time.
LEMMA CreateManifestInv ==
  ASSUME B!BuildBounds, BuildInv, NEW b \in Builders, B!CreateManifest(b)
  PROVE  BuildInv'
  <1>1. /\ build[b].pc = "stage" /\ B!Pending \notin DOMAIN root
        /\ root' = B!With(B!Pending, Torn) /\ B!Goto(b, "fill manifest")
    BY DEF B!CreateManifest
  <1>2. /\ DOMAIN build' = Builders /\ build'[b].pc = "fill manifest"
        /\ build'[b].blobs = build[b].blobs
        /\ build'[b].i = build[b].i /\ DOMAIN build'[b] = {"pc", "blobs", "i"}
        /\ \A c \in Builders : c # b => build'[c] = build[c]
    BY <1>1, BuildGotoFacts DEF BuildInv
  <1>3. /\ DOMAIN root' = DOMAIN root \cup {B!Pending}
        /\ \A m \in DOMAIN root : root'[m] = root[m]
    BY <1>1, BuildWithFacts
  <1>4. \A c \in Builders : ~Holds(c)
    BY <1>1 DEF BuildInv, OneHolds
  <1>5. \A c \in Builders : c # b => (Claims(c)' <=> Claims(c)) /\ (Holds(c)' <=> Holds(c))
    BY <1>2, OthersRest
  <1>6. Claims(b)' <=> Claims(b)
    BY <1>1, <1>2 DEF Claims
  <1>7. BuildsOK'
    BY <1>2 DEF BuildInv, BuildsOK
  <1>8. OneClaims'
    BY <1>3, <1>5, <1>6 DEF BuildInv, OneClaims
  <1>9. FillsOwn'
    <2>1. ASSUME NEW c \in Builders, build'[c].pc = "fill" PROVE build'[c] = build[c]
      BY <1>2, <2>1
    <2>. QED  BY <1>3, <2>1 DEF BuildInv, FillsOwn
  <1>10. OneHolds'
    <2>1. ASSUME NEW c \in Builders PROVE build'[c].pc # "commit"
      BY <1>2, <1>4 DEF Holds
    <2>. QED  BY <1>3, <1>4, <1>5, <2>1 DEF OneHolds
  <1>11. ClaimsEnd'
    BY ZenonT(90), <1>3, <1>5, <1>6, PayloadNames DEF BuildInv, ClaimsEnd
  <1>12. DoneIsExact'
    <2>1. SUFFICES ASSUME NEW c \in Builders, build'[c].pc = "done"
                   PROVE  Exact(build'[c].blobs, root')
      BY DEF DoneIsExact
    <2>2. /\ build'[c] = build[c] /\ Exact(build[c].blobs, root)
          /\ build[c].blobs \in BlobSets \cup {<<>>}
      BY <1>2, <2>1 DEF BuildInv, DoneIsExact, BuildsOK
    <2>3. B!Pending \notin B!PayloadsOf(build[c].blobs) \cup {B!Manifest}
      BY <2>2, BlobFacts, PayloadNames DEF B!PayloadsOf
    <2>4. Exact(build[c].blobs, root')
      BY ZenonT(90), <1>1, <2>2, <2>3, ExactStays
    <2>. QED  BY <2>2, <2>4
  <1>. QED  BY <1>7, <1>8, <1>9, <1>10, <1>11, <1>12 DEF BuildInv

LEMMA FillManifestInv ==
  ASSUME B!BuildBounds, BuildInv, NEW b \in Builders, B!FillManifest(b)
  PROVE  BuildInv'
  <1>1. /\ build[b].pc = "fill manifest"
        /\ root' = B!With(B!Pending, <<build[b].blobs>>) /\ B!Goto(b, "staged")
    BY DEF B!FillManifest
  <1>2. /\ DOMAIN build' = Builders /\ build'[b].pc = "staged"
        /\ build'[b].blobs = build[b].blobs
        /\ build'[b].i = build[b].i /\ DOMAIN build'[b] = {"pc", "blobs", "i"}
        /\ \A c \in Builders : c # b => build'[c] = build[c]
    BY <1>1, BuildGotoFacts DEF BuildInv
  <1>3. Holds(b) /\ B!Pending \in DOMAIN root
    BY <1>1 DEF Holds, BuildInv, OneHolds
  <1>4. /\ DOMAIN root' = DOMAIN root
        /\ \A m \in DOMAIN root : m # B!Pending => root'[m] = root[m]
    BY <1>1, <1>3, BuildWithFacts
  <1>5. \A c \in Builders : c # b => (Claims(c)' <=> Claims(c)) /\ (Holds(c)' <=> Holds(c))
    BY <1>2, OthersRest
  <1>6. Claims(b)' <=> Claims(b)
    BY <1>1, <1>2 DEF Claims
  <1>7. BuildsOK'
    BY <1>2 DEF BuildInv, BuildsOK
  <1>8. OneClaims'
    BY <1>4, <1>5, <1>6 DEF BuildInv, OneClaims
  <1>9. FillsOwn'
    <2>1. SUFFICES ASSUME NEW c \in Builders, build'[c].pc = "fill"
                   PROVE  /\ B!Payload[build'[c].i] \in DOMAIN root'
                          /\ root'[B!Payload[build'[c].i]] = Torn
      BY DEF FillsOwn
    <2>2. build'[c] = build[c]
      BY <1>2, <2>1
    <2>3. build[c].blobs \in BlobSets /\ build[c].i \in 1..Len(build[c].blobs)
      BY <2>1, <2>2 DEF BuildInv, BuildsOK
    <2>4. build[c].i \in 1..2
      BY <2>3, BlobFacts
    <2>. QED  BY <1>4, <2>1, <2>2, <2>4, PayloadNames DEF BuildInv, FillsOwn
  <1>10. OneHolds'
    <2>1. ASSUME NEW c \in Builders PROVE build'[c].pc # "commit"
      BY <1>2, <1>3 DEF BuildInv, OneHolds, Holds
    <2>2. \A c \in Builders : Holds(c)' => Holds(c)
      BY <1>3, <1>5
    <2>. QED  BY <1>4, <2>1, <2>2 DEF BuildInv, OneHolds
  <1>11. ClaimsEnd'
    BY <1>4, <1>5, <1>6, PayloadNames DEF BuildInv, ClaimsEnd
  <1>12. DoneIsExact'
    <2>1. SUFFICES ASSUME NEW c \in Builders, build'[c].pc = "done"
                   PROVE  Exact(build'[c].blobs, root')
      BY DEF DoneIsExact
    <2>2. /\ build'[c] = build[c] /\ Exact(build[c].blobs, root)
          /\ build[c].blobs \in BlobSets \cup {<<>>}
      BY <1>2, <2>1 DEF BuildInv, DoneIsExact, BuildsOK
    <2>3. B!Pending \notin B!PayloadsOf(build[c].blobs) \cup {B!Manifest}
      BY <2>2, BlobFacts, PayloadNames DEF B!PayloadsOf
    <2>4. build[c].blobs = <<>> \/ build[b].blobs = <<>>
      <3>1. CASE build[b].blobs # <<>>
        <4>1. Claims(b)
          BY <1>1, <3>1 DEF Claims
        <4>. QED  BY <1>2, <2>1, <2>2, <4>1, NoneReported
      <3>. QED  BY <3>1
    <2>5. Exact(build[c].blobs, root')
      <3>. DEFINE v == <<build[b].blobs>>
      <3>1. build[c].blobs # <<>> => v \in {Torn, <<<<>>>>}
        BY <2>4
      <3>2. root' = B!With(B!Pending, v)
        BY <1>1
      <3>. HIDE DEF v
      <3>3. CASE build[c].blobs = <<>>
        BY <2>2, <3>2, <3>3, NoneStays, PayloadNames
      <3>4. CASE build[c].blobs # <<>>
        BY <2>2, <2>3, <3>1, <3>2, <3>4, ExactStays
      <3>. QED  BY <3>3, <3>4
    <2>. QED  BY <2>2, <2>5
  <1>. QED  BY <1>7, <1>8, <1>9, <1>10, <1>11, <1>12 DEF BuildInv

\* The commit puts the manifest of its holder where no builder's was.
LEMMA CommitInv ==
  ASSUME B!BuildBounds, BuildInv, NEW b \in Builders, B!CommitManifest(b)
  PROVE  BuildInv'
  <1>. DEFINE blobs == build[b].blobs
  <1>1. /\ build[b].pc = "commit" /\ B!Pending \in DOMAIN root /\ B!Goto(b, "validate")
        /\ root' = [n \in (DOMAIN root \cup {B!Manifest}) \ {B!Pending} |->
                      IF n = B!Manifest THEN root[B!Pending] ELSE root[n]]
    BY DEF B!CommitManifest
  <1>2. /\ DOMAIN build' = Builders /\ build'[b].pc = "validate"
        /\ build'[b].blobs = blobs
        /\ build'[b].i = build[b].i /\ DOMAIN build'[b] = {"pc", "blobs", "i"}
        /\ \A c \in Builders : c # b => build'[c] = build[c]
    BY <1>1, BuildGotoFacts DEF BuildInv
  <1>3. /\ Holds(b) /\ root[B!Pending] = <<blobs>>
        /\ B!Manifest \in DOMAIN root => root[B!Manifest] = Foreign
    BY <1>1 DEF Holds, BuildInv, OneHolds
  <1>4. /\ DOMAIN root' = (DOMAIN root \cup {B!Manifest}) \ {B!Pending}
        /\ root'[B!Manifest] = <<blobs>>
        /\ \A m \in DOMAIN root \ {B!Manifest, B!Pending} : root'[m] = root[m]
    BY <1>1, <1>3, PayloadNames
  <1>5. \A c \in Builders : c # b => (Claims(c)' <=> Claims(c)) /\ (Holds(c)' <=> Holds(c))
    BY <1>2, OthersRest
  <1>6. ~Claims(b)' /\ ~Holds(b)'
    BY <1>2 DEF Claims, Holds
  <1>7. blobs \in BlobSets \cup {<<>>} /\ (blobs # <<>> => Claims(b))
    BY <1>1 DEF BuildInv, BuildsOK, Claims
  <1>8. \A c \in Builders : ~Holds(c)'
    BY <1>3, <1>5, <1>6 DEF BuildInv, OneHolds
  <1>9. \A n \in {B!Payload[1], B!Payload[2]} :
          n \in DOMAIN root => n \in DOMAIN root' /\ root'[n] = root[n]
    BY <1>4, PayloadNames
  <1>10. BuildsOK'
    BY <1>2, <1>7 DEF BuildInv, BuildsOK
  <1>11. OneClaims'
    BY <1>5, <1>6, <1>9 DEF BuildInv, OneClaims
  <1>12. FillsOwn'
    <2>1. SUFFICES ASSUME NEW c \in Builders, build'[c].pc = "fill"
                   PROVE  /\ B!Payload[build'[c].i] \in DOMAIN root'
                          /\ root'[B!Payload[build'[c].i]] = Torn
      BY DEF FillsOwn
    <2>2. build'[c] = build[c]
      BY <1>2, <2>1
    <2>3. build[c].blobs \in BlobSets /\ build[c].i \in 1..Len(build[c].blobs)
      BY <2>1, <2>2 DEF BuildInv, BuildsOK
    <2>4. build[c].i \in 1..2
      BY <2>3, BlobFacts
    <2>5. build[c].i = 1 \/ build[c].i = 2
      BY <2>4
    <2>. QED  BY <1>9, <2>1, <2>2, <2>5 DEF BuildInv, FillsOwn
  <1>13. OneHolds'
    <2>1. \A c \in Builders : build'[c].pc # "commit"
      BY <1>8 DEF Holds
    <2>. QED  BY <1>8, <2>1 DEF OneHolds
  <1>14. ClaimsEnd'
    <2>1. SUFFICES ASSUME NEW bl \in BlobSets, bl # <<>>, root'[B!Manifest] = <<bl>>
                   PROVE  /\ B!Payload[1] \in DOMAIN root' /\ \A c \in Builders : ~Claims(c)'
      BY DEF ClaimsEnd
    <2>2. bl = blobs
      BY <1>4, <2>1
    <2>3. Claims(b)
      BY <1>7, <2>1, <2>2
    <2>4. B!Payload[1] \in DOMAIN root'
      BY <1>9, <2>3 DEF BuildInv, OneClaims
    <2>5. \A c \in Builders : c # b => ~Claims(c)
      BY <2>3 DEF BuildInv, OneClaims
    <2>. QED  BY <1>5, <1>6, <2>4, <2>5
  <1>15. DoneIsExact'
    <2>1. SUFFICES ASSUME NEW c \in Builders, build'[c].pc = "done" PROVE FALSE
      BY DEF DoneIsExact
    <2>2. /\ Exact(build[c].blobs, root) /\ build[c].blobs \in BlobSets \cup {<<>>}
      BY <1>2, <2>1 DEF BuildInv, DoneIsExact, BuildsOK
    <2>3. <<build[c].blobs>> = Foreign
      BY <1>3, <2>2 DEF Exact
    <2>. QED  BY <2>2, <2>3, BlobFacts
  <1>. QED  BY <1>10, <1>11, <1>12, <1>13, <1>14, <1>15 DEF BuildInv

\* Other programs take names that are free.
LEMMA IntrudeInv ==
  ASSUME B!BuildBounds, BuildInv, B!Intrude
  PROVE  BuildInv'
  <1>1. PICK n \in B!Names \ DOMAIN root : root' = B!With(n, Foreign)
    BY DEF B!Intrude
  <1>2. build' = build
    BY DEF B!Intrude
  <1>3. /\ DOMAIN root' = DOMAIN root \cup {n} /\ root'[n] = Foreign
        /\ \A m \in DOMAIN root : root'[m] = root[m]
    BY <1>1, BuildWithFacts
  <1>4. \A c \in Builders : (Claims(c)' <=> Claims(c)) /\ (Holds(c)' <=> Holds(c))
    BY <1>2, OthersRest
  <1>5. BuildsOK' /\ OneClaims' /\ FillsOwn'
    BY <1>2, <1>3, <1>4 DEF BuildInv, BuildsOK, OneClaims, FillsOwn
  <1>6. OneHolds'
    <2>1. ASSUME NEW c \in Builders, build[c].pc = "commit"
          PROVE  /\ root'[B!Pending] = <<build[c].blobs>>
                 /\ B!Manifest \in DOMAIN root' => root'[B!Manifest] = Foreign
      BY <1>3, <2>1 DEF BuildInv, OneHolds, Holds
    <2>. QED  BY <1>2, <1>3, <1>4, <2>1 DEF BuildInv, OneHolds
  <1>7. ClaimsEnd'
    <2>1. SUFFICES ASSUME NEW bl \in BlobSets, bl # <<>>, B!Manifest \in DOMAIN root',
                          root'[B!Manifest] = <<bl>>
                   PROVE  /\ B!Payload[1] \in DOMAIN root' /\ \A c \in Builders : ~Claims(c)'
      BY DEF ClaimsEnd
    <2>2. <<bl>> # Foreign
      BY BlobFacts
    <2>3. B!Manifest \in DOMAIN root /\ root[B!Manifest] = <<bl>>
      BY <1>3, <2>1, <2>2
    <2>. QED  BY <1>3, <1>4, <2>1, <2>3 DEF BuildInv, ClaimsEnd
  <1>8. DoneIsExact'
    <2>1. SUFFICES ASSUME NEW c \in Builders, build[c].pc = "done"
                   PROVE  Exact(build[c].blobs, root')
      BY <1>2 DEF DoneIsExact
    <2>2. Exact(build[c].blobs, root)
      BY <2>1 DEF BuildInv, DoneIsExact
    <2>4. /\ B!Manifest \in DOMAIN root' /\ root'[B!Manifest] = <<build[c].blobs>>
          /\ \A i \in DOMAIN build[c].blobs :
               /\ B!Payload[i] \in DOMAIN root'
               /\ root'[B!Payload[i]] = build[c].blobs[i]
      BY <1>3, <2>2 DEF Exact
    <2>5. ASSUME build[c].blobs # <<>>,
                 NEW m \in DOMAIN root' \ (B!PayloadsOf(build[c].blobs) \cup {B!Manifest})
          PROVE  \/ root'[m] = Foreign
                 \/ m = B!Pending /\ root'[m] \in {Torn, <<<<>>>>}
      BY <1>3, <2>2, <2>5 DEF Exact
    <2>. QED  BY <2>4, <2>5 DEF Exact
  <1>. QED  BY <1>5, <1>6, <1>7, <1>8 DEF BuildInv

----------------------------------------------------------------------------
LEMMA BuildInit == B!Init => BuildInv
  <1>. SUFFICES ASSUME B!Init PROVE BuildInv
    OBVIOUS
  <1>1. DOMAIN root = {} /\ DOMAIN build = Builders /\ \A b \in Builders : build[b] = B!NoBuild
    BY DEF B!Init
  <1>2. /\ B!NoBuild.pc = "idle" /\ B!NoBuild.blobs = <<>>
        /\ DOMAIN B!NoBuild = {"pc", "blobs", "i"}
    BY DEF B!NoBuild
  <1>3. \A b \in Builders : ~Claims(b) /\ ~Holds(b)
    BY <1>1, <1>2 DEF Claims, Holds
  <1>4. \A b \in Builders : build[b].pc = "idle"
    BY <1>1, <1>2
  <1>5. BuildsOK
    BY <1>1, <1>2 DEF BuildsOK
  <1>. QED  BY <1>1, <1>3, <1>4, <1>5 DEF BuildInv, OneClaims, FillsOwn, OneHolds,
               ClaimsEnd, DoneIsExact

LEMMA BuildNext ==
  ASSUME B!BuildBounds, BuildInv, [B!Next]_(B!vars)
  PROVE  BuildInv'
  <1>1. CASE UNCHANGED B!vars
    BY ZenonT(90), <1>1 DEF B!vars, BuildInv, BuildsOK, OneClaims, Claims, FillsOwn, OneHolds,
                Holds, ClaimsEnd, DoneIsExact
  <1>2. CASE B!Intrude
    BY <1>2, IntrudeInv
  <1>3. ASSUME NEW b \in Builders, B!Build(b) PROVE BuildInv'
    <2>1. CASE B!Enter(b)
      BY <2>1, EnterInv
    <2>2. CASE B!Create(b)
      BY <2>2, CreateInv
    <2>3. CASE B!Fill(b)
      BY <2>3, FillInv
    <2>4. CASE B!CheckPayloads(b) \/ B!CheckStaged(b) \/ B!ValidatePayloads(b)
               \/ B!ValidateManifest(b) \/ B!Stop(b)
      BY <2>4, CheckInv
    <2>5. CASE B!CreateManifest(b)
      BY <2>5, CreateManifestInv
    <2>6. CASE B!FillManifest(b)
      BY <2>6, FillManifestInv
    <2>7. CASE B!CommitManifest(b)
      BY <2>7, CommitInv
    <2>. QED  BY <1>3, <2>1, <2>2, <2>3, <2>4, <2>5, <2>6, <2>7 DEF B!Build
  <1>. QED  BY <1>1, <1>2, <1>3 DEF B!Next

LEMMA BuildBehaves == WorkflowSpec => []BuildInv
  <1>1. WorkflowInit => BuildInv
    BY BuildInit DEF WorkflowInit
  <1>2. [WorkflowNext]_workflowVars => [B!Next]_(B!vars)
    BY DEF WorkflowNext, workflowVars, buildVars, B!vars
  <1>3. BuildInv /\ [WorkflowNext]_workflowVars => BuildInv'
    BY <1>2, WorkflowAssumption, BuildNext
  <1>. QED  BY <1>1, <1>3, PTL DEF WorkflowSpec, workflowVars

\* A candidate that a builder reported as complete holds exactly the blobs that
\* were asked of it, whoever else builds in the same root and whatever was killed.
THEOREM WorkflowCandidateIsExact == WorkflowSpec => []CandidateIsExact
  <1>1. BuildInv => CandidateIsExact
    BY DEF BuildInv, DoneIsExact, Exact, CandidateIsExact, B!CandidateIsExact, B!Reported
  <1>. QED  BY <1>1, BuildBehaves, PTL

----------------------------------------------------------------------------
(* The page of the blind comparison, in any number of tabs. Every handler  *)
(* writes a draft that has each lock of its own tab as it was.             *)

KeepsLocks(draft, new) == \A e \in V!Locked(draft) : V!Has(new, e, draft[e])

TabWrites(t) == \E draft \in V!Draft : V!Commit(t, draft) /\ KeepsLocks(page[t], draft)

----------------------------------------------------------------------------
LEMMA DraftFacts ==
  ASSUME NEW d \in V!Draft
  PROVE  /\ DOMAIN d \subseteq BlindEntries
         /\ \A e \in DOMAIN d : d[e] \in [choice : BlindChoices, locked : BOOLEAN]
         /\ d = [e \in DOMAIN d |-> d[e]]
  BY DEF V!Draft

LEMMA EmptyIsADraft == V!Empty \in V!Draft /\ DOMAIN V!Empty = {}
  <1>1. V!Empty \in [{} -> [choice : BlindChoices, locked : BOOLEAN]]
    BY DEF V!Empty
  <1>2. {} \in SUBSET BlindEntries
    OBVIOUS
  <1>. QED  BY <1>1, <1>2 DEF V!Draft, V!Empty

\* What a written draft shows is a document of choices, as all that was shown is.
LEMMA ShownIsADocument ==
  ASSUME NEW draft \in V!Draft, NEW shown \in V!Documents
  PROVE  V!Over(shown, V!LockedChoices(draft)) \in V!Documents
  <1>. DEFINE locked == V!LockedChoices(draft)
              all == V!Over(shown, locked)
  <1>1. /\ DOMAIN shown \subseteq BlindEntries
        /\ \A e \in DOMAIN shown : shown[e] \in BlindChoices
    BY DEF V!Documents
  <1>2. /\ DOMAIN locked = V!Locked(draft)
        /\ \A e \in V!Locked(draft) : locked[e] = draft[e].choice
    BY DEF V!LockedChoices
  <1>3. /\ V!Locked(draft) \subseteq BlindEntries
        /\ \A e \in V!Locked(draft) : draft[e].choice \in BlindChoices
    <2>1. \A e \in V!Locked(draft) :
            e \in BlindEntries /\ draft[e] \in [choice : BlindChoices, locked : BOOLEAN]
      BY DraftFacts DEF V!Locked
    <2>. QED  BY <2>1
  <1>. HIDE DEF locked
  <1>4. /\ DOMAIN all = DOMAIN shown \cup DOMAIN locked
        /\ \A e \in DOMAIN all : all[e] = IF e \in DOMAIN shown THEN shown[e] ELSE locked[e]
        /\ all = [e \in DOMAIN shown \cup DOMAIN locked |-> all[e]]
    BY DEF V!Over
  <1>. HIDE DEF all
  <1>5. \A e \in DOMAIN all : e \in BlindEntries /\ all[e] \in BlindChoices
    BY <1>1, <1>2, <1>3, <1>4
  <1>6. all \in [DOMAIN all -> BlindChoices]
    BY <1>4, <1>5
  <1>7. DOMAIN all \in SUBSET BlindEntries
    BY <1>5
  <1>8. all \in V!Documents
    BY <1>6, <1>7 DEF V!Documents
  <1>. QED  BY <1>8 DEF all, locked

\* A tab that writes keeps the types, and takes no lock it knows of.
LEMMA WritingKeeps ==
  ASSUME V!BlindTypeOK, NEW t \in BlindTabs, TabWrites(t)
  PROVE  V!BlindTypeOK' /\ V!LockStep
  <1>1. PICK draft \in V!Draft : V!Commit(t, draft) /\ KeepsLocks(page[t], draft)
    BY DEF TabWrites
  <1>2. /\ stored' = draft /\ closed' = closed /\ t \notin closed
        /\ page' = [page EXCEPT ![t] = draft] /\ page \in [BlindTabs -> V!Draft]
        /\ revealed' = V!Over(revealed, V!LockedChoices(draft))
    BY <1>1 DEF V!Commit, V!BlindTypeOK
  <1>3. page'[t] = draft /\ \A u \in BlindTabs : u # t => page'[u] = page[u]
    BY <1>2
  <1>4. V!BlindTypeOK'
    BY <1>2, ShownIsADocument DEF V!BlindTypeOK
  <1>5. ASSUME stored # Damaged, NEW e \in V!Locked(stored)
        PROVE  \/ V!Has(stored', e, stored[e])
               \/ \E u \in BlindTabs \ closed :
                    page'[u] = stored' /\ ~V!Has(page[u], e, stored[e])
    <2>1. CASE V!Has(page[t], e, stored[e])
      <3>1. e \in V!Locked(page[t]) /\ page[t][e] = stored[e]
        BY <1>5, <2>1 DEF V!Has, V!Locked
      <3>. QED  BY <1>1, <1>2, <3>1 DEF KeepsLocks
    <2>2. CASE ~V!Has(page[t], e, stored[e])
      BY <1>2, <1>3, <2>2
    <2>. QED  BY <2>1, <2>2
  <1>6. ASSUME NEW u \in BlindTabs \ closed, NEW e \in V!Locked(page[u])
        PROVE  V!Has(page'[u], e, page[u][e])
    <2>1. CASE u = t
      BY <1>1, <1>3, <1>6, <2>1 DEF KeepsLocks
    <2>2. CASE u # t
      BY <1>3, <1>6, <2>2 DEF V!Has, V!Locked
    <2>. QED  BY <2>1, <2>2
  <1>. QED  BY <1>4, <1>5, <1>6 DEF V!LockStep

\* The drafts that the handlers write.
LEMMA ChooseWrites ==
  ASSUME V!BlindTypeOK, NEW t \in BlindTabs,
         NEW e \in BlindEntries, NEW c \in BlindChoices, V!Choose(t, e, c)
  PROVE  TabWrites(t)
  <1>. DEFINE old == page[t]
              new == V!Over([x \in {e} |-> [choice |-> c, locked |-> FALSE]], old)
  <1>1. old \in V!Draft /\ e \notin V!Locked(old) /\ V!Commit(t, new)
    BY DEF V!BlindTypeOK, V!Choose
  <1>2. /\ DOMAIN new = DOMAIN old \cup {e} /\ new[e] = [choice |-> c, locked |-> FALSE]
        /\ \A x \in DOMAIN old : x # e => new[x] = old[x]
        /\ new = [x \in DOMAIN old \cup {e} |-> new[x]]
    BY DEF V!Over
  <1>. HIDE DEF new, old
  <1>3. new \in V!Draft
    <2>1. new \in [DOMAIN old \cup {e} -> [choice : BlindChoices, locked : BOOLEAN]]
      <3>1. \A x \in DOMAIN old : old[x] \in [choice : BlindChoices, locked : BOOLEAN]
        BY <1>1, DraftFacts
      <3>2. [choice |-> c, locked |-> FALSE] \in [choice : BlindChoices, locked : BOOLEAN]
        OBVIOUS
      <3>3. \A x \in DOMAIN old \cup {e} : new[x] \in [choice : BlindChoices, locked : BOOLEAN]
        BY <1>2, <3>1, <3>2
      <3>. QED  BY <1>2, <3>3
    <2>2. DOMAIN old \cup {e} \in SUBSET BlindEntries
      BY <1>1, DraftFacts
    <2>. QED  BY <2>1, <2>2 DEF V!Draft
  <1>4. \A x \in V!Locked(old) : V!Has(new, x, old[x])
    BY <1>1, <1>2 DEF V!Locked, V!Has
  <1>. QED  BY <1>1, <1>3, <1>4, Zenon DEF old, KeepsLocks, TabWrites

LEMMA LockWrites ==
  ASSUME V!BlindTypeOK, NEW t \in BlindTabs,
         NEW e \in BlindEntries, V!Lock(t, e)
  PROVE  TabWrites(t)
  <1>. DEFINE old == page[t]
              new == [old EXCEPT ![e].locked = TRUE]
  <1>1. old \in V!Draft /\ e \in DOMAIN old /\ e \notin V!Locked(old) /\ V!Commit(t, new)
    BY DEF V!BlindTypeOK, V!Lock
  <1>2. old[e] \in [choice : BlindChoices, locked : BOOLEAN]
    BY <1>1, DraftFacts
  <1>3. /\ DOMAIN new = DOMAIN old
        /\ \A x \in DOMAIN old : x # e => new[x] = old[x]
        /\ new = [x \in DOMAIN old |-> new[x]]
        /\ new[e] \in [choice : BlindChoices, locked : BOOLEAN]
    BY <1>1, <1>2
  <1>. HIDE DEF new, old
  <1>4. new \in V!Draft
    <2>1. \A x \in DOMAIN old : new[x] \in [choice : BlindChoices, locked : BOOLEAN]
      BY <1>1, <1>3, DraftFacts
    <2>2. new \in [DOMAIN old -> [choice : BlindChoices, locked : BOOLEAN]]
      BY <1>3, <2>1
    <2>3. DOMAIN old \in SUBSET BlindEntries
      BY <1>1, DraftFacts
    <2>. QED  BY <2>2, <2>3 DEF V!Draft
  <1>5. \A x \in V!Locked(old) : V!Has(new, x, old[x])
    BY <1>1, <1>3 DEF V!Locked, V!Has
  <1>. QED  BY <1>1, <1>4, <1>5, Zenon DEF old, KeepsLocks, TabWrites

LEMMA NoteWrites ==
  ASSUME V!BlindTypeOK, NEW t \in BlindTabs, NEW e, V!Note(t, e)
  PROVE  TabWrites(t)
  <1>1. page[t] \in V!Draft /\ V!Commit(t, page[t])
    BY DEF V!Note, V!BlindTypeOK
  <1>2. KeepsLocks(page[t], page[t])
    BY DEF KeepsLocks, V!Locked, V!Has
  <1>. QED  BY <1>1, <1>2, Zenon DEF TabWrites

LEMMA ImportWrites ==
  ASSUME V!BlindTypeOK, NEW t \in BlindTabs,
         NEW document \in V!Documents, V!Import(t, document)
  PROVE  TabWrites(t)
  <1>. DEFINE old == page[t]
              imported == [e \in DOMAIN document |-> [choice |-> document[e], locked |-> TRUE]]
              new == V!Over(imported, old)
  <1>1. old \in V!Draft /\ ~V!Conflicts(old, document) /\ V!Commit(t, new)
    BY DEF V!BlindTypeOK, V!Import
  <1>2. /\ DOMAIN document \subseteq BlindEntries
        /\ \A e \in DOMAIN document : document[e] \in BlindChoices
    BY DEF V!Documents
  <1>3. /\ DOMAIN new = DOMAIN document \cup DOMAIN old
        /\ \A x \in DOMAIN document : new[x] = [choice |-> document[x], locked |-> TRUE]
        /\ \A x \in DOMAIN old : x \notin DOMAIN document => new[x] = old[x]
        /\ new = [x \in DOMAIN document \cup DOMAIN old |-> new[x]]
    BY DEF V!Over
  <1>. HIDE DEF new, old, imported
  <1>4. new \in V!Draft
    <2>1. \A x \in DOMAIN document \cup DOMAIN old :
            new[x] \in [choice : BlindChoices, locked : BOOLEAN]
      <3>1. \A x \in DOMAIN old : old[x] \in [choice : BlindChoices, locked : BOOLEAN]
        BY <1>1, DraftFacts
      <3>2. \A x \in DOMAIN document :
              [choice |-> document[x], locked |-> TRUE]
                \in [choice : BlindChoices, locked : BOOLEAN]
        BY <1>2
      <3>. QED  BY ZenonT(90), <1>3, <3>1, <3>2
    <2>2. new \in [DOMAIN document \cup DOMAIN old -> [choice : BlindChoices, locked : BOOLEAN]]
      BY <1>3, <2>1
    <2>3. DOMAIN document \cup DOMAIN old \in SUBSET BlindEntries
      BY <1>1, <1>2, DraftFacts
    <2>. QED  BY <2>2, <2>3 DEF V!Draft
  <1>5. \A x \in V!Locked(old) : V!Has(new, x, old[x])
    <2>1. SUFFICES ASSUME NEW x \in V!Locked(old) PROVE x \in DOMAIN new /\ new[x] = old[x]
      BY DEF V!Has
    <2>2. x \in DOMAIN old /\ old[x].locked
      BY DEF V!Locked
    <2>3. old[x] = [choice |-> old[x].choice, locked |-> TRUE]
      <3>1. old[x] \in [choice : BlindChoices, locked : BOOLEAN]
        BY <1>1, <2>2, DraftFacts
      <3>. QED  BY <2>2, <3>1
    <2>4. x \in DOMAIN document => old[x].choice = document[x]
      BY <1>1 DEF V!Conflicts
    <2>. QED  BY <1>3, <2>2, <2>3, <2>4
  <1>. QED  BY <1>1, <1>4, <1>5, Zenon DEF old, KeepsLocks, TabWrites

----------------------------------------------------------------------------
LEMMA BlindInit == V!Init => V!BlindTypeOK
  <1>1. V!Empty \in V!Documents
    <2>1. V!Empty \in [{} -> BlindChoices] /\ {} \in SUBSET BlindEntries
      BY DEF V!Empty
    <2>. QED  BY <2>1 DEF V!Documents
  <1>. QED  BY <1>1, EmptyIsADraft DEF V!Init, V!BlindTypeOK

LEMMA BlindNext ==
  ASSUME V!BlindTypeOK, V!Next
  PROVE  V!BlindTypeOK' /\ V!LockStep
  <1>1. ASSUME NEW t \in BlindTabs, V!Open(t) PROVE V!BlindTypeOK' /\ V!LockStep
    <2>1. /\ stored' = IF stored = Damaged THEN V!Empty ELSE stored
          /\ page' = [page EXCEPT ![t] = stored'] /\ page \in [BlindTabs -> V!Draft]
          /\ stored' \in V!Draft /\ revealed' = revealed /\ closed' = closed \ {t}
      BY <1>1, EmptyIsADraft DEF V!Open, V!BlindTypeOK
    <2>2. page'[t] = stored' /\ \A u \in BlindTabs : u # t => page'[u] = page[u]
      BY <2>1
    <2>3. V!BlindTypeOK'
      BY <2>1 DEF V!BlindTypeOK
    <2>4. stored # Damaged => \A e \in V!Locked(stored) : V!Has(stored', e, stored[e])
      BY <2>1 DEF V!Has, V!Locked
    <2>5. \A u \in BlindTabs : \A e \in V!Locked(page[u]) :
            \/ V!Has(page'[u], e, page[u][e])
            \/ page'[u] = stored' /\ stored \in {stored', Damaged}
      BY <2>1, <2>2 DEF V!Has, V!Locked
    <2>. QED  BY <2>3, <2>4, <2>5 DEF V!LockStep
  <1>2. ASSUME NEW t \in BlindTabs, V!Close(t) PROVE V!BlindTypeOK' /\ V!LockStep
    BY <1>2 DEF V!Close, V!BlindTypeOK, V!LockStep, V!Has, V!Locked
  <1>3. ASSUME NEW t \in BlindTabs, NEW e \in BlindEntries,
               \/ \E c \in BlindChoices : V!Choose(t, e, c)
               \/ V!Lock(t, e) \/ V!Note(t, e)
        PROVE  TabWrites(t)
    BY <1>3, ChooseWrites, LockWrites, NoteWrites
  <1>4. ASSUME NEW t \in BlindTabs, NEW d \in V!Documents, V!Import(t, d) PROVE TabWrites(t)
    BY <1>4, ImportWrites
  <1>5. ASSUME V!Forget PROVE V!BlindTypeOK' /\ V!LockStep
    <2>1. V!Empty \in V!Documents
      <3>1. V!Empty \in [{} -> BlindChoices] /\ {} \in SUBSET BlindEntries
        BY DEF V!Empty
      <3>. QED  BY <3>1 DEF V!Documents
    <2>2. V!BlindTypeOK'
      BY <1>5, <2>1, EmptyIsADraft DEF V!Forget, V!BlindTypeOK
    <2>3. V!LockStep
      BY <1>5 DEF V!Forget, V!LockStep, V!Cleared, V!Has, V!Locked
    <2>. QED  BY <2>2, <2>3
  <1>. QED  BY <1>1, <1>2, <1>3, <1>4, <1>5, WritingKeeps DEF V!Next

LEMMA BlindMoves == [WorkflowNext]_workflowVars => [V!Next]_(V!vars)
  BY DEF WorkflowNext, workflowVars, blindVars, V!vars

LEMMA BlindTyped == WorkflowSpec => [](V!BlindTypeOK)
  <1>1. WorkflowInit => V!BlindTypeOK
    BY BlindInit DEF WorkflowInit
  <1>2. V!BlindTypeOK /\ UNCHANGED V!vars => V!BlindTypeOK'
    BY DEF V!vars, V!BlindTypeOK
  <1>3. V!BlindTypeOK /\ [WorkflowNext]_workflowVars => V!BlindTypeOK'
    BY <1>2, BlindMoves, BlindNext
  <1>. QED  BY <1>1, <1>3, PTL DEF WorkflowSpec, workflowVars

\* However many tabs show one comparison, a locked choice leaves the storage only
\* with the storage or to a tab that does not have it, and an open page only by
\* being loaded again.
THEOREM WorkflowLocksStay == WorkflowSpec => LocksStay
  <1>1. V!BlindTypeOK /\ [WorkflowNext]_workflowVars => [V!LockStep]_(V!vars)
    BY BlindMoves, BlindNext
  <1>. QED  BY <1>1, BlindTyped, PTL DEF WorkflowSpec, workflowVars, LocksStay, V!LocksStay

----------------------------------------------------------------------------
(* Types. What is in the root comes from the builders or from outside.     *)

ContentOK(n, content) ==
  \/ content \in {Torn, Foreign}
  \/ n \in {B!Manifest, B!Pending} /\ content \in {<<blobs>> : blobs \in BlobSets}
  \/ \E blobs \in BlobSets, i \in 1..2 :
       i \in DOMAIN blobs /\ n = B!Payload[i] /\ content = blobs[i]

RootOK == /\ DOMAIN root \subseteq B!Names
          /\ \A n \in DOMAIN root : ContentOK(n, root[n])
          /\ \A b \in Builders : build[b].pc # "idle" => build[b].blobs \in BlobSets

LEMMA RootWith ==
  ASSUME RootOK, NEW n \in B!Names, NEW v, ContentOK(n, v), root' = B!With(n, v)
  PROVE  DOMAIN root' \subseteq B!Names /\ \A m \in DOMAIN root' : ContentOK(m, root'[m])
  <1>1. /\ DOMAIN root' = DOMAIN root \cup {n} /\ root'[n] = v
        /\ \A m \in DOMAIN root : m # n => root'[m] = root[m]
    BY BuildWithFacts
  <1>2. ASSUME NEW m \in DOMAIN root' PROVE ContentOK(m, root'[m])
    <2>1. CASE m = n
      BY <1>1, <2>1
    <2>2. CASE m # n
      <3>1. m \in DOMAIN root /\ root'[m] = root[m]
        BY <1>1, <2>2
      <3>. QED  BY <3>1 DEF RootOK
    <2>. QED  BY <2>1, <2>2
  <1>. QED  BY <1>1, <1>2 DEF RootOK

LEMMA FileNames ==
  /\ B!Manifest \in B!Names /\ B!Pending \in B!Names
  /\ \A i \in 1..2 : B!Payload[i] \in B!Names
  BY PayloadNames DEF B!Names

\* A builder that moves has been asked for blobs.
LEMMA AskedFor ==
  ASSUME RootOK, BuildsOK, NEW b \in Builders, NEW pc, B!Goto(b, pc), build[b].pc # "idle"
  PROVE  \A c \in Builders : build'[c].pc # "idle" => build'[c].blobs \in BlobSets
  BY BuildGotoFacts DEF RootOK

LEMMA RootNext ==
  ASSUME B!BuildBounds, BuildInv, RootOK, [B!Next]_(B!vars)
  PROVE  RootOK'
  <1>. DEFINE Asked == \A c \in Builders : build[c].pc # "idle" => build[c].blobs \in BlobSets
              Filed == /\ DOMAIN root \subseteq B!Names
                       /\ \A n \in DOMAIN root : ContentOK(n, root[n])
  <1>0. BuildsOK /\ Asked /\ Filed
    BY DEF BuildInv, RootOK
  <1>1. CASE UNCHANGED B!vars
    BY <1>1 DEF B!vars, RootOK
  <1>2. CASE B!Intrude
    <2>1. PICK n \in B!Names : root' = B!With(n, Foreign)
      BY <1>2 DEF B!Intrude
    <2>2. build' = build
      BY <1>2 DEF B!Intrude
    <2>3. Filed'
      BY <2>1, RootWith DEF ContentOK
    <2>. QED  BY <1>0, <2>2, <2>3 DEF RootOK
  <1>3. ASSUME NEW b \in Builders, B!Build(b) PROVE RootOK'
    <2>1. CASE B!Enter(b)
      <3>1. /\ root' = root /\ build'[b].blobs \in BlobSets
            /\ \A c \in Builders : c # b => build'[c] = build[c]
        BY <1>0, <2>1 DEF B!Enter, BuildsOK
      <3>. QED  BY <1>0, <3>1 DEF RootOK
    <2>2. ASSUME NEW pc, B!Goto(b, pc), build[b].pc # "idle", root' = root PROVE RootOK'
      BY <1>0, <2>2, AskedFor DEF RootOK
    <2>3. CASE B!CheckPayloads(b)
      BY <2>2, <2>3 DEF B!CheckPayloads
    <2>4. CASE B!CheckStaged(b)
      BY <2>2, <2>4 DEF B!CheckStaged
    <2>5. CASE B!ValidatePayloads(b) \/ B!ValidateManifest(b)
      BY <2>2, <2>5 DEF B!ValidatePayloads, B!ValidateManifest
    <2>6. CASE B!Stop(b)
      BY <2>2, <2>6 DEF B!Stop
    <2>7. CASE B!Create(b)
      <3>1. /\ build[b].pc = "create" /\ B!Goto(b, "fill")
            /\ root' = B!With(B!Payload[build[b].i], Torn)
        BY <2>7 DEF B!Create
      <3>2. build[b].blobs \in BlobSets /\ build[b].i \in 1..Len(build[b].blobs)
        BY <1>0, <3>1 DEF BuildsOK
      <3>3. B!Payload[build[b].i] \in B!Names
        BY <3>2, BlobFacts, FileNames
      <3>4. Filed'
        BY <3>1, <3>3, RootWith DEF ContentOK
      <3>5. Asked'
        BY <1>0, <3>1, AskedFor
      <3>. QED  BY <3>4, <3>5 DEF RootOK
    <2>8. CASE B!Fill(b)
      <3>. DEFINE blobs == build[b].blobs
                  i == build[b].i
      <3>1. build[b].pc = "fill" /\ root' = B!With(B!Payload[i], blobs[i])
        BY <2>8 DEF B!Fill
      <3>2. /\ build'[b].blobs = build[b].blobs
            /\ \A c \in Builders : c # b => build'[c] = build[c]
        BY <1>0, <2>8 DEF B!Fill, BuildsOK
      <3>3. blobs \in BlobSets /\ i \in 1..Len(blobs)
        BY <1>0, <3>1 DEF BuildsOK
      <3>4. i \in 1..2 /\ i \in DOMAIN blobs
        BY <3>3, BlobFacts
      <3>5. B!Payload[i] \in B!Names /\ ContentOK(B!Payload[i], blobs[i])
        BY <3>3, <3>4, FileNames DEF ContentOK
      <3>6. Filed'
        BY <3>1, <3>5, RootWith
      <3>7. Asked'
        BY <1>0, <3>2, <3>3
      <3>. QED  BY <3>6, <3>7 DEF RootOK
    <2>9. CASE B!CreateManifest(b)
      <3>1. build[b].pc = "stage" /\ B!Goto(b, "fill manifest") /\ root' = B!With(B!Pending, Torn)
        BY <2>9 DEF B!CreateManifest
      <3>2. Filed'
        BY <3>1, FileNames, RootWith DEF ContentOK
      <3>3. Asked'
        BY ZenonT(90), <1>0, <3>1, AskedFor
      <3>. QED  BY <3>2, <3>3 DEF RootOK
    <2>10. CASE B!FillManifest(b)
      <3>1. /\ build[b].pc = "fill manifest" /\ B!Goto(b, "staged")
            /\ root' = B!With(B!Pending, <<build[b].blobs>>)
        BY <2>10 DEF B!FillManifest
      <3>2. ContentOK(B!Pending, <<build[b].blobs>>)
        BY <1>0, <3>1 DEF ContentOK
      <3>3. Filed'
        BY ZenonT(90), <3>1, <3>2, FileNames, RootWith
      <3>4. Asked'
        BY <1>0, <3>1, AskedFor
      <3>. QED  BY <3>3, <3>4 DEF RootOK
    <2>11. CASE B!CommitManifest(b)
      <3>1. /\ build[b].pc = "commit" /\ B!Pending \in DOMAIN root /\ B!Goto(b, "validate")
            /\ root' = [n \in (DOMAIN root \cup {B!Manifest}) \ {B!Pending} |->
                          IF n = B!Manifest THEN root[B!Pending] ELSE root[n]]
        BY <2>11 DEF B!CommitManifest
      <3>2. ContentOK(B!Manifest, root[B!Pending])
        <4>1. ContentOK(B!Pending, root[B!Pending])
          BY <1>0, <3>1
        <4>. QED  BY <4>1, PayloadNames DEF ContentOK
      <3>3. \A n \in DOMAIN root' : ContentOK(n, root'[n])
        BY <1>0, <3>1, <3>2
      <3>4. DOMAIN root' \subseteq B!Names
        BY <1>0, <3>1, FileNames
      <3>5. Asked'
        BY <1>0, <3>1, AskedFor
      <3>. QED  BY <3>3, <3>4, <3>5 DEF RootOK
    <2>. QED  BY <1>3, <2>1, <2>3, <2>4, <2>5, <2>6, <2>7, <2>8, <2>9, <2>10, <2>11 DEF B!Build
  <1>. QED  BY <1>1, <1>2, <1>3 DEF B!Next

LEMMA BuildTyped == WorkflowSpec => [](B!BuildTypeOK)
  <1>1. WorkflowInit => RootOK
    <2>1. B!Init => RootOK
      BY SMTT(60) DEF B!Init, RootOK, B!NoBuild
    <2>. QED  BY <2>1 DEF WorkflowInit
  <1>2. [WorkflowNext]_workflowVars => [B!Next]_(B!vars)
    BY DEF WorkflowNext, workflowVars, buildVars, B!vars
  <1>3. BuildInv /\ RootOK /\ [WorkflowNext]_workflowVars => RootOK'
    BY <1>2, WorkflowAssumption, RootNext
  <1>4. ASSUME BuildInv, RootOK PROVE B!BuildTypeOK
    <2>1. ASSUME NEW n \in DOMAIN root, root[n] \notin {Torn, Foreign}
          PROVE  IF n \in {B!Manifest, B!Pending} THEN root[n] \in {<<blobs>> : blobs \in BlobSets}
                 ELSE \E blobs \in BlobSets, i \in 1..Len(B!Payload) :
                        n = B!Payload[i] /\ i \in DOMAIN blobs /\ root[n] = blobs[i]
      <3>1. ContentOK(n, root[n])
        BY <1>4 DEF RootOK
      <3>2. Len(B!Payload) = 2
        BY DEF B!Payload
      <3>3. CASE n \in {B!Manifest, B!Pending}
        BY <2>1, <3>1, <3>3, PayloadNames DEF ContentOK
      <3>4. CASE n \notin {B!Manifest, B!Pending}
        BY <2>1, <3>1, <3>2, <3>4 DEF ContentOK
      <3>. QED  BY <3>3, <3>4
    <2>2. DOMAIN root \subseteq B!Names
      BY <1>4 DEF RootOK
    <2>3. \A b \in Builders : build[b].blobs \in BlobSets \cup {<<>>}
      BY SMTT(60), <1>4 DEF BuildInv, BuildsOK
    <2>. QED  BY <2>1, <2>2, <2>3 DEF B!BuildTypeOK
  <1>5. BuildInv /\ RootOK => B!BuildTypeOK
    BY <1>4, Zenon
  <1>6. WorkflowSpec => []RootOK
    BY <1>1, <1>3, BuildBehaves, PTL DEF WorkflowSpec, workflowVars
  <1>. QED  BY <1>5, <1>6, BuildBehaves, PTL

LEMMA SameTreeTypes == TreeProofs!SnapshotTypeOK => T!SnapshotTypeOK
  BY DEF T!SnapshotTypeOK, TreeProofs!SnapshotTypeOK, T!Dirs, TreeProofs!Dirs, T!Files,
         TreeProofs!Files

\* In the workflow all four machines keep their types, whatever value stands for a
\* part that is not there, as long as no command makes it.
THEOREM WorkflowTyped ==
  ASSUME ~IsRecord(Absent)
  PROVE  WorkflowSpec => []TypeOK
  <1>1. WorkflowSpec => []SealedTypeOK
    BY ChainBehaves, SealedTyped, PTL
  <1>2. WorkflowSpec => [](T!SnapshotTypeOK)
    BY TreeBehaves, TreeProofs!SnapshotTyped, SameTreeTypes, PTL
  <1>3. SealedTypeOK /\ T!SnapshotTypeOK /\ B!BuildTypeOK /\ V!BlindTypeOK => TypeOK
    BY DEF TypeOK
  <1>. QED  BY <1>1, <1>2, <1>3, BuildTyped, BlindTyped, PTL

----------------------------------------------------------------------------
(* The samples. What is proved of the algorithms (AlgorithmProofs) is about *)
(* the same definitions, instantiated once more; the samples are inputs of  *)
(* the kind that it needs.                                                  *)

LEMMA SameCounts ==
  /\ \A set : Algorithms!Num(set) = R!Num(set)
  /\ \A mod, kinds : Algorithms!FilesOf(mod, kinds) = R!FilesOf(mod, kinds)
  /\ \A mod, states : Algorithms!Occurring(mod, states) = R!Occurring(mod, states)
  /\ \A mod, decisions : Algorithms!Decided(mod, decisions) = R!Decided(mod, decisions)
  /\ Algorithms!Skips = R!Skips
  /\ Algorithms!Paired = R!Paired
  BY DEF Algorithms!Num, R!Num, Algorithms!Cardinality, R!Cardinality,
         Algorithms!FilesOf, R!FilesOf, Algorithms!Occurring, R!Occurring,
         Algorithms!Decided, R!Decided, Algorithms!Skips, R!Skips,
         Algorithms!Paired, R!Paired

LEMMA SameReports ==
  \A mod, reused, limit :
    Algorithms!ReportsHold(mod, reused, limit) => R!ReportsHold(mod, reused, limit)
  <1>1. /\ \A mod : Algorithms!UnsupportedIn(mod) = R!UnsupportedIn(mod)
        /\ \A mod, limit : Algorithms!Selected(mod, limit) = R!Selected(mod, limit)
        /\ \A counts, dry : Algorithms!Status(counts, dry) = R!Status(counts, dry)
    BY SameCounts, Zenon
       DEF Algorithms!UnsupportedIn, R!UnsupportedIn, Algorithms!UnsupportedOf, R!UnsupportedOf,
           Algorithms!Selected, R!Selected, Algorithms!Status, R!Status
  <1>2. \A mod : Algorithms!InspectCounts(mod) = R!InspectCounts(mod)
    BY <1>1, SameCounts, Zenon DEF Algorithms!InspectCounts, R!InspectCounts
  <1>3. \A mod, reused : Algorithms!WorkspaceReport(mod, reused) = R!WorkspaceReport(mod, reused)
    BY <1>1, <1>2, SameCounts, Zenon DEF Algorithms!WorkspaceReport, R!WorkspaceReport
  <1>4. \A mod, limit, dry :
          Algorithms!SinglePassReport(mod, limit, dry) = R!SinglePassReport(mod, limit, dry)
    <2>. SUFFICES ASSUME NEW mod, NEW limit, NEW dry
                  PROVE  Algorithms!SinglePassReport(mod, limit, dry)
                           = R!SinglePassReport(mod, limit, dry)
      OBVIOUS
    <2>. DEFINE chosen == R!Selected(mod, limit)
                inspect == R!InspectCounts(mod)
                fell == {"fallback"}
                kept == {"unchanged"}
                made == {"changed", "unchanged"}
    <2>1. Algorithms!Selected(mod, limit) = chosen /\ Algorithms!InspectCounts(mod) = inspect
      BY <1>1, <1>2, Zenon
    <2>. HIDE DEF chosen, inspect, fell, kept, made
    <2>2. /\ Algorithms!Occurring(mod, fell) = R!Occurring(mod, fell)
          /\ Algorithms!Occurring(mod, kept) = R!Occurring(mod, kept)
          /\ Algorithms!Occurring(mod, made) = R!Occurring(mod, made)
      BY SameCounts, Zenon
    <2>3. /\ \A set : Algorithms!Num(set) = R!Num(set)
          /\ \A counts : Algorithms!Status(counts, dry) = R!Status(counts, dry)
      BY <1>1, SameCounts, Zenon
    <2>. QED
      BY <2>1, <2>2, <2>3 DEF Algorithms!SinglePassReport, R!SinglePassReport, chosen, inspect,
                              fell, kept, made
  <1>5. \A mod, report :
          /\ Algorithms!ReviewAccepts(mod, report) <=> R!ReviewAccepts(mod, report)
          /\ Algorithms!PilotReviewAccepts(mod, report) <=> R!PilotReviewAccepts(mod, report)
    BY DEF Algorithms!ReviewAccepts, R!ReviewAccepts, Algorithms!PilotReviewAccepts,
           R!PilotReviewAccepts, Algorithms!Selected, R!Selected, Algorithms!Status,
           R!Status, Algorithms!Paired, R!Paired, Algorithms!Num, R!Num,
           Algorithms!Cardinality, R!Cardinality, Algorithms!FilesOf, R!FilesOf,
           Algorithms!Occurring, R!Occurring, Algorithms!Skips, R!Skips,
           Algorithms!UnsupportedIn, R!UnsupportedIn, Algorithms!UnsupportedOf,
           R!UnsupportedOf
  <1>6. \A report, name : Algorithms!Shifted(report, name) = R!Shifted(report, name)
    BY SameCounts DEF Algorithms!Shifted, R!Shifted
  <1>7. \A mod, report :
          /\ Algorithms!ReportAccepted(mod, report) <=> R!ReportAccepted(mod, report)
          /\ Algorithms!PilotAccepted(mod, report) <=> R!PilotAccepted(mod, report)
    BY <1>5, <1>6, ZenonT(60)
       DEF Algorithms!ReportAccepted, R!ReportAccepted, Algorithms!PilotAccepted,
           R!PilotAccepted, Algorithms!CountsBalance, R!CountsBalance
  <1>8. /\ \A mod, report : Algorithms!Summary(mod, report) = R!Summary(mod, report)
        /\ \A mod : Algorithms!ChangedSpans(mod) = R!ChangedSpans(mod)
    BY <1>1, SameCounts, Zenon
       DEF Algorithms!Summary, R!Summary, Algorithms!ChangedSpans, R!ChangedSpans
  <1>9. \A mod, report :
          Algorithms!ApplicationReport(mod, report) = R!ApplicationReport(mod, report)
    BY <1>8, SameCounts, ZenonT(60) DEF Algorithms!ApplicationReport, R!ApplicationReport
  <1>10. \A app, allow : Algorithms!PackageAccepts(app, allow) <=> R!PackageAccepts(app, allow)
    BY DEF Algorithms!PackageAccepts, R!PackageAccepts, Algorithms!DecisionCountsHold,
           R!DecisionCountsHold, Algorithms!Paired, R!Paired
  <1>11. \A mod, report, allow :
           Algorithms!Packageable(mod, report, allow) <=> R!Packageable(mod, report, allow)
    BY <1>9, <1>10, Zenon DEF Algorithms!Packageable, R!Packageable
  <1>. QED
    BY <1>3, <1>4, <1>7, <1>11, Zenon DEF Algorithms!ReportsHold, R!ReportsHold

\* Each sample of the reports is drawn from the mods.
SampleIsMod == Is("report") => Algorithms!ModOK(sample.x.mod) /\ sample.x.reused \in Nat

LEMMA SamplesAreMods == \A x \in ReportSamples : Algorithms!ModOK(x.mod) /\ x.reused \in Nat
  <1>1. \A f \in ModFiles : f \in Seq(Algorithms!FileRecords)
    <2>. DEFINE File(k, n) == [kind |-> k, unsupported |-> n]
    <2>1. \A n \in {0, 1, 2} :
            /\ File("english", n) \in Algorithms!FileRecords
            /\ File("foreign", n) \in Algorithms!FileRecords
            /\ File("file_skipped", n) \in Algorithms!FileRecords
            /\ File("replace_layer_unsupported", n) \in Algorithms!FileRecords
      BY DEF Algorithms!FileRecords, Algorithms!Skips
    <2>2. \A x, y \in Algorithms!FileRecords :
            <<x>> \in Seq(Algorithms!FileRecords) /\ <<x, y>> \in Seq(Algorithms!FileRecords)
      OBVIOUS
    <2>3. ModFiles = {<<File("english", 0)>>, <<File("english", 2)>>,
                      <<File("english", 0), File("foreign", 0)>>,
                      <<File("english", 0), File("english", 1)>>,
                      <<File("english", 0), File("file_skipped", 0)>>,
                      <<File("english", 1), File("replace_layer_unsupported", 0)>>}
      BY DEF ModFiles
    <2>. HIDE DEF File
    <2>. QED  BY ZenonT(90), <2>1, <2>2, <2>3
  <1>2. OccurrenceSamples \subseteq Algorithms!OccurrenceRecords
    <2>. DEFINE Verdicts == {<<"accept", FALSE>>, <<"edit", TRUE>>, <<"edit", FALSE>>,
                             <<"reject", FALSE>>}
                Sampled(s, d) == [file |-> 1, state |-> s, decision |-> d[1], alters |-> d[2],
                                whitespace |-> s = "unchanged"]
    <2>1. ASSUME NEW s \in {"changed", "unchanged", "fallback"}, NEW d \in Verdicts
          PROVE  Sampled(s, d) \in Algorithms!OccurrenceRecords
      <3>1. (s = "unchanged") \in BOOLEAN
        BY Zenon
      <3>2. CASE d = <<"accept", FALSE>>
        BY <3>1, <3>2 DEF Algorithms!OccurrenceRecords
      <3>3. CASE d = <<"edit", TRUE>>
        BY <3>1, <3>3 DEF Algorithms!OccurrenceRecords
      <3>4. CASE d = <<"edit", FALSE>>
        BY <3>1, <3>4 DEF Algorithms!OccurrenceRecords
      <3>5. CASE d = <<"reject", FALSE>>
        BY <3>1, <3>5 DEF Algorithms!OccurrenceRecords
      <3>. QED  BY <3>2, <3>3, <3>4, <3>5
    <2>2. OccurrenceSamples = {Sampled(s, d) : s \in {"changed", "unchanged", "fallback"},
                                             d \in Verdicts}
      BY DEF OccurrenceSamples
    <2>. HIDE DEF Sampled, Verdicts
    <2>. QED  BY <2>1, <2>2
  <1>3. \A o \in S!SeqOf(OccurrenceSamples, 2) : o \in Seq(Algorithms!OccurrenceRecords)
    <2>1. ASSUME NEW m \in 0..2, NEW o \in [1..m -> OccurrenceSamples]
          PROVE  o \in Seq(Algorithms!OccurrenceRecords)
      <3>1. m \in Nat /\ o \in [1..m -> Algorithms!OccurrenceRecords]
        BY <1>2
      <3>. QED  BY <3>1
    <2>. QED  BY <2>1 DEF S!SeqOf
  <1>4. \A f \in ModFiles, o \in S!SeqOf(OccurrenceSamples, 2) :
          Algorithms!ModOK([files |-> f, occurrences |-> o])
    BY <1>1, <1>3 DEF Algorithms!ModOK
  <1>5. \A m \in Mods : Algorithms!ModOK(m)
    BY <1>4 DEF Mods
  <1>6. ASSUME NEW x \in ReportSamples
        PROVE  Algorithms!ModOK(x.mod) /\ x.reused \in Nat
    <2>1. PICK m \in Mods, r \in 0..1, l \in {NoLimit, 1} :
            x = [mod |-> m, reused |-> r, limit |-> l]
      BY <1>6 DEF ReportSamples
    <2>. QED  BY <1>5, <2>1
  <1>. QED  BY <1>6

LEMMA SampleBehaves == WorkflowSpec => []SampleIsMod
  <1>1. WorkflowInit => SampleIsMod
    <2>1. WorkflowInit => sample = NoSample
      BY Zenon DEF WorkflowInit
    <2>2. sample = NoSample => SampleIsMod
      BY DEF SampleIsMod, Is, NoSample
    <2>. QED  BY <2>1, <2>2
  <1>2. ASSUME SampleIsMod, [WorkflowNext]_workflowVars
        PROVE  SampleIsMod'
    <2>1. CASE UNCHANGED sample
      BY <1>2, <2>1 DEF SampleIsMod, Is
    <2>2. CASE Draw
      <3>1. CASE Drawn("report", ReportSamples)
        BY <3>1, SamplesAreMods DEF Drawn, SampleIsMod, Is
      <3>2. CASE ~Drawn("report", ReportSamples)
        <4>1. sample'.kind # "report"
          BY <2>2, <3>2 DEF Draw, Drawn
        <4>. QED  BY <4>1 DEF SampleIsMod, Is
      <3>. QED  BY <3>1, <3>2
    <2>. QED  BY <1>2, <2>1, <2>2 DEF WorkflowNext, workflowVars
  <1>. QED  BY <1>1, <1>2, PTL DEF WorkflowSpec, workflowVars

\* In the workflow every report that a translation makes is one the review
\* accepts, none with one count changed, and the package accepts the application
\* of complete decisions exactly when it should. The theorem EveryReportHolds says it
\* of every mod, not of the sampled ones alone.
THEOREM WorkflowReportsAreReviewable == WorkflowSpec => []EveryReportIsReviewable
  <1>1. ASSUME SampleIsMod PROVE EveryReportIsReviewable
    <2>1. ASSUME Is("report")
          PROVE  R!ReportsHold(sample.x.mod, sample.x.reused, sample.x.limit)
      <3>1. Algorithms!ModOK(sample.x.mod) /\ sample.x.reused \in Nat
        BY <1>1, <2>1 DEF SampleIsMod
      <3>2. Algorithms!ReportsHold(sample.x.mod, sample.x.reused, sample.x.limit)
        BY <3>1, Algorithms!EveryReportHolds, Zenon
      <3>. QED  BY <3>2, SameReports, Zenon
    <2>. QED  BY <2>1, Zenon DEF EveryReportIsReviewable
  <1>. QED  BY <1>1, SampleBehaves, PTL

----------------------------------------------------------------------------
(* Where files go.                                                         *)

LEMMA SameFilesApart == \A paths : Algorithms!FilesApart(paths) => P!FilesApart(paths)
  BY ZenonT(90) DEF Algorithms!FilesApart, P!FilesApart, Algorithms!MappedLists, P!MappedLists,
         Algorithms!Mappable, P!Mappable, Algorithms!Tail1, P!Tail1,
         Algorithms!CandidateRelative, P!CandidateRelative, Algorithms!Russian, P!Russian,
         Algorithms!Reverse, P!Reverse, Algorithms!MappingAccepts, P!MappingAccepts,
         Algorithms!LayoutAccepts, P!LayoutAccepts, Algorithms!PortableAccepts,
         P!PortableAccepts, Algorithms!FoldLeft, P!FoldLeft, Algorithms!MapThenFoldSet,
         P!MapThenFoldSet, Algorithms!Max, P!Max,
         Algorithms!Mapped, P!Mapped, Algorithms!NoMapping, P!NoMapping,
         Algorithms!LaidOut, P!LaidOut, Algorithms!NoLayout, P!NoLayout,
         Algorithms!Portable, P!Portable, Algorithms!NoInventory, P!NoInventory,
         Algorithms!Inventory, P!Inventory, Algorithms!Entry, P!Entry,
         Algorithms!SetToSeq, P!SetToSeq, Algorithms!ToSet, P!ToSet,
         Algorithms!IsInjective, P!IsInjective, Algorithms!Cardinality, P!Cardinality,
         Algorithms!AllDistinct, P!AllDistinct, Algorithms!Distinct, P!Distinct,
         Algorithms!Overlap, P!Overlap, Algorithms!IsBelow, P!IsBelow,
         Algorithms!Fold, P!Fold

LEMMA SamePhysical == \A d, path : Algorithms!Physical(d, path) = P!Physical(d, path)
  BY DEF Algorithms!Physical, P!Physical, Algorithms!Entered, P!Entered

LEMMA SamePlaceOf == \A d, path : Algorithms!PlaceOf(d, path) = P!PlaceOf(d, path)
  BY SamePhysical DEF Algorithms!PlaceOf, P!PlaceOf

LEMMA SameOverlap == \A p, q : Algorithms!Overlap(p, q) <=> P!Overlap(p, q)
  BY DEF Algorithms!Overlap, P!Overlap, Algorithms!IsBelow, P!IsBelow

LEMMA SameRelations ==
  \A l, r : /\ Algorithms!PhysicalOverlap(l, r) <=> P!PhysicalOverlap(l, r)
            /\ Algorithms!Unproven(l, r) <=> P!Unproven(l, r)
            /\ Algorithms!Exists(l) <=> P!Exists(l)
  BY DEF Algorithms!PhysicalOverlap, P!PhysicalOverlap, Algorithms!Unproven, P!Unproven,
         Algorithms!Exists, P!Exists, Algorithms!Ancestors, P!Ancestors

LEMMA SameSeparate ==
  \A d, named : Algorithms!PathsSeparate(d, named) <=> P!PathsSeparate(d, named)
  BY SamePhysical, SameOverlap, SameRelations
     DEF Algorithms!PathsSeparate, P!PathsSeparate, Algorithms!Apart, P!Apart

LEMMA SamePlacesApart ==
  \A d, named : Algorithms!PlacesApart(d, named) => P!PlacesApart(d, named)
  BY SamePhysical, SamePlaceOf, SameOverlap, SameRelations, SameSeparate
     DEF Algorithms!PlacesApart, P!PlacesApart

Words == {"a", "A", "b", "d", "D", "english", "English", "replace", "plain", "l_english"}
AnyName == [fold : {<<f>> : f \in Words}, spelling : Words, kind : Words]
PlainNames == {"a", "b", "c", "l", "n"}
SampleHasPaths ==
  /\ Is("paths") => sample.x \in Seq(Algorithms!PathsOf(AnyName))
  /\ Is("places") => /\ Algorithms!DiskOK(sample.x.disk, PlainNames)
                     /\ \A i \in DOMAIN sample.x.named : sample.x.named[i].path \in Seq(PlainNames)

LEMMA SamplesArePaths == \A x \in PathSamples : x \in Seq(Algorithms!PathsOf(AnyName))
  <1>1. \A f, s, k \in Words : N(f, s, k) \in AnyName
    BY DEF N, P!Name, AnyName
  <1>2. \A s \in {"english", "English"} : English(s) \in AnyName
    BY <1>1 DEF English, Words
  <1>3. /\ \A x \in AnyName : <<x>> \in Algorithms!PathsOf(AnyName)
        /\ \A x, y \in AnyName : <<x, y>> \in Algorithms!PathsOf(AnyName)
        /\ \A x, y, z \in AnyName : <<x, y, z>> \in Algorithms!PathsOf(AnyName)
    BY DEF Algorithms!PathsOf
  <1>. HIDE DEF N, English
  <1>4. \A p \in ModPaths : p \in Algorithms!PathsOf(AnyName)
    <2>1. \A f \in {"a", "b", "d", "english", "replace"},
             s \in {"a", "A", "b", "d", "D", "replace"},
             k \in {"plain", "l_english", "replace"} : N(f, s, k) \in AnyName
      BY <1>1 DEF Words
    <2>2. /\ \A s \in {"a", "A"}, k \in {"plain", "l_english"} : N("a", s, k) \in AnyName
          /\ N("d", "d", "plain") \in AnyName /\ N("d", "D", "plain") \in AnyName
          /\ N("a", "a", "plain") \in AnyName /\ N("a", "a", "l_english") \in AnyName
          /\ N("replace", "replace", "replace") \in AnyName
      BY <2>1
    <2>. DEFINE Paths == Algorithms!PathsOf(AnyName)
                Folders == {N("d", "d", "plain"), N("d", "D", "plain"), N("a", "a", "plain"),
                            English("english"), English("English")}
    <2>. DEFINE Files == {<<N("a", s, k)>> : s \in {"a", "A"}, k \in {"plain", "l_english"}}
                Below == {<<d, N("a", s, "l_english")>> : d \in Folders, s \in {"a", "A"}}
                Deep == {<<English("english"), N("d", "d", "plain"), N("a", "a", "l_english")>>,
                         <<English("english"), N("replace", "replace", "replace"),
                           N("a", "a", "l_english")>>,
                         <<N("replace", "replace", "replace"), N("a", "a", "l_english")>>,
                         <<English("English"), N("replace", "replace", "replace"),
                           N("a", "a", "l_english")>>}
    <2>3. Files \subseteq Paths
      <3>1. \A s \in {"a", "A"}, k \in {"plain", "l_english"} : <<N("a", s, k)>> \in Paths
        BY <1>3, <2>2
      <3>2. ASSUME NEW x \in Files PROVE x \in Paths
        <4>1. PICK s \in {"a", "A"}, k \in {"plain", "l_english"} : x = <<N("a", s, k)>>
          BY <3>2
        <4>. HIDE DEF Paths
        <4>. QED  BY <3>1, <4>1
      <3>. QED  BY <3>2
    <2>4. Below \subseteq Paths
      <3>1. Folders \subseteq AnyName
        BY <1>2, <2>2
      <3>. HIDE DEF Folders
      <3>2. ASSUME NEW x \in Below PROVE x \in Paths
        <4>1. PICK f \in Folders, s \in {"a", "A"} : x = <<f, N("a", s, "l_english")>>
          BY <3>2
        <4>2. f \in AnyName /\ N("a", s, "l_english") \in AnyName
          BY <2>2, <3>1
        <4>. QED  BY <1>3, <4>1, <4>2
      <3>. QED  BY <3>2
    <2>5. Deep \subseteq Paths
      BY <1>2, <1>3, <2>2
    <2>6. ModPaths = Files \cup Below \cup Deep
      BY DEF ModPaths
    <2>. HIDE DEF Paths, Files, Below, Deep
    <2>7. ModPaths \subseteq Paths
      BY <2>3, <2>4, <2>5, <2>6
    <2>. QED  BY <2>7 DEF Paths
  <1>5. <<N("d", "D", "plain"), N("b", "b", "plain")>> \in Algorithms!PathsOf(AnyName)
    BY <1>1, <1>3 DEF Words
  <1>6. \A p \in S!SeqOf(ModPaths, 2) : p \in Seq(Algorithms!PathsOf(AnyName))
    <2>1. ASSUME NEW m \in 0..2, NEW o \in [1..m -> ModPaths]
          PROVE  o \in Seq(Algorithms!PathsOf(AnyName))
      <3>1. m \in Nat /\ o \in [1..m -> Algorithms!PathsOf(AnyName)]
        BY <1>4
      <3>. QED  BY <3>1
    <2>. QED  BY <2>1 DEF S!SeqOf
  <1>7. \A p, q, r \in Algorithms!PathsOf(AnyName) :
          <<p, q, r>> \in Seq(Algorithms!PathsOf(AnyName))
    OBVIOUS
  <1>. DEFINE More == <<N("d", "D", "plain"), N("b", "b", "plain")>>
              Pairs == {p \in S!SeqOf(ModPaths, 2) : Len(p) = 2}
              Triples == {<<p, q, r>> : p, q \in ModPaths, r \in {More}}
  <1>8. PathSamples = Pairs \cup Triples
    BY DEF PathSamples
  <1>9. Triples \subseteq Seq(Algorithms!PathsOf(AnyName))
    <2>. HIDE DEF More
    <2>1. More \in Algorithms!PathsOf(AnyName)
      BY <1>5 DEF More
    <2>2. \A p, q \in ModPaths : <<p, q, More>> \in Seq(Algorithms!PathsOf(AnyName))
      BY <1>4, <1>7, <2>1
    <2>3. ASSUME NEW x \in Triples PROVE x \in Seq(Algorithms!PathsOf(AnyName))
      <3>1. PICK p \in ModPaths, q \in ModPaths : x = <<p, q, More>>
        BY <2>3
      <3>. QED  BY <2>2, <3>1
    <2>. QED  BY <2>3
  <1>10. Pairs \subseteq Seq(Algorithms!PathsOf(AnyName))
    BY <1>6
  <1>. HIDE DEF Pairs, Triples
  <1>. QED  BY <1>8, <1>9, <1>10

LEMMA SamplesArePlaces ==
  \A x \in PlaceSamples :
    /\ Algorithms!DiskOK(x.disk, PlainNames)
    /\ \A i \in DOMAIN x.named : x.named[i].path \in Seq(PlainNames)
  <1>. DEFINE tree == {<<>>, <<"a">>, <<"a", "b">>, <<"c">>}
  <1>1. \A p \in NamedPaths : p \in Seq(PlainNames)
    <2>1. \A x, y, z \in PlainNames : /\ <<>> \in Seq(PlainNames) /\ <<x>> \in Seq(PlainNames)
                                      /\ <<x, y>> \in Seq(PlainNames)
                                      /\ <<x, y, z>> \in Seq(PlainNames)
      OBVIOUS
    <2>2. /\ "a" \in PlainNames /\ "b" \in PlainNames /\ "c" \in PlainNames
          /\ "l" \in PlainNames /\ "n" \in PlainNames
      BY DEF PlainNames
    <2>. QED  BY <2>1, <2>2 DEF NamedPaths
  <1>2. tree \in SUBSET Seq(PlainNames)
    BY DEF PlainNames
  <1>3. \A d \in tree : \A n \in 0..Len(d) : SubSeq(d, 1, n) \in tree
    <2>1. \A n \in 0..0 : SubSeq(<<>>, 1, n) = <<>>
      OBVIOUS
    <2>2. \A x : \A n \in 0..1 : SubSeq(<<x>>, 1, n) \in {<<>>, <<x>>}
      <3>1. \A x : SubSeq(<<x>>, 1, 0) = <<>> /\ SubSeq(<<x>>, 1, 1) = <<x>>
        <4>. TAKE x
        <4>1. <<x>> \in Seq({x}) /\ Len(<<x>>) = 1
          OBVIOUS
        <4>2. SubSeq(<<x>>, 1, Len(<<x>>)) = <<x>>
          BY <4>1, SubSeqFull
        <4>. QED  BY <4>1, <4>2, SubSeqEmpty
      <3>2. \A n \in 0..1 : n = 0 \/ n = 1
        OBVIOUS
      <3>. QED  BY <3>1, <3>2
    <2>3. \A x, y : \A n \in 0..2 : SubSeq(<<x, y>>, 1, n) \in {<<>>, <<x>>, <<x, y>>}
      <3>1. \A x, y : /\ SubSeq(<<x, y>>, 1, 0) = <<>> /\ SubSeq(<<x, y>>, 1, 1) = <<x>>
                      /\ SubSeq(<<x, y>>, 1, 2) = <<x, y>>
        <4>. TAKE x, y
        <4>1. <<x, y>> \in Seq({x, y}) /\ Len(<<x, y>>) = 2
          OBVIOUS
        <4>2. SubSeq(<<x, y>>, 1, Len(<<x, y>>)) = <<x, y>>
          BY <4>1, SubSeqFull
        <4>3. SubSeq(<<x, y>>, 1, 1) = <<x>>
          <5>1. SubSeq(<<x, y>>, 1, 1) = [i \in 1..1 |-> <<x, y>>[i]]
            OBVIOUS
          <5>2. \A i \in 1..1 : <<x, y>>[i] = x
            OBVIOUS
          <5>3. <<x>> = [i \in 1..1 |-> x]
            OBVIOUS
          <5>. QED  BY <5>1, <5>2, <5>3
        <4>. QED  BY <4>1, <4>2, <4>3, SubSeqEmpty
      <3>2. \A n \in 0..2 : n = 0 \/ n = 1 \/ n = 2
        OBVIOUS
      <3>. QED  BY <3>1, <3>2
    <2>4. Len(<<>>) = 0 /\ (\A x : Len(<<x>>) = 1) /\ (\A x, y : Len(<<x, y>>) = 2)
      OBVIOUS
    <2>5. \A n \in 0..Len(<<>>) : SubSeq(<<>>, 1, n) \in tree
      BY <2>1, <2>4
    <2>6. /\ \A n \in 0..Len(<<"a">>) : SubSeq(<<"a">>, 1, n) \in tree
          /\ \A n \in 0..Len(<<"c">>) : SubSeq(<<"c">>, 1, n) \in tree
      BY <2>2, <2>4
    <2>7. \A n \in 0..Len(<<"a", "b">>) : SubSeq(<<"a", "b">>, 1, n) \in tree
      BY <2>3, <2>4
    <2>. QED  BY <2>5, <2>6, <2>7
  <1>4. \A d \in Disks : d.dirs = tree /\ \A l \in DOMAIN d.links : l \notin tree
    BY DEF Disks, LinkedTo
  <1>5. \A d \in Disks : Algorithms!DiskOK(d, PlainNames)
    <2>. HIDE DEF tree
    <2>1. <<>> \in tree
      BY DEF tree
    <2>. QED  BY <1>2, <1>3, <1>4, <2>1 DEF Algorithms!DiskOK
  <1>6. ASSUME NEW x \in PlaceSamples
        PROVE  /\ x.disk \in Disks
               /\ \A i \in DOMAIN x.named : x.named[i].path \in NamedPaths
    <2>1. PICK d \in Disks, p \in NamedPaths, q \in NamedPaths, e \in BOOLEAN :
            x = [disk |-> d, named |-> <<[path |-> p, exists |-> e],
                                         [path |-> q, exists |-> FALSE]>>]
      BY DEF PlaceSamples
    <2>. QED  BY <2>1
  <1>. QED  BY <1>1, <1>5, <1>6

\* What is sampled of paths: files of a mod, and a disk with named paths.
LEMMA PathsBehave == WorkflowSpec => []SampleHasPaths
  <1>1. WorkflowInit => SampleHasPaths
    <2>1. WorkflowInit => sample = NoSample
      BY Zenon DEF WorkflowInit
    <2>2. sample = NoSample => SampleHasPaths
      BY SMTT(60) DEF SampleHasPaths, Is, NoSample
    <2>. QED  BY <2>1, <2>2
  <1>2. ASSUME SampleHasPaths, [WorkflowNext]_workflowVars
        PROVE  SampleHasPaths'
    <2>1. CASE UNCHANGED sample
      BY <1>2, <2>1 DEF SampleHasPaths, Is
    <2>2. CASE Draw
      <3>1. CASE Drawn("paths", PathSamples)
        BY <3>1, SamplesArePaths DEF Drawn, SampleHasPaths, Is
      <3>2. CASE Drawn("places", PlaceSamples)
        BY <3>2, SamplesArePlaces DEF Drawn, SampleHasPaths, Is
      <3>3. CASE ~Drawn("paths", PathSamples) /\ ~Drawn("places", PlaceSamples)
        <4>1. sample'.kind # "paths" /\ sample'.kind # "places"
          BY <2>2, <3>3 DEF Draw, Drawn
        <4>. QED  BY <4>1 DEF SampleHasPaths, Is
      <3>. QED  BY <3>1, <3>2, <3>3
    <2>. QED  BY <1>2, <2>1, <2>2 DEF WorkflowNext, workflowVars
  <1>. QED  BY <1>1, <1>2, PTL DEF WorkflowSpec, workflowVars

\* In the workflow no two files of a mod and no two of the named paths are accepted
\* that meet, and no others are refused. The theorems FilesAreApart and PlacesAreApart
\* say it of every mod and every disk.
THEOREM WorkflowKeepsPathsApart == WorkflowSpec => []PathsKeptApart
  <1>1. ASSUME SampleHasPaths PROVE PathsKeptApart
    <2>1. Is("paths") => P!FilesApart(sample.x)
      <3>1. Is("paths") => Algorithms!FilesApart(sample.x)
        BY <1>1, Algorithms!FilesAreApart DEF SampleHasPaths
      <3>. QED  BY <3>1, SameFilesApart
    <2>2. Is("places") => P!PlacesApart(sample.x.disk, sample.x.named)
      <3>1. Is("places") => Algorithms!PlacesApart(sample.x.disk, sample.x.named)
        BY <1>1, Algorithms!PlacesAreApart DEF SampleHasPaths
      <3>. QED  BY <3>1, SamePlacesApart
    <2>. QED  BY <2>1, <2>2 DEF PathsKeptApart
  <1>. QED  BY <1>1, PathsBehave, PTL

----------------------------------------------------------------------------
(* The benchmark.                                                         *)

LEMMA SameSums == \A f : Algorithms!SumFunction(f) = A!SumFunction(f)
  BY DEF Algorithms!SumFunction, A!SumFunction,
         Algorithms!SumFunctionOnSet, A!SumFunctionOnSet,
         Algorithms!FoldFunctionOnSet, A!FoldFunctionOnSet,
         Algorithms!MapThenFoldSet, A!MapThenFoldSet

LEMMA SameKappas == \A m : Algorithms!Kappa(m) = A!Kappa(m)
  BY SameSums DEF Algorithms!Kappa, A!Kappa, Algorithms!KappaFrom, A!KappaFrom,
     Algorithms!Cells, A!Cells, Algorithms!Scores, A!Scores

LEMMA SameBelow == \A a, b : Algorithms!Below(a, b) <=> A!Below(a, b)
  BY DEF Algorithms!Below, A!Below

LEMMA SameSourceWeighted ==
  \A sources : Algorithms!SourceWeighted(sources) = A!SourceWeighted(sources)
  BY SameSums, SameKappas, Zenon
     DEF Algorithms!SourceWeighted, A!SourceWeighted, Algorithms!Cells, A!Cells,
         Algorithms!Scores, A!Scores

LEMMA SameCardinality == \A set : Algorithms!Cardinality(set) = A!Cardinality(set)
  BY DEF Algorithms!Cardinality, A!Cardinality

LEMMA SamePlaces == \A s, I : Algorithms!At(s, I) = A!At(s, I)
  BY DEF Algorithms!At, A!At, Algorithms!Cardinality, A!Cardinality

LEMMA SameVectors == \A rows : Algorithms!Vectors(rows) = A!Vectors(rows)
  <1>1. /\ \A rows : Algorithms!SourcesOf(rows) = A!SourcesOf(rows)
        /\ \A rows, s : Algorithms!RatingsOf(rows, s) = A!RatingsOf(rows, s)
        /\ \A pairs : Algorithms!Rated(pairs) = A!Rated(pairs)
        /\ \A pairs : Algorithms!OneSided(pairs) <=> A!OneSided(pairs)
    BY SamePlaces, Zenon
       DEF Algorithms!SourcesOf, A!SourcesOf, Algorithms!RatingsOf, A!RatingsOf,
           Algorithms!OneSided, A!OneSided, Algorithms!Rated, A!Rated
  <1>. QED
    BY <1>1, SamePlaces, SameCardinality, ZenonT(60) DEF Algorithms!Vectors, A!Vectors

LEMMA SameContractStatus == \A v : Algorithms!ContractStatus(v) = A!ContractStatus(v)
  BY SameSourceWeighted, SameBelow
     DEF Algorithms!ContractStatus, A!ContractStatus, Algorithms!StatusFrom, A!StatusFrom,
         Algorithms!RemoveAt, A!RemoveAt

LEMMA SameResult == \A v : Algorithms!AgreementResult(v) = A!AgreementResult(v)
  <1>1. /\ \A pairs : Algorithms!Contribution(pairs) = A!Contribution(pairs)
        /\ \A m, n : Algorithms!Subtract(m, n) = A!Subtract(m, n)
        /\ \A s : Algorithms!ToSet(s) = A!ToSet(s)
    BY SameCardinality, Zenon
       DEF Algorithms!Contribution, A!Contribution, Algorithms!Subtract, A!Subtract,
           Algorithms!Cells, A!Cells, Algorithms!Scores, A!Scores, Algorithms!ToSet, A!ToSet
  <1>2. \A sources : Algorithms!MatrixOf(sources) = A!MatrixOf(sources)
    BY <1>1, SameSums, Zenon
       DEF Algorithms!MatrixOf, A!MatrixOf, Algorithms!Cells, A!Cells,
           Algorithms!Scores, A!Scores
  <1>3. \A kappas : Algorithms!Least(kappas) = A!Least(kappas)
    BY DEF Algorithms!Least, A!Least, Algorithms!LeastKappa, A!LeastKappa,
           Algorithms!Below, A!Below
  <1>4. \A v, point, least :
          Algorithms!ResultFrom(v, point, least) = A!ResultFrom(v, point, least)
    BY SameSums, SameBelow DEF Algorithms!ResultFrom, A!ResultFrom
  <1>. QED
    BY <1>1, <1>2, <1>3, <1>4, SameKappas, Zenon
       DEF Algorithms!AgreementResult, A!AgreementResult

LEMMA SameAgreement == \A rows : Algorithms!AgreementIsOne(rows) => A!AgreementIsOne(rows)
  <1>1. /\ \A kappa : Algorithms!Sufficient(kappa) <=> A!Sufficient(kappa)
        /\ \A a, b : Algorithms!SameKappa(a, b) <=> A!SameKappa(a, b)
        /\ \A v : Algorithms!PayloadAccepted(v) <=> A!PayloadAccepted(v)
        /\ \A r : Algorithms!ResultAccepted(r) <=> A!ResultAccepted(r)
        /\ \A rows : Algorithms!SourcesOf(rows) = A!SourcesOf(rows)
        /\ \A rows : Algorithms!Reverse(rows) = A!Reverse(rows)
    BY SameBelow, SamePlaces
       DEF Algorithms!Sufficient, A!Sufficient, Algorithms!SameKappa, A!SameKappa,
           Algorithms!PayloadAccepted, A!PayloadAccepted, Algorithms!ResultAccepted,
           A!ResultAccepted, Algorithms!SourcesOf, A!SourcesOf, Algorithms!Reverse, A!Reverse
  <1>2. \A v, r, status :
          Algorithms!ResultHolds(v, r, status) <=> A!ResultHolds(v, r, status)
    BY <1>1, SameSourceWeighted, Zenon DEF Algorithms!ResultHolds, A!ResultHolds
  <1>3. \A rows, v, r, status :
          Algorithms!VectorsHold(rows, v, r, status) <=> A!VectorsHold(rows, v, r, status)
    BY <1>1, <1>2, SameVectors, SameContractStatus, SameSourceWeighted, SamePlaces, ZenonT(60)
       DEF Algorithms!VectorsHold, A!VectorsHold
  <1>. QED
    BY <1>3, SameVectors, SameContractStatus, SameResult, Zenon
       DEF Algorithms!AgreementIsOne, A!AgreementIsOne

LEMMA SameTails ==
  /\ \A b, n : Algorithms!Power(b, n) = A!Power(b, n)
  /\ \A k, n, rate : Algorithms!LowerAtLeast(k, n, rate) <=> A!LowerAtLeast(k, n, rate)
  /\ \A k, n, rate : Algorithms!TailParts(k, n, rate) = A!TailParts(k, n, rate)
  <1>1. \A b, n : Algorithms!Power(b, n) = A!Power(b, n)
    BY DEF Algorithms!Power, A!Power
  <1>2. \A k, n, rate : Algorithms!LowerAtLeast(k, n, rate) <=> A!LowerAtLeast(k, n, rate)
    BY DEF Algorithms!LowerAtLeast, A!LowerAtLeast, Algorithms!Power, A!Power,
           Algorithms!Choose, A!Choose
  <1>3. \A k, n, rate : Algorithms!TailParts(k, n, rate) = A!TailParts(k, n, rate)
    BY <1>1, SameSums, SameCardinality, Zenon DEF Algorithms!TailParts, A!TailParts
  <1>. QED  BY <1>1, <1>2, <1>3

LEMMA SameConfidence ==
  \A k, n, rate : Algorithms!ConfidenceIsExact(k, n, rate) => A!ConfidenceIsExact(k, n, rate)
  BY SameTails, Zenon DEF Algorithms!ConfidenceIsExact, A!ConfidenceIsExact

LEMMA SameStratum ==
  \A d1, rows, s : Algorithms!StratumIsSound(d1, rows, s) => A!StratumIsSound(d1, rows, s)
  <1>1. /\ \A rows, s : Algorithms!Units(rows, s) = A!Units(rows, s)
        /\ \A rows, s, u : Algorithms!Outcomes(rows, s, u) = A!Outcomes(rows, s, u)
        /\ \A d1, n : Algorithms!StratumPayloadAccepted(d1, n) <=> A!StratumPayloadAccepted(d1, n)
    BY DEF Algorithms!Units, A!Units, Algorithms!Outcomes, A!Outcomes,
           Algorithms!StratumPayloadAccepted, A!StratumPayloadAccepted
  <1>2. \A rows, s : Algorithms!Stratum(rows, s) = A!Stratum(rows, s)
    BY <1>1, SameCardinality, Zenon DEF Algorithms!Stratum, A!Stratum
  <1>3. \A d1, n : Algorithms!StratumResult(d1, n) = A!StratumResult(d1, n)
    BY SameBelow, SameTails, ZenonT(60) DEF Algorithms!StratumResult, A!StratumResult
  <1>4. \A d1, r : Algorithms!StratumResultAccepted(d1, r) <=> A!StratumResultAccepted(d1, r)
    BY <1>1 DEF Algorithms!StratumResultAccepted, A!StratumResultAccepted
  <1>. SUFFICES ASSUME NEW d1, NEW rows, NEW s, Algorithms!StratumIsSound(d1, rows, s)
                PROVE  A!StratumIsSound(d1, rows, s)
    OBVIOUS
  <1>. DEFINE n == A!Stratum(rows, s)
              r == A!StratumResult(d1, n)
  <1>5. Algorithms!Stratum(rows, s) = n /\ Algorithms!StratumResult(d1, n) = r
    BY <1>2, <1>3
  <1>6. /\ Algorithms!Cardinality(Algorithms!Units(rows, s)) = A!Cardinality(A!Units(rows, s))
        /\ \A rate : Algorithms!TailParts(n.success, n.applicable, rate)
                       = A!TailParts(n.success, n.applicable, rate)
        /\ \A den : Algorithms!Power(den, n.applicable) = A!Power(den, n.applicable)
    BY <1>1, SameCardinality, SameTails, Zenon
  <1>. HIDE DEF n, r
  <1>. QED
    BY <1>1, <1>4, <1>5, <1>6 DEF Algorithms!StratumIsSound, A!StratumIsSound, n, r

LEMMA SameCfa == \A rows : Algorithms!CfaIsSound(rows) => A!CfaIsSound(rows)
  <1>1. /\ \A rows : Algorithms!CfaSummary(rows) = A!CfaSummary(rows)
        /\ \A n : Algorithms!CfaAccepted(n) <=> A!CfaAccepted(n)
    BY SameCardinality
       DEF Algorithms!CfaSummary, A!CfaSummary, Algorithms!CfaAccepted, A!CfaAccepted
  <1>2. \A b, n, a : Algorithms!SmallEnough(b, n, a) <=> A!SmallEnough(b, n, a)
    BY SameTails, Zenon DEF Algorithms!SmallEnough, A!SmallEnough
  <1>3. /\ \A n : Algorithms!CfaResult(n) = A!CfaResult(n)
        /\ \A b, a : Algorithms!PowerBound(b, a) = A!PowerBound(b, a)
    BY <1>2, Zenon
       DEF Algorithms!CfaResult, A!CfaResult, Algorithms!PowerBound, A!PowerBound
  <1>. QED  BY <1>1, <1>3, Zenon DEF Algorithms!CfaIsSound, A!CfaIsSound

LEMMA SameAggregate == \A a : Algorithms!AggregateIsSound(a) => A!AggregateIsSound(a)
  <1>1. /\ \A a : Algorithms!Aggregate(a) = A!Aggregate(a)
        /\ \A a : Algorithms!AggregatePayloadAccepted(a) <=> A!AggregatePayloadAccepted(a)
        /\ \A s : Algorithms!ToSet(s) = A!ToSet(s)
    BY SameCardinality, Zenon
       DEF Algorithms!Aggregate, A!Aggregate, Algorithms!ToSet, A!ToSet,
           Algorithms!AggregatePayloadAccepted, A!AggregatePayloadAccepted
  <1>2. \A r : Algorithms!AggregateAccepted(r) <=> A!AggregateAccepted(r)
    BY <1>1, Zenon DEF Algorithms!AggregateAccepted, A!AggregateAccepted
  <1>. QED  BY <1>1, <1>2, Zenon DEF Algorithms!AggregateIsSound, A!AggregateIsSound

\* The numbers of the sampled policy are ones that the theorems are about.
LEMMA SampledPolicy ==
  /\ Algorithms!AgreementPolicy /\ Algorithms!CfaPolicy /\ Algorithms!StratumPolicy
  /\ \A rate \in {[num |-> 3, den |-> 5], [num |-> 1, den |-> 2]} : Algorithms!RatePolicy(rate)
  <1>1. Algorithms!AgreementPolicy
    BY WorkflowAssumption
       DEF A!Scores, Algorithms!AgreementPolicy, Algorithms!Scores, Algorithms!Fractions
  <1>2. Algorithms!StratumPolicy
    BY DEF Algorithms!StratumPolicy, Algorithms!RatePolicy
  <1>3. Algorithms!RatePolicy([num |-> 3, den |-> 5])
    BY DEF Algorithms!RatePolicy
  <1>4. Algorithms!RatePolicy([num |-> 1, den |-> 2])
    BY DEF Algorithms!RatePolicy
  <1>5. Algorithms!CfaPolicy
    <2>. DEFINE base == [num |-> 1, den |-> 2]
                p(b, n) == Algorithms!Power(b, n)
    <2>1. Algorithms!CfaBase = base
      BY DEF Algorithms!CfaBase
    <2>2. /\ p(1, 0 + 1) = 1 * p(1, 0) /\ p(1, 1 + 1) = 1 * p(1, 1) /\ p(1, 2 + 1) = 1 * p(1, 2)
          /\ p(2, 0 + 1) = 2 * p(2, 0) /\ p(2, 1 + 1) = 2 * p(2, 1) /\ p(2, 2 + 1) = 2 * p(2, 2)
          /\ p(1, 0) = 1 /\ p(2, 0) = 1
      BY Algorithms!PowerFacts
    <2>3. /\ p(1, 1) = 1 /\ p(1, 2) = 1 /\ p(1, 3) = 1
          /\ p(2, 1) = 2 /\ p(2, 2) = 4 /\ p(2, 3) = 8
      <3>. HIDE DEF p
      <3>. QED  BY <2>2
    <2>4. /\ Algorithms!SmallEnough(base, 3, [num |-> 1, den |-> 8])
          /\ ~Algorithms!SmallEnough(base, 1, [num |-> 1, den |-> 8])
          /\ ~Algorithms!SmallEnough(base, 2, [num |-> 1, den |-> 8])
      BY <2>3 DEF Algorithms!SmallEnough
    <2>5. \A n \in 1..(3 - 1) : n = 1 \/ n = 2
      OBVIOUS
    <2>. QED  BY <2>1, <2>4, <2>5 DEF Algorithms!CfaPolicy
  <1>. QED  BY <1>1, <1>2, <1>3, <1>4, <1>5

\* What is sampled of the benchmark: few rows, small numbers and lists of outcomes.
SourceNames == {"s1", "s2", "s3", "s4"}
GateNames == {"AGREEMENT_PASS", "AGREEMENT_INSUFFICIENT_UNITS", "CFA_PASS", "CFA_EVENT_OBSERVED"}
SampleHasRows ==
  /\ Is("ratings") => sample.x \in Algorithms!RatingRows(SourceNames) /\ Len(sample.x) <= 3
  /\ Is("outcomes") => /\ sample.x \in Algorithms!OutcomeRows(SourceNames, {"a", "b"})
                       /\ Len(sample.x) <= 2
  /\ Is("trials") => sample.x \in Algorithms!TrialRows(SourceNames) /\ Len(sample.x) <= 4
  /\ Is("tail") => sample.x[2] \in Nat /\ sample.x[1] \in 0..sample.x[2]
  /\ Is("aggregate") => sample.x.agreement \in Seq(GateNames) /\ sample.x.cfa \in Seq(GateNames)

LEMMA RowsUpTo ==
  ASSUME NEW type, NEW n \in Nat, NEW x \in [1..n -> type]
  PROVE  x \in Seq(type) /\ Len(x) = n
  OBVIOUS

LEMMA SamplesAreRatings ==
  \A x \in RatingRows : x \in Algorithms!RatingRows(SourceNames) /\ Len(x) <= 3
  <1>. DEFINE AnyRow == [source : SourceNames, pair : Algorithms!Marks \X Algorithms!Marks]
  <1>1. \A x \in Seq(AnyRow) : x \in Algorithms!RatingRows(SourceNames)
    BY DEF Algorithms!RatingRows
  <1>2. /\ Ratings \subseteq Algorithms!Marks \X Algorithms!Marks
        /\ {<<0, 0>>, <<4, 4>>, <<4, 3>>, <<4, 0>>} \subseteq Algorithms!Marks \X Algorithms!Marks
    BY DEF Ratings, Algorithms!Marks, Algorithms!Scores
  <1>3. \A s \in SourceNames, p \in Algorithms!Marks \X Algorithms!Marks :
          [source |-> s, pair |-> p] \in AnyRow
    OBVIOUS
  <1>4. ASSUME NEW n \in 1..2, NEW x \in [1..n -> [source : {"s1", "s2"}, pair : Ratings]]
        PROVE  x \in Seq(AnyRow) /\ Len(x) <= 3
    <2>1. \A i \in 1..n : x[i] \in AnyRow
      <3>1. \A r \in [source : {"s1", "s2"}, pair : Ratings] : r \in AnyRow
        BY <1>2, Zenon DEF SourceNames
      <3>. QED  BY <3>1
    <2>. HIDE DEF AnyRow
    <2>2. x \in [1..n -> AnyRow] /\ n \in Nat
      BY <2>1
    <2>. QED  BY <2>2, RowsUpTo
  <1>5. ASSUME NEW p \in {<<0, 0>>, <<4, 4>>, <<4, 3>>, <<4, 0>>},
               NEW q \in {<<0, 0>>, <<4, 4>>, <<4, 3>>, <<4, 0>>},
               NEW r \in {<<0, 0>>, <<4, 4>>, <<4, 3>>, <<4, 0>>},
               NEW s \in {"s1", "s2", "s3"}
        PROVE  LET x == <<[source |-> "s1", pair |-> p], [source |-> "s2", pair |-> q],
                          [source |-> s, pair |-> r]>>
               IN x \in Seq(AnyRow) /\ Len(x) <= 3
    <2>. DEFINE a == [source |-> "s1", pair |-> p]
                b == [source |-> "s2", pair |-> q]
                c == [source |-> s, pair |-> r]
    <2>1. a \in AnyRow /\ b \in AnyRow /\ c \in AnyRow
      BY <1>2, <1>3 DEF SourceNames
    <2>. HIDE DEF AnyRow, a, b, c
    <2>2. <<a, b, c>> \in Seq(AnyRow) /\ Len(<<a, b, c>>) <= 3
      BY <2>1
    <2>. QED  BY <2>2 DEF a, b, c
  <1>. HIDE DEF AnyRow
  <1>6. ASSUME NEW x \in RatingRows
        PROVE  \/ \E n \in 1..2 : x \in [1..n -> [source : {"s1", "s2"}, pair : Ratings]]
               \/ \E p, q, r \in {<<0, 0>>, <<4, 4>>, <<4, 3>>, <<4, 0>>},
                     s \in {"s1", "s2", "s3"} :
                    x = <<[source |-> "s1", pair |-> p], [source |-> "s2", pair |-> q],
                          [source |-> s, pair |-> r]>>
    BY <1>6, SMTT(30) DEF RatingRows
  <1>7. ASSUME NEW x \in RatingRows PROVE x \in Seq(AnyRow) /\ Len(x) <= 3
    <2>1. CASE \E n \in 1..2 : x \in [1..n -> [source : {"s1", "s2"}, pair : Ratings]]
      BY <1>4, <2>1, Zenon
    <2>2. CASE \E p, q, r \in {<<0, 0>>, <<4, 4>>, <<4, 3>>, <<4, 0>>},
                  s \in {"s1", "s2", "s3"} :
                 x = <<[source |-> "s1", pair |-> p], [source |-> "s2", pair |-> q],
                       [source |-> s, pair |-> r]>>
      <3>1. PICK p, q, r \in {<<0, 0>>, <<4, 4>>, <<4, 3>>, <<4, 0>>},
                 s \in {"s1", "s2", "s3"} :
              x = <<[source |-> "s1", pair |-> p], [source |-> "s2", pair |-> q],
                    [source |-> s, pair |-> r]>>
        BY <2>2, Zenon
      <3>. DEFINE y == <<[source |-> "s1", pair |-> p], [source |-> "s2", pair |-> q],
                         [source |-> s, pair |-> r]>>
      <3>2. y \in Seq(AnyRow) /\ Len(y) <= 3
        BY <1>5
      <3>3. x = y
        BY <3>1
      <3>. HIDE DEF y
      <3>. QED  BY <3>2, <3>3
    <2>. QED  BY <1>6, <2>1, <2>2, Zenon
  <1>. QED  BY <1>1, <1>7, Zenon

LEMMA SamplesAreOutcomes ==
  \A x \in OutcomeRows :
    x \in Algorithms!OutcomeRows(SourceNames, {"a", "b"}) /\ Len(x) <= 2
  <1>. DEFINE Sampled == [source : {"s1", "s2", "s3"}, stratum : {"a", "b"},
                          applicable : BOOLEAN, success : BOOLEAN]
              AnyRow == [source : SourceNames, stratum : {"a", "b"},
                      applicable : BOOLEAN, success : BOOLEAN]
  <1>1. ASSUME NEW n \in 0..2, NEW x \in [1..n -> Sampled]
        PROVE  x \in Seq(AnyRow) /\ Len(x) <= 2
    <2>1. \A r \in Sampled : r \in AnyRow
      BY Zenon DEF SourceNames
    <2>. HIDE DEF AnyRow, Sampled
    <2>2. x \in [1..n -> AnyRow] /\ n \in Nat
      BY <2>1
    <2>. QED  BY <2>2, RowsUpTo
  <1>2. \A x \in OutcomeRows : \E n \in 0..2 : x \in [1..n -> Sampled]
    BY DEF OutcomeRows
  <1>. QED  BY <1>1, <1>2, Zenon DEF Algorithms!OutcomeRows

LEMMA SamplesAreTrials ==
  \A x \in TrialRows : x \in Algorithms!TrialRows(SourceNames) /\ Len(x) <= 4
  <1>. DEFINE AnyRow == [source : SourceNames, event : BOOLEAN]
  <1>1. ASSUME NEW n \in 1..3, NEW x \in [1..n -> AnyRow]
        PROVE  x \in Seq(AnyRow) /\ Len(x) <= 4
    <2>. HIDE DEF AnyRow
    <2>1. n \in Nat /\ n <= 4
      OBVIOUS
    <2>2. x \in Seq(AnyRow) /\ Len(x) = n
      BY <2>1, RowsUpTo, Zenon
    <2>. QED  BY <2>1, <2>2
  <1>2. ASSUME NEW x \in [1..4 -> [source : SourceNames, event : {FALSE}]]
        PROVE  x \in Seq(AnyRow) /\ Len(x) <= 4
    <2>1. \A r \in [source : SourceNames, event : {FALSE}] : r \in AnyRow
      BY Zenon
    <2>. HIDE DEF AnyRow
    <2>2. x \in [1..4 -> AnyRow]
      BY <2>1
    <2>3. 4 \in Nat
      OBVIOUS
    <2>4. x \in Seq(AnyRow) /\ Len(x) = 4
      BY <2>2, <2>3, RowsUpTo, ZenonT(60)
    <2>. QED  BY <2>4
  <1>3. \A x \in TrialRows : \/ \E n \in 1..3 : x \in [1..n -> AnyRow]
                             \/ x \in [1..4 -> [source : SourceNames, event : {FALSE}]]
    BY DEF TrialRows, SourceNames
  <1>. QED  BY <1>1, <1>2, <1>3, Zenon DEF Algorithms!TrialRows

LEMMA SamplesAreAggregates ==
  \A x \in Aggregates : x.agreement \in Seq(GateNames) /\ x.cfa \in Seq(GateNames)
  <1>1. \A type : \A a, b \in type : <<a>> \in Seq(type) /\ <<a, b>> \in Seq(type)
    BY SMTT(60)
  <1>2. \A x \in Aggregates :
          /\ x.agreement \in {<<"AGREEMENT_PASS">>,
                              <<"AGREEMENT_PASS", "AGREEMENT_INSUFFICIENT_UNITS">>}
          /\ x.cfa \in {<<"CFA_PASS">>, <<"CFA_EVENT_OBSERVED">>}
    BY SMTT(60) DEF Aggregates
  <1>. QED  BY <1>1, <1>2 DEF GateNames

LEMMA RowsBehave == WorkflowSpec => []SampleHasRows
  <1>1. WorkflowInit => SampleHasRows
    <2>1. WorkflowInit => sample = NoSample
      BY Zenon DEF WorkflowInit
    <2>2. sample = NoSample => SampleHasRows
      BY SMTT(60) DEF SampleHasRows, Is, NoSample
    <2>. QED  BY <2>1, <2>2
  <1>2. ASSUME SampleHasRows, [WorkflowNext]_workflowVars
        PROVE  SampleHasRows'
    <2>1. CASE UNCHANGED sample
      BY <1>2, <2>1 DEF SampleHasRows, Is
    <2>2. CASE Draw
      <3>. DEFINE tails == {x \in (0..6) \X (1..6) : x[1] <= x[2]}
      <3>1. CASE Drawn("ratings", RatingRows)
        BY <3>1, SamplesAreRatings DEF Drawn, SampleHasRows, Is
      <3>2. CASE Drawn("outcomes", OutcomeRows)
        BY <3>2, SamplesAreOutcomes DEF Drawn, SampleHasRows, Is
      <3>3. CASE Drawn("trials", TrialRows)
        BY <3>3, SamplesAreTrials DEF Drawn, SampleHasRows, Is
      <3>4. CASE Drawn("tail", tails)
        <4>1. \A x \in tails : x[2] \in Nat /\ x[1] \in 0..x[2]
          OBVIOUS
        <4>. HIDE DEF tails
        <4>. QED  BY <3>4, <4>1 DEF Drawn, SampleHasRows, Is
      <3>5. CASE Drawn("aggregate", Aggregates)
        BY <3>5, SamplesAreAggregates DEF Drawn, SampleHasRows, Is
      <3>6. CASE /\ ~Drawn("ratings", RatingRows) /\ ~Drawn("outcomes", OutcomeRows)
                 /\ ~Drawn("trials", TrialRows) /\ ~Drawn("tail", tails)
                 /\ ~Drawn("aggregate", Aggregates)
        <4>. HIDE DEF tails
        <4>1. sample'.kind \notin {"ratings", "outcomes", "trials", "tail", "aggregate"}
          BY <2>2, <3>6 DEF Draw, Drawn, tails
        <4>. QED  BY <4>1 DEF SampleHasRows, Is
      <3>. QED  BY <3>1, <3>2, <3>3, <3>4, <3>5, <3>6
    <2>. QED  BY <1>2, <2>1, <2>2 DEF WorkflowNext, workflowVars
  <1>. QED  BY <1>1, <1>2, PTL DEF WorkflowSpec, workflowVars

\* In the workflow the contract and the analysis engine find the same results in the
\* same rows, the validator accepts them, and nothing passes a gate that should not
\* (m1b_contract.py, analysis_engine.py, contract_validator.py). The theorems
\* AgreementIsUnique, StratumPassIsEarned, CfaGateIsExact, ConfidenceIsTail and
\* AggregatePassIsExact say it of any rows and counts.
THEOREM WorkflowAgreementIsSound == WorkflowSpec => []AgreementIsSound
  <1>1. ASSUME SampleHasRows PROVE AgreementIsSound
    <2>1. ASSUME Is("ratings") PROVE A!AgreementIsOne(sample.x)
      <3>1. sample.x \in Algorithms!RatingRows(SourceNames) /\ Len(sample.x) <= 3
        BY <1>1, <2>1 DEF SampleHasRows
      <3>2. Algorithms!UnitsDivide(sample.x)
        <4>1. 12 = 6 * 2 /\ 2 \in Nat
          OBVIOUS
        <4>. QED  BY <3>1, <4>1, Algorithms!FewRatings
      <3>3. Algorithms!AgreementIsOne(sample.x)
        BY <3>1, <3>2, SampledPolicy, Algorithms!AgreementIsUnique, Zenon
      <3>. QED  BY <3>3, SameAgreement, Zenon
    <2>2. ASSUME Is("outcomes"), NEW d1 \in BOOLEAN
          PROVE  A!StratumIsSound(d1, sample.x, "a")
      <3>1. sample.x \in Algorithms!OutcomeRows(SourceNames, {"a", "b"}) /\ Len(sample.x) <= 2
        BY <1>1, <2>2 DEF SampleHasRows
      <3>2. Algorithms!Cardinality(Algorithms!Units(sample.x, "a")) <= 9
        <4>1. Algorithms!Cardinality(Algorithms!Units(sample.x, "a")) \in 0..Len(sample.x)
          BY <3>1, Algorithms!FewSources, Zenon DEF Algorithms!OutcomeRows
        <4>2. Len(sample.x) \in Nat
          BY <3>1 DEF Algorithms!OutcomeRows
        <4>. QED  BY <3>1, <4>1, <4>2
      <3>3. Algorithms!StratumIsSound(d1, sample.x, "a")
        BY <3>1, <3>2, SampledPolicy, Algorithms!StratumPassIsEarned, ZenonT(60)
      <3>. QED  BY <3>3, SameStratum, Zenon
    <2>3. ASSUME Is("trials") PROVE A!CfaIsSound(sample.x)
      <3>1. sample.x \in Algorithms!TrialRows(SourceNames) /\ Len(sample.x) <= 4
        BY <1>1, <2>3 DEF SampleHasRows
      <3>2. Algorithms!Cardinality(Algorithms!SourcesIn(sample.x)) <= 9 /\ 9 \in Nat
        <4>1. Algorithms!Cardinality(Algorithms!SourcesIn(sample.x)) \in 0..Len(sample.x)
          BY <3>1, Algorithms!FewSources, Zenon DEF Algorithms!TrialRows
        <4>2. Len(sample.x) \in Nat
          BY <3>1 DEF Algorithms!TrialRows
        <4>. QED  BY <3>1, <4>1, <4>2
      <3>3. Algorithms!CfaIsSound(sample.x)
        BY <3>1, <3>2, SampledPolicy, Algorithms!CfaGateIsExact, Zenon
      <3>. QED  BY <3>3, SameCfa, Zenon
    <2>4. ASSUME Is("tail"), NEW rate \in {[num |-> 3, den |-> 5], [num |-> 1, den |-> 2]}
          PROVE  A!ConfidenceIsExact(sample.x[1], sample.x[2], rate)
      <3>1. sample.x[2] \in Nat /\ sample.x[1] \in 0..sample.x[2]
        BY <1>1, <2>4 DEF SampleHasRows
      <3>2. Algorithms!ConfidenceIsExact(sample.x[1], sample.x[2], rate)
        BY <3>1, SampledPolicy, Algorithms!ConfidenceIsTail, ZenonT(60)
      <3>. QED  BY <3>2, SameConfidence, Zenon
    <2>5. ASSUME Is("aggregate") PROVE A!AggregateIsSound(sample.x)
      <3>1. /\ sample.x.agreement \in Seq(GateNames) /\ sample.x.cfa \in Seq(GateNames)
            /\ 9 \in Nat
        BY <1>1, <2>5 DEF SampleHasRows
      <3>2. Algorithms!AggregateIsSound(sample.x)
        BY <3>1, Algorithms!AggregatePassIsExact, Zenon
      <3>. QED  BY <3>2, SameAggregate, Zenon
    <2>. QED  BY <2>1, <2>2, <2>3, <2>4, <2>5, Zenon DEF AgreementIsSound
  <1>. QED  BY <1>1, RowsBehave, PTL
================================================================================
