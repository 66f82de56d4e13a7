--------------------------- MODULE TreeSnapshotProofs ---------------------------
(***************************************************************************)
(* Why what a reader accepts was on disk at one moment, for any number of  *)
(* steps of other programs between its own. The moment is the end of the   *)
(* first pass.                                                             *)
(*                                                                         *)
(* The idea is that a stamp is never given twice. What was seen together   *)
(* with an identity is still true as long as that identity is the one on   *)
(* disk (Fresh); it is therefore true at the moment of every identity that *)
(* the second pass finds again (Found). An inode that lost its name never  *)
(* gets it back, which is why a name that leads to the same inode in both  *)
(* passes did so in between. Identities without a ctime do this only until *)
(* a program sets an mtime back (Trusted).                                 *)
(***************************************************************************)
EXTENDS TreeSnapshot, TLAPS

\* What a pass looks at.
Keys(kind) == {kind.pass[i] : i \in DOMAIN kind.pass}

\* A directory whose identity is taken is listed after that.
KindOK(kind) ==
  /\ kind.pass \in Seq(Keys(kind)) /\ kind.ctime \in BOOLEAN
  /\ \A i \in DOMAIN kind.pass :
       \/ \E d \in Dirs : kind.pass[i] \in {Id(d), List(d)}
       \/ \E f \in Files : kind.pass[i] \in {Stat(f), Read(f)}
  /\ \A d \in Dirs : Id(d) \in Keys(kind) =>
       /\ List(d) \in Keys(kind)
       /\ \A i \in DOMAIN kind.pass : kind.pass[i] = List(d) =>
            \E j \in DOMAIN kind.pass : j < i /\ kind.pass[j] = Id(d)

----------------------------------------------------------------------------
Inode == [halves : [1..2 -> 0..1], mtime : Nat, ctime : Nat]

\* The tree: stamps are from the past, and equal while none was set back.
TreeOK ==
  /\ time \in Nat \ {0}
  /\ inodes \in Seq(Inode)
  /\ \A i \in DOMAIN inodes : inodes[i].mtime \in 1..time /\ inodes[i].ctime \in 1..time
  /\ ~restored => \A i \in DOMAIN inodes : inodes[i].mtime = inodes[i].ctime
  /\ entry \in [Files -> 0..Len(inodes)]
  /\ dirs \in [Dirs -> 1..time]
  /\ restored \in BOOLEAN

Fields == {"kind", "pc", "fd", "seen", "first", "moment"}

\* The reader: what it has seen it has passed, and the looks it has passed it has
\* seen. An open file was listed.
ReaderOK ==
  /\ DOMAIN reader = Fields /\ reader = [x \in Fields |-> reader[x]]
  /\ KindOK(reader.kind)
  /\ reader.pc \in 1..(Len(reader.kind.pass) + 2)
  /\ \A k \in DOMAIN reader.seen :
       \E i \in DOMAIN reader.kind.pass : i < reader.pc /\ reader.kind.pass[i] = k
  /\ \A i \in DOMAIN reader.kind.pass :
       (i < reader.pc /\ reader.kind.pass[i][1] \in {"id", "list"}) =>
         reader.kind.pass[i] \in DOMAIN reader.seen
  /\ reader.fd # NotOpen => InPass /\ \E f \in Files : Next1 = Read(f) /\ Listed(f)

Trusted == reader.kind.ctime \/ ~restored

\* The inode of an identity is still as it was.
Now(id) == id.inode \in DOMAIN inodes /\ Identity(reader.kind, id.inode) = id
Past(id) == id.inode \in DOMAIN inodes /\ id.mtime \in 0..time /\ id.ctime \in 0..time

\* What a reader saw of the file at an identity is true as long as that is there.
FileFresh(seen) ==
  \A f \in Files : Read(f) \in DOMAIN seen =>
    LET s == seen[Read(f)]
    IN /\ Past(s.id)
       /\ Trusted /\ Now(s.id) => inodes[s.id.inode].halves = s.halves

DirFresh(seen) ==
  \A d \in Dirs : Id(d) \in DOMAIN seen =>
    /\ seen[Id(d)] \in 1..time
    /\ List(d) \in DOMAIN seen /\ dirs[d] = seen[Id(d)] => There(d) = seen[List(d)]

OpenFresh ==
  reader.fd # NotOpen =>
    LET fd == reader.fd
    IN /\ fd.id.inode = fd.inode /\ Past(fd.id)
       /\ Trusted /\ Now(fd.id) => inodes[fd.inode].halves[1] = fd.half

\* At the moment the first pass ended, this was so.
FileWas(f) == f \in DOMAIN reader.moment /\ reader.moment[f] = reader.first[Read(f)].halves
DirWas(d) == {f \in DOMAIN reader.moment : DirOf[f] = d} = reader.first[List(d)]

Fresh ==
  /\ FileFresh(reader.seen) /\ FileFresh(reader.first)
  /\ DirFresh(reader.seen) /\ OpenFresh

\* What was seen in the first pass and is still there was there at its end.
Kept ==
  /\ \A f \in Files : Read(f) \in DOMAIN reader.first =>
       LET id == reader.first[Read(f)].id
       IN Trusted /\ Now(id) /\ entry[f] = id.inode => FileWas(f)
  /\ \A d \in Dirs : Id(d) \in DOMAIN reader.first =>
       /\ reader.first[Id(d)] \in 1..time
       /\ dirs[d] = reader.first[Id(d)] => DirWas(d)

\* What the second pass has found again was there at the end of the first.
Found ==
  /\ \A f \in Files : Read(f) \in DOMAIN reader.first =>
       /\ reader.fd # NotOpen /\ Next1 = Read(f) =>
            (Trusted /\ reader.fd.id = reader.first[Read(f)].id => FileWas(f))
       /\ Read(f) \in DOMAIN reader.seen =>
            (Trusted /\ reader.seen[Read(f)].id = reader.first[Read(f)].id => FileWas(f))
  /\ \A d \in Dirs : Id(d) \in DOMAIN reader.first /\ Id(d) \in DOMAIN reader.seen =>
       (reader.first[Id(d)] = reader.seen[Id(d)] => DirWas(d))

Settled == Accepted => reader.first = reader.seen

IInv == TreeOK /\ ReaderOK /\ Fresh /\ Kept /\ Found /\ Settled

----------------------------------------------------------------------------
(* The readers.                                                            *)

LEMMA KeyFacts ==
  /\ \A d \in Dirs : Id(d)[1] = "id" /\ Id(d)[2] = d /\ List(d)[1] = "list" /\ List(d)[2] = d
  /\ \A f \in Files : Stat(f)[1] = "stat" /\ Stat(f)[2] = f /\ Read(f)[1] = "read" /\ Read(f)[2] = f
  /\ \A d, e \in Dirs : Id(d) # List(e) /\ (Id(d) = Id(e) => d = e) /\ (List(d) = List(e) => d = e)
  /\ \A d \in Dirs, f \in Files : /\ Id(d) # Stat(f) /\ Id(d) # Read(f)
                                  /\ List(d) # Stat(f) /\ List(d) # Read(f)
  /\ \A f, g \in Files : Stat(f) # Read(g) /\ (Read(f) = Read(g) => f = g)
  BY DEF Id, List, Stat, Read, Dirs, Files

LEMMA PassOK ==
  ASSUME NEW k, NEW n \in Nat, k.ctime \in BOOLEAN, DOMAIN k.pass = 1..n,
         k.pass \in Seq({List("top"), List("sub"), Id("top"), Id("sub"),
                         Stat("a"), Stat("b"), Read("a"), Read("b")}),
         NEW ids \in SUBSET Dirs, NEW at \in [Dirs -> 1..n], NEW in \in [Dirs -> 1..n],
         \A d \in Dirs : \A i \in 1..n : k.pass[i] = Id(d) => d \in ids,
         \A d \in ids : /\ k.pass[at[d]] = Id(d) /\ k.pass[in[d]] = List(d)
                        /\ \A j \in 1..n : k.pass[j] = List(d) => at[d] < j
  PROVE  KindOK(k)
  <1>1. k.pass \in Seq(Keys(k))
    BY SMTT(60) DEF Keys
  <1>2. \A i \in DOMAIN k.pass :
       \/ \E d \in Dirs : k.pass[i] \in {Id(d), List(d)}
       \/ \E f \in Files : k.pass[i] \in {Stat(f), Read(f)}
    BY DEF Dirs, Files
  <1>3. ASSUME NEW d \in Dirs, Id(d) \in Keys(k)
        PROVE  /\ List(d) \in Keys(k)
               /\ \A i \in DOMAIN k.pass : k.pass[i] = List(d) =>
                    \E j \in DOMAIN k.pass : j < i /\ k.pass[j] = Id(d)
    <2>1. d \in ids
      BY <1>3 DEF Keys
    <2>2. at[d] \in 1..n /\ in[d] \in 1..n
      OBVIOUS
    <2>. QED  BY <2>1, <2>2 DEF Keys
  <1>4. \A d \in Dirs : Id(d) \in Keys(k) =>
          /\ List(d) \in Keys(k)
          /\ \A i \in DOMAIN k.pass : k.pass[i] = List(d) =>
               \E j \in DOMAIN k.pass : j < i /\ k.pass[j] = Id(d)
    BY <1>3
  <1>. QED  BY <1>1, <1>2, <1>4, Zenon DEF KindOK

LEMMA KindsOK == \A k \in Readers : KindOK(k)
  <1>. DEFINE Key == {List("top"), List("sub"), Id("top"), Id("sub"),
                      Stat("a"), Stat("b"), Read("a"), Read("b")}
              Places(t, s) == [d \in Dirs |-> IF d = "top" THEN t ELSE s]
  <1>1. KindOK(EngineReader)
    <2>1. /\ EngineReader.pass =
               <<List("top"), Read("a"), List("sub"), Read("b")>>
          /\ EngineReader.ctime = FALSE
      BY DEF EngineReader
    <2>2. DOMAIN EngineReader.pass = 1..4 /\ EngineReader.pass \in Seq(Key)
      BY <2>1
    <2>3. \A d \in Dirs : \A i \in 1..4 : EngineReader.pass[i] = Id(d) => d \in {}
      BY <2>1, KeyFacts DEF Dirs, Files
    <2>6. Places(1, 1) \in [Dirs -> 1..4] /\ Places(1, 1) \in [Dirs -> 1..4]
      OBVIOUS
    <2>7. \A d \in {} :
            /\ EngineReader.pass[Places(1, 1)[d]] = Id(d) /\ EngineReader.pass[Places(1, 1)[d]] = List(d)
            /\ \A j \in 1..4 : EngineReader.pass[j] = List(d) => Places(1, 1)[d] < j
      OBVIOUS
    <2>8. {} \in SUBSET Dirs /\ 4 \in Nat /\ EngineReader.ctime \in BOOLEAN
      BY <2>1 DEF Dirs
    <2>. HIDE DEF Places
    <2>. QED  BY <2>2, <2>3, <2>6, <2>7, <2>8, PassOK
  <1>2. KindOK(ReviewReader)
    <2>1. /\ ReviewReader.pass =
               <<List("top"), Read("a"), List("sub"), Read("b"), List("top"), List("sub")>>
          /\ ReviewReader.ctime = FALSE
      BY DEF ReviewReader
    <2>2. DOMAIN ReviewReader.pass = 1..6 /\ ReviewReader.pass \in Seq(Key)
      BY <2>1
    <2>3. \A d \in Dirs : \A i \in 1..6 : ReviewReader.pass[i] = Id(d) => d \in {}
      BY <2>1, KeyFacts DEF Dirs, Files
    <2>6. Places(1, 1) \in [Dirs -> 1..6] /\ Places(1, 1) \in [Dirs -> 1..6]
      OBVIOUS
    <2>7. \A d \in {} :
            /\ ReviewReader.pass[Places(1, 1)[d]] = Id(d) /\ ReviewReader.pass[Places(1, 1)[d]] = List(d)
            /\ \A j \in 1..6 : ReviewReader.pass[j] = List(d) => Places(1, 1)[d] < j
      OBVIOUS
    <2>8. {} \in SUBSET Dirs /\ 6 \in Nat /\ ReviewReader.ctime \in BOOLEAN
      BY <2>1 DEF Dirs
    <2>. HIDE DEF Places
    <2>. QED  BY <2>2, <2>3, <2>6, <2>7, <2>8, PassOK
  <1>3. KindOK(PackageReader)
    <2>1. /\ PackageReader.pass =
               <<List("top"), Id("sub"), Read("a"), List("sub"), Read("b")>>
          /\ PackageReader.ctime = TRUE
      BY DEF PackageReader
    <2>2. DOMAIN PackageReader.pass = 1..5 /\ PackageReader.pass \in Seq(Key)
      BY <2>1
    <2>3. \A d \in Dirs : \A i \in 1..5 : PackageReader.pass[i] = Id(d) => d \in {"sub"}
      BY <2>1, KeyFacts DEF Dirs, Files
    <2>4. /\ \A j \in 1..5 : PackageReader.pass[j] = List("sub") => 2 < j
      BY <2>1, KeyFacts DEF Dirs, Files
    <2>5. /\ PackageReader.pass[2] = Id("sub") /\ PackageReader.pass[4] = List("sub")
      BY <2>1
    <2>6. Places(1, 2) \in [Dirs -> 1..5] /\ Places(1, 4) \in [Dirs -> 1..5]
      OBVIOUS
    <2>7. \A d \in {"sub"} :
            /\ PackageReader.pass[Places(1, 2)[d]] = Id(d) /\ PackageReader.pass[Places(1, 4)[d]] = List(d)
            /\ \A j \in 1..5 : PackageReader.pass[j] = List(d) => Places(1, 2)[d] < j
      BY <2>4, <2>5 DEF Dirs
    <2>8. {"sub"} \in SUBSET Dirs /\ 5 \in Nat /\ PackageReader.ctime \in BOOLEAN
      BY <2>1 DEF Dirs
    <2>. HIDE DEF Places
    <2>. QED  BY <2>2, <2>3, <2>6, <2>7, <2>8, PassOK
  <1>4. KindOK(GenerationReader)
    <2>1. /\ GenerationReader.pass =
               <<Id("top"), List("top"), Id("sub"), Stat("a"), List("sub"), Stat("b"), Read("a"), Read("b"),
                 Id("top"), List("top"), Id("sub"), Stat("a"), List("sub"), Stat("b")>>
          /\ GenerationReader.ctime = TRUE
      BY DEF GenerationReader
    <2>2. DOMAIN GenerationReader.pass = 1..14 /\ GenerationReader.pass \in Seq(Key)
      BY <2>1
    <2>3. \A d \in Dirs : \A i \in 1..14 : GenerationReader.pass[i] = Id(d) => d \in {"top", "sub"}
      BY <2>1, KeyFacts DEF Dirs, Files
    <2>4. /\ \A j \in 1..14 : GenerationReader.pass[j] = List("top") => 1 < j
          /\ \A j \in 1..14 : GenerationReader.pass[j] = List("sub") => 3 < j
      BY <2>1, KeyFacts DEF Dirs, Files
    <2>5. /\ GenerationReader.pass[1] = Id("top") /\ GenerationReader.pass[2] = List("top")
          /\ GenerationReader.pass[3] = Id("sub") /\ GenerationReader.pass[5] = List("sub")
      BY <2>1
    <2>6. Places(1, 3) \in [Dirs -> 1..14] /\ Places(2, 5) \in [Dirs -> 1..14]
      OBVIOUS
    <2>7. \A d \in {"top", "sub"} :
            /\ GenerationReader.pass[Places(1, 3)[d]] = Id(d) /\ GenerationReader.pass[Places(2, 5)[d]] = List(d)
            /\ \A j \in 1..14 : GenerationReader.pass[j] = List(d) => Places(1, 3)[d] < j
      BY <2>4, <2>5 DEF Dirs
    <2>8. {"top", "sub"} \in SUBSET Dirs /\ 14 \in Nat /\ GenerationReader.ctime \in BOOLEAN
      BY <2>1 DEF Dirs
    <2>. HIDE DEF Places
    <2>. QED  BY <2>2, <2>3, <2>6, <2>7, <2>8, PassOK
  <1>5. KindOK(RetrievalReader)
    <2>1. /\ RetrievalReader.pass =
               <<Id("top"), List("top"), Read("a"), Id("sub"), List("sub"), Read("b")>>
          /\ RetrievalReader.ctime = TRUE
      BY DEF RetrievalReader
    <2>2. DOMAIN RetrievalReader.pass = 1..6 /\ RetrievalReader.pass \in Seq(Key)
      BY <2>1
    <2>3. \A d \in Dirs : \A i \in 1..6 : RetrievalReader.pass[i] = Id(d) => d \in {"top", "sub"}
      BY <2>1, KeyFacts DEF Dirs, Files
    <2>4. /\ \A j \in 1..6 : RetrievalReader.pass[j] = List("top") => 1 < j
          /\ \A j \in 1..6 : RetrievalReader.pass[j] = List("sub") => 4 < j
      BY <2>1, KeyFacts DEF Dirs, Files
    <2>5. /\ RetrievalReader.pass[1] = Id("top") /\ RetrievalReader.pass[2] = List("top")
          /\ RetrievalReader.pass[4] = Id("sub") /\ RetrievalReader.pass[5] = List("sub")
      BY <2>1
    <2>6. Places(1, 4) \in [Dirs -> 1..6] /\ Places(2, 5) \in [Dirs -> 1..6]
      OBVIOUS
    <2>7. \A d \in {"top", "sub"} :
            /\ RetrievalReader.pass[Places(1, 4)[d]] = Id(d) /\ RetrievalReader.pass[Places(2, 5)[d]] = List(d)
            /\ \A j \in 1..6 : RetrievalReader.pass[j] = List(d) => Places(1, 4)[d] < j
      BY <2>4, <2>5 DEF Dirs
    <2>8. {"top", "sub"} \in SUBSET Dirs /\ 6 \in Nat /\ RetrievalReader.ctime \in BOOLEAN
      BY <2>1 DEF Dirs
    <2>. HIDE DEF Places
    <2>. QED  BY <2>2, <2>3, <2>6, <2>7, <2>8, PassOK
  <1>. QED  BY <1>1, <1>2, <1>3, <1>4, <1>5 DEF Readers, TreeReader

----------------------------------------------------------------------------
(* Another program.                                                        *)

LEMMA SetBackInode ==
  ASSUME NEW r \in Inode, NEW t \in Nat
  PROVE  /\ [r EXCEPT !.mtime = 1, !.ctime = t] \in Inode
         /\ [r EXCEPT !.mtime = 1, !.ctime = t].mtime = 1
         /\ [r EXCEPT !.mtime = 1, !.ctime = t].ctime = t
  BY DEF Inode

LEMMA EditFacts ==
  ASSUME TreeOK, Edit
  PROVE  /\ TreeOK' /\ reader' = reader /\ time' = time + 1 /\ (restored => restored')
         /\ \A i \in DOMAIN inodes : /\ i \in DOMAIN inodes'
              /\ \/ inodes'[i] = inodes[i]
                 \/ inodes'[i].ctime = time + 1 /\ (inodes'[i].mtime = time + 1 \/ restored')
         /\ \A f \in Files : entry'[f] = entry[f] \/ entry'[f] \notin DOMAIN inodes
         /\ \A d \in Dirs : (dirs'[d] = dirs[d] /\ There(d)' = There(d)) \/ dirs'[d] = time + 1
  <1>1. reader' = reader /\ time' = time + 1
    BY DEF Edit
  <1>2. CASE WriteHalf
    <2>1. PICK f \in Files, h \in 1..2 :
            /\ entry[f] # 0
            /\ LET halves == inodes[entry[f]].halves
               IN inodes' = [inodes EXCEPT ![entry[f]] = Stamped([halves EXCEPT ![h] = 1 - @])]
            /\ UNCHANGED <<entry, dirs, restored>>
      BY <1>2 DEF WriteHalf
    <2>. DEFINE e == entry[f]
                new == Stamped([inodes[e].halves EXCEPT ![h] = 1 - @])
    <2>2. e \in DOMAIN inodes
      BY <2>1 DEF TreeOK
    <2>3. new \in Inode /\ new.mtime = time + 1 /\ new.ctime = time + 1
      <3>3. inodes[e] \in Inode
        BY <2>2 DEF TreeOK
      <3>1. inodes[e].halves \in [1..2 -> 0..1]
        BY <3>3 DEF Inode
      <3>2. [inodes[e].halves EXCEPT ![h] = 1 - @] \in [1..2 -> 0..1]
        BY <3>1
      <3>. QED  BY <3>2 DEF TreeOK, Inode, Stamped
    <2>. HIDE DEF new
    <2>4. inodes' = [inodes EXCEPT ![e] = new]
      BY <2>1 DEF new
    <2>5. \A d \in Dirs : There(d)' = There(d)
      BY <2>1 DEF There
    <2>6. /\ inodes' \in Seq(Inode) /\ Len(inodes') = Len(inodes) /\ DOMAIN inodes' = DOMAIN inodes
          /\ inodes'[e] = new
          /\ \A i \in DOMAIN inodes : i # e => inodes'[i] = inodes[i]
      BY <2>2, <2>3, <2>4 DEF TreeOK
    <2>. HIDE DEF e
    <2>7. TreeOK'
      <3>1. \A i \in DOMAIN inodes' : inodes'[i].mtime \in 1..time' /\ inodes'[i].ctime \in 1..time'
        BY SMTT(60), <1>1, <2>2, <2>3, <2>6 DEF TreeOK
      <3>2. ~restored' => \A i \in DOMAIN inodes' : inodes'[i].mtime = inodes'[i].ctime
        BY <2>1, <2>2, <2>3, <2>6 DEF TreeOK
      <3>3. entry' = entry /\ dirs' = dirs /\ restored' = restored /\ time' \in Nat \ {0}
        BY <1>1, <2>1 DEF TreeOK
      <3>4. dirs' \in [Dirs -> 1..time'] /\ entry' \in [Files -> 0..Len(inodes')] /\ restored' \in BOOLEAN
        BY <1>1, <3>3, <2>6 DEF TreeOK
      <3>. QED  BY <2>6, <3>1, <3>2, <3>3, <3>4 DEF TreeOK
    <2>8. \A i \in DOMAIN inodes : /\ i \in DOMAIN inodes'
              /\ \/ inodes'[i] = inodes[i]
                 \/ inodes'[i].ctime = time + 1 /\ inodes'[i].mtime = time + 1
      BY <2>3, <2>6
    <2>9. \A f1 \in Files : entry'[f1] = entry[f1]
      BY <2>1
    <2>10. \A d \in Dirs : dirs'[d] = dirs[d]
      BY <2>1
    <2>11. restored' = restored
      BY <2>1
    <2>. HIDE DEF new
    <2>. QED  BY <1>1, <2>5, <2>7, <2>8, <2>9, <2>10, <2>11
  <1>3. CASE Replace
    <2>1. PICK f \in Files :
            /\ entry' = [entry EXCEPT ![f] = Len(inodes) + 1]
            /\ inodes' = Append(inodes, Stamped(<<1, 1>>))
            /\ dirs' = [dirs EXCEPT ![DirOf[f]] = time + 1]
            /\ UNCHANGED restored
      BY <1>3 DEF Replace
    <2>. DEFINE new == Stamped(<<1, 1>>)
    <2>2. new \in Inode /\ new.mtime = time + 1 /\ new.ctime = time + 1
      BY DEF Stamped, Inode, TreeOK
    <2>. HIDE DEF new
    <2>3. inodes' = Append(inodes, new)
      BY <2>1 DEF new
    <2>4. DirOf[f] \in Dirs
      BY DEF DirOf, Dirs, Files
    <2>5. /\ inodes' \in Seq(Inode) /\ Len(inodes') = Len(inodes) + 1
          /\ \A i \in DOMAIN inodes : i \in DOMAIN inodes' /\ inodes'[i] = inodes[i]
          /\ inodes'[Len(inodes) + 1] = new
          /\ \A i \in DOMAIN inodes' : i \in DOMAIN inodes \/ i = Len(inodes) + 1
      BY <2>2, <2>3 DEF TreeOK
    <2>6. \A d \in Dirs : d # DirOf[f] => There(d)' = There(d)
      BY <2>1 DEF There, TreeOK
    <2>7. TreeOK'
      BY SMTT(60), <1>1, <2>1, <2>2, <2>4, <2>5 DEF TreeOK
    <2>8. Len(inodes) + 1 \notin DOMAIN inodes
      BY DEF TreeOK
    <2>. QED  BY <1>1, <2>1, <2>4, <2>5, <2>6, <2>7, <2>8 DEF TreeOK
  <1>4. CASE Remove
    <2>1. PICK f \in Files :
            /\ entry' = [entry EXCEPT ![f] = 0]
            /\ dirs' = [dirs EXCEPT ![DirOf[f]] = time + 1]
            /\ UNCHANGED <<inodes, restored>>
      BY <1>4 DEF Remove
    <2>2. DirOf[f] \in Dirs
      BY DEF DirOf, Dirs, Files
    <2>3. \A d \in Dirs : d # DirOf[f] => There(d)' = There(d)
      BY <2>1 DEF There, TreeOK
    <2>4. 0 \notin DOMAIN inodes
      BY DEF TreeOK
    <2>. QED  BY <1>1, <2>1, <2>2, <2>3, <2>4 DEF TreeOK
  <1>5. CASE SetBack
    <2>1. PICK f \in Files :
            /\ entry[f] # 0
            /\ inodes' = [inodes EXCEPT ![entry[f]].mtime = 1, ![entry[f]].ctime = time + 1]
            /\ restored' = TRUE
            /\ UNCHANGED <<entry, dirs>>
      BY <1>5 DEF SetBack
    <2>. DEFINE e == entry[f]
    <2>2. e \in DOMAIN inodes
      BY <2>1 DEF TreeOK
    <2>3. inodes[e] \in Inode
      BY <2>2 DEF TreeOK
    <2>. DEFINE new == [inodes[e] EXCEPT !.mtime = 1, !.ctime = time + 1]
    <2>6. new \in Inode /\ new.mtime = 1 /\ new.ctime = time + 1
      <3>1. time + 1 \in Nat
        BY DEF TreeOK
      <3>. QED  BY <2>3, <3>1, SetBackInode
    <2>7. inodes' = [inodes EXCEPT ![e] = new]
      BY <2>1, <2>2, <2>3 DEF TreeOK, Inode
    <2>. HIDE DEF new, e
    <2>4. /\ inodes' \in Seq(Inode) /\ Len(inodes') = Len(inodes) /\ DOMAIN inodes' = DOMAIN inodes
          /\ inodes'[e].mtime = 1 /\ inodes'[e].ctime = time + 1
          /\ \A i \in DOMAIN inodes : i # e => inodes'[i] = inodes[i]
      BY <2>2, <2>6, <2>7 DEF TreeOK
    <2>5. \A d \in Dirs : There(d)' = There(d)
      BY <2>1 DEF There
    <2>. QED  BY <1>1, <2>1, <2>2, <2>4, <2>5 DEF TreeOK
  <1>. QED  BY <1>2, <1>3, <1>4, <1>5 DEF Edit

\* An identity that is there after a step of another program was there before,
\* with the same content.
LEMMA StillFresh ==
  ASSUME TreeOK, Edit, NEW id, Past(id)
  PROVE  /\ Past(id)'
         /\ Trusted' /\ Now(id)' => Trusted /\ Now(id) /\ inodes'[id.inode] = inodes[id.inode]
  <1>1. Past(id)'
    BY EditFacts DEF Past, TreeOK
  <1>2. ASSUME Trusted', Now(id)'
        PROVE  Trusted /\ Now(id) /\ inodes'[id.inode] = inodes[id.inode]
    <2>1. Trusted
      BY <1>2, EditFacts DEF Trusted
    <2>2. inodes'[id.inode] = inodes[id.inode]
      <3>. SUFFICES ASSUME inodes'[id.inode] # inodes[id.inode] PROVE FALSE
        OBVIOUS
      <3>1. /\ inodes'[id.inode].ctime = time + 1
            /\ inodes'[id.inode].mtime = time + 1 \/ restored'
        BY EditFacts DEF Past
      <3>2. /\ id.mtime = inodes'[id.inode].mtime
            /\ reader.kind.ctime => id.ctime = inodes'[id.inode].ctime
        BY <1>2, EditFacts DEF Now, Identity
      <3>3. reader.kind.ctime \/ ~restored'
        BY <1>2, EditFacts DEF Trusted
      <3>. QED  BY <3>1, <3>2, <3>3 DEF Past, TreeOK
    <2>3. Now(id)
      BY <1>2, <2>2, EditFacts DEF Now, Identity, Past
    <2>. QED  BY <2>1, <2>2, <2>3
  <1>. QED  BY <1>1, <1>2

LEMMA EditKeeps ==
  ASSUME IInv, Edit
  PROVE  IInv'
  <1>. USE DEF IInv
  <1>1. TreeOK' /\ reader' = reader /\ time' = time + 1
    BY EditFacts
  <1>2. ReaderOK'
    BY <1>1 DEF ReaderOK, InPass, Next1, Listed
  <1>3. FileFresh(reader.seen)' /\ FileFresh(reader.first)'
    BY <1>1, StillFresh DEF Fresh, FileFresh
  <1>4. DirFresh(reader.seen)'
    <2>. SUFFICES ASSUME NEW d \in Dirs, Id(d) \in DOMAIN reader.seen
                  PROVE  /\ reader.seen[Id(d)] \in 1..time'
                         /\ List(d) \in DOMAIN reader.seen /\ dirs'[d] = reader.seen[Id(d)]
                              => There(d)' = reader.seen[List(d)]
      BY <1>1 DEF DirFresh
    <2>1. reader.seen[Id(d)] \in 1..time
      BY DEF Fresh, DirFresh
    <2>2. (dirs'[d] = dirs[d] /\ There(d)' = There(d)) \/ dirs'[d] = time + 1
      BY EditFacts
    <2>. QED  BY <1>1, <2>1, <2>2 DEF Fresh, DirFresh, TreeOK
  <1>5. OpenFresh'
    BY <1>1, StillFresh DEF Fresh, OpenFresh
  <1>6. Kept'
    <2>1. ASSUME NEW f \in Files, Read(f) \in DOMAIN reader.first,
                 Trusted', Now(reader.first[Read(f)].id)', entry'[f] = reader.first[Read(f)].id.inode
          PROVE  FileWas(f)'
      <3>1. Past(reader.first[Read(f)].id)
        BY <2>1 DEF Fresh, FileFresh
      <3>2. Now(reader.first[Read(f)].id)'  <=> (/\ reader.first[Read(f)].id.inode \in DOMAIN inodes'
                 /\ Identity(reader.kind, reader.first[Read(f)].id.inode)' = reader.first[Read(f)].id)
        BY <1>1 DEF Now, Identity
      <3>3. Trusted /\ Now(reader.first[Read(f)].id)
        BY <1>1, <2>1, <3>1, StillFresh
      <3>4. entry'[f] = entry[f]
        BY <2>1, <3>1, EditFacts DEF Past
      <3>5. FileWas(f)
        BY <2>1, <3>3, <3>4 DEF Kept
      <3>. QED  BY <1>1, <3>5 DEF FileWas
    <2>2. ASSUME NEW d \in Dirs, Id(d) \in DOMAIN reader.first
          PROVE  /\ reader.first[Id(d)] \in 1..time'
                 /\ dirs'[d] = reader.first[Id(d)] => DirWas(d)'
      <3>1. reader.first[Id(d)] \in 1..time
        BY <2>2 DEF Kept
      <3>2. dirs'[d] = dirs[d] \/ dirs'[d] = time + 1
        BY EditFacts
      <3>3. dirs[d] = reader.first[Id(d)] => DirWas(d)
        BY <2>2 DEF Kept
      <3>. QED  BY <1>1, <3>1, <3>2, <3>3 DEF DirWas, TreeOK
    <2>. QED  BY <1>1, <2>1, <2>2 DEF Kept
  <1>7. Found'
    BY <1>1, EditFacts DEF Found, FileWas, DirWas, Trusted, Next1
  <1>8. Settled'
    BY <1>1 DEF Settled, Accepted
  <1>. QED  BY <1>1, <1>2, <1>3, <1>4, <1>5, <1>6, <1>7, <1>8 DEF Fresh

----------------------------------------------------------------------------
(* The reader.                                                             *)

\* The step of a pass that comes next.
LEMMA NextFacts ==
  ASSUME ReaderOK, InPass
  PROVE  /\ reader.pc \in DOMAIN reader.kind.pass /\ reader.pc \in 1..Len(reader.kind.pass)
         /\ \/ \E d \in Dirs : Next1 \in {Id(d), List(d)} /\ Next1[1] \in {"id", "list"} /\ Next1[2] = d
            \/ \E f \in Files : Next1 = Stat(f) /\ Next1[1] = "stat" /\ Next1[2] = f
            \/ \E f \in Files : Next1 = Read(f) /\ Next1[1] = "read" /\ Next1[2] = f
  <1>1. reader.pc \in DOMAIN reader.kind.pass /\ reader.pc \in 1..Len(reader.kind.pass)
    BY DEF InPass, ReaderOK, KindOK
  <1>2. \/ \E d \in Dirs : Next1 \in {Id(d), List(d)}
        \/ \E f \in Files : Next1 \in {Stat(f), Read(f)}
    BY <1>1 DEF ReaderOK, KindOK, Next1
  <1>. QED  BY <1>1, <1>2, KeyFacts

LEMMA NotOpenFacts ==
  ASSUME ReaderOK
  PROVE  /\ InPass /\ Next1[1] # "read" => reader.fd = NotOpen
         /\ InPass /\ ~Listed(Next1[2]) => reader.fd = NotOpen
         /\ ~InPass => reader.fd = NotOpen
  BY KeyFacts DEF ReaderOK

\* What has changed after a step of a pass, and what has not.
LEMMA NotedFacts ==
  ASSUME ReaderOK, InPass, NEW what, NEW value, what = Next1, Noted(what, value)
  PROVE  /\ reader'.kind = reader.kind /\ reader'.pc = reader.pc + 1 /\ reader'.fd = reader.fd
         /\ reader'.first = reader.first /\ reader'.moment = reader.moment
         /\ reader'.seen = With(reader.seen, what, value)
         /\ reader.fd = NotOpen => ReaderOK'
  <1>1. /\ reader'.kind = reader.kind /\ reader'.pc = reader.pc + 1 /\ reader'.fd = reader.fd
        /\ reader'.first = reader.first /\ reader'.moment = reader.moment
        /\ reader'.seen = With(reader.seen, what, value)
        /\ DOMAIN reader' = Fields /\ reader' = [x \in Fields |-> reader'[x]]
    BY DEF Noted, ReaderOK, Fields
  <1>3. DOMAIN reader'.seen = DOMAIN reader.seen \cup {what}
    BY <1>1 DEF With
  <1>2. ASSUME reader.fd = NotOpen PROVE ReaderOK'
    <2>1. reader'.pc \in 1..(Len(reader'.kind.pass) + 2)
      BY <1>1, NextFacts
    <2>2. \A k \in DOMAIN reader'.seen :
            \E i \in DOMAIN reader'.kind.pass : i < reader'.pc /\ reader'.kind.pass[i] = k
      <3>. SUFFICES ASSUME NEW k \in DOMAIN reader.seen \cup {what}
                    PROVE  \E i \in DOMAIN reader.kind.pass : i < reader.pc + 1 /\ reader.kind.pass[i] = k
        BY <1>1, <1>3
      <3>1. CASE k \in DOMAIN reader.seen
        <4>1. PICK i \in DOMAIN reader.kind.pass : i < reader.pc /\ reader.kind.pass[i] = k
          BY <3>1 DEF ReaderOK
        <4>2. i < reader.pc + 1
          BY <4>1 DEF ReaderOK, KindOK
        <4>. QED  BY <4>1, <4>2
      <3>2. CASE k = what
        BY <3>2, NextFacts DEF Next1
      <3>. QED  BY <3>1, <3>2
    <2>3. \A i \in DOMAIN reader'.kind.pass :
            (i < reader'.pc /\ reader'.kind.pass[i][1] \in {"id", "list"}) =>
              reader'.kind.pass[i] \in DOMAIN reader'.seen
      <3>. SUFFICES ASSUME NEW i \in DOMAIN reader.kind.pass, i < reader.pc + 1,
                           reader.kind.pass[i][1] \in {"id", "list"}
                    PROVE  reader.kind.pass[i] \in DOMAIN reader.seen \cup {what}
        BY <1>1, <1>3
      <3>1. i < reader.pc \/ i = reader.pc
        BY DEF ReaderOK, KindOK
      <3>. QED  BY <3>1 DEF ReaderOK, Next1
    <2>. QED  BY <1>1, <1>2, <2>1, <2>2, <2>3 DEF ReaderOK
  <1>. QED  BY <1>1, <1>2

LEMMA LookKeeps ==
  ASSUME IInv, Look, UNCHANGED <<entry, inodes, dirs, time, edits, restored>>
  PROVE  IInv'
  <1>. USE DEF IInv
  <1>. DEFINE value == IF Next1[1] = "id" THEN dirs[Next1[2]] ELSE There(Next1[2])
  <1>1. InPass /\ Next1[1] \in {"id", "list"} /\ Agrees(Next1, value) /\ Noted(Next1, value)
    BY DEF Look
  <1>2. PICK d \in Dirs : Next1 \in {Id(d), List(d)} /\ Next1[2] = d
    BY <1>1, NextFacts, KeyFacts
  <1>3. reader.fd = NotOpen
    BY <1>1, NotOpenFacts
  <1>4. /\ reader'.kind = reader.kind /\ reader'.pc = reader.pc + 1 /\ reader'.fd = NotOpen
        /\ reader'.first = reader.first /\ reader'.moment = reader.moment
        /\ reader'.seen = With(reader.seen, Next1, value)
        /\ ReaderOK'
    BY <1>1, <1>3, NotedFacts
  <1>5. /\ DOMAIN reader'.seen = DOMAIN reader.seen \cup {Next1}
        /\ reader'.seen[Next1] = value
        /\ \A k \in DOMAIN reader.seen : reader'.seen[k] = reader.seen[k]
    <2>1. /\ DOMAIN With(reader.seen, Next1, value) = DOMAIN reader.seen \cup {Next1}
          /\ With(reader.seen, Next1, value)[Next1] = value
      BY DEF With
    <2>2. Next1 \in DOMAIN reader.seen => reader.seen[Next1] = value
      BY <1>1 DEF Agrees
    <2>3. \A k \in DOMAIN reader.seen : With(reader.seen, Next1, value)[k] = reader.seen[k]
      BY <2>2 DEF With
    <2>. HIDE DEF value
    <2>. QED  BY <1>4, <2>1, <2>3
  <1>6. /\ Next1 = Id(d) => value = dirs[d]
        /\ Next1 = List(d) => value = There(d)
    BY <1>2, KeyFacts
  <1>. HIDE DEF value
  <1>7. TreeOK'
    BY SMTT(60) DEF TreeOK
  <1>8. FileFresh(reader.seen)' /\ FileFresh(reader.first)'
    <2>1. \A f \in Files : Read(f) \in DOMAIN reader'.seen =>
            Read(f) \in DOMAIN reader.seen /\ reader'.seen[Read(f)] = reader.seen[Read(f)]
      BY <1>2, <1>5, KeyFacts
    <2>. QED  BY <1>4, <2>1 DEF Fresh, FileFresh, Past, Now, Trusted, Identity
  <1>9. DirFresh(reader.seen)'
    <2>. SUFFICES ASSUME NEW e \in Dirs, Id(e) \in DOMAIN reader'.seen
                  PROVE  /\ reader'.seen[Id(e)] \in 1..time
                         /\ List(e) \in DOMAIN reader'.seen /\ dirs[e] = reader'.seen[Id(e)]
                              => There(e) = reader'.seen[List(e)]
      BY DEF DirFresh, There
    <2>1. CASE Next1 = Id(e)
      <3>1. e = d /\ reader'.seen[Id(e)] = dirs[e]
        BY <1>2, <1>5, <1>6, <2>1, KeyFacts
      <3>2. dirs[e] \in 1..time
        BY DEF TreeOK
      <3>3. ASSUME List(e) \in DOMAIN reader'.seen PROVE There(e) = reader'.seen[List(e)]
        <4>1. List(e) \in DOMAIN reader.seen
          BY <3>3, <1>5, <2>1, KeyFacts
        <4>2. PICK i \in DOMAIN reader.kind.pass : i < reader.pc /\ reader.kind.pass[i] = List(e)
          BY <4>1 DEF ReaderOK
        <4>3. Id(e) \in Keys(reader.kind)
          BY <1>1, <2>1, NextFacts DEF Keys, Next1
        <4>4. PICK j \in DOMAIN reader.kind.pass : j < i /\ reader.kind.pass[j] = Id(e)
          BY <4>2, <4>3 DEF ReaderOK, KindOK
        <4>5. j < reader.pc
          BY <4>2, <4>4 DEF ReaderOK, KindOK
        <4>6. Id(e) \in DOMAIN reader.seen
          BY <4>4, <4>5, KeyFacts DEF ReaderOK
        <4>7. reader.seen[Id(e)] = dirs[e]
          BY <1>5, <3>1, <4>6
        <4>. QED  BY <1>5, <4>1, <4>6, <4>7 DEF Fresh, DirFresh
      <3>. QED  BY <3>1, <3>2, <3>3
    <2>2. CASE Next1 # Id(e)
      <3>1. Id(e) \in DOMAIN reader.seen /\ reader'.seen[Id(e)] = reader.seen[Id(e)]
        BY <1>5, <2>2
      <3>2. reader.seen[Id(e)] \in 1..time
        BY <3>1 DEF Fresh, DirFresh
      <3>3. CASE Next1 = List(e)
        <4>1. e = d /\ reader'.seen[List(e)] = There(e)
          BY <1>2, <1>5, <1>6, <3>3, KeyFacts
        <4>. QED  BY <3>1, <3>2, <4>1
      <3>4. CASE Next1 # List(e)
        BY <1>5, <3>1, <3>2, <3>4 DEF Fresh, DirFresh
      <3>. QED  BY <3>3, <3>4
    <2>. QED  BY <2>1, <2>2
  <1>10. OpenFresh'
    BY <1>4 DEF OpenFresh
  <1>11. Kept'
    BY <1>4 DEF Kept, Trusted, Now, Identity, FileWas, DirWas
  <1>12. Found'
    <2>1. ASSUME NEW f \in Files, Read(f) \in DOMAIN reader.first, Read(f) \in DOMAIN reader'.seen,
                 Trusted, reader'.seen[Read(f)].id = reader.first[Read(f)].id
          PROVE  FileWas(f)
      <3>1. Read(f) \in DOMAIN reader.seen /\ reader'.seen[Read(f)] = reader.seen[Read(f)]
        BY <1>2, <1>5, <2>1, KeyFacts
      <3>. QED  BY <2>1, <3>1 DEF Found
    <2>2. ASSUME NEW e \in Dirs, Id(e) \in DOMAIN reader.first, Id(e) \in DOMAIN reader'.seen,
                 reader.first[Id(e)] = reader'.seen[Id(e)]
          PROVE  DirWas(e)
      <3>1. CASE Next1 = Id(e)
        <4>1. reader'.seen[Id(e)] = dirs[e]
          BY <1>2, <1>5, <1>6, <3>1, KeyFacts
        <4>. QED  BY <2>2, <4>1 DEF Kept
      <3>2. CASE Next1 # Id(e)
        BY <1>5, <2>2, <3>2 DEF Found
      <3>. QED  BY <3>1, <3>2
    <2>. QED  BY <1>4, <2>1, <2>2 DEF Found, FileWas, DirWas, Trusted
  <1>13. Settled'
    BY <1>1, <1>4, NextFacts DEF Settled, Accepted
  <1>. QED  BY <1>4, <1>7, <1>8, <1>9, <1>10, <1>11, <1>12, <1>13 DEF Fresh

LEMMA PassOverKeeps ==
  ASSUME IInv, PassOver, UNCHANGED <<entry, inodes, dirs, time, edits, restored>>
  PROVE  IInv'
  <1>. USE DEF IInv
  <1>1. InPass /\ Next1[1] \in {"stat", "read"} /\ ~Listed(Next1[2])
    BY DEF PassOver
  <1>2. reader.fd = NotOpen
    BY <1>1, NotOpenFacts
  <1>3. /\ reader'.kind = reader.kind /\ reader'.pc = reader.pc + 1 /\ reader'.fd = NotOpen
        /\ reader'.first = reader.first /\ reader'.moment = reader.moment
        /\ reader'.seen = reader.seen
        /\ DOMAIN reader' = Fields /\ reader' = [x \in Fields |-> reader'[x]]
    BY <1>2 DEF PassOver, ReaderOK, Fields
  <1>4. ReaderOK'
    <2>1. reader'.pc \in 1..(Len(reader'.kind.pass) + 2)
      BY <1>1, <1>3, NextFacts
    <2>2. \A k \in DOMAIN reader.seen :
            \E i \in DOMAIN reader.kind.pass : i < reader.pc + 1 /\ reader.kind.pass[i] = k
      <3>. SUFFICES ASSUME NEW k \in DOMAIN reader.seen
                    PROVE  \E i \in DOMAIN reader.kind.pass : i < reader.pc + 1 /\ reader.kind.pass[i] = k
        OBVIOUS
      <3>1. PICK i \in DOMAIN reader.kind.pass : i < reader.pc /\ reader.kind.pass[i] = k
        BY DEF ReaderOK
      <3>2. i < reader.pc + 1
        BY <3>1 DEF ReaderOK, KindOK
      <3>. QED  BY <3>1, <3>2
    <2>3. \A i \in DOMAIN reader.kind.pass :
            (i < reader.pc + 1 /\ reader.kind.pass[i][1] \in {"id", "list"}) =>
              reader.kind.pass[i] \in DOMAIN reader.seen
      <3>. SUFFICES ASSUME NEW i \in DOMAIN reader.kind.pass, i < reader.pc + 1,
                           reader.kind.pass[i][1] \in {"id", "list"}
                    PROVE  reader.kind.pass[i] \in DOMAIN reader.seen
        OBVIOUS
      <3>1. i < reader.pc \/ i = reader.pc
        BY DEF ReaderOK, KindOK
      <3>. QED  BY <1>1, <3>1 DEF ReaderOK, Next1
    <2>. QED  BY ZenonT(90), <1>3, <2>1, <2>2, <2>3 DEF ReaderOK
  <1>5. TreeOK'
    BY SMTT(60) DEF TreeOK
  <1>6. Fresh'
    BY ZenonT(90), <1>3 DEF Fresh, FileFresh, DirFresh, OpenFresh, Past, Now, Trusted,
                             Identity, There
  <1>7. Kept' /\ Found'
    BY <1>3 DEF Kept, Found, Trusted, Now, Identity, FileWas, DirWas
  <1>8. Settled'
    BY <1>1, <1>3, NextFacts DEF Settled, Accepted
  <1>. QED  BY <1>4, <1>5, <1>6, <1>7, <1>8

LEMMA StatKeeps ==
  ASSUME IInv, StatFile, UNCHANGED <<entry, inodes, dirs, time, edits, restored>>
  PROVE  IInv'
  <1>. USE DEF IInv
  <1>. DEFINE value == Identity(reader.kind, entry[Next1[2]])
  <1>1. InPass /\ Next1[1] = "stat" /\ Agrees(Next1, value) /\ Noted(Next1, value)
    BY DEF StatFile
  <1>2. PICK x \in Files : Next1 = Stat(x)
    BY <1>1, NextFacts, KeyFacts
  <1>. HIDE DEF value
  <1>3. reader.fd = NotOpen
    BY <1>1, NotOpenFacts
  <1>4. /\ reader'.kind = reader.kind /\ reader'.pc = reader.pc + 1 /\ reader'.fd = NotOpen
        /\ reader'.first = reader.first /\ reader'.moment = reader.moment
        /\ reader'.seen = With(reader.seen, Next1, value)
        /\ ReaderOK'
    BY <1>1, <1>3, NotedFacts
  <1>5. /\ DOMAIN reader'.seen = DOMAIN reader.seen \cup {Next1}
        /\ \A k \in DOMAIN reader.seen : k # Next1 => reader'.seen[k] = reader.seen[k]
    BY <1>4 DEF With
  <1>6. \A f \in Files : Read(f) \in DOMAIN reader'.seen =>
          Read(f) \in DOMAIN reader.seen /\ reader'.seen[Read(f)] = reader.seen[Read(f)]
    BY <1>2, <1>5, KeyFacts
  <1>11. \A d \in Dirs :
           /\ Id(d) \in DOMAIN reader'.seen =>
                Id(d) \in DOMAIN reader.seen /\ reader'.seen[Id(d)] = reader.seen[Id(d)]
           /\ List(d) \in DOMAIN reader'.seen =>
                List(d) \in DOMAIN reader.seen /\ reader'.seen[List(d)] = reader.seen[List(d)]
    BY <1>2, <1>5, KeyFacts
  <1>7. TreeOK'
    BY DEF TreeOK
  <1>8. Fresh'
    <2>1. FileFresh(reader.seen)'
      <3>1. ASSUME NEW g \in Files, Read(g) \in DOMAIN reader'.seen
            PROVE  LET s == reader'.seen[Read(g)]
                   IN Past(s.id) /\ (Trusted /\ Now(s.id) => inodes[s.id.inode].halves = s.halves)
        BY <1>6, <3>1 DEF Fresh, FileFresh
      <3>. QED  BY <1>4, <3>1 DEF FileFresh, Past, Now, Trusted, Identity
    <2>2. FileFresh(reader.first)' /\ OpenFresh'
      BY <1>4 DEF Fresh, FileFresh, OpenFresh, Past, Now, Trusted, Identity
    <2>3. DirFresh(reader.seen)'
      BY <1>11 DEF Fresh, DirFresh, There
    <2>. QED  BY <2>1, <2>2, <2>3 DEF Fresh
  <1>9. Kept' /\ Found'
    <2>1. Kept'
      BY <1>4 DEF Kept, Trusted, Now, Identity, FileWas, DirWas
    <2>2. Found'
      <3>1. ASSUME NEW g \in Files, Read(g) \in DOMAIN reader.first, Read(g) \in DOMAIN reader'.seen,
                   Trusted, reader'.seen[Read(g)].id = reader.first[Read(g)].id
            PROVE  FileWas(g)
        BY <1>6, <3>1 DEF Found
      <3>2. ASSUME NEW d \in Dirs, Id(d) \in DOMAIN reader.first, Id(d) \in DOMAIN reader'.seen,
                   reader.first[Id(d)] = reader'.seen[Id(d)]
            PROVE  DirWas(d)
        BY <1>11, <3>2 DEF Found
      <3>. QED  BY <1>4, <3>1, <3>2 DEF Found, FileWas, DirWas, Trusted
    <2>. QED  BY <2>1, <2>2
  <1>10. Settled'
    BY <1>1, <1>4, NextFacts DEF Settled, Accepted
  <1>. QED  BY <1>4, <1>7, <1>8, <1>9, <1>10

LEMMA OpenKeeps ==
  ASSUME IInv, Open, UNCHANGED <<entry, inodes, dirs, time, edits, restored>>
  PROVE  IInv'
  <1>. USE DEF IInv
  <1>0. InPass /\ Next1[1] = "read"
    BY DEF Open
  <1>2. PICK f \in Files : Next1 = Read(f) /\ Next1[2] = f
    BY <1>0, NextFacts, KeyFacts
  <1>. DEFINE id == Identity(reader.kind, entry[f])
              fd == [inode |-> entry[f], id |-> id, half |-> inodes[entry[f]].halves[1]]
  <1>1. InPass /\ Listed(f) /\ entry[f] # 0 /\ reader' = [reader EXCEPT !.fd = fd]
    BY <1>2 DEF Open
  <1>3. /\ fd.inode = entry[f] /\ fd.id = id /\ fd.half = inodes[entry[f]].halves[1]
        /\ id.inode = entry[f] /\ id.mtime = inodes[entry[f]].mtime
        /\ id.ctime = IF reader.kind.ctime THEN inodes[entry[f]].ctime ELSE 0
    BY DEF Identity
  <1>4. entry[f] \in DOMAIN inodes
    BY <1>1, <1>2 DEF TreeOK
  <1>5. Past(id)
    BY <1>3, <1>4 DEF Past, TreeOK
  <1>6. Now(id)
    BY <1>3, <1>4 DEF Now
  <1>. HIDE DEF id, fd
  <1>7. /\ reader'.kind = reader.kind /\ reader'.pc = reader.pc /\ reader'.fd = fd
        /\ reader'.first = reader.first /\ reader'.moment = reader.moment
        /\ reader'.seen = reader.seen
        /\ DOMAIN reader' = Fields /\ reader' = [x \in Fields |-> reader'[x]]
    BY <1>1 DEF ReaderOK, Fields
  <1>8. Next1' = Next1 /\ InPass' = InPass
    BY <1>7 DEF Next1, InPass
  <1>9. ReaderOK'
    <2>1. Listed(f)'
      BY <1>1, <1>7 DEF Listed
    <2>2. InPass' /\ Next1' = Read(f)
      BY <1>1, <1>2, <1>8
    <2>3. reader'.fd # NotOpen => InPass' /\ \E g \in Files : Next1' = Read(g) /\ Listed(g)'
      BY <2>1, <2>2
    <2>. QED  BY <1>7, <2>3 DEF ReaderOK
  <1>10. TreeOK'
    BY DEF TreeOK
  <1>11. FileFresh(reader.seen)' /\ FileFresh(reader.first)' /\ DirFresh(reader.seen)'
    BY <1>7 DEF Fresh, FileFresh, DirFresh, Past, Now, Trusted, Identity, There
  <1>12. OpenFresh'
    BY <1>3, <1>5, <1>7 DEF OpenFresh, Past, Now, Trusted, Identity
  <1>13. Kept'
    BY <1>7 DEF Kept, Trusted, Now, Identity, FileWas, DirWas
  <1>14. Found'
    <2>1. ASSUME NEW g \in Files, Read(g) \in DOMAIN reader.first, Next1 = Read(g),
                 Trusted, fd.id = reader.first[Read(g)].id
          PROVE  FileWas(g)
      <3>1. g = f
        BY <1>2, <2>1, KeyFacts
      <3>. QED  BY <1>3, <1>6, <2>1, <3>1 DEF Kept
    <2>. QED  BY <1>7, <1>8, <2>1 DEF Found, FileWas, DirWas, Trusted
  <1>15. Settled'
    BY <1>1, <1>7, NextFacts DEF Settled, Accepted
  <1>. QED  BY <1>9, <1>10, <1>11, <1>12, <1>13, <1>14, <1>15 DEF Fresh

LEMMA CloseKeeps ==
  ASSUME IInv, Close, UNCHANGED <<entry, inodes, dirs, time, edits, restored>>
  PROVE  IInv'
  <1>. USE DEF IInv
  <1>. DEFINE fd == reader.fd
              value == [id |-> fd.id, halves |-> <<fd.half, inodes[fd.inode].halves[2]>>]
  <1>1. fd # NotOpen
    BY DEF Close
  <1>2. PICK f \in Files : InPass /\ Next1 = Read(f)
    BY <1>1 DEF ReaderOK
  <1>3. /\ reader'.kind = reader.kind /\ reader'.pc = reader.pc + 1 /\ reader'.fd = NotOpen
        /\ reader'.first = reader.first /\ reader'.moment = reader.moment
        /\ reader'.seen = With(reader.seen, Next1, value)
        /\ DOMAIN reader' = Fields /\ reader' = [x \in Fields |-> reader'[x]]
    BY DEF Close, ReaderOK, Fields
  <1>4. value.id = fd.id /\ value.halves = <<fd.half, inodes[fd.inode].halves[2]>>
    OBVIOUS
  <1>. HIDE DEF value
  <1>5. /\ DOMAIN reader'.seen = DOMAIN reader.seen \cup {Read(f)}
        /\ reader'.seen[Read(f)] = value
        /\ \A k \in DOMAIN reader.seen : k # Read(f) => reader'.seen[k] = reader.seen[k]
    BY <1>2, <1>3 DEF With
  <1>6. Past(fd.id) /\ (Trusted /\ Now(fd.id) => inodes[fd.id.inode].halves = value.halves)
    <2>1. fd.id.inode = fd.inode /\ Past(fd.id)
      BY <1>1 DEF Fresh, OpenFresh
    <2>2. inodes[fd.inode] \in Inode
      BY <2>1 DEF Past, TreeOK
    <2>3. inodes[fd.inode].halves \in [1..2 -> 0..1]
      BY <2>2 DEF Inode
    <2>4. ASSUME Trusted, Now(fd.id) PROVE inodes[fd.inode].halves = value.halves
      <3>1. inodes[fd.inode].halves[1] = fd.half
        BY <1>1, <2>4 DEF Fresh, OpenFresh
      <3>. QED  BY <1>4, <2>3, <3>1
    <2>. QED  BY <2>1, <2>4
  <1>7. ReaderOK'
    <2>1. reader'.pc \in 1..(Len(reader'.kind.pass) + 2)
      BY <1>2, <1>3, NextFacts
    <2>2. \A k \in DOMAIN reader'.seen :
            \E i \in DOMAIN reader.kind.pass : i < reader.pc + 1 /\ reader.kind.pass[i] = k
      <3>. SUFFICES ASSUME NEW k \in DOMAIN reader.seen \cup {Read(f)}
                    PROVE  \E i \in DOMAIN reader.kind.pass : i < reader.pc + 1 /\ reader.kind.pass[i] = k
        BY <1>5
      <3>1. CASE k \in DOMAIN reader.seen
        <4>1. PICK i \in DOMAIN reader.kind.pass : i < reader.pc /\ reader.kind.pass[i] = k
          BY <3>1 DEF ReaderOK
        <4>2. i < reader.pc + 1
          BY <4>1 DEF ReaderOK, KindOK
        <4>. QED  BY <4>1, <4>2
      <3>2. CASE k = Read(f)
        BY <1>2, <3>2, NextFacts DEF Next1
      <3>. QED  BY <3>1, <3>2
    <2>3. \A i \in DOMAIN reader.kind.pass :
            (i < reader.pc + 1 /\ reader.kind.pass[i][1] \in {"id", "list"}) =>
              reader.kind.pass[i] \in DOMAIN reader'.seen
      <3>. SUFFICES ASSUME NEW i \in DOMAIN reader.kind.pass, i < reader.pc + 1,
                           reader.kind.pass[i][1] \in {"id", "list"}
                    PROVE  reader.kind.pass[i] \in DOMAIN reader.seen \cup {Read(f)}
        BY <1>5
      <3>1. i < reader.pc \/ i = reader.pc
        BY DEF ReaderOK, KindOK
      <3>. QED  BY <1>2, <3>1 DEF ReaderOK, Next1
    <2>. QED  BY <1>3, <2>1, <2>2, <2>3 DEF ReaderOK
  <1>8. TreeOK'
    BY DEF TreeOK
  <1>9. FileFresh(reader.seen)'
    <2>1. ASSUME NEW g \in Files, Read(g) \in DOMAIN reader'.seen
          PROVE  LET s == reader'.seen[Read(g)]
                 IN Past(s.id) /\ (Trusted /\ Now(s.id) => inodes[s.id.inode].halves = s.halves)
      <3>1. CASE g = f
        BY <1>4, <1>5, <1>6, <3>1
      <3>2. CASE g # f
        BY SMTT(60), <1>5, <2>1, <3>2, KeyFacts DEF Fresh, FileFresh
      <3>. QED  BY <3>1, <3>2
    <2>. QED  BY <1>3, <2>1 DEF FileFresh, Past, Now, Trusted, Identity
  <1>10. FileFresh(reader.first)' /\ OpenFresh'
    BY <1>3 DEF Fresh, FileFresh, OpenFresh, Past, Now, Trusted, Identity
  <1>11. \A d \in Dirs : /\ Id(d) \in DOMAIN reader'.seen =>
                              Id(d) \in DOMAIN reader.seen /\ reader'.seen[Id(d)] = reader.seen[Id(d)]
                         /\ List(d) \in DOMAIN reader'.seen =>
                              List(d) \in DOMAIN reader.seen /\ reader'.seen[List(d)] = reader.seen[List(d)]
    BY <1>5, KeyFacts
  <1>12. DirFresh(reader.seen)'
    BY <1>11 DEF Fresh, DirFresh, There
  <1>13. Kept'
    BY <1>3 DEF Kept, Trusted, Now, Identity, FileWas, DirWas
  <1>14. Found'
    <2>1. ASSUME NEW g \in Files, Read(g) \in DOMAIN reader.first, Read(g) \in DOMAIN reader'.seen,
                 Trusted, reader'.seen[Read(g)].id = reader.first[Read(g)].id
          PROVE  FileWas(g)
      <3>1. CASE g = f
        BY <1>1, <1>2, <1>4, <1>5, <2>1, <3>1 DEF Found
      <3>2. CASE g # f
        BY <1>5, <2>1, <3>2, KeyFacts DEF Found
      <3>. QED  BY <3>1, <3>2
    <2>. QED  BY <1>3, <1>11, <2>1 DEF Found, FileWas, DirWas, Trusted
  <1>15. Settled'
    BY <1>2, <1>3, NextFacts DEF Settled, Accepted
  <1>. QED  BY <1>7, <1>8, <1>9, <1>10, <1>12, <1>13, <1>14, <1>15 DEF Fresh

LEMMA KeepKeeps ==
  ASSUME IInv, Keep, UNCHANGED <<entry, inodes, dirs, time, edits, restored>>
  PROVE  IInv'
  <1>. USE DEF IInv
  <1>1. reader.pc = Len(reader.kind.pass) + 1 /\ Len(reader.kind.pass) \in Nat
        /\ DOMAIN reader.kind.pass = 1..Len(reader.kind.pass)
    BY DEF Keep, ReaderOK, KindOK
  <1>2. reader.fd = NotOpen
    BY <1>1, NotOpenFacts DEF InPass
  <1>3. /\ reader'.kind = reader.kind /\ reader'.pc = 1 /\ reader'.fd = NotOpen
        /\ reader'.first = reader.seen /\ reader'.moment = Content
        /\ reader'.seen = NothingSeen
        /\ DOMAIN reader' = Fields /\ reader' = [x \in Fields |-> reader'[x]]
    BY <1>2 DEF Keep, ReaderOK, Fields
  <1>4. DOMAIN reader'.seen = {}
    BY <1>3 DEF NothingSeen
  <1>5. ReaderOK'
    BY SMTT(60), <1>1, <1>3, <1>4 DEF ReaderOK
  <1>6. TreeOK'
    BY DEF TreeOK
  <1>7. Fresh'
    BY <1>3, <1>4 DEF Fresh, FileFresh, DirFresh, OpenFresh, Past, Now, Trusted, Identity
  <1>8. Kept'
    <2>1. ASSUME NEW f \in Files, Read(f) \in DOMAIN reader.seen, Trusted,
                 Now(reader.seen[Read(f)].id), entry[f] = reader.seen[Read(f)].id.inode
          PROVE  f \in DOMAIN Content /\ Content[f] = reader.seen[Read(f)].halves
      <3>1. inodes[entry[f]].halves = reader.seen[Read(f)].halves
        BY <2>1 DEF Fresh, FileFresh
      <3>2. entry[f] # 0
        BY <2>1 DEF Now, TreeOK
      <3>. QED  BY <3>1, <3>2 DEF Content
    <2>2. ASSUME NEW d \in Dirs, Id(d) \in DOMAIN reader.seen
          PROVE  /\ reader.seen[Id(d)] \in 1..time
                 /\ dirs[d] = reader.seen[Id(d)] => {f \in DOMAIN Content : DirOf[f] = d} = reader.seen[List(d)]
      <3>1. PICK i \in DOMAIN reader.kind.pass : reader.kind.pass[i] = Id(d)
        BY <2>2 DEF ReaderOK
      <3>2. PICK j \in DOMAIN reader.kind.pass : reader.kind.pass[j] = List(d)
        BY ZenonT(90), <3>1 DEF ReaderOK, KindOK, Keys
      <3>3. List(d) \in DOMAIN reader.seen
        BY SMTT(60), <1>1, <3>2, KeyFacts DEF ReaderOK
      <3>4. There(d) = {f \in DOMAIN Content : DirOf[f] = d}
        BY DEF There, Content
      <3>. QED  BY <2>2, <3>3, <3>4 DEF Fresh, DirFresh
    <2>3. /\ reader'.kind = reader.kind /\ reader'.first = reader.seen /\ reader'.moment = Content
          /\ UNCHANGED <<entry, inodes, dirs, time, restored>>
      BY <1>3
    <2>4. Trusted' = Trusted /\ \A id : Now(id)' = Now(id)
      BY <1>3 DEF Trusted, Now, Identity
    <2>5. \A f \in Files : (Read(f) \in DOMAIN reader.first)' =>
            LET id == reader'.first[Read(f)].id
            IN Trusted' /\ Now(reader.first[Read(f)].id)' /\ entry'[f] = id.inode => FileWas(f)'
      <3>1. SUFFICES ASSUME NEW f \in Files, Read(f) \in DOMAIN reader.seen, Trusted,
                            Now(reader.first[Read(f)].id)',
                            entry[f] = reader.seen[Read(f)].id.inode
                     PROVE  FileWas(f)'
        BY <2>3, <2>4
      <3>2. Now(reader.seen[Read(f)].id)
        BY <2>3, <3>1 DEF Now, Identity
      <3>3. f \in DOMAIN Content /\ Content[f] = reader.seen[Read(f)].halves
        BY <2>1, <3>1, <3>2
      <3>. QED  BY <2>3, <3>3 DEF FileWas
    <2>6. \A d \in Dirs : (Id(d) \in DOMAIN reader.first)' =>
            /\ reader'.first[Id(d)] \in 1..time'
            /\ dirs'[d] = reader'.first[Id(d)] => DirWas(d)'
      BY <2>2, <2>3 DEF DirWas
    <2>. QED  BY <2>5, <2>6 DEF Kept
  <1>9. Found'
    BY <1>3, <1>4 DEF Found
  <1>10. Settled'
    BY <1>1, <1>3 DEF Settled, Accepted
  <1>. QED  BY <1>5, <1>6, <1>7, <1>8, <1>9, <1>10

LEMMA VerifyKeeps ==
  ASSUME IInv, Verify, UNCHANGED <<entry, inodes, dirs, time, edits, restored>>
  PROVE  IInv'
  <1>. USE DEF IInv
  <1>1. reader.pc = Len(reader.kind.pass) + 1 /\ Len(reader.kind.pass) \in Nat
        /\ DOMAIN reader.kind.pass = 1..Len(reader.kind.pass)
    BY DEF Verify, ReaderOK, KindOK
  <1>2. reader.fd = NotOpen
    BY <1>1, NotOpenFacts DEF InPass
  <1>3. /\ reader'.kind = reader.kind /\ reader'.pc = Len(reader.kind.pass) + 2
        /\ reader'.fd = NotOpen /\ reader'.first = reader.first
        /\ reader'.moment = reader.moment /\ reader'.seen = reader.seen
        /\ DOMAIN reader' = Fields /\ reader' = [x \in Fields |-> reader'[x]]
    BY <1>1, <1>2 DEF Verify, ReaderOK, Fields
  <1>4. ReaderOK'
    <2>1. \A i \in DOMAIN reader.kind.pass : i < reader.pc /\ i < Len(reader.kind.pass) + 2
      BY <1>1
    <2>2. reader'.pc \in 1..(Len(reader.kind.pass) + 2)
      BY <1>1, <1>3
    <2>. QED  BY <1>3, <2>1, <2>2 DEF ReaderOK
  <1>5. TreeOK'
    BY DEF TreeOK
  <1>6. Fresh'
    BY ZenonT(90), <1>3 DEF Fresh, FileFresh, DirFresh, OpenFresh, Past, Now, Trusted,
                             Identity, There
  <1>7. Kept' /\ Found'
    BY <1>3 DEF Kept, Found, Trusted, Now, Identity, FileWas, DirWas
  <1>8. Settled'
    BY <1>3 DEF Settled, Verify, Same
  <1>. QED  BY <1>4, <1>5, <1>6, <1>7, <1>8

----------------------------------------------------------------------------
LEMMA InitOK == Init => IInv
  <1>. SUFFICES ASSUME Init PROVE IInv
    OBVIOUS
  <1>1. PICK k \in Readers :
          reader = [kind |-> k, pc |-> 1, fd |-> NotOpen, seen |-> NothingSeen,
                    first |-> NothingSeen, moment |-> NothingSeen]
    BY DEF Init
  <1>2. KindOK(k)
    BY KindsOK
  <1>3. /\ reader.kind = k /\ reader.pc = 1 /\ reader.fd = NotOpen /\ reader.seen = NothingSeen
        /\ reader.first = NothingSeen /\ DOMAIN reader = Fields
        /\ reader = [x \in Fields |-> reader[x]]
    BY <1>1 DEF Fields
  <1>4. DOMAIN NothingSeen = {}
    BY DEF NothingSeen
  <1>5. TreeOK
    <2>1. inodes \in Seq(Inode) /\ Len(inodes) = 2
      BY DEF Init, Inode
    <2>2. \A i \in DOMAIN inodes : inodes[i].mtime = 1 /\ inodes[i].ctime = 1
      BY DEF Init
    <2>3. time = 1 /\ restored = FALSE /\ dirs \in [Dirs -> 1..time]
      BY DEF Init
    <2>4. entry \in [Files -> 0..2]
      BY DEF Init
    <2>5. entry \in [Files -> 0..Len(inodes)]
      BY <2>1, <2>4
    <2>6. \A i \in DOMAIN inodes : inodes[i].mtime \in 1..time /\ inodes[i].ctime \in 1..time
      BY <2>2, <2>3
    <2>7. \A i \in DOMAIN inodes : inodes[i].mtime = inodes[i].ctime
      BY <2>2
    <2>8. time \in Nat \ {0}
      BY <2>3
    <2>9. restored \in BOOLEAN
      BY <2>3, Zenon
    <2>. QED  BY <2>1, <2>3, <2>5, <2>6, <2>7, <2>8, <2>9, Zenon DEF TreeOK
  <1>6. Len(k.pass) \in Nat /\ DOMAIN k.pass = 1..Len(k.pass)
    BY <1>2 DEF KindOK
  <1>7. ReaderOK
    BY <1>2, <1>3, <1>4, <1>6 DEF ReaderOK
  <1>8. Fresh /\ Kept /\ Found
    BY <1>3, <1>4 DEF Fresh, FileFresh, DirFresh, OpenFresh, Kept, Found
  <1>9. Settled
    BY <1>3, <1>6 DEF Settled, Accepted
  <1>. QED  BY <1>5, <1>7, <1>8, <1>9 DEF IInv

LEMMA Step == IInv /\ [Next]_vars => IInv'
  <1>. SUFFICES ASSUME IInv, [Next]_vars PROVE IInv'
    OBVIOUS
  <1>1. CASE UNCHANGED vars
    <2>1. TreeOK'
      BY <1>1 DEF vars, IInv, TreeOK
    <2>2. ReaderOK'
      BY <1>1 DEF vars, IInv, ReaderOK, Next1, InPass, Listed
    <2>3. FileFresh(reader.seen)' /\ FileFresh(reader.first)'
      BY <1>1 DEF vars, IInv, Fresh, FileFresh, Past, Now, Trusted, Identity
    <2>4. DirFresh(reader.seen)' /\ OpenFresh'
      BY <1>1 DEF vars, IInv, Fresh, DirFresh, OpenFresh, Past, Now, Trusted, Identity, There
    <2>5. Kept'
      BY <1>1 DEF vars, IInv, Kept, Now, Trusted, Identity, FileWas, DirWas
    <2>6. Found' /\ Settled'
      BY <1>1 DEF vars, IInv, Found, Settled, Trusted, FileWas, DirWas, Next1, Accepted
    <2>. QED  BY <2>1, <2>2, <2>3, <2>4, <2>5, <2>6 DEF IInv, Fresh
  <1>2. CASE Reading
    BY <1>2, LookKeeps, PassOverKeeps, StatKeeps, OpenKeeps, CloseKeeps, KeepKeeps, VerifyKeeps
       DEF Reading
  <1>3. CASE Edit
    BY <1>3, EditKeeps
  <1>. QED  BY <1>1, <1>2, <1>3 DEF Next

LEMMA Invariant == Spec => []IInv
  BY InitOK, Step, PTL DEF Spec

\* Type correctness, for any number of steps of other programs.
THEOREM SnapshotTyped == Spec => []SnapshotTypeOK
  <1>1. IInv => SnapshotTypeOK
    BY DEF IInv, TreeOK, ReaderOK, SnapshotTypeOK
  <1>. QED  BY <1>1, Invariant, PTL

\* Whatever other programs do between two steps of a reader, and however often:
\* what it goes on with once it has seen it twice was on disk at one moment. This
\* is so of the files it read, and of the names in the directories whose identity
\* it took.
THEOREM OneMoment == Spec => []SnapshotIsOneMoment
  <1>1. IInv => SnapshotIsOneMoment
    BY DEF IInv, Found, Settled, SnapshotIsOneMoment, FileWas, DirWas, Trusted
  <1>. QED  BY <1>1, Invariant, PTL
=============================================================================
