----------------------------- MODULE TreeSnapshot -----------------------------
(***************************************************************************)
(* How a command takes a tree of files as one input: it lists directories  *)
(* and reads files one after the other, goes on with what it read, and     *)
(* before it publishes does all of it again and compares (engine.py,       *)
(* review.py, package_reviewed_mod.py, consolidate_reviewed_mod.py,        *)
(* vanilla_retrieval.py). SealedPublication takes such a tree for one part *)
(* that is read in one step; this module is about that step.               *)
(*                                                                         *)
(* The tree has the file a in the directory top and the file b in the      *)
(* directory sub below it. An inode is its content, of two halves that are *)
(* read one after the other, and its stat identity: mtime, which another   *)
(* program can set back, and ctime, which it cannot. A directory has an    *)
(* identity that changes with its names.                                   *)
(***************************************************************************)
EXTENDS Naturals, Sequences

CONSTANTS MaxEdits   \* bound: steps of other programs

Dirs == {"top", "sub"}
Files == {"a", "b"}
DirOf == [a |-> "top", b |-> "sub"]

----------------------------------------------------------------------------
\* What a reader does in a pass. "id" takes the identity of a directory, "list"
\* its names, "stat" the identity of a file that is there, "read" its content.
\* ctime tells whether identities hold it.
List(d) == <<"list", d>>
Id(d) == <<"id", d>>
Stat(f) == <<"stat", f>>
Read(f) == <<"read", f>>

EngineReader ==
  [ctime |-> FALSE, pass |-> <<List("top"), Read("a"), List("sub"), Read("b")>>]

\* The names of the candidate are listed again and must be those read.
ReviewReader ==
  [ctime |-> FALSE,
   pass |-> <<List("top"), Read("a"), List("sub"), Read("b"), List("top"), List("sub")>>]

\* A directory's identity is taken where its parent lists it; the root has none.
PackageReader ==
  [ctime |-> TRUE, pass |-> <<List("top"), Id("sub"), Read("a"), List("sub"), Read("b")>>]
TreeReader == PackageReader

\* The inventory comes first, every file is then read as it was there, and the
\* inventory is taken again.
GenerationReader ==
  [ctime |-> TRUE,
   pass |-> <<Id("top"), List("top"), Id("sub"), Stat("a"), List("sub"), Stat("b"),
              Read("a"), Read("b"),
              Id("top"), List("top"), Id("sub"), Stat("a"), List("sub"), Stat("b")>>]

RetrievalReader ==
  [ctime |-> TRUE,
   pass |-> <<Id("top"), List("top"), Read("a"), Id("sub"), List("sub"), Read("b")>>]

Readers == {EngineReader, ReviewReader, PackageReader, TreeReader, GenerationReader,
            RetrievalReader}

----------------------------------------------------------------------------
VARIABLES entry,    \* for every file name its inode, or 0
          inodes,   \* [halves, mtime, ctime] by number
          dirs,     \* the identities of the directories
          time,     \* the last time stamp
          edits,    \* steps of other programs so far
          restored, \* whether a program has set an mtime back
          reader    \* [kind, pc, fd, seen, first, moment]

vars == <<entry, inodes, dirs, time, edits, restored, reader>>

Identity(kind, inode) ==
  [inode |-> inode, mtime |-> inodes[inode].mtime,
   ctime |-> IF kind.ctime THEN inodes[inode].ctime ELSE 0]

NotOpen == [inode |-> 0, id |-> [inode |-> 0, mtime |-> 0, ctime |-> 0], half |-> 0]
NothingSeen == [k \in {} |-> 0]
There(d) == {f \in Files : DirOf[f] = d /\ entry[f] # 0}
Content == [f \in {g \in Files : entry[g] # 0} |-> inodes[entry[f]].halves]

Init ==
  /\ entry \in [Files -> 0..2]
  /\ \A f \in Files : entry[f] \in {0, IF f = "a" THEN 1 ELSE 2}
  /\ inodes = [i \in 1..2 |-> [halves |-> <<0, 0>>, mtime |-> 1, ctime |-> 1]]
  /\ dirs = [d \in Dirs |-> 1]
  /\ time = 1 /\ edits = 0 /\ restored = FALSE
  /\ reader \in {[kind |-> k, pc |-> 1, fd |-> NotOpen, seen |-> NothingSeen,
                  first |-> NothingSeen, moment |-> NothingSeen] : k \in Readers}

----------------------------------------------------------------------------
Next1 == reader.kind.pass[reader.pc]
InPass == reader.pc \in DOMAIN reader.kind.pass

\* What was seen of one thing twice in a pass must be the same.
Agrees(what, value) == what \in DOMAIN reader.seen => reader.seen[what] = value
With(seen, what, value) ==
  [k \in DOMAIN seen \cup {what} |-> IF k = what THEN value ELSE seen[k]]
Noted(what, value) ==
  reader' = [reader EXCEPT !.pc = @ + 1, !.seen = With(@, what, value)]

Look ==
  /\ InPass /\ Next1[1] \in {"id", "list"}
  /\ LET value == IF Next1[1] = "id" THEN dirs[Next1[2]] ELSE There(Next1[2])
     IN Agrees(Next1, value) /\ Noted(Next1, value)

\* Files that were not listed are passed over.
Listed(f) == f \in reader.seen[List(DirOf[f])]
PassOver ==
  /\ InPass /\ Next1[1] \in {"stat", "read"} /\ ~Listed(Next1[2])
  /\ reader' = [reader EXCEPT !.pc = @ + 1]

StatFile ==
  /\ InPass /\ Next1[1] = "stat" /\ Listed(Next1[2]) /\ entry[Next1[2]] # 0
  /\ LET id == Identity(reader.kind, entry[Next1[2]])
     IN Agrees(Next1, id) /\ Noted(Next1, id)

\* A file is opened and read to the end between two equal identities, which are
\* the one the inventory shows. An open file is read although it was replaced.
Open ==
  LET f == Next1[2]
  IN /\ InPass /\ Next1[1] = "read" /\ Listed(f)
     /\ reader.fd = NotOpen /\ entry[f] # 0
     /\ LET id == Identity(reader.kind, entry[f])
        IN /\ Agrees(Stat(f), id)
           /\ reader' = [reader EXCEPT !.fd =
                [inode |-> entry[f], id |-> id, half |-> inodes[entry[f]].halves[1]]]

Close ==
  LET fd == reader.fd
  IN /\ fd # NotOpen
     /\ Identity(reader.kind, fd.inode) = fd.id
     /\ reader.kind.ctime => entry[Next1[2]] = fd.inode
     /\ reader' = [reader EXCEPT !.pc = @ + 1, !.fd = NotOpen,
          !.seen = With(@, Next1, [id |-> fd.id,
                                   halves |-> <<fd.half, inodes[fd.inode].halves[2]>>])]

\* The first pass is over; the history keeps what is on disk now.
Keep ==
  /\ reader.pc = Len(reader.kind.pass) + 1 /\ reader.first = NothingSeen
  /\ reader' = [reader EXCEPT !.pc = 1, !.first = reader.seen, !.seen = NothingSeen,
                              !.moment = Content]

\* The second pass must have seen the same.
SameBytes(first, second) ==
  /\ DOMAIN first = DOMAIN second
  /\ \A k \in DOMAIN first : IF k[1] = "read" THEN first[k].halves = second[k].halves
                             ELSE first[k] = second[k]
Same(first, second) == first = second

Verify ==
  /\ reader.pc = Len(reader.kind.pass) + 1 /\ reader.first # NothingSeen
  /\ Same(reader.first, reader.seen)
  /\ reader' = [reader EXCEPT !.pc = @ + 1]

Reading == (Look \/ PassOver \/ StatFile \/ Open \/ Close \/ Keep \/ Verify)
           /\ UNCHANGED <<entry, inodes, dirs, time, edits, restored>>

----------------------------------------------------------------------------
\* External. Other programs write half of a file, put another file in its place
\* or where none was, remove it, or set the mtime of a file back.
Stamped(halves) == [halves |-> halves, mtime |-> time + 1, ctime |-> time + 1]

WriteHalf ==
  \E f \in Files, h \in 1..2 :
    /\ entry[f] # 0
    /\ LET halves == inodes[entry[f]].halves
       IN inodes' = [inodes EXCEPT ![entry[f]] = Stamped([halves EXCEPT ![h] = 1 - @])]
    /\ UNCHANGED <<entry, dirs, restored>>

Replace ==
  \E f \in Files :
    /\ entry' = [entry EXCEPT ![f] = Len(inodes) + 1]
    /\ inodes' = Append(inodes, Stamped(<<1, 1>>))
    /\ dirs' = [dirs EXCEPT ![DirOf[f]] = time + 1]
    /\ UNCHANGED restored

Remove ==
  \E f \in Files :
    /\ entry[f] # 0
    /\ entry' = [entry EXCEPT ![f] = 0]
    /\ dirs' = [dirs EXCEPT ![DirOf[f]] = time + 1]
    /\ UNCHANGED <<inodes, restored>>

SetBack ==
  \E f \in Files :
    /\ entry[f] # 0 /\ inodes[entry[f]].mtime # 1
    /\ inodes' = [inodes EXCEPT ![entry[f]].mtime = 1, ![entry[f]].ctime = time + 1]
    /\ restored' = TRUE
    /\ UNCHANGED <<entry, dirs>>

Edit ==
  /\ edits < MaxEdits /\ reader.pc <= Len(reader.kind.pass) + 1
  /\ WriteHalf \/ Replace \/ Remove \/ SetBack
  /\ time' = time + 1 /\ edits' = edits + 1 /\ UNCHANGED reader

Next == Reading \/ Edit

Spec == Init /\ [][Next]_vars

----------------------------------------------------------------------------
SnapshotTypeOK ==
  /\ \A f \in Files : entry[f] \in 0..Len(inodes)
  /\ \A i \in DOMAIN inodes : inodes[i].mtime \in 1..time /\ inodes[i].ctime \in 1..time
  /\ \A d \in Dirs : dirs[d] \in 1..time
  /\ reader.pc \in 1..(Len(reader.kind.pass) + 2)

\* What a reader goes on with, once it has seen it twice, was on disk at one
\* moment: every file it read with both of its halves, and, in directories whose
\* identity it took, exactly the names it listed. The identity that engine.py
\* and review.py compare holds no ctime: for them only while no program sets an
\* mtime back.
Accepted == reader.pc = Len(reader.kind.pass) + 2

SnapshotIsOneMoment ==
  Accepted =>
    LET seen == reader.first
        was == reader.moment
    IN /\ reader.kind.ctime \/ ~restored =>
            \A f \in Files : Read(f) \in DOMAIN seen =>
              f \in DOMAIN was /\ was[f] = seen[Read(f)].halves
       /\ \A d \in Dirs : Id(d) \in DOMAIN seen =>
            {f \in DOMAIN was : DirOf[f] = d} = seen[List(d)]
=============================================================================
