--------------------------- MODULE LocalisationPaths ---------------------------
(***************************************************************************)
(* Where files go: the candidate path of a localisation file and the check *)
(* that no two files collide there (engine.py), the same check on logical  *)
(* paths in tools/research/m1a_harness.py, and the checks that the         *)
(* directories a command reads and writes lie apart                        *)
(* (package_reviewed_mod.py, consolidate_reviewed_mod.py).                 *)
(*                                                                         *)
(* A path is a sequence of names. A name is [fold, spelling, kind]: names  *)
(* with one fold are one name on a disk that ignores case and              *)
(* normalisation; kind is "english" or "replace" for those spelled so,     *)
(* "like replace" for a disguise, "l_english" for a file name with that    *)
(* ending, "l_russian" for its Russian form and "plain" for the others.    *)
(***************************************************************************)
EXTENDS Integers, Sequences, FiniteSets, SequencesExt

Name(fold, spelling, kind) == [fold |-> <<fold>>, spelling |-> spelling, kind |-> kind]
Fold(path) == [i \in DOMAIN path |-> path[i].fold]

IsBelow(p, q) == Len(q) < Len(p) /\ SubSeq(p, 1, Len(q)) = q
\* _paths_overlap
Overlap(p, q) == p = q \/ IsBelow(p, q) \/ IsBelow(q, p)

----------------------------------------------------------------------------
\* _candidate_relative, for a path below localisation: the language directory
\* goes, whatever its case, and the file takes its Russian name.
Russian(name) == IF name.kind = "l_english" THEN [name EXCEPT !.kind = "l_russian",
                                                              !.fold = Append(@, "russian")]
                 ELSE name
Tail1(path) == IF path[1].fold = <<"english">> THEN Tail(path) ELSE path

Mappable(path) ==
  /\ Tail1(path) # <<>>
  /\ Tail1(path)[1].kind = "replace" => path[1].kind = "english"

CandidateRelative(path) ==
  LET tail == Tail1(path) IN [tail EXCEPT ![Len(tail)] = Russian(@)]

\* _is_qualified_replace_path and _unsupported_replace_layer
QualifiedReplace(path) ==
  Len(path) >= 3 /\ path[1].kind = "english" /\ path[2].kind = "replace"
UnsupportedReplaceLayer(path) ==
  /\ Len(path) >= 2 /\ ~QualifiedReplace(path)
  /\ \E i \in 1..(Len(path) - 1) : path[i].kind \in {"replace", "like replace"}

\* _validate_candidate_path_mappings: file after file, the folded paths of the
\* files and the spellings of the directories above them.
NoMapping == [ok |-> TRUE, files |-> {}, dirs |-> {}]

MappedFilesOnly(map, path) ==
  [ok |-> map.ok /\ Fold(path) \notin map.files,
   files |-> map.files \cup {Fold(path)}, dirs |-> map.dirs]

Mapped(map, path) ==
  LET key == Fold(path)
      above == {SubSeq(path, 1, n) : n \in 1..(Len(path) - 1)}
      taken(k) == k \in map.files \/ \E d \in map.dirs : Fold(d) = k
  IN [ok |-> /\ map.ok /\ ~taken(key)
             /\ \A d \in above :
                  /\ Fold(d) \notin map.files
                  /\ \A other \in map.dirs : Fold(other) = Fold(d) => other = d,
      files |-> map.files \cup {key},
      dirs |-> map.dirs \cup above]

MappingAccepts(paths) == FoldLeft(Mapped, NoMapping, paths).ok

\* snapshot_sources and build_candidate of the harness: the same in other words.
NoLayout == [ok |-> TRUE, keys |-> {}, parents |-> {}]

LaidOut(layout, path) ==
  LET key == Fold(path)
      above == {SubSeq(path, 1, n) : n \in 1..(Len(path) - 1)}
  IN [ok |-> /\ layout.ok /\ key \notin layout.keys
             /\ \A d \in above, other \in layout.parents :
                  Fold(other) = Fold(d) => other = d
             /\ \A k \in layout.keys : ~(IsBelow(k, key) \/ IsBelow(key, k)),
      keys |-> layout.keys \cup {key},
      parents |-> layout.parents \cup above]

LayoutAccepts(paths) == FoldLeft(LaidOut, NoLayout, paths).ok

\* _validate_portable_paths: an inventory of directories and files, of which the
\* same one may come twice.
NoInventory == [ok |-> TRUE, exact |-> {}, prefixes |-> {}]

Portable(inventory, entry) ==
  LET path == entry.path
      above == {SubSeq(path, 1, n) : n \in 1..(Len(path) - 1)}
      prefixes == inventory.prefixes \cup above
  IN [ok |-> /\ inventory.ok
             /\ \A other \in inventory.exact :
                  /\ Fold(other.path) = Fold(path) => other = entry
                  /\ other.kind = "file" => \A d \in above : Fold(d) # Fold(other.path)
             /\ \A d \in above, other \in inventory.prefixes : Fold(other) = Fold(d) => other = d
             /\ entry.kind = "file" => \A d \in prefixes : Fold(d) # Fold(path),
      exact |-> inventory.exact \cup {entry},
      prefixes |-> prefixes]

PortableAccepts(entries) == FoldLeft(Portable, NoInventory, entries).ok

\* What all three are for, whatever the order of the files: no two are one file or
\* one inside the other, and a directory has one spelling.
Distinct(p, q) ==
  /\ ~Overlap(Fold(p), Fold(q))
  /\ \A n \in 1..(Len(p) - 1) :
       n < Len(q) /\ Fold(SubSeq(p, 1, n)) = Fold(SubSeq(q, 1, n))
         => SubSeq(p, 1, n) = SubSeq(q, 1, n)

AllDistinct(paths) == \A i, j \in DOMAIN paths : i < j => Distinct(paths[i], paths[j])

----------------------------------------------------------------------------
\* A disk is [dirs, links]: the directories by their real path, and the
\* symbolic links with the directory each resolves to. Names are plain here.
Entered(disk, dir, name) ==
  LET path == Append(dir, name)
  IN IF path \in DOMAIN disk.links THEN disk.links[path] ELSE path

\* _physical_path_identity: the deepest part that exists and what is missing
\* below it; the real path of a directory stands for its device and inode.
Physical(disk, path) ==
  LET real[n \in 0..Len(path)] ==
        IF n = 0 THEN <<>> ELSE Entered(disk, real[n - 1], path[n])
      depth == CHOOSE n \in 0..Len(path) :
                 /\ \A m \in 0..n : real[m] \in disk.dirs
                 /\ n < Len(path) => real[n + 1] \notin disk.dirs
  IN [anchor |-> real[depth], missing |-> SubSeq(path, depth + 1, Len(path))]

Exists(physical) == physical.missing = <<>>
Ancestors(physical) ==
  {SubSeq(physical.anchor, 1, n) : n \in 0..Len(physical.anchor)}

\* _physical_paths_overlap, which refuses what it cannot tell apart: two paths
\* that are still missing below one directory.
PhysicalOverlap(l, r) ==
  \/ Exists(l) /\ l.anchor \in Ancestors(r)
  \/ Exists(r) /\ r.anchor \in Ancestors(l)
Unproven(l, r) == ~Exists(l) /\ ~Exists(r) /\ l.anchor = r.anchor

\* _validate_path_relationships and _validate_consolidation_path_relationships:
\* every two of the named paths, those that must exist being there.
Apart(disk, p, q) ==
  LET l == Physical(disk, p)  r == Physical(disk, q)
  IN ~Overlap(p, q) /\ ~PhysicalOverlap(l, r) /\ ~Unproven(l, r)

PathsSeparate(disk, named) ==
  /\ \A i \in DOMAIN named : named[i].exists => Exists(Physical(disk, named[i].path))
  /\ \A i, j \in DOMAIN named : i < j => Apart(disk, named[i].path, named[j].path)

\* Where a path is, or will be once it is made.
PlaceOf(disk, path) == LET p == Physical(disk, path) IN p.anchor \o p.missing

----------------------------------------------------------------------------
\* The directories above some files and the files, each once.
Entry(path, kind) == [path |-> path, kind |-> kind]
Inventory(paths) ==
  LET above == UNION {{SubSeq(p, 1, n) : n \in 1..(Len(p) - 1)} : p \in ToSet(paths)}
  IN SetToSeq({Entry(d, "directory") : d \in above})
       \o SetToSeq({Entry(p, "file") : p \in ToSet(paths)})

\* The paths of the candidates, if every file has one: a single file without
\* refuses the mod.
MappedLists(paths) ==
  IF \A i \in DOMAIN paths : Mappable(paths[i])
    THEN {[i \in DOMAIN paths |-> CandidateRelative(paths[i])]} ELSE {}

\* Every check, in any order of the files, accepts exactly the files that are
\* distinct; what is mapped keeps a place of its own.
FilesApart(paths) ==
  \A p \in {paths} \cup MappedLists(paths) : \A order \in {p, Reverse(p)} :
    /\ MappingAccepts(order) <=> AllDistinct(p)
    /\ LayoutAccepts(order) <=> AllDistinct(p)
    /\ PortableAccepts(Inventory(order)) <=> AllDistinct(SetToSeq(ToSet(p)))

\* Named paths that are accepted never meet, however links lead to them; of
\* those that do not meet, only two that are both missing below one directory
\* are refused.
PlacesApart(disk, named) ==
  LET place == [i \in DOMAIN named |-> PlaceOf(disk, named[i].path)]
      there == \A i \in DOMAIN named : named[i].exists => Exists(Physical(disk, named[i].path))
      meet == \E i, j \in DOMAIN named : i < j /\ Overlap(place[i], place[j])
      written == \E i, j \in DOMAIN named : i < j /\ Overlap(named[i].path, named[j].path)
      unproven == \E i, j \in DOMAIN named :
                    i < j /\ Unproven(Physical(disk, named[i].path), Physical(disk, named[j].path))
  IN /\ PathsSeparate(disk, named) => ~meet
     /\ there /\ ~meet /\ ~written /\ ~unproven => PathsSeparate(disk, named)
=============================================================================
