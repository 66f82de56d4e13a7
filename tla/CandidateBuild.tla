---------------------------- MODULE CandidateBuild ----------------------------
(***************************************************************************)
(* build_candidate of tools/research/m1a_harness.py: blobs are written one *)
(* after the other into a root directory, read back, and the manifest is   *)
(* staged, read back and renamed over manifest.json as the only mark that  *)
(* the candidate is complete. A builder may be killed between any two      *)
(* steps; another run, or another builder at the same time, finds what it  *)
(* left.                                                                   *)
(*                                                                         *)
(* The root maps a file name to its content: the name of a payload is its  *)
(* place in the layout, and a content is a blob, the blobs a manifest      *)
(* describes, or Torn while a write is not complete. Blobs come in the     *)
(* order of their logical paths; the digests are the blobs themselves.     *)
(***************************************************************************)
EXTENDS Naturals, Sequences

CONSTANTS Builders,
          BlobSets,   \* what may be asked for: a set of sequences of blobs
          Torn,       \* the content of a file that is being written
          Foreign,    \* a content that no builder writes
          MaxBuilds,  \* bound: builds that are begun
          MaxForeign  \* bound: entries that other programs add

BuildBounds ==
  /\ MaxBuilds \in Nat /\ MaxForeign \in Nat
  /\ \A blobs \in BlobSets :
       /\ blobs \in Seq({blobs[i] : i \in DOMAIN blobs}) /\ Len(blobs) <= 2
       /\ \A i \in DOMAIN blobs : blobs[i] \notin {Torn, Foreign}
  /\ \A blobs \in BlobSets \cup {<<>>} : <<blobs>> \notin {Torn, Foreign}

VARIABLES root,   \* the files that are there
          build,  \* for every builder its current or last build
          begun   \* builds and foreign entries so far

vars == <<root, build, begun>>

Manifest == "manifest.json"
Pending == ".m1a-manifest.pending"
Payload == <<"payload-000000.bin", "payload-000001.bin">>
PayloadsOf(blobs) == {Payload[i] : i \in DOMAIN blobs}
Names == {Manifest, Pending, "stray"} \cup {Payload[i] : i \in DOMAIN Payload}

With(name, content) ==
  [n \in DOMAIN root \cup {name} |-> IF n = name THEN content ELSE root[n]]

\* _actual_payload_tree: exactly these names are there, each payload as asked.
HoldsExactly(blobs, extra) ==
  /\ DOMAIN root = PayloadsOf(blobs) \cup extra
  /\ \A i \in DOMAIN blobs : root[Payload[i]] = blobs[i]

\* _manifest_describes_complete_tree: the manifest alone says what must be there.
DescribesTree ==
  /\ Manifest \in DOMAIN root
  /\ \E blobs \in BlobSets : root[Manifest] = <<blobs>> /\ HoldsExactly(blobs, {Manifest})

\* candidate_state
State == CASE DOMAIN root = {} -> "empty"
           [] DescribesTree -> "complete"
           [] OTHER -> "incomplete"

----------------------------------------------------------------------------
NoBuild == [pc |-> "idle", blobs |-> <<>>, i |-> 1]

Init == /\ root = [n \in {} |-> Torn]
        /\ build = [b \in Builders |-> NoBuild]
        /\ begun = [builds |-> 0, foreign |-> 0]

Goto(b, pc) == build' = [build EXCEPT ![b].pc = pc]

\* The first look at the root decides; an incomplete one is refused.
Enter(b) ==
  /\ build[b].pc \in {"idle", "done", "refused"} /\ begun.builds < MaxBuilds
  /\ \E blobs \in BlobSets :
       build' = [build EXCEPT ![b] =
         [blobs |-> blobs, i |-> 1,
          pc |-> CASE State = "empty" -> IF blobs = <<>> THEN "payloads" ELSE "create"
                   [] State = "complete" -> "validate"
                   [] State = "incomplete" -> "refused"]]
  /\ begun' = [begun EXCEPT !.builds = @ + 1]
  /\ UNCHANGED root

\* _write_root_file_exclusive: the file must not exist; it is empty, then whole.
CreateReplacing(b) ==
  /\ build[b].pc = "create"
  /\ root' = With(Payload[build[b].i], Torn)
  /\ Goto(b, "fill") /\ UNCHANGED begun

Create(b) ==
  /\ build[b].pc = "create" /\ Payload[build[b].i] \notin DOMAIN root
  /\ root' = With(Payload[build[b].i], Torn)
  /\ Goto(b, "fill") /\ UNCHANGED begun

Fill(b) ==
  LET blobs == build[b].blobs  i == build[b].i
  IN /\ build[b].pc = "fill"
     /\ root' = With(Payload[i], blobs[i])
     /\ build' = [build EXCEPT ![b].pc = IF i = Len(blobs) THEN "payloads" ELSE "create",
                               ![b].i = IF i = Len(blobs) THEN i ELSE i + 1]
     /\ UNCHANGED begun

CheckPayloads(b) ==
  /\ build[b].pc = "payloads" /\ HoldsExactly(build[b].blobs, {})
  /\ Goto(b, "stage") /\ UNCHANGED <<root, begun>>

CreateManifest(b) ==
  /\ build[b].pc = "stage" /\ Pending \notin DOMAIN root
  /\ root' = With(Pending, Torn)
  /\ Goto(b, "fill manifest") /\ UNCHANGED begun

FillManifest(b) ==
  /\ build[b].pc = "fill manifest"
  /\ root' = With(Pending, <<build[b].blobs>>)
  /\ Goto(b, "staged") /\ UNCHANGED begun

CheckStaged(b) ==
  /\ build[b].pc = "staged" /\ HoldsExactly(build[b].blobs, {Pending})
  /\ root[Pending] = <<build[b].blobs>>
  /\ Goto(b, "commit") /\ UNCHANGED <<root, begun>>

\* os.replace: the staged manifest takes the name, whatever was there.
CommitManifest(b) ==
  /\ build[b].pc = "commit" /\ Pending \in DOMAIN root
  /\ root' = [n \in (DOMAIN root \cup {Manifest}) \ {Pending} |->
                IF n = Manifest THEN root[Pending] ELSE root[n]]
  /\ Goto(b, "validate") /\ UNCHANGED begun

\* _validate_existing_candidate, of what was just built or was there before: the
\* payloads, then the manifest and once more everything that it describes.
ValidatePayloads(b) ==
  /\ build[b].pc = "validate" /\ HoldsExactly(build[b].blobs, {Manifest})
  /\ Goto(b, "manifest") /\ UNCHANGED <<root, begun>>

ValidateManifest(b) ==
  /\ build[b].pc = "manifest"
  /\ DescribesTree /\ root[Manifest] = <<build[b].blobs>>
  /\ Goto(b, "done") /\ UNCHANGED <<root, begun>>

\* Any check that fails, any error of the disk, or a kill: nothing is undone.
Stop(b) ==
  /\ build[b].pc \notin {"idle", "done", "refused"}
  /\ Goto(b, "refused") /\ UNCHANGED <<root, begun>>

\* Another program adds an entry, or fills in what was not there.
Intrude ==
  /\ begun.foreign < MaxForeign
  /\ \E n \in Names \ DOMAIN root : root' = With(n, Foreign)
  /\ begun' = [begun EXCEPT !.foreign = @ + 1]
  /\ UNCHANGED build

Build(b) == \/ Enter(b) \/ Create(b) \/ Fill(b) \/ CheckPayloads(b)
            \/ CreateManifest(b) \/ FillManifest(b) \/ CheckStaged(b)
            \/ CommitManifest(b) \/ ValidatePayloads(b) \/ ValidateManifest(b) \/ Stop(b)

Next == Intrude \/ \E b \in Builders : Build(b)

Spec == Init /\ [][Next]_vars

----------------------------------------------------------------------------
BuildTypeOK ==
  /\ DOMAIN root \subseteq Names
  /\ \A n \in DOMAIN root :
       root[n] \in {Torn, Foreign} \/ (IF n \in {Manifest, Pending}
         THEN root[n] \in {<<blobs>> : blobs \in BlobSets}
         ELSE \E blobs \in BlobSets, i \in 1..Len(Payload) :
                n = Payload[i] /\ i \in DOMAIN blobs /\ root[n] = blobs[i])
  /\ \A b \in Builders : build[b].blobs \in BlobSets \cup {<<>>}

\* Whatever was killed, and however builders met in the root: a candidate that
\* a builder reported holds exactly the blobs that were asked of it and nothing
\* else but what other programs add. Only a build of no blobs has no payload to
\* claim the root with: one that looked before may still leave its manifest
\* pending there, and others may write into what it reported.
Reported(b) == build[b].pc = "done"

CandidateIsExact ==
  \A b \in Builders : Reported(b) =>
    LET blobs == build[b].blobs
    IN /\ root[Manifest] = <<blobs>>
       /\ \A i \in DOMAIN blobs : root[Payload[i]] = blobs[i]
       /\ blobs # <<>> => \A n \in DOMAIN root \ (PayloadsOf(blobs) \cup {Manifest}) :
                            \/ root[n] = Foreign
                            \/ n = Pending /\ root[n] \in {Torn, <<<<>>>>}
=============================================================================
