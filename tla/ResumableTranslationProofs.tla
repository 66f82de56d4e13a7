--------------------- MODULE ResumableTranslationProofs ---------------------
(***************************************************************************)
(* What ResumableTranslation guarantees for every number of processes,     *)
(* workspaces, outputs and occurrences and every bound on the environment. *)
(*                                                                         *)
(* The invariants of the model are not inductive: that a completed job was *)
(* delivered depends on what the process about to record the completion    *)
(* knows, and that in turn on nobody else writing to its workspace since.  *)
(* IInv adds the three missing facts: what an invocation knows at each of  *)
(* its positions (Local), that it holds the lease of the workspace it      *)
(* knows this of (LeaseOK), and what is true of a workspace on its own     *)
(* (JobGood).  An action then has to be looked at for one process and one  *)
(* workspace only; Advance and Withdraw carry the result over to all       *)
(* others, which is where the lease is used.                               *)
(*                                                                         *)
(* The one step that takes a job away is the interruption of its own       *)
(* creation; that only the holder of the lease can be creating a workspace *)
(* (OneCreates) keeps this exception to that one job.                      *)
(*                                                                         *)
(* What it owes its operator stands on that: an answer is paid for once,   *)
(* an output path receives one delivery, and every workspace is a job as   *)
(* TranslationJob describes it. Owed adds that the occurrences an          *)
(* invocation still has in hand are pending in the workspace it leases     *)
(* (InHand), that a row without a result is blank and the job counts the   *)
(* others (RowsGood), that what was delivered is still there unless        *)
(* somebody else touched an output (Deliveries), and that it was promised  *)
(* before (PromisedFirst).                                                 *)
(***************************************************************************)
EXTENDS ResumableTranslation, FiniteSetTheorems, WellFoundedInduction, TLAPS

\* What holds of one invocation at the position l with the locals r, when the
\* file of its workspace holds the job row j and the occurrence rows rs and
\* dl says whether its tree was delivered.
Local(l, r, j, rs, dl) ==
  /\ r.ws \in Ws
  /\ l \notin {"lock", "open", "check"} => r.files \in Files
  /\ l \in {"lock", "open", "check", "identify", "create", "fill", "created",
            "ready"}
       => r.calls = 0
  /\ l \in {"lock", "open"} => (~r.resume => r.files \in Files)
  /\ l = "check" =>
       /\ r.seen = j
       /\ ~r.resume =>
            r.files \in Files /\ r.tree = None /\ j.state = "absent"
       /\ r.resume => j.state \in {"in_progress", "completed"}
       /\ r.tree # None => r.tree = j.tree /\ j.finalization = "intent"
  /\ l = "reconcile" =>
       /\ r.seen = j
       /\ j.finalization = "intent"
       /\ j.state \in {"in_progress", "completed"}
  /\ l = "identify" /\ r.resume =>
       /\ r.seen = j
       /\ j.state = "in_progress"
       /\ r.reused = j.completed_count
       /\ r.files.content = j.content
  /\ l = "identify" /\ ~r.resume => r.seen.finalization = "none"
  /\ l \in {"create", "fill", "created"} =>
       ~r.resume /\ r.identity \in Digest
  /\ l = "fill" => j.state = "torn"
  /\ l = "created" =>
       /\ j.state = "in_progress"
       /\ j.finalization = "none"
       /\ j.completed_count = 0
       /\ r.files.content = j.content
       /\ \A k \in Occ : ~Ended(rs[k])
  /\ l = "ready" =>
       /\ r.seen = j
       /\ j.state = "in_progress"
       /\ r.reused = j.completed_count
       /\ r.files.content = j.content
       /\ j.finalization = "none" => r.identity \in Digest
  /\ l \in {"translate", "commit", "recheck", "intend"} =>
       /\ j.state = "in_progress"
       /\ j.finalization = "none"
       /\ r.files.content = j.content
       /\ r.identity = j.digest
       /\ r.identity \in Digest
       /\ r.reused + r.calls =
            IF l = "commit" THEN j.completed_count + 1 ELSE j.completed_count
  /\ l = "commit" => r.answer.content = j.content
  /\ l = "seal" => j.finalization = "intent"
  /\ l \in {"recheck", "intend"} =>
       /\ r.tree \in Tree
       /\ r.tree.ws = r.ws
       /\ r.tree.content = j.content
       /\ r.tree.digest = j.digest
       /\ r.tree.rows = Rendered(rs)
       /\ r.tree.run_count = j.run_count
       /\ r.tree.reused = r.reused
       /\ r.tree.calls = r.calls
  /\ l = "publish" =>
       /\ Intended(j, r.tree)
       /\ r.tree \in Tree
       /\ r.tree.ws = r.ws
  /\ l \in {"confirm", "complete"} => dl

\* What holds of the workspace v alone.
JobGood(v, j, rs, dl) ==
  /\ j.state \in {"absent", "torn"} =>
       j.finalization = "none" /\ \A k \in Occ : ~Ended(rs[k])
  /\ j.state = "completed" => j.finalization = "intent" /\ dl
  /\ \A k \in Occ : Ended(rs[k]) => rs[k].content = j.content
  /\ j.finalization = "intent" =>
       /\ \A k \in Occ : Ended(rs[k])
       /\ j.completed_count = N
       /\ j.tree \in Tree
       /\ j.tree.ws = v
       /\ j.tree.content = j.content
       /\ j.tree.digest = j.digest
       /\ j.tree.rows = Rendered(rs)
       /\ j.tree.run_count = j.run_count
       /\ j.tree.reused + j.tree.calls = N

LocalAt(p) == Local(pc[p], run[p], job[run[p].ws], rows[run[p].ws],
                    delivered[run[p].ws])

LocalsOK == \A p \in Proc : pc[p] # "idle" => LocalAt(p)
LeaseOK  == \A p \in Proc : pc[p] \in Held => lease[run[p].ws] = p
JobsOK   == \A v \in Ws : JobGood(v, job[v], rows[v], delivered[v])

IInv == TypeOK /\ LocalsOK /\ LeaseOK /\ JobsOK /\ PublishedIsIntended

-----------------------------------------------------------------------------
\* Only p moved, and only the durable state of its workspace w changed.
OnlyOwn(p, w) ==
  /\ \A q \in Proc : q # p => pc'[q] = pc[q] /\ run'[q] = run[q]
  /\ \A v \in Ws : v # w =>
       /\ job'[v] = job[v]
       /\ rows'[v] = rows[v]
       /\ delivered'[v] = delivered[v]

\* A process that goes on, and changes at most the durable state of a workspace
\* it has leased, preserves IInv when it does so for itself and its workspace.
LEMMA Advance ==
  ASSUME IInv, TypeOK', NEW p \in Proc, NEW w \in Ws,
         (pc[p] \in Held /\ run[p].ws = w) \/ UNCHANGED <<job, rows, delivered>>,
         run'[p].ws = w,
         \A v \in Ws : lease'[v] = lease[v] \/ lease[v] = None,
         pc'[p] \in Held => lease'[w] = p,
         OnlyOwn(p, w),
         LocalAt(p)',
         JobGood(w, job'[w], rows'[w], delivered'[w]),
         job[w].finalization = "intent" /\ delivered[w] =>
           /\ job'[w].finalization = "intent"
           /\ job'[w].tree = job[w].tree
           /\ delivered'[w],
         \A o \in Out :
           \/ output'[o] = output[o]
           \/ /\ output'[o].ws = w /\ OutOf[w] = o
              /\ Intended(job'[w], output'[o])
              /\ delivered'[w]
  PROVE  IInv'
<1>1. LeaseOK'
  <2> SUFFICES ASSUME NEW q \in Proc, pc'[q] \in Held, q # p
               PROVE  lease'[run'[q].ws] = q
    BY DEF LeaseOK
  <2>1. /\ run'[q] = run[q] /\ pc'[q] = pc[q]
        /\ lease[run[q].ws] = q
    BY DEF IInv, LeaseOK, OnlyOwn
  <2>2. run[q].ws \in Ws
    BY <2>1 DEF IInv, LocalsOK, LocalAt, Local, Held
  <2> QED BY <2>1, <2>2, ConstantsAssumption
<1>2. LocalsOK'
  <2> SUFFICES ASSUME NEW q \in Proc, pc'[q] # "idle", q # p
               PROVE  LocalAt(q)'
    BY DEF LocalsOK
  <2>1. LocalAt(q) /\ run'[q] = run[q] /\ pc'[q] = pc[q]
    BY DEF IInv, LocalsOK, OnlyOwn
  <2>2. run[q].ws \in Ws
    BY <2>1 DEF LocalAt, Local
  <2>3. CASE run[q].ws # w \/ UNCHANGED <<job, rows, delivered>>
    BY <2>1, <2>2, <2>3 DEF LocalAt, OnlyOwn
  <2>4. CASE run[q].ws = w /\ pc[p] \in Held /\ run[p].ws = w
    <3>1. pc[q] = "lock"
      BY <2>1, <2>4 DEF IInv, LeaseOK, TypeOK
    <3>2. LocalAt(q)' = Local("lock", run[q], job'[w], rows'[w], delivered'[w])
      BY <3>1, <2>1, <2>4 DEF LocalAt
    <3> QED
      BY <3>1, <3>2, <2>1 DEF LocalAt, Local
  <2> QED BY <2>3, <2>4
<1>3. JobsOK'
  BY DEF IInv, JobsOK, OnlyOwn
<1>4. PublishedIsIntended'
  <2> SUFFICES ASSUME NEW o \in Out, output'[o] \notin {None, Foreign}
               PROVE  /\ OutOf[output'[o].ws] = o
                      /\ Intended(job'[output'[o].ws], output'[o])
                      /\ delivered'[output'[o].ws]
    BY DEF PublishedIsIntended, Intended
  <2>1. CASE output'[o] = output[o]
    <3>1. output[o] \in Tree
      BY <2>1 DEF IInv, TypeOK
    <3>2. output[o].ws \in Ws
      BY <3>1 DEF Tree
    <3>3. /\ OutOf[output[o].ws] = o
          /\ Intended(job[output[o].ws], output[o])
          /\ delivered[output[o].ws]
      BY <2>1 DEF IInv, PublishedIsIntended
    <3> QED BY <2>1, <3>2, <3>3 DEF OnlyOwn, Intended
  <2>2. CASE output'[o] # output[o]
    BY <2>2
  <2> QED BY <2>1, <2>2
<1> QED BY <1>1, <1>2, <1>3, <1>4 DEF IInv

\* The same for a process that returns or is stopped and gives up its lease.
LEMMA Withdraw ==
  ASSUME IInv, TypeOK', NEW p \in Proc, NEW w \in Ws,
         w = run[p].ws, pc[p] # "idle", Leave(p),
         pc[p] \in Held \/ UNCHANGED <<job, rows, delivered>>,
         OnlyOwn(p, w),
         JobGood(w, job'[w], rows'[w], delivered'[w]),
         job[w].finalization = "intent" /\ delivered[w] =>
           /\ job'[w].finalization = "intent"
           /\ job'[w].tree = job[w].tree
           /\ delivered'[w],
         output' = output
  PROVE  IInv'
<1>1. pc'[p] = "idle"
  BY DEF Leave, Goto, IInv, TypeOK
<1>2. LeaseOK'
  <2> SUFFICES ASSUME NEW q \in Proc, pc'[q] \in Held
               PROVE  lease'[run'[q].ws] = q
    BY DEF LeaseOK
  <2>1. q # p
    BY <1>1 DEF Held
  <2>2. /\ run'[q] = run[q] /\ pc'[q] = pc[q]
        /\ lease[run[q].ws] = q
    BY <2>1 DEF IInv, LeaseOK, OnlyOwn
  <2>3. run[q].ws \in Ws
    BY <2>2 DEF IInv, LocalsOK, LocalAt, Local, Held
  <2> QED BY <2>1, <2>2, <2>3 DEF Leave
<1>3. LocalsOK'
  <2> SUFFICES ASSUME NEW q \in Proc, pc'[q] # "idle"
               PROVE  LocalAt(q)'
    BY DEF LocalsOK
  <2>1. q # p
    BY <1>1
  <2>2. LocalAt(q) /\ run'[q] = run[q] /\ pc'[q] = pc[q]
    BY <2>1 DEF IInv, LocalsOK, OnlyOwn
  <2>3. run[q].ws \in Ws
    BY <2>2 DEF LocalAt, Local
  <2>4. CASE run[q].ws # w \/ UNCHANGED <<job, rows, delivered>>
    BY <2>2, <2>3, <2>4 DEF LocalAt, OnlyOwn
  <2>5. CASE run[q].ws = w /\ pc[p] \in Held
    <3>1. pc[q] = "lock"
      BY <2>1, <2>2, <2>5 DEF IInv, LeaseOK, TypeOK
    <3>2. LocalAt(q)' = Local("lock", run[q], job'[w], rows'[w], delivered'[w])
      BY <3>1, <2>2, <2>5 DEF LocalAt
    <3> QED
      BY <3>1, <3>2, <2>2 DEF LocalAt, Local
  <2> QED BY <2>4, <2>5
<1>4. JobsOK'
  BY DEF IInv, JobsOK, OnlyOwn
<1>5. PublishedIsIntended'
  <2> SUFFICES ASSUME NEW o \in Out, output[o] \notin {None, Foreign}
               PROVE  /\ OutOf[output[o].ws] = o
                      /\ Intended(job'[output[o].ws], output[o])
                      /\ delivered'[output[o].ws]
    BY DEF PublishedIsIntended, Intended
  <2>1. output[o].ws \in Ws
    BY DEF IInv, TypeOK, Tree
  <2>2. /\ OutOf[output[o].ws] = o
        /\ Intended(job[output[o].ws], output[o])
        /\ delivered[output[o].ws]
    BY DEF IInv, PublishedIsIntended
  <2> QED BY <2>1, <2>2 DEF OnlyOwn, Intended
<1> QED BY <1>2, <1>3, <1>4, <1>5 DEF IInv

-----------------------------------------------------------------------------
\* What IInv says of a process that is running.
LEMMA Facts ==
  ASSUME IInv, NEW p \in Proc, pc[p] # "idle"
  PROVE  /\ run \in [Proc -> Run] /\ run[p] \in Run /\ run[p].ws \in Ws
         /\ job[run[p].ws] \in Job
         /\ rows[run[p].ws] \in [Occ -> Row]
         /\ delivered[run[p].ws] \in BOOLEAN
         /\ Local(pc[p], run[p], job[run[p].ws], rows[run[p].ws],
                  delivered[run[p].ws])
         /\ JobGood(run[p].ws, job[run[p].ws], rows[run[p].ws],
                    delivered[run[p].ws])
<1>1. LocalAt(p) /\ TypeOK /\ JobsOK
  BY DEF IInv, LocalsOK
<1>2. run[p].ws \in Ws
  BY <1>1 DEF LocalAt, Local
<1> QED BY <1>1, <1>2 DEF TypeOK, LocalAt, JobsOK

\* A step that writes nothing durable.
LEMMA QuietStep ==
  ASSUME IInv, NEW p \in Proc, NEW l \in Held \cup {"lock"}, NEW r \in Run,
         Goto(p, l), run' = [run EXCEPT ![p] = r],
         UNCHANGED <<durable, world>>,
         lease' \in [Ws -> Proc \cup {None}],
         \A v \in Ws : lease'[v] = lease[v] \/ lease[v] = None,
         l \in Held => lease'[r.ws] = p,
         Local(l, r, job[r.ws], rows[r.ws], delivered[r.ws])
  PROVE  IInv'
<1>1. UNCHANGED <<job, rows, delivered, output, source, provider, spent>>
  BY DEF durable, world
<1>2. run \in [Proc -> Run] /\ pc \in [Proc -> Held \cup {"idle", "lock"}]
  BY DEF IInv, TypeOK
<1>3. /\ run' \in [Proc -> Run] /\ run'[p] = r
      /\ \A q \in Proc : q # p => run'[q] = run[q]
  BY <1>2
<1>4. /\ pc' \in [Proc -> Held \cup {"idle", "lock"}] /\ pc'[p] = l
      /\ \A q \in Proc : q # p => pc'[q] = pc[q]
  BY <1>2 DEF Goto
<1>5. TypeOK'
  BY <1>1, <1>3, <1>4 DEF IInv, TypeOK
<1>6. r.ws \in Ws
  BY DEF Local
<1>7. LocalAt(p)'
  BY <1>1, <1>3, <1>4 DEF LocalAt
<1>8. JobGood(r.ws, job'[r.ws], rows'[r.ws], delivered'[r.ws])
  BY <1>1, <1>6 DEF IInv, JobsOK
<1>9. OnlyOwn(p, r.ws)
  BY <1>1, <1>3, <1>4 DEF OnlyOwn
<1> QED BY <1>1, <1>3, <1>4, <1>5, <1>6, <1>7, <1>8, <1>9, Advance

\* What Leave changes, and what it leaves alone.
LeftBehind(p) ==
  /\ run' \in [Proc -> Run]
  /\ pc' \in [Proc -> Held \cup {"idle", "lock"}]
  /\ lease' \in [Ws -> Proc \cup {None}]
  /\ \A q \in Proc : q # p => pc'[q] = pc[q] /\ run'[q] = run[q]

\* Leaving keeps the types and moves nobody else.
LEMMA LeaveFacts ==
  ASSUME IInv, NEW p \in Proc, Leave(p)
  PROVE  LeftBehind(p)
<1>1. /\ run \in [Proc -> Run] /\ pc \in [Proc -> Held \cup {"idle", "lock"}]
      /\ lease \in [Ws -> Proc \cup {None}]
  BY DEF IInv, TypeOK
<1>2. IdleRun \in Run
  BY DEF IdleRun, Run, NoJob, Job, Pending, Row
<1> QED BY <1>1, <1>2 DEF Leave, Goto, LeftBehind

\* A refused or finished invocation that wrote nothing preserves IInv.
LEMMA QuietLeave ==
  ASSUME IInv, NEW p \in Proc, pc[p] # "idle", Leave(p),
         UNCHANGED <<durable, world>>
  PROVE  IInv'
<1>1. UNCHANGED <<job, rows, delivered, output, source, provider, spent>>
  BY DEF durable, world
<1>2. LeftBehind(p)
  BY LeaveFacts
<1>3. TypeOK'
  BY <1>1, <1>2 DEF IInv, TypeOK, LeftBehind
<1>4. /\ run[p].ws \in Ws
      /\ JobGood(run[p].ws, job'[run[p].ws], rows'[run[p].ws],
                 delivered'[run[p].ws])
  BY <1>1, Facts
<1>5. OnlyOwn(p, run[p].ws)
  BY <1>1, <1>2 DEF OnlyOwn, LeftBehind
<1> QED BY <1>1, <1>3, <1>4, <1>5, Withdraw

\* Unchanged locals are a trivial update of the locals of p.
LEMMA SameRun ==
  ASSUME IInv, NEW p \in Proc, run' = run
  PROVE  run' = [run EXCEPT ![p] = run[p]]
BY DEF IInv, TypeOK

\* Starting a command preserves IInv.
LEMMA StartStep ==
  ASSUME IInv, NEW p \in Proc, NEW w \in Ws, NEW resume \in BOOLEAN,
         Start(p, w, resume)
  PROVE  IInv'
<1> DEFINE r == [IdleRun EXCEPT !.ws = w, !.resume = resume,
                   !.files = IF resume THEN None ELSE source]
<1>1. /\ r \in Run
      /\ r.ws = w /\ r.resume = resume /\ r.calls = 0
      /\ ~resume => r.files = source
  BY DEF IInv, TypeOK, Run, IdleRun, NoJob, Job, Pending, Row
<1>2. source \in Files
  BY DEF IInv, TypeOK
<1>3. run' = [run EXCEPT ![p] = r] /\ Goto(p, "lock")
      /\ UNCHANGED <<durable, world>> /\ lease' = lease
  BY DEF Start, durable, world
<1>4. Local("lock", r, job[w], rows[w], delivered[w])
  <2> HIDE DEF r
  <2> QED BY <1>1, <1>2 DEF Local
<1>5. lease' \in [Ws -> Proc \cup {None}]
  BY SMTT(60), <1>3 DEF IInv, TypeOK
<1> HIDE DEF r
<1> QED BY <1>1, <1>3, <1>4, <1>5, QuietStep DEF Held

\* Taking the lease preserves IInv: nobody else held it.
LEMMA AcquireStep ==
  ASSUME IInv, NEW p \in Proc, Acquire(p)
  PROVE  IInv'
<1> DEFINE r == run[p]
<1>1. /\ pc[p] = "lock" /\ lease[r.ws] = None
      /\ lease' = [lease EXCEPT ![r.ws] = p]
      /\ Goto(p, "open") /\ run' = run /\ UNCHANGED <<durable, world>>
  BY DEF Acquire, ws, durable, world
<1>2. /\ r \in Run /\ r.ws \in Ws
      /\ Local("lock", r, job[r.ws], rows[r.ws], delivered[r.ws])
  BY <1>1, Facts
<1>3. Local("open", r, job[r.ws], rows[r.ws], delivered[r.ws])
  BY <1>2 DEF Local
<1>4. lease \in [Ws -> Proc \cup {None}]
  BY DEF IInv, TypeOK
<1>5. /\ lease' \in [Ws -> Proc \cup {None}]
      /\ lease'[r.ws] = p
      /\ \A v \in Ws : lease'[v] = lease[v] \/ lease[v] = None
  <2> HIDE DEF r
  <2> QED BY <1>1, <1>2, <1>4
<1>6. run' = [run EXCEPT ![p] = r]
  BY SMTT(60), <1>1, SameRun
<1> QED BY <1>1, <1>2, <1>3, <1>5, <1>6, QuietStep DEF Held

\* Open preserves IInv: it loads the job row under the lease.
LEMMA OpenStep ==
  ASSUME IInv, NEW p \in Proc, Open(p)
  PROVE  IInv'
<1> DEFINE w == run[p].ws
           j == job[w]
           todo == IF run[p].resume
                   THEN {k \in Occ : ~Ended(rows[w][k])} ELSE {}
           tree == IF output[OutOf[w]] = None THEN None ELSE j.tree
           r == [run[p] EXCEPT !.seen = j, !.todo = todo, !.tree = tree]
<1>1. /\ pc[p] = "open" /\ OpenAllowed(p)
      /\ run' = [run EXCEPT ![p].seen = j, ![p].todo = todo, ![p].tree = tree]
      /\ Goto(p, "check") /\ lease' = lease /\ UNCHANGED <<durable, world>>
  BY DEF Open, ws, out, durable, world
<1>2. /\ run \in [Proc -> Run] /\ run[p] \in Run /\ w \in Ws /\ j \in Job
      /\ Local("open", run[p], j, rows[w], delivered[w])
  BY <1>1, Facts
<1>3. todo \in SUBSET Occ /\ tree \in Tree \cup {None}
  BY <1>2 DEF Job
<1>4. /\ run[p].resume =>
           /\ j.state \in {"in_progress", "completed"}
           /\ tree # None => tree = j.tree /\ j.finalization = "intent"
      /\ ~run[p].resume => tree = None /\ j.state = "absent"
  BY <1>1 DEF OpenAllowed, ws, out
<1>5. lease[w] = p /\ lease \in [Ws -> Proc \cup {None}]
  BY <1>1 DEF IInv, LeaseOK, TypeOK, Held
<1>6. run' = [run EXCEPT ![p] = r]
  <2> HIDE DEF w, j, todo, tree
  <2> QED BY <1>1, <1>2
<1>7. /\ r \in Run /\ r.ws = run[p].ws /\ r.seen = j /\ r.tree = tree
      /\ r.resume = run[p].resume /\ r.files = run[p].files
      /\ r.calls = run[p].calls
  <2> HIDE DEF w, j, todo, tree
  <2> QED BY <1>2, <1>3 DEF Run
<1>8. Local("check", r, j, rows[w], delivered[w])
  <2> HIDE DEF w, j, todo, tree, r
  <2> QED BY <1>2, <1>4, <1>7 DEF Local
<1> HIDE DEF tree, todo, r
<1> QED BY <1>1, <1>5, <1>6, <1>7, <1>8, QuietStep DEF Held

\* Check preserves IInv: it ties the source snapshot to the job row.
LEMMA CheckStep ==
  ASSUME IInv, NEW p \in Proc, Check(p)
  PROVE  IInv'
<1> DEFINE w == run[p].ws
           j == job[w]
           seen == run[p].seen
           id == IF seen.finalization = "intent" THEN seen.digest ELSE None
           r == [run[p] EXCEPT !.files = source,
                               !.reused = seen.completed_count,
                               !.identity = id]
           l == IF run[p].tree = None THEN "identify" ELSE "reconcile"
<1>1. /\ pc[p] = "check" /\ CheckAllowed(p)
      /\ run[p].tree = None => seen.state # "completed"
      /\ run' = [run EXCEPT ![p].files = source,
                            ![p].reused = seen.completed_count,
                            ![p].identity = id]
      /\ Goto(p, l) /\ lease' = lease /\ UNCHANGED <<durable, world>>
  BY DEF Check, durable, world
<1>2. /\ run \in [Proc -> Run] /\ run[p] \in Run /\ w \in Ws /\ j \in Job
      /\ Local("check", run[p], j, rows[w], delivered[w])
      /\ JobGood(w, j, rows[w], delivered[w])
  BY <1>1, Facts
<1>3. source \in Files /\ seen.completed_count \in Nat
      /\ id \in Digest \cup {None} /\ seen.finalization \in {"none", "intent"}
  BY <1>2 DEF IInv, TypeOK, Run, Job
<1>4. run[p].resume => source.content = seen.content
  BY <1>1 DEF CheckAllowed
<1>5. lease[w] = p /\ lease \in [Ws -> Proc \cup {None}]
  BY <1>1 DEF IInv, LeaseOK, TypeOK, Held
<1>6. run' = [run EXCEPT ![p] = r]
  <2> HIDE DEF id, seen
  <2> QED BY <1>1, <1>2
<1>7. /\ r \in Run /\ r.ws = run[p].ws /\ r.seen = seen
      /\ r.tree = run[p].tree /\ r.resume = run[p].resume
      /\ r.files = source /\ r.calls = run[p].calls
      /\ r.reused = seen.completed_count /\ r.identity = id
  <2> HIDE DEF id
  <2> QED BY <1>2, <1>3 DEF Run
<1>8. Local(l, r, j, rows[w], delivered[w])
  <2>1. /\ seen = j
        /\ ~run[p].resume => run[p].tree = None /\ j.state = "absent"
        /\ run[p].resume => j.state \in {"in_progress", "completed"}
        /\ run[p].tree # None => j.finalization = "intent"
        /\ run[p].calls = 0
    BY <1>2 DEF Local
  <2> HIDE DEF w, j, r, seen
  <2>2. CASE run[p].tree = None
    <3>1. Local("identify", r, j, rows[w], delivered[w])
      <4>1. CASE run[p].resume
        BY <1>1, <1>2, <1>3, <1>4, <1>7, <2>1, <2>2, <4>1 DEF Local, w
      <4>2. CASE ~run[p].resume
        <5>1. j.finalization = "none"
          BY <1>2, <2>1, <4>2 DEF JobGood
        <5> QED BY <1>2, <1>3, <1>7, <2>1, <2>2, <4>2, <5>1 DEF Local, w
      <4> QED BY <4>1, <4>2
    <3> QED BY <3>1, <2>2
  <2>3. CASE run[p].tree # None
    <3>1. run[p].resume
      BY <2>1, <2>3
    <3>2. Local("reconcile", r, j, rows[w], delivered[w])
      BY <1>2, <1>3, <1>7, <2>1, <2>3, <3>1 DEF Local, w
    <3> QED BY <3>2, <2>3
  <2> QED BY <2>2, <2>3
<1>9. l \in Held
  BY DEF Held
<1> HIDE DEF id, r, l
<1> QED BY <1>1, <1>5, <1>6, <1>7, <1>8, <1>9, QuietStep

\* Reconcile preserves IInv: it goes on only when the tree in place is the
\* intended one, which by PublishedIsIntended was delivered.
LEMMA ReconcileStep ==
  ASSUME IInv, NEW p \in Proc, Reconcile(p)
  PROVE  IInv'
<1> DEFINE w == run[p].ws
           j == job[w]
           r == run[p]
<1>1. /\ pc[p] = "reconcile" /\ ReconcileAllowed(p)
      /\ UNCHANGED <<durable, world>>
  BY DEF Reconcile, durable, world
<1>2. /\ run \in [Proc -> Run] /\ r \in Run /\ w \in Ws /\ j \in Job
      /\ Local("reconcile", r, j, rows[w], delivered[w])
      /\ JobGood(w, j, rows[w], delivered[w])
  BY <1>1, Facts
<1>3. lease[w] = p /\ lease \in [Ws -> Proc \cup {None}]
  BY <1>1 DEF IInv, LeaseOK, TypeOK, Held
<1>4. r.seen = j /\ j.finalization = "intent" /\ r.files \in Files
  BY <1>2 DEF Local
<1>5. delivered[w]
  <2> DEFINE t == j.tree
  <2>1. output[OutOf[w]] = t /\ t \in Tree /\ t.ws = w
    BY <1>1, <1>2, <1>4 DEF ReconcileAllowed, JobGood, out
  <2>2. OutOf[w] \in Out
    BY <1>2, ConstantsAssumption
  <2> QED BY SMTT(60), <2>1, <2>2, ConstantsAssumption DEF IInv, PublishedIsIntended
<1>6. CASE run[p].seen.state = "in_progress"
  <2>1. Goto(p, "complete") /\ run' = run /\ lease' = lease
    BY <1>6 DEF Reconcile
  <2>2. Local("complete", r, j, rows[w], delivered[w])
    BY <1>2, <1>4, <1>5 DEF Local
  <2>3. run' = [run EXCEPT ![p] = r]
    BY <2>1, SameRun
  <2> QED BY <1>1, <1>2, <1>3, <2>1, <2>2, <2>3, QuietStep DEF Held
<1>7. CASE run[p].seen.state # "in_progress"
  <2>1. Leave(p)
    BY <1>7 DEF Reconcile
  <2> QED BY <1>1, <2>1, QuietLeave
<1> QED BY <1>6, <1>7

\* Identify preserves IInv: it learns the model identity.
LEMMA IdentifyStep ==
  ASSUME IInv, NEW p \in Proc, Identify(p)
  PROVE  IInv'
<1> DEFINE w == run[p].ws
           j == job[w]
           seen == run[p].seen
           id == IF seen.finalization = "intent" THEN seen.digest ELSE provider
           r == [run[p] EXCEPT !.identity = id]
           l == IF run[p].resume THEN "ready" ELSE "create"
<1>1. /\ pc[p] = "identify" /\ SourceUnmoved(p)
      /\ run' = [run EXCEPT ![p].identity = id]
      /\ Goto(p, l) /\ lease' = lease /\ UNCHANGED <<durable, world>>
  BY DEF Identify, durable, world
<1>2. /\ run \in [Proc -> Run] /\ run[p] \in Run /\ w \in Ws /\ j \in Job
      /\ Local("identify", run[p], j, rows[w], delivered[w])
  BY <1>1, Facts
<1>3. id \in Digest \cup {None} /\ (seen.finalization = "none" => id \in Digest)
  BY <1>2 DEF IInv, TypeOK, Run, Job
<1>4. lease[w] = p /\ lease \in [Ws -> Proc \cup {None}]
  BY <1>1 DEF IInv, LeaseOK, TypeOK, Held
<1>5. run' = [run EXCEPT ![p] = r]
  <2> HIDE DEF id, seen
  <2> QED BY <1>1, <1>2
<1>6. /\ r \in Run /\ r.ws = run[p].ws /\ r.seen = seen
      /\ r.resume = run[p].resume /\ r.files = run[p].files
      /\ r.calls = run[p].calls /\ r.reused = run[p].reused
      /\ r.identity = id
  <2> HIDE DEF id
  <2> QED BY <1>2, <1>3 DEF Run
<1>7. Local(l, r, j, rows[w], delivered[w])
  <2> HIDE DEF j, r, seen, id
  <2>1. CASE run[p].resume
    <3>1. Local("ready", r, j, rows[w], delivered[w])
      BY <1>2, <1>3, <1>6, <2>1 DEF Local, w, seen
    <3> QED BY <3>1, <2>1
  <2>2. CASE ~run[p].resume
    <3>1. Local("create", r, j, rows[w], delivered[w])
      BY <1>2, <1>3, <1>6, <2>2 DEF Local, w, seen
    <3> QED BY <3>1, <2>2
  <2> QED BY <2>1, <2>2
<1>8. l \in Held
  BY SMTT(60) DEF Held
<1> HIDE DEF id, r, l
<1> QED BY <1>1, <1>4, <1>5, <1>6, <1>7, <1>8, QuietStep

\* CallModel preserves IInv: it puts an answer on the job's own source bytes
\* in hand.
LEMMA CallModelStep ==
  ASSUME IInv, NEW p \in Proc, CallModel(p)
  PROVE  IInv'
<1> DEFINE w == run[p].ws
           j == job[w]
<1>1. PICK a \in Answers(run[p].files.content, provider) :
        run' = [run EXCEPT ![p].answer = a, ![p].calls = @ + 1]
  BY DEF CallModel
<1> DEFINE r == [run[p] EXCEPT !.answer = a, !.calls = @ + 1]
<1>2. /\ pc[p] = "translate" /\ Goto(p, "commit") /\ lease' = lease
      /\ UNCHANGED <<durable, world>>
  BY DEF CallModel, durable, world
<1>3. /\ run \in [Proc -> Run] /\ run[p] \in Run /\ w \in Ws /\ j \in Job
      /\ Local("translate", run[p], j, rows[w], delivered[w])
  BY <1>2, Facts
<1>4. lease[w] = p /\ lease \in [Ws -> Proc \cup {None}]
  BY <1>2 DEF IInv, LeaseOK, TypeOK, Held
<1>5. run[p].files \in Files
  BY <1>3 DEF Local
<1>6. a \in Row /\ a.content = run[p].files.content
  <2>1. provider \in Digest /\ run[p].files.content \in Content
    BY <1>5 DEF IInv, TypeOK, Files
  <2> QED BY <1>1, <2>1 DEF Answers, Row
<1>7. run' = [run EXCEPT ![p] = r]
  BY <1>1, <1>3
<1>8. /\ r \in Run /\ r.ws = run[p].ws /\ r.files = run[p].files
      /\ r.calls = run[p].calls + 1 /\ r.reused = run[p].reused
      /\ r.identity = run[p].identity /\ r.answer = a
  <2> DEFINE c == run[p].calls + 1
  <2>1. c \in Nat
    BY <1>3 DEF Run
  <2>2. r = [run[p] EXCEPT !.answer = a, !.calls = c]
    BY <1>3 DEF Run
  <2> HIDE DEF c, r
  <2>3. /\ r \in Run /\ r.ws = run[p].ws /\ r.files = run[p].files
        /\ r.calls = c /\ r.reused = run[p].reused
        /\ r.identity = run[p].identity /\ r.answer = a
    BY <1>3, <1>6, <2>1, <2>2 DEF Run
  <2> QED BY <2>3 DEF c
<1>9. Local("commit", r, j, rows[w], delivered[w])
  <2> HIDE DEF r, j
  <2>1. run[p].reused \in Nat /\ run[p].calls \in Nat /\ j.completed_count \in Nat
    BY <1>3 DEF Run, Job
  <2>2. /\ run[p].reused + run[p].calls = j.completed_count
        /\ r.ws \in Ws /\ r.files \in Files /\ r.files.content = j.content
        /\ j.state = "in_progress" /\ j.finalization = "none"
        /\ r.identity = j.digest /\ r.identity \in Digest
    BY <1>3, <1>8 DEF Local
  <2>3. r.reused + r.calls = j.completed_count + 1
    BY <1>8, <2>1, <2>2
  <2> QED BY <1>6, <1>8, <2>2, <2>3 DEF Local
<1> HIDE DEF r
<1> QED BY <1>2, <1>4, <1>7, <1>8, <1>9, QuietStep DEF Held

\* Seal preserves IInv: it builds the tree of the committed rows.
LEMMA SealStep ==
  ASSUME IInv, NEW p \in Proc, Seal(p)
  PROVE  IInv'
<1> DEFINE w == run[p].ws
           j == job[w]
           t == SealedTree(p)
           r == [run[p] EXCEPT !.seen = j, !.tree = t]
           l == IF j.finalization = "none" THEN "recheck" ELSE "publish"
<1>1. /\ pc[p] \in {"translate", "seal"} /\ SealAllowed(p)
      /\ run' = [run EXCEPT ![p].seen = j, ![p].tree = t]
      /\ Goto(p, l) /\ lease' = lease /\ UNCHANGED <<durable, world>>
  BY DEF Seal, ws, durable, world
<1>2. /\ run \in [Proc -> Run] /\ run[p] \in Run /\ w \in Ws /\ j \in Job
      /\ rows[w] \in [Occ -> Row]
      /\ Local(pc[p], run[p], j, rows[w], delivered[w])
      /\ JobGood(w, j, rows[w], delivered[w])
  BY <1>1, Facts
<1>3. lease[w] = p /\ lease \in [Ws -> Proc \cup {None}]
  BY SMTT(60), <1>1 DEF IInv, LeaseOK, TypeOK, Held
<1>4. CASE j.finalization = "none"
  <2>1. pc[p] = "translate"
    BY <1>1, <1>2, <1>4 DEF Local
  <2>2. /\ run[p].files \in Files /\ run[p].files.content = j.content
        /\ run[p].identity \in Digest /\ run[p].identity = j.digest
        /\ j.state = "in_progress" /\ j.finalization = "none"
        /\ run[p].reused + run[p].calls = j.completed_count
    BY <1>2, <2>1 DEF Local
  <2>3. t = [ws |-> w, content |-> run[p].files.content,
             digest |-> run[p].identity, rows |-> Rendered(rows[w]),
             run_count |-> j.run_count, reused |-> run[p].reused,
             calls |-> run[p].calls]
    BY <1>4 DEF SealedTree, BuildTree, ws
  <2>4. /\ t \in Tree /\ t.ws = w /\ t.content = j.content
        /\ t.digest = j.digest /\ t.rows = Rendered(rows[w])
        /\ t.run_count = j.run_count /\ t.reused = run[p].reused
        /\ t.calls = run[p].calls
    <3>1. Rendered(rows[w]) \in [Occ -> Shown]
      BY <1>2 DEF Rendered, Shown, Row
    <3>2. /\ run[p].reused \in Nat /\ run[p].calls \in Nat
          /\ j.run_count \in Nat /\ run[p].files.content \in Content
      BY <1>2, <2>2 DEF Run, Job, Files
    <3> HIDE DEF t, w, j
    <3> QED BY <1>2, <2>2, <2>3, <3>1, <3>2 DEF Tree
  <2> HIDE DEF t
  <2>5. run' = [run EXCEPT ![p] = r]
    BY <1>1, <1>2
  <2>6. /\ r \in Run /\ r.ws = run[p].ws /\ r.files = run[p].files
        /\ r.identity = run[p].identity /\ r.calls = run[p].calls
        /\ r.reused = run[p].reused /\ r.tree = t
    BY <1>2, <2>4 DEF Run
  <2>7. Local("recheck", r, j, rows[w], delivered[w])
    <3> HIDE DEF r, j
    <3> QED BY <1>2, <2>2, <2>4, <2>6 DEF Local
  <2>8. Goto(p, "recheck")
    BY SMTT(60), <1>1, <1>4
  <2> HIDE DEF r
  <2> QED BY <1>1, <1>3, <2>5, <2>6, <2>7, <2>8, QuietStep DEF Held
<1>5. CASE j.finalization # "none"
  <2>1. j.finalization = "intent"
    BY <1>2, <1>5 DEF Job
  <2>2. Intended(j, t)
    BY <1>1, <2>1 DEF SealAllowed, ws
  <2>3. t \in Tree /\ t.ws = w
    BY <1>2, <2>1, <2>2 DEF JobGood, Intended
  <2> HIDE DEF t
  <2>4. run' = [run EXCEPT ![p] = r]
    BY <1>1, <1>2
  <2>5. /\ r \in Run /\ r.ws = run[p].ws /\ r.files = run[p].files
        /\ r.tree = t
    BY <1>2, <2>3 DEF Run
  <2>6. run[p].files \in Files
    BY <1>1, <1>2 DEF Local
  <2>7. Local("publish", r, j, rows[w], delivered[w])
    <3> HIDE DEF r, j
    <3> QED BY <1>2, <2>2, <2>3, <2>5, <2>6 DEF Local
  <2>8. Goto(p, "publish")
    BY SMTT(60), <1>1, <1>5
  <2> HIDE DEF r
  <2> QED BY <1>1, <1>3, <2>4, <2>5, <2>7, <2>8, QuietStep DEF Held
<1> QED BY <1>4, <1>5

\* Recheck preserves IInv: it asks for the model identity again.
LEMMA RecheckStep ==
  ASSUME IInv, NEW p \in Proc, Recheck(p)
  PROVE  IInv'
<1> DEFINE w == run[p].ws
           r == run[p]
<1>1. /\ pc[p] = "recheck" /\ Goto(p, "intend") /\ run' = run
      /\ lease' = lease /\ UNCHANGED <<durable, world>>
  BY DEF Recheck, durable, world
<1>2. /\ r \in Run /\ w \in Ws
      /\ Local("recheck", r, job[w], rows[w], delivered[w])
  BY <1>1, Facts
<1>3. lease[w] = p /\ lease \in [Ws -> Proc \cup {None}]
  BY <1>1 DEF IInv, LeaseOK, TypeOK, Held
<1>4. Local("intend", r, job[w], rows[w], delivered[w])
  BY <1>2 DEF Local
<1>5. run' = [run EXCEPT ![p] = r]
  BY SMTT(60), <1>1, SameRun
<1> QED BY <1>1, <1>2, <1>3, <1>4, <1>5, QuietStep DEF Held

\* Confirm preserves IInv: it reads the published tree back.
LEMMA ConfirmStep ==
  ASSUME IInv, NEW p \in Proc, Confirm(p)
  PROVE  IInv'
<1> DEFINE w == run[p].ws
           r == run[p]
<1>1. /\ pc[p] = "confirm" /\ Goto(p, "complete") /\ run' = run
      /\ lease' = lease /\ UNCHANGED <<durable, world>>
  BY DEF Confirm, durable, world
<1>2. /\ r \in Run /\ w \in Ws
      /\ Local("confirm", r, job[w], rows[w], delivered[w])
  BY <1>1, Facts
<1>3. lease[w] = p /\ lease \in [Ws -> Proc \cup {None}]
  BY <1>1 DEF IInv, LeaseOK, TypeOK, Held
<1>4. Local("complete", r, job[w], rows[w], delivered[w])
  BY <1>2 DEF Local
<1>5. run' = [run EXCEPT ![p] = r]
  BY <1>1, SameRun
<1> QED BY <1>1, <1>2, <1>3, <1>4, <1>5, QuietStep DEF Held

-----------------------------------------------------------------------------
\* What is new at an output path is the tree that w intends and delivered.
OwnOutput(w) ==
  \A o \in Out :
    \/ output'[o] = output[o]
    \/ /\ output'[o].ws = w /\ OutOf[w] = o
       /\ Intended(job'[w], output'[o])
       /\ delivered'[w]

\* A step that writes the file of the workspace p has leased, or its output.
LEMMA DurableStep ==
  ASSUME IInv, NEW p \in Proc, NEW l \in Held, NEW r \in Run,
         pc[p] \in Held, r.ws = run[p].ws,
         Goto(p, l), run' = [run EXCEPT ![p] = r],
         lease' = lease, UNCHANGED world,
         job' \in [Ws -> Job],
         rows' \in [Ws -> [Occ -> Row]],
         delivered' \in [Ws -> BOOLEAN],
         output' \in [Out -> Tree \cup {None, Foreign}],
         \A v \in Ws : v # r.ws => /\ job'[v] = job[v]
                                  /\ rows'[v] = rows[v]
                                  /\ delivered'[v] = delivered[v],
         output' = output \/ OwnOutput(r.ws),
         Local(l, r, job'[r.ws], rows'[r.ws], delivered'[r.ws]),
         JobGood(r.ws, job'[r.ws], rows'[r.ws], delivered'[r.ws]),
         job[r.ws].finalization = "intent" /\ delivered[r.ws] =>
           /\ job'[r.ws].finalization = "intent"
           /\ job'[r.ws].tree = job[r.ws].tree
           /\ delivered'[r.ws]
  PROVE  IInv'
<1>1. UNCHANGED <<source, provider, spent>>
  BY DEF world
<1>2. /\ run \in [Proc -> Run] /\ pc \in [Proc -> Held \cup {"idle", "lock"}]
      /\ r.ws \in Ws
  BY Facts DEF IInv, TypeOK, Held
<1>3. /\ run' \in [Proc -> Run] /\ run'[p] = r
      /\ \A q \in Proc : q # p => run'[q] = run[q]
  BY <1>2
<1>4. /\ pc' \in [Proc -> Held \cup {"idle", "lock"}] /\ pc'[p] = l
      /\ \A q \in Proc : q # p => pc'[q] = pc[q]
  BY <1>2 DEF Goto
<1>5. TypeOK'
  BY <1>1, <1>3, <1>4 DEF IInv, TypeOK
<1>6. LocalAt(p)' /\ OnlyOwn(p, r.ws)
  BY <1>3, <1>4 DEF LocalAt, OnlyOwn
<1>7. lease'[r.ws] = p
  BY DEF IInv, LeaseOK
<1> QED BY <1>2, <1>3, <1>4, <1>5, <1>6, <1>7, Advance DEF OwnOutput

\* Of the durable state only the job row of w changed.
LEMMA JobWrite ==
  ASSUME IInv, NEW w \in Ws, NEW j \in Job,
         job' = [job EXCEPT ![w] = j], UNCHANGED <<rows, delivered, output>>
  PROVE  /\ job' \in [Ws -> Job]
         /\ rows' \in [Ws -> [Occ -> Row]]
         /\ delivered' \in [Ws -> BOOLEAN]
         /\ output' \in [Out -> Tree \cup {None, Foreign}]
         /\ \A v \in Ws : v # w => /\ job'[v] = job[v]
                                  /\ rows'[v] = rows[v]
                                  /\ delivered'[v] = delivered[v]
         /\ \A o \in Out : output'[o] = output[o]
         /\ job'[w] = j
         /\ rows'[w] = rows[w]
         /\ delivered'[w] = delivered[w]
BY DEF IInv, TypeOK

\* Of the durable state only the job row and the occurrences of w changed.
LEMMA FileWrite ==
  ASSUME IInv, NEW w \in Ws, NEW j \in Job, NEW rs \in [Occ -> Row],
         job' = [job EXCEPT ![w] = j], rows' = [rows EXCEPT ![w] = rs],
         UNCHANGED <<delivered, output>>
  PROVE  /\ job' \in [Ws -> Job] /\ job'[w] = j
         /\ rows' \in [Ws -> [Occ -> Row]] /\ rows'[w] = rs
         /\ delivered' \in [Ws -> BOOLEAN] /\ delivered'[w] = delivered[w]
         /\ output' \in [Out -> Tree \cup {None, Foreign}]
         /\ \A v \in Ws : v # w => /\ job'[v] = job[v]
                                  /\ rows'[v] = rows[v]
                                  /\ delivered'[v] = delivered[v]
BY DEF IInv, TypeOK

\* Create preserves IInv: it creates a torn file.
LEMMA CreateStep ==
  ASSUME IInv, NEW p \in Proc, Create(p)
  PROVE  IInv'
<1> DEFINE w == run[p].ws
           r == run[p]
           j == [job[w] EXCEPT !.state = "torn"]
<1>1. /\ pc[p] = "create" /\ job[w].state = "absent" /\ Goto(p, "fill")
      /\ run' = run /\ job' = [job EXCEPT ![w].state = "torn"]
      /\ UNCHANGED <<output, rows, delivered, lease, world>>
  BY DEF Create, ws, world
<1>2. /\ r \in Run /\ w \in Ws /\ job[w] \in Job /\ rows[w] \in [Occ -> Row]
      /\ delivered[w] \in BOOLEAN
      /\ Local("create", r, job[w], rows[w], delivered[w])
      /\ JobGood(w, job[w], rows[w], delivered[w])
  BY <1>1, Facts
<1>3. /\ j \in Job /\ j.state = "torn" /\ j.content = job[w].content
      /\ j.finalization = job[w].finalization
  <2> HIDE DEF w
  <2> QED BY <1>2 DEF Job
<1>4. job' = [job EXCEPT ![w] = j]
  BY <1>1, <1>2 DEF IInv, TypeOK
<1>5. Local("fill", r, j, rows[w], delivered[w])
  <2> HIDE DEF j
  <2> QED BY SMTT(60), <1>2, <1>3 DEF Local
<1>6. /\ JobGood(w, j, rows[w], delivered[w]) /\ job[w].finalization = "none"
  <2> HIDE DEF j
  <2> QED BY <1>1, <1>2, <1>3 DEF JobGood
<1>7. run' = [run EXCEPT ![p] = r]
  BY <1>1, SameRun
<1>8. pc[p] \in Held /\ "fill" \in Held
  BY <1>1 DEF Held
<1>9. /\ job'[w] = j /\ rows' = rows /\ delivered' = delivered
      /\ output' = output /\ lease' = lease
  BY <1>1, <1>2, <1>3, <1>4, JobWrite
<1>10. /\ Local("fill", r, job'[w], rows'[w], delivered'[w])
       /\ JobGood(w, job'[w], rows'[w], delivered'[w])
  BY <1>5, <1>6, <1>9
<1> HIDE DEF j
<1>11. /\ job' \in [Ws -> Job] /\ rows' \in [Ws -> [Occ -> Row]]
       /\ delivered' \in [Ws -> BOOLEAN]
       /\ output' \in [Out -> Tree \cup {None, Foreign}]
       /\ \A v \in Ws : v # w => /\ job'[v] = job[v]
                                /\ rows'[v] = rows[v]
                                /\ delivered'[v] = delivered[v]
  BY ZenonT(90), <1>1, <1>2, <1>3, <1>4, JobWrite
<1>12. /\ r \in Run /\ r.ws = w /\ r.ws = run[p].ws /\ job[w].finalization # "intent"
       /\ Goto(p, "fill") /\ output' = output /\ lease' = lease /\ UNCHANGED world
  BY <1>1, <1>2, <1>6
<1> HIDE DEF w, r
<1> QED BY <1>7, <1>8, <1>10, <1>11, <1>12, DurableStep

\* Fill preserves IInv: it fills a torn file with pending rows.
LEMMA FillStep ==
  ASSUME IInv, NEW p \in Proc, Fill(p)
  PROVE  IInv'
<1> DEFINE w == run[p].ws
           j == FreshJob(run[p].files.content, run[p].identity)
           rs == [k \in Occ |-> Pending]
           r == run[p]
<1>1. /\ pc[p] = "fill" /\ Goto(p, "created") /\ run' = run
      /\ job' = [job EXCEPT ![w] = j] /\ rows' = [rows EXCEPT ![w] = rs]
      /\ UNCHANGED <<output, delivered, lease, world>>
  BY DEF Fill, ws, world
<1>2. /\ r \in Run /\ w \in Ws /\ delivered[w] \in BOOLEAN
      /\ Local("fill", r, job[w], rows[w], delivered[w])
      /\ JobGood(w, job[w], rows[w], delivered[w])
  BY <1>1, Facts
<1>3. /\ r.files \in Files /\ r.identity \in Digest
      /\ r.calls = 0 /\ job[w].finalization = "none"
  BY <1>2 DEF Local, JobGood
<1>4. /\ j \in Job /\ j.state = "in_progress" /\ j.finalization = "none"
      /\ j.content = r.files.content /\ j.completed_count = 0
  BY <1>3 DEF FreshJob, Job, Files
<1>5. rs \in [Occ -> Row] /\ \A k \in Occ : ~Ended(rs[k])
  BY DEF Pending, Row, Ended
<1> HIDE DEF j, rs
<1>6. run' = [run EXCEPT ![p] = r]
  BY SMTT(60), <1>1, SameRun
<1>7. Local("created", r, j, rs, delivered[w])
  <2> HIDE DEF r
  <2> QED BY <1>2, <1>3, <1>4, <1>5 DEF Local
<1>8. JobGood(w, j, rs, delivered[w])
  BY <1>4, <1>5 DEF JobGood
<1>9. /\ job' \in [Ws -> Job] /\ job'[w] = j
      /\ rows' \in [Ws -> [Occ -> Row]] /\ rows'[w] = rs
      /\ delivered' \in [Ws -> BOOLEAN] /\ delivered'[w] = delivered[w]
      /\ output' \in [Out -> Tree \cup {None, Foreign}]
      /\ \A v \in Ws : v # w => /\ job'[v] = job[v]
                               /\ rows'[v] = rows[v]
                               /\ delivered'[v] = delivered[v]
  BY <1>1, <1>2, <1>4, <1>5, FileWrite
<1>10. pc[p] \in Held /\ "created" \in Held
  BY <1>1 DEF Held
<1>11. /\ output' = output /\ lease' = lease /\ UNCHANGED world /\ r.ws = w
       /\ Local("created", r, job'[r.ws], rows'[r.ws], delivered'[r.ws])
       /\ JobGood(r.ws, job'[r.ws], rows'[r.ws], delivered'[r.ws])
       /\ job[r.ws].finalization # "intent"
  BY <1>1, <1>3, <1>7, <1>8, <1>9
<1>12. \A v \in Ws : v # r.ws => /\ job'[v] = job[v]
                                 /\ rows'[v] = rows[v]
                                 /\ delivered'[v] = delivered[v]
  BY <1>9, <1>11
<1>13. r.ws = run[p].ws
  OBVIOUS
<1> HIDE DEF r, w
<1> QED BY ZenonT(90), <1>1, <1>2, <1>6, <1>9, <1>10, <1>11, <1>12, <1>13, DurableStep

\* Load preserves IInv: nobody else wrote the job since it was filled.
LEMMA LoadStep ==
  ASSUME IInv, NEW p \in Proc, Load(p)
  PROVE  IInv'
<1> DEFINE w == run[p].ws
           j == job[w]
           todo == {k \in Occ : ~Ended(rows[w][k])}
           r == [run[p] EXCEPT !.seen = j, !.todo = todo, !.reused = 0]
<1>1. /\ pc[p] = "created"
      /\ run' = [run EXCEPT ![p].seen = j, ![p].todo = todo, ![p].reused = 0]
      /\ Goto(p, "ready") /\ lease' = lease /\ UNCHANGED <<durable, world>>
  BY DEF Load, ws, durable, world
<1>2. /\ run \in [Proc -> Run] /\ run[p] \in Run /\ w \in Ws /\ j \in Job
      /\ Local("created", run[p], j, rows[w], delivered[w])
  BY <1>1, Facts
<1>3. todo \in SUBSET Occ
  OBVIOUS
<1>4. lease[w] = p /\ lease \in [Ws -> Proc \cup {None}]
  BY <1>1 DEF IInv, LeaseOK, TypeOK, Held
<1> HIDE DEF todo, j
<1>5. run' = [run EXCEPT ![p] = r]
  BY <1>1, <1>2
<1>6. /\ r \in Run /\ r.ws = run[p].ws /\ r.files = run[p].files
      /\ r.calls = run[p].calls /\ r.identity = run[p].identity
      /\ r.reused = 0 /\ r.seen = j
  <2> HIDE DEF w
  <2> QED BY <1>2, <1>3 DEF Run
<1>7. Local("ready", r, j, rows[w], delivered[w])
  <2> HIDE DEF r
  <2> QED BY <1>2, <1>6 DEF Local
<1>8. r.ws = w /\ Local("ready", r, job[r.ws], rows[r.ws], delivered[r.ws])
  BY <1>6, <1>7 DEF j
<1> HIDE DEF r, w
<1> QED BY <1>1, <1>4, <1>5, <1>6, <1>8, QuietStep DEF Held

\* Ready preserves IInv: it compares the model identity with the job row.
LEMMA ReadyStep ==
  ASSUME IInv, NEW p \in Proc, Ready(p)
  PROVE  IInv'
<1> DEFINE w == run[p].ws
           r == run[p]
           n == job[w].run_count + 1
           j == [job[w] EXCEPT !.run_count = n]
<1>1. /\ pc[p] = "ready" /\ ReadyAllowed(p) /\ run' = run
      /\ UNCHANGED <<output, rows, delivered, lease, world>>
  BY DEF Ready, world
<1>2. /\ r \in Run /\ w \in Ws /\ job[w] \in Job /\ rows[w] \in [Occ -> Row]
      /\ Local("ready", r, job[w], rows[w], delivered[w])
      /\ JobGood(w, job[w], rows[w], delivered[w])
  BY <1>1, Facts
<1>3. r.seen = job[w]
  BY <1>2 DEF Local
<1>4. /\ pc[p] \in Held /\ "translate" \in Held /\ "seal" \in Held
      /\ lease[w] = p /\ lease \in [Ws -> Proc \cup {None}]
  BY <1>1 DEF Held, IInv, LeaseOK, TypeOK
<1>5. run' = [run EXCEPT ![p] = r]
  BY <1>1, SameRun
<1>6. CASE job[w].finalization = "none"
  <2>1. /\ r.identity = job[w].digest /\ r.identity \in Digest
        /\ r.files \in Files /\ r.files.content = job[w].content
        /\ r.calls = 0 /\ r.reused = job[w].completed_count
        /\ job[w].state = "in_progress"
    BY <1>1, <1>2, <1>3, <1>6 DEF ReadyAllowed, Local
  <2>2. r.reused + r.calls = job[w].completed_count
    BY <1>2, <2>1 DEF Job
  <2>3. /\ Goto(p, "translate")
        /\ job' = job \/ job' = [job EXCEPT ![w].run_count = @ + 1]
    BY <1>3, <1>6 DEF Ready, ws
  <2>4. CASE job' = job
    <3>1. Local("translate", r, job[w], rows[w], delivered[w])
      BY <1>2, <1>6, <2>1, <2>2 DEF Local
    <3>2. UNCHANGED <<durable, world>> /\ lease' = lease
      BY SMTT(60), <1>1, <2>4 DEF durable
    <3> QED BY <1>2, <1>4, <1>5, <2>3, <3>1, <3>2, QuietStep
  <2>5. CASE job' = [job EXCEPT ![w].run_count = @ + 1]
    <3>1. n \in Nat
      BY <1>2 DEF Job
    <3>2. job' = [job EXCEPT ![w] = j]
      BY <1>2, <2>5 DEF IInv, TypeOK
    <3>3. /\ j \in Job /\ j.state = job[w].state
          /\ j.finalization = job[w].finalization
          /\ j.content = job[w].content /\ j.digest = job[w].digest
          /\ j.completed_count = job[w].completed_count
      <4> HIDE DEF n, w
      <4> QED BY <1>2, <3>1 DEF Job
    <3> HIDE DEF j
    <3>4. Local("translate", r, j, rows[w], delivered[w])
      BY <1>2, <1>6, <2>1, <2>2, <3>3 DEF Local
    <3>5. JobGood(w, j, rows[w], delivered[w])
      BY <1>2, <1>6, <3>3 DEF JobGood
    <3>6. /\ job' \in [Ws -> Job] /\ rows' \in [Ws -> [Occ -> Row]]
          /\ delivered' \in [Ws -> BOOLEAN]
          /\ output' \in [Out -> Tree \cup {None, Foreign}]
          /\ job'[w] = j /\ output' = output /\ lease' = lease
          /\ \A v \in Ws : v # w => /\ job'[v] = job[v]
                                   /\ rows'[v] = rows[v]
                                   /\ delivered'[v] = delivered[v]
      BY <1>1, <1>2, <3>2, <3>3, JobWrite
    <3>7. /\ Local("translate", r, job'[w], rows'[w], delivered'[w])
          /\ JobGood(w, job'[w], rows'[w], delivered'[w])
          /\ job[w].finalization # "intent"
      BY <1>1, <1>6, <3>4, <3>5, <3>6
    <3> QED BY <1>1, <1>2, <1>4, <1>5, <2>3, <3>6, <3>7, DurableStep
  <2> QED BY <2>3, <2>4, <2>5
<1>7. CASE job[w].finalization # "none"
  <2>1. job[w].finalization = "intent"
    BY <1>2, <1>7 DEF Job
  <2>2. Goto(p, "seal") /\ job' = job
    BY <1>3, <1>7 DEF Ready
  <2>3. Local("seal", r, job[w], rows[w], delivered[w])
    BY <1>2, <2>1 DEF Local
  <2>4. UNCHANGED <<durable, world>> /\ lease' = lease
    BY <1>1, <2>2 DEF durable
  <2> QED BY <1>2, <1>4, <1>5, <2>2, <2>3, <2>4, QuietStep
<1> QED BY <1>6, <1>7

\* Checkpoint preserves IInv: it ends one row with an answer on the job's
\* source bytes.
LEMMA CheckpointStep ==
  ASSUME IInv, NEW p \in Proc, Checkpoint(p)
  PROVE  IInv'
<1> DEFINE w == run[p].ws
           k == NextPending(run[p].todo)
           n == job[w].completed_count + 1
           j == [job[w] EXCEPT !.completed_count = n]
           rs == [rows[w] EXCEPT ![k] = run[p].answer]
           todo == run[p].todo \ {k}
           r == [run[p] EXCEPT !.todo = todo, !.answer = Pending]
<1>1. /\ pc[p] = "commit" /\ CheckpointAllowed(w, k) /\ Goto(p, "translate")
      /\ rows' = [rows EXCEPT ![w][k] = run[p].answer]
      /\ job' = [job EXCEPT ![w].completed_count = @ + 1]
      /\ run' = [run EXCEPT ![p].todo = @ \ {k}, ![p].answer = Pending]
      /\ UNCHANGED <<output, delivered, lease, world>>
  BY DEF Checkpoint, ws, world
<1> HIDE DEF k
<1>2. /\ run \in [Proc -> Run] /\ run[p] \in Run /\ w \in Ws /\ job[w] \in Job
      /\ rows[w] \in [Occ -> Row]
      /\ Local("commit", run[p], job[w], rows[w], delivered[w])
      /\ JobGood(w, job[w], rows[w], delivered[w])
  BY <1>1, Facts
<1>3. n \in Nat /\ todo \in SUBSET Occ /\ run[p].answer \in Row
      /\ run[p].reused \in Nat /\ run[p].calls \in Nat
  BY <1>2 DEF Job, Run
<1>4. /\ run[p].answer.content = job[w].content
      /\ run[p].identity = job[w].digest /\ run[p].identity \in Digest
      /\ run[p].files \in Files /\ run[p].files.content = job[w].content
      /\ run[p].reused + run[p].calls = n
      /\ job[w].state = "in_progress" /\ job[w].finalization = "none"
  BY <1>2 DEF Local
<1>5. /\ job' = [job EXCEPT ![w] = j] /\ rows' = [rows EXCEPT ![w] = rs]
      /\ run' = [run EXCEPT ![p] = r]
  BY <1>1, <1>2 DEF IInv, TypeOK
<1>6. /\ j \in Job /\ j.state = job[w].state
      /\ j.finalization = job[w].finalization
      /\ j.content = job[w].content /\ j.digest = job[w].digest
      /\ j.completed_count = n
  <2> HIDE DEF n, w
  <2> QED BY <1>2, <1>3 DEF Job
<1>7. /\ rs \in [Occ -> Row]
      /\ \A i \in Occ : Ended(rs[i]) => rs[i].content = job[w].content
  BY <1>2, <1>3, <1>4 DEF JobGood
<1>8. /\ r \in Run /\ r.ws = run[p].ws /\ r.files = run[p].files
      /\ r.identity = run[p].identity /\ r.reused = run[p].reused
      /\ r.calls = run[p].calls
  <2>1. Pending \in Row
    BY DEF Pending, Row
  <2> HIDE DEF todo
  <2> QED BY <1>2, <1>3, <2>1 DEF Run
<1> HIDE DEF n, j, rs, r, todo
<1>9. Local("translate", r, j, rs, delivered[w])
  BY <1>2, <1>4, <1>6, <1>8 DEF Local
<1>10. JobGood(w, j, rs, delivered[w])
  BY SMTT(60), <1>4, <1>6, <1>7 DEF JobGood
<1>11. /\ job' \in [Ws -> Job] /\ job'[w] = j
       /\ rows' \in [Ws -> [Occ -> Row]] /\ rows'[w] = rs
       /\ delivered' \in [Ws -> BOOLEAN] /\ delivered'[w] = delivered[w]
       /\ output' \in [Out -> Tree \cup {None, Foreign}]
       /\ \A v \in Ws : v # w => /\ job'[v] = job[v]
                                /\ rows'[v] = rows[v]
                                /\ delivered'[v] = delivered[v]
  BY ZenonT(90), <1>1, <1>2, <1>5, <1>6, <1>7, FileWrite
<1>12. pc[p] \in Held /\ "translate" \in Held
  BY <1>1 DEF Held
<1>13. /\ output' = output /\ lease' = lease /\ r.ws = w
       /\ Local("translate", r, job'[r.ws], rows'[r.ws], delivered'[r.ws])
       /\ JobGood(r.ws, job'[r.ws], rows'[r.ws], delivered'[r.ws])
       /\ job[r.ws].finalization # "intent"
  BY <1>1, <1>4, <1>8, <1>9, <1>10, <1>11
<1>14. \A v \in Ws : v # r.ws => /\ job'[v] = job[v]
                                 /\ rows'[v] = rows[v]
                                 /\ delivered'[v] = delivered[v]
  BY <1>11, <1>13
<1>15. /\ r \in Run /\ r.ws = run[p].ws /\ run' = [run EXCEPT ![p] = r]
       /\ Goto(p, "translate") /\ UNCHANGED world
       /\ job' \in [Ws -> Job] /\ rows' \in [Ws -> [Occ -> Row]]
       /\ delivered' \in [Ws -> BOOLEAN]
       /\ output' \in [Out -> Tree \cup {None, Foreign}]
  BY <1>1, <1>5, <1>8, <1>11
<1> HIDE DEF w
<1> QED BY <1>12, <1>13, <1>14, <1>15, DurableStep

\* Intend preserves IInv: it records a tree that accounts for every row.
LEMMA IntendStep ==
  ASSUME IInv, NEW p \in Proc, Intend(p)
  PROVE  IInv'
<1> DEFINE w == run[p].ws
           r == run[p]
           t == run[p].tree
           j == [job[w] EXCEPT !.finalization = "intent", !.tree = t]
<1>1. /\ pc[p] = "intend" /\ IntentAllowed(w) /\ Goto(p, "publish")
      /\ job' = [job EXCEPT ![w].finalization = "intent", ![w].tree = t]
      /\ run' = run /\ UNCHANGED <<output, rows, delivered, lease, world>>
  BY DEF Intend, ws, world
<1>2. /\ run \in [Proc -> Run] /\ r \in Run /\ w \in Ws /\ job[w] \in Job
      /\ rows[w] \in [Occ -> Row]
      /\ Local("intend", r, job[w], rows[w], delivered[w])
      /\ JobGood(w, job[w], rows[w], delivered[w])
  BY <1>1, Facts
<1>3. /\ t \in Tree /\ t.ws = w /\ t.content = job[w].content
      /\ t.digest = job[w].digest /\ t.rows = Rendered(rows[w])
      /\ t.run_count = job[w].run_count
      /\ t.reused = r.reused /\ t.calls = r.calls
      /\ r.reused + r.calls = job[w].completed_count
      /\ r.files \in Files
      /\ job[w].state = "in_progress" /\ job[w].finalization = "none"
  BY <1>2 DEF Local
<1>4. /\ \A k \in Occ : Ended(rows[w][k])
      /\ job[w].completed_count = N
  BY <1>1 DEF IntentAllowed, NonePending
<1> HIDE DEF t
<1>5. job' = [job EXCEPT ![w] = j]
  BY <1>1, <1>2 DEF IInv, TypeOK
<1>6. /\ j \in Job /\ j.state = job[w].state /\ j.finalization = "intent"
      /\ j.tree = t /\ j.content = job[w].content /\ j.digest = job[w].digest
      /\ j.completed_count = job[w].completed_count
      /\ j.run_count = job[w].run_count
  <2> HIDE DEF w
  <2> QED BY <1>2, <1>3 DEF Job
<1> HIDE DEF j
<1>7. Local("publish", r, j, rows[w], delivered[w])
  BY <1>2, <1>3, <1>6 DEF Local, Intended, t
<1>8. JobGood(w, j, rows[w], delivered[w])
  BY <1>2, <1>3, <1>4, <1>6 DEF JobGood
<1>9. pc[p] \in Held /\ "publish" \in Held /\ run' = [run EXCEPT ![p] = r]
  BY SMTT(60), <1>1, SameRun DEF Held
<1>10. /\ job' \in [Ws -> Job] /\ rows' \in [Ws -> [Occ -> Row]]
       /\ delivered' \in [Ws -> BOOLEAN]
       /\ output' \in [Out -> Tree \cup {None, Foreign}]
       /\ job'[w] = j /\ output' = output /\ lease' = lease
       /\ \A v \in Ws : v # w => /\ job'[v] = job[v]
                                /\ rows'[v] = rows[v]
                                /\ delivered'[v] = delivered[v]
  BY ZenonT(90), <1>1, <1>2, <1>5, <1>6, JobWrite
<1>11. /\ Local("publish", r, job'[w], rows'[w], delivered'[w])
       /\ JobGood(w, job'[w], rows'[w], delivered'[w])
       /\ job[w].finalization # "intent"
  BY <1>1, <1>3, <1>7, <1>8, <1>10
<1> QED BY ZenonT(90), <1>1, <1>2, <1>9, <1>10, <1>11, DurableStep

\* Publish preserves IInv: it renames the intended tree in place.
LEMMA PublishStep ==
  ASSUME IInv, NEW p \in Proc, Publish(p)
  PROVE  IInv'
<1> DEFINE w == run[p].ws
           r == run[p]
           t == run[p].tree
<1>1. /\ pc[p] = "publish" /\ output[OutOf[w]] = None /\ Goto(p, "confirm")
      /\ output' = [output EXCEPT ![OutOf[w]] = t]
      /\ delivered' = [delivered EXCEPT ![w] = TRUE]
      /\ run' = run /\ UNCHANGED <<job, rows, lease, world>>
  BY DEF Publish, ws, out, world
<1>2. /\ r \in Run /\ w \in Ws
      /\ Local("publish", r, job[w], rows[w], delivered[w])
      /\ JobGood(w, job[w], rows[w], delivered[w])
  BY <1>1, Facts
<1>3. t \in Tree /\ t.ws = w /\ Intended(job[w], t) /\ r.files \in Files
  BY <1>2 DEF Local
<1>4. /\ job' \in [Ws -> Job] /\ rows' \in [Ws -> [Occ -> Row]]
      /\ delivered' \in [Ws -> BOOLEAN] /\ delivered'[w] = TRUE
      /\ \A v \in Ws : v # w => delivered'[v] = delivered[v]
      /\ job' = job /\ rows' = rows
  BY <1>1, <1>2 DEF IInv, TypeOK
<1> HIDE DEF t
<1>5. /\ output' \in [Out -> Tree \cup {None, Foreign}]
      /\ OwnOutput(w)
  <2>1. OutOf[w] \in Out /\ output \in [Out -> Tree \cup {None, Foreign}]
    BY <1>2, ConstantsAssumption DEF IInv, TypeOK
  <2> HIDE DEF w
  <2> QED BY <1>1, <1>3, <1>4, <2>1 DEF OwnOutput
<1>6. Local("confirm", r, job'[w], rows'[w], delivered'[w])
  BY SMTT(60), <1>2, <1>3, <1>4 DEF Local
<1>7. JobGood(w, job'[w], rows'[w], delivered'[w])
  BY <1>2, <1>4 DEF JobGood
<1>8. pc[p] \in Held /\ "confirm" \in Held /\ run' = [run EXCEPT ![p] = r]
  BY <1>1, SameRun DEF Held
<1>9. r.ws = w /\ lease' = lease /\ UNCHANGED world /\ Goto(p, "confirm")
  BY <1>1
<1>10. /\ \A v \in Ws : v # r.ws => /\ job'[v] = job[v]
                                    /\ rows'[v] = rows[v]
                                    /\ delivered'[v] = delivered[v]
       /\ job'[r.ws].finalization = job[r.ws].finalization
       /\ job'[r.ws].tree = job[r.ws].tree
       /\ delivered'[r.ws]
  BY <1>4
<1>11. /\ r \in Run /\ r.ws = run[p].ws
       /\ Local("confirm", r, job'[r.ws], rows'[r.ws], delivered'[r.ws])
       /\ JobGood(r.ws, job'[r.ws], rows'[r.ws], delivered'[r.ws])
       /\ OwnOutput(r.ws)
  BY <1>2, <1>5, <1>6, <1>7
<1>12. /\ job' \in [Ws -> Job] /\ rows' \in [Ws -> [Occ -> Row]]
       /\ delivered' \in [Ws -> BOOLEAN]
  BY <1>4
<1>13. output' \in [Out -> Tree \cup {None, Foreign}]
  BY <1>5
<1>14. lease' = lease /\ UNCHANGED world /\ Goto(p, "confirm")
  BY <1>9
<1> HIDE DEF r, w
<1> QED BY ZenonT(90), <1>8, <1>10, <1>11, <1>12, <1>13, <1>14, DurableStep

\* Complete preserves IInv: it records completion after delivery.
LEMMA CompleteStep ==
  ASSUME IInv, NEW p \in Proc, Complete(p)
  PROVE  IInv'
<1> DEFINE w == run[p].ws
           j == [job[w] EXCEPT !.state = "completed"]
<1>1. /\ pc[p] = "complete" /\ CompletionAllowed(w, run[p].tree) /\ Leave(p)
      /\ job' = [job EXCEPT ![w].state = "completed"]
      /\ UNCHANGED <<output, rows, delivered, world>>
  BY DEF Complete, ws, world
<1>2. /\ w \in Ws /\ job[w] \in Job /\ rows[w] \in [Occ -> Row]
      /\ Local("complete", run[p], job[w], rows[w], delivered[w])
      /\ JobGood(w, job[w], rows[w], delivered[w])
  BY <1>1, Facts
<1>3. delivered[w] /\ job[w].finalization = "intent"
  BY <1>1, <1>2 DEF Local, CompletionAllowed, Intended
<1>4. job' = [job EXCEPT ![w] = j]
  BY <1>1, <1>2 DEF IInv, TypeOK
<1>5. /\ j \in Job /\ j.state = "completed" /\ j.tree = job[w].tree
      /\ j.finalization = job[w].finalization
      /\ j.content = job[w].content /\ j.digest = job[w].digest
      /\ j.completed_count = job[w].completed_count
      /\ j.run_count = job[w].run_count
  <2> HIDE DEF w
  <2> QED BY <1>2 DEF Job
<1> HIDE DEF j
<1>6. /\ job' \in [Ws -> Job] /\ rows' \in [Ws -> [Occ -> Row]]
      /\ delivered' \in [Ws -> BOOLEAN]
      /\ output' \in [Out -> Tree \cup {None, Foreign}]
      /\ job'[w] = j /\ rows'[w] = rows[w] /\ delivered'[w] = delivered[w]
      /\ output' = output
      /\ \A v \in Ws : v # w => /\ job'[v] = job[v]
                               /\ rows'[v] = rows[v]
                               /\ delivered'[v] = delivered[v]
  <2>1. UNCHANGED <<rows, delivered, output>> /\ w \in Ws /\ j \in Job
    BY <1>1, <1>2, <1>5
  <2> HIDE DEF w
  <2>2. /\ job' \in [Ws -> Job] /\ rows' \in [Ws -> [Occ -> Row]]
        /\ delivered' \in [Ws -> BOOLEAN]
        /\ output' \in [Out -> Tree \cup {None, Foreign}]
        /\ job'[w] = j /\ rows'[w] = rows[w] /\ delivered'[w] = delivered[w]
        /\ \A v \in Ws : v # w => /\ job'[v] = job[v]
                                 /\ rows'[v] = rows[v]
                                 /\ delivered'[v] = delivered[v]
    BY <1>4, <2>1, JobWrite
  <2> QED BY <2>1, <2>2
<1>7. JobGood(w, job'[w], rows'[w], delivered'[w])
  <2> HIDE DEF w
  <2>1. JobGood(w, j, rows[w], delivered[w])
    BY <1>2, <1>3, <1>5 DEF JobGood
  <2> QED BY <1>6, <2>1
<1>8. /\ job'[w].finalization = "intent"
      /\ job'[w].tree = job[w].tree
      /\ delivered'[w]
  BY <1>3, <1>5, <1>6
<1>9. TypeOK' /\ OnlyOwn(p, w)
  <2>1. LeftBehind(p)
    BY <1>1, LeaveFacts
  <2> QED BY <1>1, <1>6, <2>1 DEF IInv, TypeOK, OnlyOwn, LeftBehind, world
<1>10. pc[p] \in Held /\ pc[p] # "idle"
  BY <1>1 DEF Held
<1> HIDE DEF w
<1> QED BY <1>1, <1>2, <1>6, <1>7, <1>8, <1>9, <1>10, Withdraw DEF w

\* An exception preserves IInv: in the file it may unlink no row has ended.
LEMMA InterruptStep ==
  ASSUME IInv, NEW p \in Proc, Interrupt(p)
  PROVE  IInv'
<1> DEFINE w == run[p].ws
<1>1. /\ pc[p] # "idle" /\ Leave(p)
      /\ spent' = [spent EXCEPT !["stop"] = @ + 1]
      /\ UNCHANGED <<output, rows, delivered, source, provider>>
      /\ job' = IF pc[p] \in {"fill", "created"}
                THEN [job EXCEPT ![w] = NoJob] ELSE job
  BY DEF Interrupt, Spend, ws
<1>2. /\ w \in Ws /\ job[w] \in Job /\ rows[w] \in [Occ -> Row]
      /\ Local(pc[p], run[p], job[w], rows[w], delivered[w])
      /\ JobGood(w, job[w], rows[w], delivered[w])
  BY <1>1, Facts
<1>3. spent' \in [Event -> Nat]
  BY <1>1 DEF IInv, TypeOK, Event
<1>4. LeftBehind(p)
  BY <1>1, LeaveFacts
<1>5. CASE pc[p] \in {"fill", "created"}
  <2>1. job[w].finalization = "none" /\ \A k \in Occ : ~Ended(rows[w][k])
    BY <1>2, <1>5 DEF Local, JobGood
  <2>2. NoJob \in Job
    BY DEF NoJob, Job
  <2>3. /\ job' \in [Ws -> Job] /\ rows' \in [Ws -> [Occ -> Row]]
        /\ delivered' \in [Ws -> BOOLEAN]
        /\ output' \in [Out -> Tree \cup {None, Foreign}]
        /\ job'[w] = NoJob /\ rows'[w] = rows[w]
        /\ delivered'[w] = delivered[w] /\ output' = output
        /\ \A v \in Ws : v # w => /\ job'[v] = job[v]
                                 /\ rows'[v] = rows[v]
                                 /\ delivered'[v] = delivered[v]
    BY <1>1, <1>2, <1>5, <2>2, JobWrite
  <2>4. JobGood(w, job'[w], rows'[w], delivered'[w])
    BY <2>1, <2>3 DEF JobGood, NoJob
  <2>5. TypeOK' /\ OnlyOwn(p, w)
    BY <1>1, <1>3, <1>4, <2>3 DEF IInv, TypeOK, OnlyOwn, LeftBehind
  <2>6. pc[p] \in Held
    BY <1>5 DEF Held
  <2> HIDE DEF w
  <2> QED BY <1>1, <1>2, <2>1, <2>3, <2>4, <2>5, <2>6, Withdraw DEF w
<1>6. CASE pc[p] \notin {"fill", "created"}
  <2>1. UNCHANGED <<job, rows, delivered>> /\ output' = output
    BY <1>1, <1>6
  <2>2. TypeOK' /\ OnlyOwn(p, w)
    BY <1>1, <1>3, <1>4, <2>1 DEF IInv, TypeOK, OnlyOwn, LeftBehind
  <2> QED BY <1>1, <1>2, <2>1, <2>2, Withdraw
<1> QED BY <1>5, <1>6

\* SIGKILL preserves IInv: only the lease and the locals are lost.
LEMMA KillStep ==
  ASSUME IInv, NEW p \in Proc, Kill(p)
  PROVE  IInv'
<1> DEFINE w == run[p].ws
<1>1. /\ pc[p] # "idle" /\ Leave(p)
      /\ spent' = [spent EXCEPT !["stop"] = @ + 1]
      /\ UNCHANGED <<output, job, rows, delivered, source, provider>>
  BY DEF Kill, Spend, durable
<1>2. /\ w \in Ws
      /\ JobGood(w, job[w], rows[w], delivered[w])
  BY <1>1, Facts
<1>3. spent' \in [Event -> Nat]
  BY <1>1 DEF IInv, TypeOK, Event
<1>4. LeftBehind(p)
  BY <1>1, LeaveFacts
<1>5. TypeOK' /\ OnlyOwn(p, w)
  BY <1>1, <1>3, <1>4 DEF IInv, TypeOK, OnlyOwn, LeftBehind
<1> QED BY <1>1, <1>2, <1>5, Withdraw

\* The environment writes no workspace, and only foreign trees to an output.
LEMMA EnvironmentStep ==
  ASSUME IInv, Environment
  PROVE  IInv'
<1>1. /\ UNCHANGED <<job, rows, delivered, lease, pc, run>>
      /\ source' \in Files /\ provider' \in Digest
      /\ spent' \in [Event -> Nat]
      /\ output' \in [Out -> Tree \cup {None, Foreign}]
      /\ \A o \in Out : output'[o] \in {output[o], None, Foreign}
  <2>1. CASE \E c \in Content : EditSource(c)
    BY <2>1 DEF EditSource, Spend, IInv, TypeOK, durable, Files, Event
  <2>2. CASE \E d \in Digest : SwapModel(d)
    BY <2>2 DEF SwapModel, Spend, IInv, TypeOK, durable, Event
  <2>3. CASE \E o \in Out, t \in {None, Foreign} : TouchOutput(o, t)
    BY <2>3 DEF TouchOutput, Spend, IInv, TypeOK, Event
  <2> QED BY <2>1, <2>2, <2>3 DEF Environment
<1>2. TypeOK'
  BY <1>1 DEF IInv, TypeOK
<1>3. LocalsOK' /\ LeaseOK' /\ JobsOK'
  BY <1>1 DEF IInv, LocalsOK, LocalAt, LeaseOK, JobsOK
<1>4. PublishedIsIntended'
  BY <1>1 DEF IInv, PublishedIsIntended, Intended
<1> QED BY <1>2, <1>3, <1>4 DEF IInv

\* Stuttering preserves IInv.
LEMMA StutterStep ==
  ASSUME IInv, UNCHANGED vars
  PROVE  IInv'
BY DEF vars, IInv, TypeOK, LocalsOK, LocalAt, LeaseOK, JobsOK,
       PublishedIsIntended, Intended

\* Every step preserves IInv: one lemma above for each action.
LEMMA Inductive == IInv /\ [Next]_vars => IInv'
<1> SUFFICES ASSUME IInv, [Next]_vars
             PROVE  IInv'
  OBVIOUS
<1>1. ASSUME NEW p \in Proc, Step(p)
      PROVE  IInv'
  <2>1. ASSUME Refuse(p) PROVE IInv'
    <3>1. pc[p] # "idle"
      BY <2>1 DEF Refuse, Refused
    <3> QED BY <2>1, <3>1, QuietLeave DEF Refuse
  <2> QED
    BY <1>1, <2>1, AcquireStep, OpenStep, CheckStep, ReconcileStep,
       IdentifyStep, CreateStep, FillStep, LoadStep, ReadyStep, CallModelStep,
       CheckpointStep, SealStep, RecheckStep, IntendStep, PublishStep,
       ConfirmStep, CompleteStep
    DEF Step
<1> QED
  BY <1>1, StartStep, InterruptStep, KillStep, EnvironmentStep, StutterStep
  DEF Next

\* The initial states satisfy IInv.
LEMMA Initial == Init => IInv
<1> SUFFICES ASSUME Init
             PROVE  IInv
  OBVIOUS
<1>1. IdleRun \in Run /\ NoJob \in Job /\ Pending \in Row
  BY DEF IdleRun, Run, NoJob, Job, Pending, Row
<1>2. source \in Files
  BY DEF Init, Files
<1>3. TypeOK
  BY <1>1, <1>2 DEF Init, TypeOK
<1>4. LocalsOK /\ LeaseOK
  BY DEF Init, LocalsOK, LeaseOK, Held
<1>5. JobsOK
  BY DEF Init, JobsOK, JobGood, NoJob, Pending, Ended
<1>6. PublishedIsIntended
  BY DEF Init, PublishedIsIntended
<1> QED BY <1>3, <1>4, <1>5, <1>6 DEF IInv

-----------------------------------------------------------------------------
\* IInv is an invariant of the specification.
THEOREM Invariance == Spec => []IInv
BY Initial, Inductive, PTL DEF Spec

\* Every variable keeps its type, in particular every tree an invocation
\* builds or records is complete: no field is a missing value.
THEOREM TypeCorrect == Spec => []TypeOK
<1>1. IInv => TypeOK
  BY DEF IInv
<1> QED BY <1>1, Invariance, PTL

\* For any number of runs and edits of the source, the results of a job and
\* the tree it intends come from one generation of source bytes and the tree
\* names the model of the job (engine.py, _validate_workspace_semantics).
THEOREM OneGeneration == Spec => []OneSourceGeneration
<1>1. IInv => OneSourceGeneration
  BY DEF IInv, JobsOK, JobGood, OneSourceGeneration
<1> QED BY <1>1, Invariance, PTL

\* For any number of interrupted and resumed runs, the counters that
\* set_finalization_intent makes durable account for the whole plan.
THEOREM Accounting == Spec => []IntentAccountsForPlan
<1>1. IInv => IntentAccountsForPlan
  BY DEF IInv, JobsOK, JobGood, IntentAccountsForPlan, NonePending
<1> QED BY <1>1, Invariance, PTL

\* For any number of workspaces, a tree of this program at an output path is
\* the one its workspace durably intends (set_finalization_intent before the
\* rename, and a rename that never replaces).
THEOREM Published == Spec => []PublishedIsIntended
<1>1. IInv => PublishedIsIntended
  BY DEF IInv
<1> QED BY <1>1, Invariance, PTL

\* For any crash and resume, a job recorded as completed delivered its tree.
THEOREM Delivered == Spec => []CompletedWasDelivered
<1>1. IInv => CompletedWasDelivered
  BY DEF IInv, JobsOK, JobGood, CompletedWasDelivered
<1> QED BY <1>1, Invariance, PTL

-----------------------------------------------------------------------------
\* What DurableStepsAreFinal says of one step and one workspace.
Keeps(w) ==
  /\ BeingCreated(w) =>
       \/ job'[w] = job[w]
       \/ job'[w] = NoJob /\ spent'["stop"] # spent["stop"]
  /\ job[w].state \in {"in_progress", "completed"} /\ ~BeingCreated(w) =>
       /\ job'[w].state \in {"in_progress", "completed"}
       /\ job'[w].content = job[w].content
       /\ job'[w].digest = job[w].digest
       /\ \A k \in Occ :
            Ended(rows[w][k]) => rows'[w][k] = rows[w][k]
  /\ job[w].finalization = "intent" =>
       /\ job'[w].finalization = "intent"
       /\ job'[w].tree = job[w].tree
       /\ job'[w].run_count = job[w].run_count
  /\ job[w].state = "completed" => job'[w] = job[w]

\* The same of a step that is no interruption: it takes no job away at all.
KeepsJob(w) ==
  /\ job[w].state \in {"in_progress", "completed"} =>
       /\ job'[w].state \in {"in_progress", "completed"}
       /\ job'[w].content = job[w].content
       /\ job'[w].digest = job[w].digest
       /\ \A k \in Occ :
            Ended(rows[w][k]) => rows'[w][k] = rows[w][k]
  /\ job[w].finalization = "intent" =>
       /\ job'[w].finalization = "intent"
       /\ job'[w].tree = job[w].tree
       /\ job'[w].run_count = job[w].run_count
  /\ job[w].state = "completed" => job'[w] = job[w]

\* A step that writes no workspace file keeps what is durable.
LEMMA KeepsFiles ==
  ASSUME IInv, UNCHANGED <<job, rows>>, NEW w \in Ws
  PROVE  KeepsJob(w)
BY SMTT(60) DEF KeepsJob

\* Only the holder of the lease of a workspace can be creating it.
LEMMA OneCreates ==
  ASSUME IInv, NEW p \in Proc, pc[p] \in Held
  PROVE  BeingCreated(run[p].ws) <=> pc[p] = "created"
<1>1. ASSUME NEW q \in Proc, pc[q] = "created", run[q].ws = run[p].ws
      PROVE  q = p
  BY <1>1 DEF IInv, LeaseOK, Held
<1> QED BY <1>1 DEF BeingCreated, ws

\* No step of an invocation writes a job that is still being created.
LEMMA CreatedStays ==
  ASSUME IInv, NEW p \in Proc, Step(p), NEW w \in Ws, BeingCreated(w)
  PROVE  job'[w] = job[w]
<1> DEFINE v == run[p].ws
<1>1. \/ job' = job
      \/ /\ pc[p] \in Held /\ pc[p] # "created"
         /\ \A u \in Ws : u # v => job'[u] = job[u]
  <2>1. job \in [Ws -> Job]
    BY DEF IInv, TypeOK
  <2>2. CASE Create(p) \/ Fill(p) \/ Ready(p) \/ Checkpoint(p) \/ Intend(p)
             \/ Complete(p)
    BY <2>1, <2>2 DEF Create, Fill, Ready, Checkpoint, Intend, Complete, ws, Held
  <2>3. CASE ~(Create(p) \/ Fill(p) \/ Ready(p) \/ Checkpoint(p) \/ Intend(p)
               \/ Complete(p))
    BY <2>3 DEF Step, Acquire, Open, Check, Reconcile, Identify, Load, CallModel,
                Seal, Recheck, Publish, Confirm, Refuse, durable
  <2> QED BY <2>2, <2>3
<1> QED BY <1>1, OneCreates

\* No step of an invocation undoes anything durable.
LEMMA KeepsStep ==
  ASSUME IInv, NEW p \in Proc, Step(p), NEW w \in Ws
  PROVE  KeepsJob(w)
<1> DEFINE v == run[p].ws
<1>1. job \in [Ws -> Job] /\ rows \in [Ws -> [Occ -> Row]]
  BY DEF IInv, TypeOK
<1>2. ASSUME pc[p] # "idle"
      PROVE  /\ v \in Ws /\ job[v] \in Job /\ rows[v] \in [Occ -> Row]
             /\ Local(pc[p], run[p], job[v], rows[v], delivered[v])
             /\ JobGood(v, job[v], rows[v], delivered[v])
  BY <1>2, Facts
<1>3. CASE Create(p)
  <2>1. /\ pc[p] = "create" /\ job[v].state = "absent" /\ rows' = rows
        /\ job' = [job EXCEPT ![v].state = "torn"]
    BY SMTT(60), <1>3 DEF Create, ws
  <2>2. job[v].finalization = "none" /\ v \in Ws
    BY <1>2, <2>1 DEF JobGood
  <2> HIDE DEF v
  <2> QED BY <1>1, <2>1, <2>2 DEF KeepsJob
<1>4. CASE Fill(p)
  <2>1. pc[p] = "fill" /\ \A u \in Ws : u # v => job'[u] = job[u]
                                             /\ rows'[u] = rows[u]
    BY <1>1, <1>4 DEF Fill, ws
  <2>2. job[v].finalization = "none" /\ job[v].state = "torn"
    BY <1>2, <2>1 DEF JobGood, Local
  <2> HIDE DEF v
  <2> QED BY <2>1, <2>2 DEF KeepsJob
<1>5. CASE Ready(p)
  <2>1. /\ pc[p] = "ready" /\ rows' = rows
        /\ \/ job' = job
           \/ /\ job' = [job EXCEPT ![v].run_count = @ + 1]
              /\ job[v].state = "in_progress" /\ job[v].finalization = "none"
    BY <1>5 DEF Ready, ws
  <2>2. v \in Ws
    BY <1>2, <2>1
  <2> HIDE DEF v
  <2> QED BY SMTT(60), <1>1, <2>1, <2>2 DEF KeepsJob, Job
<1>6. CASE Checkpoint(p)
  <2> DEFINE k == NextPending(run[p].todo)
  <2>1. /\ pc[p] = "commit" /\ CheckpointAllowed(v, k)
        /\ rows' = [rows EXCEPT ![v][k] = run[p].answer]
        /\ job' = [job EXCEPT ![v].completed_count = @ + 1]
    BY <1>6 DEF Checkpoint, ws
  <2>2. v \in Ws
    BY <1>2, <2>1
  <2> HIDE DEF v, k
  <2>3. /\ rows[v][k].state = "pending" /\ job[v].state = "in_progress"
        /\ job[v].finalization = "none"
    BY <2>1 DEF CheckpointAllowed
  <2>4. \A u \in Ws, i \in Occ : Ended(rows[u][i]) => rows'[u][i] = rows[u][i]
    BY <1>1, <2>1, <2>2, <2>3 DEF Ended
  <2>5. \A u \in Ws :
          /\ job'[u].state = job[u].state
          /\ job'[u].content = job[u].content
          /\ job'[u].digest = job[u].digest
          /\ u # v => job'[u] = job[u]
    BY <1>1, <2>1, <2>2 DEF Job
  <2> QED BY <2>3, <2>4, <2>5 DEF KeepsJob
<1>7. CASE Intend(p)
  <2>1. /\ pc[p] = "intend" /\ IntentAllowed(v) /\ rows' = rows
        /\ job' = [job EXCEPT ![v].finalization = "intent",
                              ![v].tree = run[p].tree]
    BY <1>7 DEF Intend, ws
  <2>2. /\ v \in Ws /\ job[v].state = "in_progress"
        /\ job[v].finalization = "none"
    BY <1>2, <2>1 DEF IntentAllowed
  <2> HIDE DEF v
  <2> QED BY <1>1, <2>1, <2>2 DEF KeepsJob, Job
<1>8. CASE Complete(p)
  <2>1. /\ pc[p] = "complete" /\ CompletionAllowed(v, run[p].tree)
        /\ rows' = rows /\ job' = [job EXCEPT ![v].state = "completed"]
    BY <1>8 DEF Complete, ws
  <2>2. v \in Ws /\ job[v].state = "in_progress"
    BY <1>2, <2>1 DEF CompletionAllowed
  <2> HIDE DEF v
  <2> QED BY <1>1, <2>1, <2>2 DEF KeepsJob, Job
<1>9. CASE UNCHANGED <<job, rows>>
  BY <1>9, KeepsFiles
<1> QED
  BY <1>3, <1>4, <1>5, <1>6, <1>7, <1>8, <1>9
  DEF Step, Acquire, Open, Check, Reconcile, Identify, Load, CallModel, Seal,
      Recheck, Publish, Confirm, Refuse, durable

\* Unwinding removes a workspace file only before create_workspace returns.
LEMMA KeepsInterrupt ==
  ASSUME IInv, NEW p \in Proc, Interrupt(p), NEW w \in Ws
  PROVE  Keeps(w)
<1> DEFINE v == run[p].ws
<1>1. job \in [Ws -> Job] /\ spent \in [Event -> Nat]
  BY DEF IInv, TypeOK
<1>2. /\ pc[p] # "idle" /\ rows' = rows
      /\ job' = IF pc[p] \in {"fill", "created"}
                THEN [job EXCEPT ![v] = NoJob] ELSE job
      /\ spent' = [spent EXCEPT !["stop"] = @ + 1]
  BY DEF Interrupt, Spend, ws
<1>3. CASE pc[p] \in {"fill", "created"}
  <2>1. /\ job[v].finalization = "none" /\ v \in Ws
        /\ job[v].state = "torn" \/ BeingCreated(v)
        /\ job[v].state # "completed"
    BY <1>2, <1>3, Facts DEF JobGood, Local, BeingCreated, ws
  <2>2. /\ job'[v] = NoJob
        /\ \A u \in Ws : u # v => job'[u] = job[u]
    BY <1>1, <1>2, <1>3, <2>1
  <2>3. spent'["stop"] # spent["stop"]
    BY <1>1, <1>2 DEF Event
  <2> HIDE DEF v
  <2> QED BY SMTT(60), <1>2, <2>1, <2>2, <2>3 DEF Keeps
<1>4. CASE pc[p] \notin {"fill", "created"}
  BY <1>2, <1>4, KeepsFiles DEF Keeps, KeepsJob
<1> QED BY <1>3, <1>4

\* Every step keeps what is durable.
LEMMA KeepsAll ==
  ASSUME IInv, Next, NEW w \in Ws
  PROVE  Keeps(w)
<1>1. ASSUME NEW p \in Proc, NEW v \in Ws, NEW resume \in BOOLEAN,
             Start(p, v, resume)
      PROVE  UNCHANGED <<job, rows>>
  BY <1>1 DEF Start, durable
<1>2. ASSUME NEW p \in Proc, Kill(p)
      PROVE  UNCHANGED <<job, rows>>
  BY <1>2 DEF Kill, durable
<1>3. ASSUME Environment
      PROVE  UNCHANGED <<job, rows>>
  BY <1>3 DEF Environment, EditSource, SwapModel, TouchOutput, durable
<1>4. CASE UNCHANGED <<job, rows>>
  BY <1>4, KeepsFiles DEF Keeps, KeepsJob
<1>5. ASSUME NEW p \in Proc, Step(p)
      PROVE  Keeps(w)
  <2>1. KeepsJob(w) /\ (BeingCreated(w) => job'[w] = job[w])
    BY <1>5, KeepsStep, CreatedStays
  <2> QED BY <2>1 DEF Keeps, KeepsJob
<1> QED BY <1>1, <1>2, <1>3, <1>4, <1>5, KeepsInterrupt DEF Next

\* For any interleaving of processes, stops and resumes, no durable step of a
\* workspace is ever undone, and a job is taken away only as a whole, by an
\* interruption of its own creation.
THEOREM Finality == Spec => DurableStepsAreFinal
<1>1. IInv /\ [Next]_vars => [\A w \in Ws : Keeps(w)]_vars
  BY KeepsAll
<1>2. [][\A w \in Ws : Keeps(w)]_vars => DurableStepsAreFinal
  BY PTL DEF DurableStepsAreFinal, Keeps
<1> QED BY <1>1, <1>2, Invariance, PTL DEF Spec

\* For any number of processes, whatever is at an output path is replaced or
\* removed only by somebody else.
THEOREM NoClobber == Spec => NeverClobbers
<1> DEFINE Safe == \A o \in Out :
                     output[o] # None /\ output'[o] # output[o] =>
                       spent'["touch"] # spent["touch"]
<1>1. IInv /\ [Next]_vars => [Safe]_vars
  <2> SUFFICES ASSUME IInv, Next
               PROVE  Safe
    OBVIOUS
  <2>1. ASSUME NEW p \in Proc, NEW w \in Ws, NEW resume \in BOOLEAN,
               Start(p, w, resume)
        PROVE  output' = output
    BY <2>1 DEF Start, durable
  <2>2. ASSUME NEW p \in Proc, Kill(p) \/ Interrupt(p)
        PROVE  output' = output
    BY SMTT(60), <2>2 DEF Kill, Interrupt, durable
  <2>3. ASSUME NEW p \in Proc, Step(p), ~Publish(p)
        PROVE  output' = output
    BY <2>3 DEF Step, Acquire, Open, Check, Reconcile, Identify, Create, Fill,
                Load, Ready, CallModel, Checkpoint, Seal, Recheck, Intend, Confirm,
                Complete, Refuse, durable
  <2>4. ASSUME NEW p \in Proc, Publish(p)
        PROVE  Safe
    <3>1. /\ output[OutOf[run[p].ws]] = None
          /\ output' = [output EXCEPT ![OutOf[run[p].ws]] = run[p].tree]
      BY <2>4 DEF Publish, out
    <3> QED BY <3>1 DEF IInv, TypeOK
  <2>5. ASSUME Environment
        PROVE  Safe
    <3>1. CASE \E o \in Out, t \in {None, Foreign} : TouchOutput(o, t)
      <4>1. spent' = [spent EXCEPT !["touch"] = @ + 1]
        BY <3>1 DEF TouchOutput, Spend
      <4>2. spent["touch"] \in Nat /\ spent'["touch"] = spent["touch"] + 1
        BY <4>1 DEF IInv, TypeOK, Event
      <4> QED BY <4>2
    <3>2. CASE ~ \E o \in Out, t \in {None, Foreign} : TouchOutput(o, t)
      <4>1. output' = output
        BY <2>5, <3>2 DEF Environment, EditSource, SwapModel, durable
      <4> QED BY <4>1
    <3> QED BY <3>1, <3>2
  <2> QED BY <2>1, <2>2, <2>3, <2>4, <2>5 DEF Next
<1>2. [][Safe]_vars => NeverClobbers
  BY PTL DEF NeverClobbers
<1> QED BY <1>1, <1>2, Invariance, PTL DEF Spec

-----------------------------------------------------------------------------
(* What the operator is owed.                                              *)

\* The positions at which an invocation goes by the rows of its snapshot.
Planning == {"check", "identify", "create", "fill", "created", "ready", "translate",
             "commit"}

\* What an invocation at l with the locals r has in hand, over the rows rs.
Hand(l, r, rs) ==
  /\ l \in Planning => \A k \in r.todo : ~Ended(rs[k])
  /\ l = "commit" => r.todo # {} /\ Ended(r.answer)

InHand == \A p \in Proc : pc[p] # "idle" => Hand(pc[p], run[p], rows[run[p].ws])

EndedOf(rs) == {k \in Occ : Ended(rs[k])}

RowGood(j, rs) ==
  /\ \A k \in Occ : ~Ended(rs[k]) => rs[k] = Pending
  /\ j.state = "in_progress" => j.completed_count = Cardinality(EndedOf(rs))

RowsGood == \A w \in Ws : RowGood(job[w], rows[w])

Deliveries ==
  spent["touch"] = 0 =>
    \A w \in Ws : delivered[w] =>
      output[OutOf[w]] \in Tree /\ output[OutOf[w]].ws = w

PromisedFirst == \A w \in Ws : delivered[w] => job[w].finalization = "intent"

Owed == InHand /\ RowsGood /\ Deliveries /\ PromisedFirst

-----------------------------------------------------------------------------
\* The next occurrence is one that is still in hand.
LEMMA NextIsInHand ==
  ASSUME NEW s \in SUBSET Occ, s # {}
  PROVE  NextPending(s) \in s
<1>1. s \subseteq Nat
  BY ConstantsAssumption DEF Occ
<1>2. \E k \in s : \A i \in s : ~(<<i, k>> \in OpToRel(<, Nat))
  BY <1>1, NatLessThanWellFounded, WFMin
<1>3. ASSUME NEW k \in s, NEW i \in s, ~(<<i, k>> \in OpToRel(<, Nat))
      PROVE  k <= i
  <2>1. k \in Nat /\ i \in Nat /\ <<i, k>> \in Nat \X Nat
    BY <1>1
  <2>2. ~(i < k)
    BY <1>3, <2>1 DEF OpToRel
  <2> QED BY <2>1, <2>2
<1>4. \E k \in s : \A i \in s : k <= i
  BY <1>2, <1>3
<1> QED BY <1>4 DEF NextPending

\* Fewer rows than occurrences have ended while one is pending.
LEMMA CountBelow ==
  ASSUME NEW rs, NEW k \in Occ, ~Ended(rs[k])
  PROVE  /\ IsFiniteSet(EndedOf(rs))
         /\ Cardinality(EndedOf(rs)) \in Nat
         /\ Cardinality(EndedOf(rs)) < N
<1>1. IsFiniteSet(Occ) /\ Cardinality(Occ) = N
  <2>1. 1 \in Int /\ N \in Int /\ ~(1 > N) /\ N - 1 + 1 = N
    BY ConstantsAssumption
  <2> QED BY <2>1, FS_Interval DEF Occ
<1>2. EndedOf(rs) \subseteq Occ /\ k \notin EndedOf(rs)
  BY DEF EndedOf
<1>3. /\ IsFiniteSet(EndedOf(rs))
      /\ Cardinality(EndedOf(rs)) <= Cardinality(Occ)
      /\ Cardinality(EndedOf(rs)) = Cardinality(Occ) => EndedOf(rs) = Occ
  BY <1>1, <1>2, FS_Subset
<1>4. Cardinality(EndedOf(rs)) \in Nat
  BY <1>3, FS_CardinalityType
<1> QED BY <1>1, <1>2, <1>3, <1>4, ConstantsAssumption

-----------------------------------------------------------------------------
\* Only these steps of an invocation write what is durable.
Writes(p) == \/ Create(p) \/ Fill(p) \/ Ready(p) \/ Checkpoint(p)
             \/ Intend(p) \/ Publish(p) \/ Complete(p) \/ Interrupt(p)

\* Every other step leaves the durable state alone, but for the outputs that
\* somebody else touches.
LEMMA OtherSteps ==
  ASSUME Next
  PROVE  \/ \E p \in Proc : Writes(p)
         \/ UNCHANGED <<job, rows, delivered>>
            /\ (output' = output \/ \E o \in Out, t \in {None, Foreign} : TouchOutput(o, t))
<1>1. ASSUME NEW p \in Proc, NEW w \in Ws, NEW resume \in BOOLEAN,
             Start(p, w, resume)
      PROVE  UNCHANGED durable
  BY SMTT(60), <1>1 DEF Start
<1>2. ASSUME NEW p \in Proc, Step(p), ~Writes(p)
      PROVE  UNCHANGED durable
  BY <1>2 DEF Step, Writes, Acquire, Open, Check, Reconcile, Identify, Load,
              CallModel, Seal, Recheck, Confirm, Refuse
<1>3. ASSUME NEW p \in Proc, Kill(p)
      PROVE  UNCHANGED durable
  BY <1>3 DEF Kill
<1>4. ASSUME Environment
      PROVE  /\ UNCHANGED <<job, rows, delivered>>
             /\ output' = output \/ \E o \in Out, t \in {None, Foreign} : TouchOutput(o, t)
  BY <1>4 DEF Environment, EditSource, SwapModel, TouchOutput, durable
<1> QED BY <1>1, <1>2, <1>3, <1>4 DEF Next, Writes, durable

-----------------------------------------------------------------------------
\* What was delivered stays: the rename is the only way to an output path and
\* replaces nothing.
LEMMA DeliveriesStay ==
  ASSUME IInv, Deliveries, Next
  PROVE  Deliveries'
<1>1. TypeOK
  BY DEF IInv
<1>2. ASSUME NEW p \in Proc, Writes(p), ~Publish(p)
      PROVE  /\ UNCHANGED <<output, delivered>>
             /\ spent'["touch"] = spent["touch"]
  <2>1. UNCHANGED <<output, delivered>>
    BY <1>2 DEF Writes, Create, Fill, Ready, Checkpoint, Intend, Complete, Interrupt
  <2>2. CASE Interrupt(p)
    BY <2>2, <1>1 DEF Interrupt, Spend, TypeOK, Event
  <2>3. CASE ~Interrupt(p)
    BY <1>2, <2>3 DEF Writes, Create, Fill, Ready, Checkpoint, Intend, Complete, world
  <2> QED BY <2>1, <2>2, <2>3
<1>3. ASSUME NEW p \in Proc, Publish(p)
      PROVE  Deliveries'
  <2> DEFINE w == run[p].ws
  <2>1. /\ pc[p] = "publish" /\ output[OutOf[w]] = None
        /\ output' = [output EXCEPT ![OutOf[w]] = run[p].tree]
        /\ delivered' = [delivered EXCEPT ![w] = TRUE]
        /\ spent' = spent
    BY <1>3 DEF Publish, ws, out, world
  <2>2. w \in Ws /\ run[p].tree \in Tree /\ run[p].tree.ws = w
    BY <2>1, Facts DEF Local
  <2>3. OutOf[w] \in Out
    BY <2>2, ConstantsAssumption
  <2> HIDE DEF w
  <2>4. ASSUME NEW v \in Ws, spent["touch"] = 0, delivered'[v]
        PROVE  output'[OutOf[v]] \in Tree /\ output'[OutOf[v]].ws = v
    <3>1. CASE v = w
      BY <3>1, <2>1, <2>2, <2>3, <1>1 DEF TypeOK
    <3>2. CASE v # w
      <4>1. delivered[v]
        BY <3>2, <2>1, <2>4, <1>1 DEF TypeOK
      <4>2. output[OutOf[v]] \in Tree /\ output[OutOf[v]].ws = v
        BY <4>1, <2>4 DEF Deliveries
      <4>3. OutOf[v] # OutOf[w]
        BY <4>2, <2>1, ConstantsAssumption
      <4>4. output'[OutOf[v]] = output[OutOf[v]]
        BY <4>3, <2>1, <1>1, ConstantsAssumption DEF TypeOK
      <4> QED BY <4>2, <4>4
    <3> QED BY <3>1, <3>2
  <2> QED BY <2>1, <2>4 DEF Deliveries
<1>4. ASSUME NEW o \in Out, NEW t \in {None, Foreign}, TouchOutput(o, t)
      PROVE  Deliveries'
  <2>1. spent'["touch"] = spent["touch"] + 1 /\ spent["touch"] \in Nat
    BY <1>4, <1>1 DEF TouchOutput, Spend, TypeOK, Event
  <2> QED BY <2>1 DEF Deliveries
<1>5. \/ spent'["touch"] = spent["touch"]
      \/ \E p \in Proc : Writes(p)
      \/ \E o \in Out, t \in {None, Foreign} : TouchOutput(o, t)
  <2>1. ASSUME NEW p \in Proc, Step(p), ~Writes(p)
        PROVE  spent' = spent
    BY <2>1 DEF Step, Writes, Acquire, Open, Check, Reconcile, Identify, Load,
                CallModel, Seal, Recheck, Confirm, Refuse, world
  <2>2. ASSUME NEW p \in Proc, NEW w \in Ws, NEW resume \in BOOLEAN,
               Start(p, w, resume)
        PROVE  spent' = spent
    BY <2>2 DEF Start, world
  <2>3. ASSUME NEW p \in Proc, Kill(p)
        PROVE  spent'["touch"] = spent["touch"]
    BY <2>3, <1>1 DEF Kill, Spend, TypeOK, Event
  <2>4. ASSUME NEW c \in Content, EditSource(c)
        PROVE  spent'["touch"] = spent["touch"]
    BY <2>4, <1>1 DEF EditSource, Spend, TypeOK, Event
  <2>5. ASSUME NEW d \in Digest, SwapModel(d)
        PROVE  spent'["touch"] = spent["touch"]
    BY <2>5, <1>1 DEF SwapModel, Spend, TypeOK, Event
  <2> QED BY <2>1, <2>2, <2>3, <2>4, <2>5 DEF Next, Environment, Writes
<1> QED BY <1>2, <1>3, <1>4, <1>5, OtherSteps DEF Deliveries

-----------------------------------------------------------------------------
\* A checkpoint ends the row of an occurrence that was pending, and counts it.
LEMMA CheckpointEnds ==
  ASSUME IInv, InHand, RowsGood, NEW p \in Proc, Checkpoint(p)
  PROVE  LET w == run[p].ws
             k == NextPending(run[p].todo)
         IN /\ w \in Ws /\ k \in run[p].todo /\ run[p].todo \subseteq Occ
            /\ ~Ended(rows[w][k]) /\ Ended(run[p].answer)
            /\ job[w].state = "in_progress" /\ job[w].finalization = "none"
            /\ job'[w] = [job[w] EXCEPT !.completed_count = @ + 1]
            /\ rows'[w] = [rows[w] EXCEPT ![k] = run[p].answer]
            /\ rows[w] \in [Occ -> Row] /\ job[w] \in Job
            /\ \A v \in Ws : v # w => job'[v] = job[v] /\ rows'[v] = rows[v]
            /\ run'[p] = [run[p] EXCEPT !.todo = @ \ {k}, !.answer = Pending]
            /\ pc'[p] = "translate"
<1> DEFINE w == run[p].ws
           k == NextPending(run[p].todo)
<1>1. /\ pc[p] = "commit" /\ CheckpointAllowed(w, k) /\ Goto(p, "translate")
      /\ rows' = [rows EXCEPT ![w][k] = run[p].answer]
      /\ job' = [job EXCEPT ![w].completed_count = @ + 1]
      /\ run' = [run EXCEPT ![p].todo = @ \ {k}, ![p].answer = Pending]
  BY DEF Checkpoint, ws
<1>2. /\ job \in [Ws -> Job] /\ rows \in [Ws -> [Occ -> Row]]
      /\ run \in [Proc -> Run] /\ pc \in [Proc -> Held \cup {"idle", "lock"}]
  BY DEF IInv, TypeOK
<1>3. w \in Ws /\ run[p] \in Run
  BY <1>1, Facts
<1>4. run[p].todo \in SUBSET Occ
  BY <1>3 DEF Run
<1>5. /\ run[p].todo # {} /\ Ended(run[p].answer)
      /\ \A i \in run[p].todo : ~Ended(rows[w][i])
  BY <1>1 DEF InHand, Hand, Planning
<1>6. k \in run[p].todo
  BY <1>4, <1>5, NextIsInHand
<1>7. job[w].state = "in_progress" /\ job[w].finalization = "none"
  BY <1>1 DEF CheckpointAllowed
<1> HIDE DEF w, k
<1>8. /\ job'[w] = [job[w] EXCEPT !.completed_count = @ + 1]
      /\ rows'[w] = [rows[w] EXCEPT ![k] = run[p].answer]
      /\ \A v \in Ws : v # w => job'[v] = job[v] /\ rows'[v] = rows[v]
  BY <1>1, <1>2, <1>3
<1>9. /\ run'[p] = [run[p] EXCEPT !.todo = @ \ {k}, !.answer = Pending]
      /\ pc'[p] = "translate"
  BY <1>1, <1>2 DEF Goto
<1> QED BY <1>2, <1>3, <1>4, <1>5, <1>6, <1>7, <1>8, <1>9 DEF w, k

\* Rows without a result stay blank, and the job counts the others.
LEMMA RowsStay ==
  ASSUME IInv, InHand, RowsGood, Next
  PROVE  RowsGood'
<1>1. /\ job \in [Ws -> Job] /\ rows \in [Ws -> [Occ -> Row]]
  BY DEF IInv, TypeOK
<1>2. ASSUME NEW p \in Proc, Fill(p)
      PROVE  RowsGood'
  <2> DEFINE w == run[p].ws
             j == FreshJob(run[p].files.content, run[p].identity)
  <2>1. /\ pc[p] = "fill" /\ job' = [job EXCEPT ![w] = j]
        /\ rows' = [rows EXCEPT ![w] = [k \in Occ |-> Pending]]
    BY <1>2 DEF Fill, ws
  <2>2. w \in Ws
    BY <2>1, Facts
  <2> HIDE DEF w
  <2>3. RowGood(j, [k \in Occ |-> Pending])
    <3>1. \A k \in Occ : ~Ended([i \in Occ |-> Pending][k])
      BY DEF Ended, Pending
    <3>2. EndedOf([k \in Occ |-> Pending]) = {}
      BY <3>1 DEF EndedOf
    <3>3. Cardinality(EndedOf([k \in Occ |-> Pending])) = 0
      BY <3>2, FS_EmptySet
    <3> QED BY <3>3 DEF RowGood, FreshJob
  <2> HIDE DEF j
  <2> QED BY <1>1, <2>1, <2>2, <2>3 DEF RowsGood
<1>3. ASSUME NEW p \in Proc, Checkpoint(p)
      PROVE  RowsGood'
  <2> DEFINE w == run[p].ws
             k == NextPending(run[p].todo)
  <2>1. /\ w \in Ws /\ k \in Occ
        /\ ~Ended(rows[w][k]) /\ Ended(run[p].answer)
        /\ job[w].state = "in_progress"
        /\ job'[w] = [job[w] EXCEPT !.completed_count = @ + 1]
        /\ rows'[w] = [rows[w] EXCEPT ![k] = run[p].answer]
        /\ rows[w] \in [Occ -> Row] /\ job[w] \in Job
        /\ \A v \in Ws : v # w => job'[v] = job[v] /\ rows'[v] = rows[v]
    BY <1>3, CheckpointEnds
  <2> HIDE DEF w, k
  <2>2. RowGood(job[w], rows[w])
    BY <2>1 DEF RowsGood
  <2>3. EndedOf(rows'[w]) = EndedOf(rows[w]) \cup {k}
    BY <2>1 DEF EndedOf
  <2>4. /\ IsFiniteSet(EndedOf(rows[w])) /\ k \notin EndedOf(rows[w])
        /\ Cardinality(EndedOf(rows[w])) \in Nat
    BY <2>1, CountBelow DEF EndedOf
  <2>5. Cardinality(EndedOf(rows'[w])) = Cardinality(EndedOf(rows[w])) + 1
    BY <2>3, <2>4, FS_AddElement
  <2>6. job'[w].completed_count = job[w].completed_count + 1
    BY <2>1 DEF Job
  <2>7. \A i \in Occ : ~Ended(rows'[w][i]) => rows'[w][i] = Pending
    BY <2>1, <2>2 DEF RowGood
  <2>8. RowGood(job'[w], rows'[w])
    BY <2>1, <2>2, <2>5, <2>6, <2>7 DEF RowGood
  <2> QED BY SMTT(60), <2>1, <2>8 DEF RowsGood
<1>4. ASSUME NEW p \in Proc, Writes(p), ~Fill(p), ~Checkpoint(p)
      PROVE  /\ rows' = rows
             /\ \A w \in Ws : job'[w].state = "in_progress" =>
                  /\ job[w].state = "in_progress"
                  /\ job'[w].completed_count = job[w].completed_count
  <2> DEFINE w == run[p].ws
  <2>1. rows' = rows
    BY <1>4 DEF Writes, Create, Ready, Intend, Publish, Complete, Interrupt
  <2>2. \/ job' = job
        \/ job' = [job EXCEPT ![w].state = "torn"]
        \/ job' = [job EXCEPT ![w].run_count = @ + 1]
        \/ job' = [job EXCEPT ![w].finalization = "intent", ![w].tree = run[p].tree]
        \/ job' = [job EXCEPT ![w].state = "completed"]
        \/ job' = [job EXCEPT ![w] = NoJob]
    BY <1>4 DEF Writes, Create, Ready, Intend, Publish, Complete, Interrupt, ws
  <2> HIDE DEF w
  <2>3. ASSUME NEW u \in Ws, job'[u].state = "in_progress"
        PROVE  /\ job[u].state = "in_progress"
               /\ job'[u].completed_count = job[u].completed_count
    <3>1. job[u] \in Job
      BY <1>1
    <3>2. \/ job'[u] = job[u]
          \/ job'[u] = [job[u] EXCEPT !.state = "torn"]
          \/ job'[u] = [job[u] EXCEPT !.run_count = @ + 1]
          \/ job'[u] = [job[u] EXCEPT !.finalization = "intent", !.tree = run[p].tree]
          \/ job'[u] = [job[u] EXCEPT !.state = "completed"]
          \/ job'[u] = NoJob
      BY ZenonT(90), <1>1, <2>2
    <3>3. job'[u] # NoJob
      BY <2>3 DEF NoJob
    <3>4. ASSUME NEW x, \/ job'[u] = [job[u] EXCEPT !.state = x] /\ x # "in_progress"
                        \/ job'[u] = [job[u] EXCEPT !.run_count = x]
          PROVE  /\ job[u].state = "in_progress"
                 /\ job'[u].completed_count = job[u].completed_count
      BY <2>3, <3>1, <3>4 DEF Job
    <3>5. ASSUME NEW x, NEW y,
                 job'[u] = [job[u] EXCEPT !.finalization = x, !.tree = y]
          PROVE  /\ job[u].state = "in_progress"
                 /\ job'[u].completed_count = job[u].completed_count
      BY <2>3, <3>1, <3>5 DEF Job
    <3> QED BY <2>3, <3>2, <3>3, <3>4, <3>5
  <2> QED BY <2>1, <2>3
<1>5. ASSUME rows' = rows,
             \A w \in Ws : job'[w].state = "in_progress" =>
               /\ job[w].state = "in_progress"
               /\ job'[w].completed_count = job[w].completed_count
      PROVE  RowsGood'
  BY <1>5 DEF RowsGood, RowGood
<1> QED BY <1>2, <1>3, <1>4, <1>5, OtherSteps

-----------------------------------------------------------------------------
\* A process that did not move keeps what it has in hand: only the invocation
\* that holds the lease of a workspace writes its rows.
LEMMA OthersKeepHand ==
  ASSUME IInv, InHand, NEW p \in Proc, NEW q \in Proc, pc[q] # "idle",
         pc'[q] = pc[q], run'[q] = run[q],
         \A v \in Ws : rows'[v] = rows[v] \/ (pc[p] \in Held /\ v = run[p].ws),
         p # q
  PROVE  Hand(pc'[q], run'[q], rows'[run'[q].ws])
<1>1. Hand(pc[q], run[q], rows[run[q].ws]) /\ run[q].ws \in Ws
  BY Facts DEF InHand
<1>2. CASE rows'[run[q].ws] = rows[run[q].ws]
  BY <1>1, <1>2
<1>3. CASE pc[p] \in Held /\ run[q].ws = run[p].ws
  <2>1. pc[q] \notin Held
    BY <1>3 DEF IInv, LeaseOK
  <2>2. pc[q] \notin Planning /\ pc[q] # "commit"
    BY <2>1 DEF Held, Planning
  <2> QED BY <2>2 DEF Hand
<1> QED BY <1>1, <1>2, <1>3

\* What an invocation has in hand stays pending as it goes on.
LEMMA OwnHand ==
  ASSUME IInv, InHand, RowsGood, NEW p \in Proc, Step(p), pc'[p] # "idle"
  PROVE  Hand(pc'[p], run'[p], rows'[run'[p].ws])
<1> DEFINE w == run[p].ws
<1>1. /\ job \in [Ws -> Job] /\ rows \in [Ws -> [Occ -> Row]]
      /\ run \in [Proc -> Run] /\ pc \in [Proc -> Held \cup {"idle", "lock"}]
  BY DEF IInv, TypeOK
<1>2. ASSUME pc[p] # "idle"
      PROVE  /\ Hand(pc[p], run[p], rows[w]) /\ w \in Ws /\ run[p] \in Run
             /\ rows[w] \in [Occ -> Row]
  BY <1>2, Facts DEF InHand
<1>3. CASE Acquire(p)
  <2>1. pc'[p] = "open"
    BY <1>1, <1>3 DEF Acquire, Goto
  <2> QED BY <2>1 DEF Hand, Planning
<1>4. CASE Open(p)
  <2>1. /\ pc[p] = "open" /\ pc'[p] = "check" /\ rows' = rows
        /\ run'[p].ws = w
        /\ run'[p].todo = IF run[p].resume THEN {k \in Occ : ~Ended(rows[w][k])} ELSE {}
    BY ZenonT(90), <1>1, <1>4 DEF Open, Goto, durable, ws, Run
  <2> HIDE DEF w
  <2> QED BY SMTT(60), <2>1 DEF Hand
<1>5. CASE Check(p) \/ Identify(p)
  <2>1. /\ pc[p] \in {"check", "identify"} /\ pc'[p] # "commit" /\ rows' = rows
        /\ run'[p].ws = w /\ run'[p].todo = run[p].todo
    BY <1>1, <1>5 DEF Check, Identify, Goto, durable, Run
  <2> QED BY <1>2, <2>1 DEF Hand, Planning
<1>6. CASE Create(p) \/ Ready(p)
  <2>1. /\ pc[p] \in {"create", "ready"} /\ pc'[p] # "commit" /\ rows' = rows /\ run' = run
    BY <1>1, <1>6 DEF Create, Ready, Goto
  <2> QED BY <1>2, <2>1 DEF Hand, Planning
<1>7. CASE Fill(p)
  <2>1. /\ pc[p] = "fill" /\ pc'[p] = "created" /\ run' = run
        /\ rows' = [rows EXCEPT ![w] = [k \in Occ |-> Pending]]
        /\ run[p].todo \subseteq Occ
    BY <1>1, <1>2, <1>7 DEF Fill, Goto, ws, Run
  <2>2. rows'[w] = [k \in Occ |-> Pending]
    BY <1>1, <1>2, <2>1
  <2> HIDE DEF w
  <2> QED BY <2>1, <2>2 DEF Hand, Ended, Pending, w
<1>11. CASE Load(p)
  <2>1. /\ pc'[p] = "ready" /\ rows' = rows /\ run'[p].ws = w
        /\ run'[p].todo = {k \in Occ : ~Ended(rows[w][k])}
    BY <1>1, <1>11 DEF Load, Goto, durable, ws, Run
  <2> HIDE DEF w
  <2> QED BY SMTT(60), <2>1 DEF Hand
<1>8. CASE CallModel(p)
  <2>1. /\ pc[p] = "translate" /\ pc'[p] = "commit" /\ rows' = rows
        /\ run[p].todo # {}
        /\ run'[p].ws = w /\ run'[p].todo = run[p].todo
        /\ run'[p].answer \in Answers(run[p].files.content, provider)
    BY <1>1, <1>8 DEF CallModel, Goto, durable, Run
  <2>2. Ended(run'[p].answer)
    BY <2>1 DEF Answers, Ended
  <2> QED BY <1>2, <2>1, <2>2 DEF Hand, Planning
<1>9. CASE Checkpoint(p)
  <2> DEFINE k == NextPending(run[p].todo)
  <2>1. /\ pc'[p] = "translate"
        /\ run'[p] = [run[p] EXCEPT !.todo = @ \ {k}, !.answer = Pending]
        /\ rows'[w] = [rows[w] EXCEPT ![k] = run[p].answer]
        /\ run[p].todo \subseteq Occ
    BY <1>9, CheckpointEnds
  <2>2. pc[p] = "commit"
    BY <1>9 DEF Checkpoint
  <2>3. \A i \in run[p].todo : ~Ended(rows[w][i])
    BY <1>2, <2>2 DEF Hand, Planning
  <2> HIDE DEF k
  <2>4. run'[p].todo = run[p].todo \ {k} /\ run'[p].ws = w
    BY <1>2, <2>1, <2>2 DEF Run
  <2>5. \A i \in run'[p].todo : rows'[w][i] = rows[w][i]
    BY <1>2, <2>1, <2>2, <2>4
  <2> HIDE DEF w
  <2> QED BY <2>1, <2>3, <2>4, <2>5 DEF Hand
<1>10. CASE \/ Reconcile(p) \/ Seal(p) \/ Recheck(p) \/ Intend(p) \/ Publish(p)
            \/ Confirm(p) \/ Complete(p) \/ Refuse(p)
  <2>1. pc'[p] \notin Planning
    BY <1>1, <1>10 DEF Reconcile, Seal, Recheck, Intend, Publish, Confirm, Complete,
                       Refuse, Leave, Goto, Planning
  <2> QED BY <2>1 DEF Hand, Planning
<1> QED BY <1>3, <1>4, <1>5, <1>6, <1>7, <1>8, <1>9, <1>10, <1>11 DEF Step

LEMMA HandStays ==
  ASSUME IInv, InHand, RowsGood, Next
  PROVE  InHand'
<1>1. /\ rows \in [Ws -> [Occ -> Row]] /\ job \in [Ws -> Job]
      /\ run \in [Proc -> Run] /\ pc \in [Proc -> Held \cup {"idle", "lock"}]
  BY DEF IInv, TypeOK
<1>2. ASSUME NEW p \in Proc, NEW w \in Ws, NEW resume \in BOOLEAN, Start(p, w, resume)
      PROVE  InHand'
  <2>1. /\ pc'[p] = "lock" /\ rows' = rows
        /\ \A q \in Proc : q # p => pc'[q] = pc[q] /\ run'[q] = run[q]
    BY <1>1, <1>2 DEF Start, Goto, durable
  <2>2. Hand(pc'[p], run'[p], rows'[run'[p].ws])
    BY <2>1 DEF Hand, Planning
  <2> QED BY <2>1, <2>2 DEF InHand
<1>3. ASSUME NEW p \in Proc, Step(p)
      PROVE  InHand'
  <2>1. \A q \in Proc : q # p => pc'[q] = pc[q] /\ run'[q] = run[q]
    BY ZenonT(90), <1>1, <1>3 DEF Step, Acquire, Open, Check, Reconcile, Identify, Create, Fill,
         Load, Ready, CallModel, Checkpoint, Seal, Recheck, Intend, Publish, Confirm,
         Complete, Refuse, Leave, Goto
  <2>2. \A v \in Ws : rows'[v] = rows[v] \/ (pc[p] \in Held /\ v = run[p].ws)
    <3>1. CASE Fill(p) \/ Checkpoint(p)
      BY <1>1, <3>1 DEF Fill, Checkpoint, ws, Held
    <3>2. CASE ~(Fill(p) \/ Checkpoint(p))
      BY <1>3, <3>2 DEF Step, Acquire, Open, Check, Reconcile, Identify, Create,
         Load, Ready, CallModel, Seal, Recheck, Intend, Publish, Confirm,
         Complete, Refuse, durable
    <3> QED BY <3>1, <3>2
  <2>3. ASSUME NEW q \in Proc, pc'[q] # "idle", q # p
        PROVE  Hand(pc'[q], run'[q], rows'[run'[q].ws])
    BY <2>1, <2>2, <2>3, OthersKeepHand
  <2> QED BY SMTT(60), <1>3, <2>3, OwnHand DEF InHand
<1>4. ASSUME NEW p \in Proc, Interrupt(p) \/ Kill(p)
      PROVE  InHand'
  <2>1. /\ pc'[p] = "idle" /\ rows' = rows
        /\ \A q \in Proc : q # p => pc'[q] = pc[q] /\ run'[q] = run[q]
    BY <1>1, <1>4 DEF Interrupt, Kill, Leave, Goto, durable
  <2> QED BY <2>1 DEF InHand
<1>5. CASE Environment
  BY <1>5 DEF Environment, EditSource, SwapModel, TouchOutput, durable, InHand
<1> QED BY <1>2, <1>3, <1>4, <1>5 DEF Next

-----------------------------------------------------------------------------
\* Nothing is delivered before its intent is durable, and no intent is undone.
LEMMA PromiseStays ==
  ASSUME IInv, PromisedFirst, Next
  PROVE  PromisedFirst'
<1>1. delivered \in [Ws -> BOOLEAN]
  BY DEF IInv, TypeOK
<1>2. ASSUME NEW p \in Proc, Step(p) \/ Interrupt(p), NEW w \in Ws, delivered'[w]
      PROVE  job'[w].finalization = "intent"
  <2>1. Keeps(w)
    BY KeepsAll
  <2>2. CASE delivered[w]
    BY <2>1, <2>2 DEF Keeps, PromisedFirst
  <2>3. CASE ~delivered[w]
    <3>1. CASE Publish(p)
      <4>1. pc[p] = "publish" /\ w = run[p].ws /\ job' = job
        BY <1>1, <1>2, <2>3, <3>1 DEF Publish, ws
      <4> QED BY <4>1, Facts DEF Local, Intended
    <3>2. CASE ~Publish(p)
      <4>1. delivered' = delivered
        BY <1>2, <3>2 DEF Step, Acquire, Open, Check, Reconcile, Identify, Create, Fill,
           Load, Ready, CallModel, Checkpoint, Seal, Recheck, Intend, Confirm,
           Complete, Refuse, Interrupt, durable
      <4> QED BY SMTT(60), <1>2, <2>3, <4>1
    <3> QED BY <3>1, <3>2
  <2> QED BY <2>2, <2>3
<1>3. CASE UNCHANGED <<job, rows, delivered>>
  BY <1>3 DEF PromisedFirst
<1>4. \/ \E p \in Proc : Step(p) \/ Interrupt(p)
      \/ UNCHANGED <<job, rows, delivered>>
  BY OtherSteps DEF Writes, Step
<1> QED BY <1>2, <1>3, <1>4 DEF PromisedFirst

-----------------------------------------------------------------------------
LEMMA OwedInitially == Init => Owed
<1> SUFFICES ASSUME Init PROVE Owed
  OBVIOUS
<1>1. InHand
  BY DEF Init, InHand
<1>2. RowsGood
  BY DEF Init, RowsGood, RowGood, NoJob, Ended, Pending
<1>3. Deliveries
  BY DEF Init, Deliveries
<1>4. PromisedFirst
  BY DEF Init, PromisedFirst
<1> QED BY <1>1, <1>2, <1>3, <1>4 DEF Owed

LEMMA OwedStays == IInv /\ Owed /\ [Next]_vars => Owed'
<1>1. ASSUME Owed, UNCHANGED vars
      PROVE  Owed'
  <2>1. InHand' /\ RowsGood'
    BY <1>1 DEF vars, Owed, InHand, Hand, RowsGood, RowGood, EndedOf
  <2>2. Deliveries' /\ PromisedFirst'
    BY <1>1 DEF vars, Owed, Deliveries, PromisedFirst
  <2> QED BY <2>1, <2>2 DEF Owed
<1> QED BY <1>1, DeliveriesStay, RowsStay, HandStays, PromiseStays DEF Owed

LEMMA OwedAlways == Spec => [](IInv /\ Owed)
BY Initial, Inductive, OwedInitially, OwedStays, PTL DEF Spec

\* For any number of processes, resumes and occurrences, the checkpoint that
\* follows a call of the model finds its row pending in a translating job: no
\* answer is paid for twice (engine.py, the translating loop).
THEOREM PaidOnce == Spec => []SentOncePerCheckpoint
<1>1. IInv /\ Owed => SentOncePerCheckpoint
  <2> SUFFICES ASSUME IInv, Owed, NEW p \in Proc, pc[p] = "commit"
               PROVE  CheckpointAllowed(run[p].ws, NextPending(run[p].todo))
    BY DEF SentOncePerCheckpoint, ws
  <2> DEFINE w == run[p].ws
             k == NextPending(run[p].todo)
  <2>1. /\ w \in Ws /\ run[p] \in Run /\ job[w].state = "in_progress"
        /\ job[w].finalization = "none"
    BY Facts DEF Local
  <2>2. run[p].todo \in SUBSET Occ
    BY <2>1 DEF Run
  <2>3. run[p].todo # {} /\ \A i \in run[p].todo : ~Ended(rows[w][i])
    BY DEF Owed, InHand, Hand, Planning
  <2>4. k \in Occ /\ ~Ended(rows[w][k])
    BY <2>2, <2>3, NextIsInHand
  <2> HIDE DEF w, k
  <2>5. job[w].completed_count = Cardinality(EndedOf(rows[w]))
    BY <2>1 DEF Owed, RowsGood, RowGood
  <2>6. job[w].completed_count < N
    BY <2>4, <2>5, CountBelow
  <2>7. CheckpointAllowed(w, k)
    BY <2>1, <2>4, <2>6 DEF CheckpointAllowed, Ended
  <2> QED BY <2>7 DEF w, k
<1> QED BY <1>1, OwedAlways, PTL

\* For any number of workspaces that name one output path, at most one delivers
\* to it while nobody else touches it (atomic_publish_directory_no_replace).
THEOREM DeliveredOnce == Spec => []OneDeliveryPerOutput
<1>1. IInv /\ Owed => OneDeliveryPerOutput
  <2> SUFFICES ASSUME IInv, Owed, NEW v \in Ws, NEW w \in Ws, v # w,
                      OutOf[v] = OutOf[w], delivered[v], delivered[w],
                      ~(spent["touch"] > 0)
               PROVE  FALSE
    BY DEF OneDeliveryPerOutput
  <2>1. spent["touch"] = 0
    BY DEF IInv, TypeOK, Event
  <2> QED BY <2>1 DEF Owed, Deliveries
<1> QED BY <1>1, OwedAlways, PTL

-----------------------------------------------------------------------------
\* What TranslationJob sees of a workspace.
HandedRows(w) == IF delivered[w] THEN PromisedRows(w) ELSE None
phases   == [w \in Ws |-> PhaseOf(w)]
shown    == [w \in Ws |-> Rendered(rows[w])]
promises == [w \in Ws |-> PromisedRows(w)]
handings == [w \in Ws |-> HandedRows(w)]

\* A job whose row and creation stay as they are stays in its phase.
LEMMA PhaseStays ==
  ASSUME NEW w \in Ws, job'[w] = job[w], BeingCreated(w)' <=> BeingCreated(w)
  PROVE  PhaseOf(w)' = PhaseOf(w)
<1>1. PhaseOf(w)' = IF BeingCreated(w)' THEN "none" ELSE Phase(job'[w])
  BY DEF PhaseOf, Phase
<1>2. CASE BeingCreated(w)
  BY <1>1, <1>2 DEF PhaseOf
<1>3. CASE ~BeingCreated(w)
  BY <1>1, <1>3 DEF PhaseOf
<1> QED BY <1>2, <1>3

\* A step that writes one workspace changes what is seen of that one only.
LEMMA SeenOfOne ==
  ASSUME NEW w \in Ws,
         \A v \in Ws : v # w => job'[v] = job[v] /\ rows'[v] = rows[v]
                                /\ delivered'[v] = delivered[v],
         \A v \in Ws : v # w => (BeingCreated(v)' <=> BeingCreated(v))
  PROVE  /\ phases' = [phases EXCEPT ![w] = PhaseOf(w)']
         /\ shown' = [shown EXCEPT ![w] = Rendered(rows'[w])]
         /\ promises' = [promises EXCEPT ![w] = PromisedRows(w)']
         /\ handings' = [handings EXCEPT ![w] = HandedRows(w)']
         /\ PhaseOf(w)' = PhaseOf(w) => phases' = phases
         /\ Rendered(rows'[w]) = Rendered(rows[w]) => shown' = shown
         /\ PromisedRows(w)' = PromisedRows(w) => promises' = promises
         /\ HandedRows(w)' = HandedRows(w) => handings' = handings
<1>1. \A v \in Ws : v # w =>
        /\ PhaseOf(v)' = PhaseOf(v)
        /\ Rendered(rows'[v]) = Rendered(rows[v])
        /\ PromisedRows(v)' = PromisedRows(v)
        /\ HandedRows(v)' = HandedRows(v)
  BY PhaseStays DEF PromisedRows, HandedRows
<1>2. phases' = [phases EXCEPT ![w] = PhaseOf(w)']
  BY <1>1 DEF phases
<1>3. shown' = [shown EXCEPT ![w] = Rendered(rows'[w])]
  BY <1>1 DEF shown
<1>4. promises' = [promises EXCEPT ![w] = PromisedRows(w)']
  BY <1>1 DEF promises
<1>5. handings' = [handings EXCEPT ![w] = HandedRows(w)']
  BY <1>1 DEF handings
<1>6. PhaseOf(w)' = PhaseOf(w) => phases' = phases
  BY <1>1 DEF phases
<1>7. Rendered(rows'[w]) = Rendered(rows[w]) => shown' = shown
  BY <1>1 DEF shown
<1>8. PromisedRows(w)' = PromisedRows(w) => promises' = promises
  BY <1>1 DEF promises
<1>9. HandedRows(w)' = HandedRows(w) => handings' = handings
  BY <1>1 DEF handings
<1> QED BY <1>2, <1>3, <1>4, <1>5, <1>6, <1>7, <1>8, <1>9

\* Whether a workspace is being created changes only with the invocation that
\* holds its lease.
LEMMA CreationMoves ==
  ASSUME IInv, NEW p \in Proc, Step(p) \/ Interrupt(p) \/ Kill(p), NEW w \in Ws
  PROVE  /\ w # run[p].ws \/ (pc[p] # "created" /\ ~Fill(p)) =>
              (BeingCreated(w)' <=> BeingCreated(w))
         /\ w = run[p].ws /\ pc[p] \in Held => (BeingCreated(w)' <=> Fill(p))
<1>1. run \in [Proc -> Run] /\ pc \in [Proc -> Held \cup {"idle", "lock"}]
  BY DEF IInv, TypeOK
<1>2. \A q \in Proc : q # p => pc'[q] = pc[q] /\ run'[q] = run[q]
  BY ZenonT(90), <1>1 DEF Step, Acquire, Open, Check, Reconcile, Identify, Create, Fill,
       Load, Ready, CallModel, Checkpoint, Seal, Recheck, Intend, Publish, Confirm,
       Complete, Refuse, Interrupt, Kill, Leave, Goto
<1>3. Fill(p) => pc[p] = "fill" /\ pc'[p] = "created" /\ run' = run
  BY <1>1 DEF Fill, Goto
<1>4. ~Fill(p) => pc'[p] # "created"
  BY <1>1 DEF Step, Acquire, Open, Check, Reconcile, Identify, Create,
       Load, Ready, CallModel, Checkpoint, Seal, Recheck, Intend, Publish, Confirm,
       Complete, Refuse, Interrupt, Kill, Leave, Goto
<1>5. ASSUME w # run[p].ws \/ (pc[p] # "created" /\ ~Fill(p))
      PROVE  BeingCreated(w)' <=> BeingCreated(w)
  BY <1>2, <1>3, <1>4, <1>5 DEF BeingCreated, ws
<1>6. ASSUME w = run[p].ws, pc[p] \in Held
      PROVE  BeingCreated(w)' <=> Fill(p)
  <2>1. ASSUME NEW q \in Proc, pc'[q] = "created", run'[q].ws = w
        PROVE  q = p
    BY <1>2, <1>6, <2>1 DEF IInv, LeaseOK, Held
  <2> QED BY <1>3, <1>4, <1>6, <2>1 DEF BeingCreated, ws
<1> QED BY <1>5, <1>6

\* A step of an invocation outside create_workspace's transaction is seen as
\* what it does to the job row.
LEMMA OwnPhase ==
  ASSUME IInv, NEW p \in Proc, Step(p), ~Fill(p), pc[p] \in Held \ {"created"},
         NEW w \in Ws, w = run[p].ws
  PROVE  /\ PhaseOf(w) = Phase(job[w])
         /\ PhaseOf(w)' = Phase(job'[w])
         /\ \A v \in Ws : v # w => (BeingCreated(v)' <=> BeingCreated(v))
<1>1. ~BeingCreated(w) /\ ~BeingCreated(w)'
  BY OneCreates, CreationMoves
<1>2. \A v \in Ws : v # w => (BeingCreated(v)' <=> BeingCreated(v))
  BY CreationMoves
<1>3. PhaseOf(w)' = IF BeingCreated(w)' THEN "none" ELSE Phase(job'[w])
  BY DEF PhaseOf, Phase
<1> QED BY <1>1, <1>2, <1>3 DEF PhaseOf

Unseen == UNCHANGED <<phases, shown, promises, handings>>

\* In terms of what is seen, the actions of the contract.
LEMMA ContractActions ==
  ASSUME NEW w \in Ws
  PROVE  /\ Contract!Begin(w) <=>
              /\ phases[w] = "none"
              /\ phases' = [phases EXCEPT ![w] = "translating"]
              /\ UNCHANGED <<shown, promises, handings>>
         /\ Contract!Promise(w) <=>
              /\ phases[w] = "translating"
              /\ \A k \in Occ : shown[w][k] # [state |-> "pending", text |-> None]
              /\ phases' = [phases EXCEPT ![w] = "promised"]
              /\ promises' = [promises EXCEPT ![w] = shown[w]]
              /\ UNCHANGED <<shown, handings>>
         /\ Contract!Deliver(w) <=>
              /\ phases[w] = "promised"
              /\ handings' = [handings EXCEPT ![w] = promises[w]]
              /\ UNCHANGED <<phases, shown, promises>>
         /\ Contract!Finish(w) <=>
              /\ phases[w] = "promised"
              /\ handings[w] = promises[w]
              /\ phases' = [phases EXCEPT ![w] = "finished"]
              /\ UNCHANGED <<shown, promises, handings>>
  BY DEF Contract!Begin, Contract!Promise, Contract!Deliver, Contract!Finish,
         phases, shown, promises, handings, HandedRows

LEMMA ContractRecord ==
  ASSUME NEW w \in Ws, NEW k \in Occ, NEW r \in Shown,
         phases[w] = "translating",
         shown[w][k] = [state |-> "pending", text |-> None],
         shown' = [shown EXCEPT ![w][k] = r],
         UNCHANGED <<phases, promises, handings>>
  PROVE  Contract!Record(w, k, r)
  BY DEF Contract!Record, phases, shown, promises, handings, HandedRows

\* Row by row, what is seen of the rows.
LEMMA SeenRows ==
  ASSUME NEW rs, NEW k \in Occ
  PROVE  Rendered(rs)[k] = [state |-> rs[k].state, text |-> rs[k].text]
BY DEF Rendered

\* What a workspace is to the contract, from its job row.
LEMMA SeenJob ==
  ASSUME IInv, Owed, NEW w \in Ws
  PROVE  /\ phases[w] = PhaseOf(w) /\ shown[w] = Rendered(rows[w])
         /\ promises[w] = PromisedRows(w) /\ handings[w] = HandedRows(w)
         /\ job[w] \in Job
         /\ job[w].finalization # "intent" => PromisedRows(w) = None /\ HandedRows(w) = None
         /\ job[w].finalization = "intent" => PromisedRows(w) = Rendered(rows[w])
         /\ delivered[w] => HandedRows(w) = PromisedRows(w)
         /\ job[w].state = "completed" => delivered[w]
<1>1. JobGood(w, job[w], rows[w], delivered[w]) /\ job[w] \in Job
  BY DEF IInv, JobsOK, TypeOK
<1>2. delivered[w] => job[w].finalization = "intent"
  BY DEF Owed, PromisedFirst
<1> QED BY <1>1, <1>2 DEF JobGood, PromisedRows, HandedRows, phases, shown, promises, handings

LEMMA Phases ==
  ASSUME NEW j
  PROVE  /\ j.state \in {"absent", "torn"} => Phase(j) = "none"
         /\ j.state = "in_progress" /\ j.finalization = "none" => Phase(j) = "translating"
         /\ j.state = "in_progress" /\ j.finalization = "intent" => Phase(j) = "promised"
         /\ j.state = "completed" => Phase(j) = "finished"
BY DEF Phase

\* create_workspace: the file is nothing yet, and then a job of blank rows.
LEMMA CreateContract ==
  ASSUME IInv, Owed, NEW p \in Proc, Create(p)
  PROVE  Unseen
<1> SUFFICES ASSUME NEW w \in Ws, w = run[p].ws
             PROVE  Unseen
  BY Facts DEF Create
<1>1. /\ pc[p] = "create" /\ job[w].state = "absent"
      /\ job' = [job EXCEPT ![w].state = "torn"]
      /\ rows' = rows /\ delivered' = delivered
  BY DEF Create, ws
<1>2. /\ w \in Ws /\ job \in [Ws -> Job]
      /\ JobGood(w, job[w], rows[w], delivered[w])
  BY <1>1, Facts DEF IInv, TypeOK
<1>3. /\ job'[w] = [job[w] EXCEPT !.state = "torn"] /\ job[w] \in Job
      /\ \A v \in Ws : v # w => job'[v] = job[v]
  BY <1>1, <1>2
<1>4. /\ job'[w].state = "torn" /\ job'[w].finalization = job[w].finalization
      /\ job[w].finalization = "none"
  BY <1>1, <1>2, <1>3 DEF JobGood, Job
<1>5. Phase(job'[w]) = Phase(job[w])
  BY <1>1, <1>4, Phases
<1>6. PromisedRows(w)' = PromisedRows(w) /\ HandedRows(w)' = HandedRows(w)
  BY <1>1, <1>4 DEF PromisedRows, HandedRows
<1>7. /\ PhaseOf(w) = Phase(job[w]) /\ PhaseOf(w)' = Phase(job'[w])
      /\ \A v \in Ws : v # w => (BeingCreated(v)' <=> BeingCreated(v))
  BY <1>1, OwnPhase DEF Step, Held, Fill
<1> QED BY <1>1, <1>2, <1>3, <1>5, <1>6, <1>7, SeenOfOne DEF Unseen

LEMMA FillContract ==
  ASSUME IInv, Owed, NEW p \in Proc, Fill(p)
  PROVE  Unseen
<1> SUFFICES ASSUME NEW w \in Ws, w = run[p].ws
             PROVE  Unseen
  BY Facts DEF Fill
<1> DEFINE j == FreshJob(run[p].files.content, run[p].identity)
           rs == [k \in Occ |-> Pending]
<1>1. /\ pc[p] = "fill" /\ job' = [job EXCEPT ![w] = j]
      /\ rows' = [rows EXCEPT ![w] = rs] /\ delivered' = delivered
  BY DEF Fill, ws
<1>2. /\ w \in Ws /\ job \in [Ws -> Job] /\ rows \in [Ws -> [Occ -> Row]]
      /\ JobGood(w, job[w], rows[w], delivered[w])
      /\ Local("fill", run[p], job[w], rows[w], delivered[w])
  BY <1>1, Facts DEF IInv, TypeOK
<1>3. j.finalization = "none"
  BY DEF FreshJob
<1> HIDE DEF j
<1>4. /\ job'[w] = j /\ rows'[w] = rs
      /\ \A v \in Ws : v # w => job'[v] = job[v] /\ rows'[v] = rows[v]
  BY <1>1, <1>2
<1>5. /\ job[w].state = "torn" /\ job[w].finalization = "none"
      /\ \A k \in Occ : ~Ended(rows[w][k])
  BY <1>2 DEF Local, JobGood
<1>6. \A k \in Occ : rows[w][k] = Pending
  BY <1>2, <1>5 DEF Owed, RowsGood, RowGood
<1>7. Rendered(rows'[w]) = Rendered(rows[w])
  BY <1>4, <1>6 DEF Rendered
<1>8. /\ BeingCreated(w)'
      /\ \A v \in Ws : v # w => (BeingCreated(v)' <=> BeingCreated(v))
  BY <1>1, CreationMoves DEF Step, Held
<1>9. PhaseOf(w) = "none" /\ PhaseOf(w)' = "none"
  BY <1>5, <1>8, Phases DEF PhaseOf
<1>10. PromisedRows(w)' = PromisedRows(w) /\ HandedRows(w)' = HandedRows(w)
  BY <1>1, <1>3, <1>4, <1>5 DEF PromisedRows, HandedRows
<1> QED BY <1>1, <1>4, <1>7, <1>8, <1>9, <1>10, SeenOfOne DEF Unseen

\* The job begins when create_workspace returns, or when the process that would
\* still have taken it away is killed.
LEMMA BeginContract ==
  ASSUME IInv, Owed, NEW p \in Proc, Load(p) \/ Kill(p), pc[p] = "created"
  PROVE  \E v \in Ws : Contract!Begin(v)
<1> SUFFICES ASSUME NEW w \in Ws, w = run[p].ws
             PROVE  \E v \in Ws : Contract!Begin(v)
  BY Facts
<1>1. job' = job /\ rows' = rows /\ delivered' = delivered /\ ~Fill(p)
  BY DEF Load, Kill, Fill, durable
<1>2. job[w].state = "in_progress" /\ job[w].finalization = "none"
  BY Facts DEF Local
<1>3. BeingCreated(w)
  BY DEF BeingCreated, ws
<1>4. /\ ~BeingCreated(w)'
      /\ \A v \in Ws : v # w => (BeingCreated(v)' <=> BeingCreated(v))
  BY <1>1, CreationMoves DEF Step, Held
<1>5. PhaseOf(w) = "none"
  BY <1>3 DEF PhaseOf
<1>6. PhaseOf(w)' = "translating"
  BY <1>1, <1>2, <1>4, Phases DEF PhaseOf
<1>7. PromisedRows(w)' = PromisedRows(w) /\ HandedRows(w)' = HandedRows(w)
  BY <1>1 DEF PromisedRows, HandedRows
<1>8. /\ phases[w] = "none" /\ phases' = [phases EXCEPT ![w] = "translating"]
      /\ UNCHANGED <<shown, promises, handings>>
  BY <1>1, <1>4, <1>5, <1>6, <1>7, SeenOfOne, SeenJob
<1> QED BY <1>8, ContractActions

\* start_resume_run counts a run, which the contract does not see.
LEMMA ReadyContract ==
  ASSUME IInv, Owed, NEW p \in Proc, Ready(p)
  PROVE  Unseen
<1> SUFFICES ASSUME NEW w \in Ws, w = run[p].ws
             PROVE  Unseen
  BY Facts DEF Ready
<1>1. /\ pc[p] = "ready" /\ rows' = rows /\ delivered' = delivered
      /\ job' = job \/ job' = [job EXCEPT ![w].run_count = @ + 1]
  BY DEF Ready, ws
<1>2. w \in Ws /\ job \in [Ws -> Job]
  BY <1>1, Facts DEF IInv, TypeOK
<1>3. /\ job'[w] = job[w] \/ job'[w] = [job[w] EXCEPT !.run_count = @ + 1]
      /\ job[w] \in Job
      /\ \A v \in Ws : v # w => job'[v] = job[v]
  BY <1>1, <1>2
<1>4. /\ job'[w].state = job[w].state /\ job'[w].finalization = job[w].finalization
      /\ job'[w].tree = job[w].tree
  BY <1>3 DEF Job
<1>5. Phase(job'[w]) = Phase(job[w])
  BY <1>4 DEF Phase
<1>6. PromisedRows(w)' = PromisedRows(w) /\ HandedRows(w)' = HandedRows(w)
  BY <1>1, <1>4 DEF PromisedRows, HandedRows
<1>7. /\ PhaseOf(w) = Phase(job[w]) /\ PhaseOf(w)' = Phase(job'[w])
      /\ \A v \in Ws : v # w => (BeingCreated(v)' <=> BeingCreated(v))
  BY <1>1, OwnPhase DEF Step, Held, Fill
<1> QED BY <1>1, <1>2, <1>3, <1>5, <1>6, <1>7, SeenOfOne DEF Unseen

\* checkpoint records the result of one occurrence.
LEMMA CheckpointContract ==
  ASSUME IInv, Owed, NEW p \in Proc, Checkpoint(p)
  PROVE  \E v \in Ws : \E i \in Occ, r \in Shown : Contract!Record(v, i, r)
<1> DEFINE k == NextPending(run[p].todo)
           a == run[p].answer
           r == [state |-> a.state, text |-> a.text]
<1>0. PICK w \in Ws : w = run[p].ws
  BY Facts DEF Checkpoint
<1>1. /\ k \in Occ /\ ~Ended(rows[w][k])
      /\ job[w].state = "in_progress" /\ job[w].finalization = "none"
      /\ job'[w] = [job[w] EXCEPT !.completed_count = @ + 1]
      /\ rows'[w] = [rows[w] EXCEPT ![k] = a]
      /\ rows[w] \in [Occ -> Row] /\ job[w] \in Job
      /\ \A v \in Ws : v # w => job'[v] = job[v] /\ rows'[v] = rows[v]
  <2> DEFINE u == run[p].ws
  <2>1. /\ k \in Occ /\ ~Ended(rows[u][k])
        /\ job[u].state = "in_progress" /\ job[u].finalization = "none"
        /\ job'[u] = [job[u] EXCEPT !.completed_count = @ + 1]
        /\ rows'[u] = [rows[u] EXCEPT ![k] = a]
        /\ rows[u] \in [Occ -> Row] /\ job[u] \in Job
        /\ \A v \in Ws : v # u => job'[v] = job[v] /\ rows'[v] = rows[v]
    BY CheckpointEnds DEF Owed
  <2> HIDE DEF k, a
  <2> QED BY SMTT(60), <1>0, <2>1
<1> HIDE DEF k
<1>2. delivered' = delivered /\ pc[p] = "commit"
  BY DEF Checkpoint
<1>3. a \in Row /\ r \in Shown
  <2>1. a \in Row
    BY <1>2, Facts DEF Run
  <2> QED BY <2>1 DEF Row, Shown
<1> HIDE DEF a
<1>4. /\ job'[w].state = "in_progress" /\ job'[w].finalization = "none"
  BY <1>1 DEF Job
<1>5. Phase(job[w]) = "translating" /\ Phase(job'[w]) = "translating"
  BY <1>1, <1>4, Phases
<1>6. PromisedRows(w)' = PromisedRows(w) /\ HandedRows(w)' = HandedRows(w)
  BY <1>1, <1>2, <1>4 DEF PromisedRows, HandedRows
<1>7. Rendered(rows'[w]) = [Rendered(rows[w]) EXCEPT ![k] = r]
  BY <1>1 DEF Rendered
<1>8. Rendered(rows[w])[k] = [state |-> "pending", text |-> None]
  <2>1. rows[w][k] = Pending
    BY <1>1 DEF Owed, RowsGood, RowGood
  <2> QED BY <1>1, <2>1, SeenRows DEF Pending
<1> HIDE DEF r
<1>12. /\ PhaseOf(w) = Phase(job[w]) /\ PhaseOf(w)' = Phase(job'[w])
      /\ \A v \in Ws : v # w => (BeingCreated(v)' <=> BeingCreated(v))
  BY <1>0, <1>2, OwnPhase DEF Step, Held, Fill
<1>9. /\ phases[w] = "translating"
      /\ shown[w][k] = [state |-> "pending", text |-> None]
      /\ UNCHANGED <<phases, promises, handings>>
      /\ shown' = [shown EXCEPT ![w] = [Rendered(rows[w]) EXCEPT ![k] = r]]
      /\ shown[w] = Rendered(rows[w])
  <2>1. \A v \in Ws : v # w => job'[v] = job[v] /\ rows'[v] = rows[v]
                               /\ delivered'[v] = delivered[v]
    BY <1>1, <1>2
  <2>2. /\ PhaseOf(w)' = PhaseOf(w) => phases' = phases
        /\ PromisedRows(w)' = PromisedRows(w) => promises' = promises
        /\ HandedRows(w)' = HandedRows(w) => handings' = handings
        /\ shown' = [shown EXCEPT ![w] = Rendered(rows'[w])]
    BY <2>1, <1>12, SeenOfOne
  <2>3. phases[w] = PhaseOf(w) /\ shown[w] = Rendered(rows[w])
    BY SeenJob
  <2>4. shown[w][k] = [state |-> "pending", text |-> None]
    BY <1>8, <2>3
  <2>5. UNCHANGED <<phases, promises, handings>>
    BY <1>5, <1>6, <1>12, <2>2
  <2> QED BY <1>5, <1>7, <1>12, <2>2, <2>3, <2>4, <2>5
<1>10. shown' = [shown EXCEPT ![w][k] = r]
  BY <1>9
<1>11. Contract!Record(w, k, r)
  BY <1>1, <1>3, <1>9, <1>10, ContractRecord
<1> QED BY <1>1, <1>3, <1>11

\* set_finalization_intent promises the rows that the tree shows.
LEMMA IntendContract ==
  ASSUME IInv, Owed, NEW p \in Proc, Intend(p)
  PROVE  \E v \in Ws : Contract!Promise(v)
<1> SUFFICES ASSUME NEW w \in Ws, w = run[p].ws
             PROVE  \E v \in Ws : Contract!Promise(v)
  BY Facts DEF Intend
<1> DEFINE t == run[p].tree
<1>1. /\ pc[p] = "intend" /\ IntentAllowed(w)
      /\ job' = [job EXCEPT ![w].finalization = "intent", ![w].tree = t]
      /\ rows' = rows /\ delivered' = delivered
  BY DEF Intend, ws
<1>2. /\ job \in [Ws -> Job] /\ Local("intend", run[p], job[w], rows[w], delivered[w])
  BY <1>1, Facts DEF IInv, TypeOK
<1>3. t.rows = Rendered(rows[w])
  BY <1>2 DEF Local
<1> HIDE DEF t
<1>4. /\ job'[w] = [job[w] EXCEPT !.finalization = "intent", !.tree = t]
      /\ job[w] \in Job
      /\ \A v \in Ws : v # w => job'[v] = job[v]
  BY <1>1, <1>2
<1>5. /\ job[w].state = "in_progress" /\ job[w].finalization = "none"
      /\ \A k \in Occ : Ended(rows[w][k])
  BY <1>1 DEF IntentAllowed, NonePending
<1>6. /\ job'[w].state = "in_progress" /\ job'[w].finalization = "intent"
      /\ job'[w].tree = t
  BY <1>4, <1>5 DEF Job
<1>7. Phase(job[w]) = "translating" /\ Phase(job'[w]) = "promised"
  BY <1>5, <1>6, Phases
<1>8. ~delivered[w]
  BY <1>5 DEF Owed, PromisedFirst
<1>9. /\ PromisedRows(w)' = Rendered(rows[w])
      /\ HandedRows(w)' = HandedRows(w)
  BY <1>1, <1>3, <1>6, <1>8 DEF PromisedRows, HandedRows
<1>14. /\ PhaseOf(w) = Phase(job[w]) /\ PhaseOf(w)' = Phase(job'[w])
      /\ \A v \in Ws : v # w => (BeingCreated(v)' <=> BeingCreated(v))
  BY <1>1, OwnPhase DEF Step, Held, Fill
<1>10. shown[w] = Rendered(rows[w]) /\ phases[w] = Phase(job[w])
  BY <1>14, SeenJob
<1>11. ASSUME NEW k \in Occ
       PROVE  shown[w][k] # [state |-> "pending", text |-> None]
  <2>1. Rendered(rows[w])[k] = [state |-> rows[w][k].state, text |-> rows[w][k].text]
    BY SeenRows
  <2>2. shown[w][k].state = rows[w][k].state
    BY <1>10, <2>1
  <2> QED BY <1>5, <2>2 DEF Ended
<1>12. \A v \in Ws : v # w => job'[v] = job[v] /\ rows'[v] = rows[v]
                              /\ delivered'[v] = delivered[v]
  BY <1>1, <1>4
<1>13. /\ phases' = [phases EXCEPT ![w] = "promised"]
       /\ promises' = [promises EXCEPT ![w] = shown[w]]
       /\ UNCHANGED <<shown, handings>>
  <2>1. /\ phases' = [phases EXCEPT ![w] = PhaseOf(w)']
        /\ promises' = [promises EXCEPT ![w] = PromisedRows(w)']
        /\ Rendered(rows'[w]) = Rendered(rows[w]) => shown' = shown
        /\ HandedRows(w)' = HandedRows(w) => handings' = handings
    BY <1>12, <1>14, SeenOfOne
  <2> QED BY <1>1, <1>7, <1>9, <1>10, <1>14, <2>1
<1> QED BY <1>7, <1>10, <1>11, <1>13, ContractActions

\* The rename delivers what was promised; once more after the path was emptied,
\* it delivers the same.
LEMMA PublishContract ==
  ASSUME IInv, Owed, NEW p \in Proc, Publish(p)
  PROVE  Unseen \/ \E v \in Ws : Contract!Deliver(v)
<1> SUFFICES ASSUME NEW w \in Ws, w = run[p].ws
             PROVE  Unseen \/ \E v \in Ws : Contract!Deliver(v)
  BY Facts DEF Publish
<1>1. /\ pc[p] = "publish" /\ job' = job /\ rows' = rows
      /\ delivered' = [delivered EXCEPT ![w] = TRUE]
  BY DEF Publish, ws
<1>2. /\ delivered \in [Ws -> BOOLEAN] /\ job[w] \in Job
      /\ Local("publish", run[p], job[w], rows[w], delivered[w])
      /\ JobGood(w, job[w], rows[w], delivered[w])
  BY <1>1, Facts DEF IInv, TypeOK
<1>3. job[w].finalization = "intent" /\ job[w].state \in {"in_progress", "completed"}
  BY <1>2 DEF Local, Intended, JobGood, Job
<1>4. delivered'[w] /\ \A v \in Ws : v # w => delivered'[v] = delivered[v]
  BY <1>1, <1>2
<1>5. /\ PromisedRows(w)' = PromisedRows(w) /\ HandedRows(w)' = PromisedRows(w)
  BY <1>1, <1>4 DEF PromisedRows, HandedRows
<1>9. /\ PhaseOf(w) = Phase(job[w]) /\ PhaseOf(w)' = Phase(job'[w])
      /\ \A v \in Ws : v # w => (BeingCreated(v)' <=> BeingCreated(v))
  BY <1>1, OwnPhase DEF Step, Held, Fill
<1>6. /\ UNCHANGED <<phases, shown, promises>>
      /\ handings' = [handings EXCEPT ![w] = promises[w]]
      /\ HandedRows(w)' = HandedRows(w) => handings' = handings
  <2>1. \A v \in Ws : v # w => job'[v] = job[v] /\ rows'[v] = rows[v]
                               /\ delivered'[v] = delivered[v]
    BY <1>1, <1>4
  <2>2. /\ PhaseOf(w)' = PhaseOf(w) => phases' = phases
        /\ Rendered(rows'[w]) = Rendered(rows[w]) => shown' = shown
        /\ PromisedRows(w)' = PromisedRows(w) => promises' = promises
        /\ handings' = [handings EXCEPT ![w] = HandedRows(w)']
        /\ HandedRows(w)' = HandedRows(w) => handings' = handings
    BY <2>1, <1>9, SeenOfOne
  <2>3. promises[w] = PromisedRows(w)
    BY SeenJob
  <2>4. PhaseOf(w)' = PhaseOf(w) /\ Rendered(rows'[w]) = Rendered(rows[w])
    BY <1>1, <1>9
  <2> QED BY <1>5, <2>2, <2>3, <2>4
<1>7. CASE job[w].state = "in_progress"
  <2>1. phases[w] = "promised"
    BY <1>3, <1>7, <1>9, Phases, SeenJob
  <2> QED BY <1>6, <2>1, ContractActions
<1>8. CASE job[w].state = "completed"
  <2>1. HandedRows(w) = PromisedRows(w)
    BY <1>8, SeenJob
  <2> QED BY <1>5, <1>6, <2>1 DEF Unseen
<1> QED BY <1>3, <1>7, <1>8

\* mark_workspace_completed finishes a job that was delivered.
LEMMA CompleteContract ==
  ASSUME IInv, Owed, NEW p \in Proc, Complete(p)
  PROVE  \E v \in Ws : Contract!Finish(v)
<1> SUFFICES ASSUME NEW w \in Ws, w = run[p].ws
             PROVE  \E v \in Ws : Contract!Finish(v)
  BY Facts DEF Complete
<1>1. /\ pc[p] = "complete" /\ CompletionAllowed(w, run[p].tree)
      /\ job' = [job EXCEPT ![w].state = "completed"]
      /\ rows' = rows /\ delivered' = delivered
  BY DEF Complete, ws
<1>2. /\ job \in [Ws -> Job] /\ delivered[w]
  BY <1>1, Facts DEF IInv, TypeOK, Local
<1>3. /\ job'[w] = [job[w] EXCEPT !.state = "completed"] /\ job[w] \in Job
      /\ \A v \in Ws : v # w => job'[v] = job[v]
  BY <1>1, <1>2
<1>4. job[w].state = "in_progress" /\ job[w].finalization = "intent"
  BY <1>1 DEF CompletionAllowed, Intended
<1>5. /\ job'[w].state = "completed" /\ job'[w].finalization = job[w].finalization
      /\ job'[w].tree = job[w].tree
  BY <1>3 DEF Job
<1>6. Phase(job[w]) = "promised" /\ Phase(job'[w]) = "finished"
  BY <1>4, <1>5, Phases
<1>7. PromisedRows(w)' = PromisedRows(w) /\ HandedRows(w)' = HandedRows(w)
  BY <1>1, <1>5 DEF PromisedRows, HandedRows
<1>9. /\ PhaseOf(w) = Phase(job[w]) /\ PhaseOf(w)' = Phase(job'[w])
      /\ \A v \in Ws : v # w => (BeingCreated(v)' <=> BeingCreated(v))
  BY <1>1, OwnPhase DEF Step, Held, Fill
<1>8. /\ phases[w] = "promised" /\ handings[w] = promises[w]
      /\ phases' = [phases EXCEPT ![w] = "finished"]
      /\ UNCHANGED <<shown, promises, handings>>
  <2>1. \A v \in Ws : v # w => job'[v] = job[v] /\ rows'[v] = rows[v]
                               /\ delivered'[v] = delivered[v]
    BY <1>1, <1>3
  <2>2. /\ phases' = [phases EXCEPT ![w] = PhaseOf(w)']
        /\ Rendered(rows'[w]) = Rendered(rows[w]) => shown' = shown
        /\ PromisedRows(w)' = PromisedRows(w) => promises' = promises
        /\ HandedRows(w)' = HandedRows(w) => handings' = handings
    BY <2>1, <1>9, SeenOfOne
  <2>3. /\ phases[w] = PhaseOf(w) /\ promises[w] = PromisedRows(w)
        /\ handings[w] = HandedRows(w)
        /\ delivered[w] => HandedRows(w) = PromisedRows(w)
    BY SeenJob
  <2>4. phases[w] = "promised" /\ handings[w] = promises[w]
    BY <1>2, <1>6, <1>9, <2>3
  <2>5. rows'[w] = rows[w] /\ phases' = [phases EXCEPT ![w] = "finished"]
    BY <1>1, <1>6, <1>9, <2>2
  <2> QED BY <1>7, <2>2, <2>4, <2>5
<1> QED BY <1>8, ContractActions

\* A step that writes no workspace and neither begins nor ends a creation.
LEMMA QuietContract ==
  ASSUME UNCHANGED <<job, rows, delivered>>,
         \A w \in Ws : BeingCreated(w)' <=> BeingCreated(w)
  PROVE  Unseen
<1>1. \A w \in Ws : PhaseOf(w)' = PhaseOf(w)
  BY PhaseStays
<1> QED BY <1>1 DEF Unseen, phases, shown, promises, handings, HandedRows, PromisedRows

\* Unwinding removes a file that is no job yet.
LEMMA InterruptContract ==
  ASSUME IInv, Owed, NEW p \in Proc, Interrupt(p)
  PROVE  Unseen
<1> SUFFICES ASSUME NEW w \in Ws, w = run[p].ws
             PROVE  Unseen
  BY Facts DEF Interrupt
<1>1. /\ pc[p] # "idle" /\ rows' = rows /\ delivered' = delivered
      /\ job' = IF pc[p] \in {"fill", "created"}
                THEN [job EXCEPT ![w] = NoJob] ELSE job
  BY DEF Interrupt, ws
<1>2. ~Fill(p)
  BY DEF Interrupt, Fill, Leave, Goto, IInv, TypeOK
<1>3. CASE pc[p] \notin {"fill", "created"}
  BY <1>1, <1>2, <1>3, CreationMoves, QuietContract
<1>4. CASE pc[p] \in {"fill", "created"}
  <2>1. /\ job \in [Ws -> Job] /\ job[w].finalization = "none"
        /\ job[w].state = "torn" \/ BeingCreated(w)
    BY <1>1, <1>4, Facts DEF IInv, TypeOK, Local, JobGood, BeingCreated, ws
  <2>2. /\ job'[w] = NoJob /\ \A v \in Ws : v # w => job'[v] = job[v]
    BY <1>1, <1>4, <2>1
  <2>3. /\ ~BeingCreated(w)'
        /\ \A v \in Ws : v # w => (BeingCreated(v)' <=> BeingCreated(v))
    BY <1>2, <1>4, CreationMoves DEF Held
  <2>4. PhaseOf(w) = "none"
    BY <2>1, Phases DEF PhaseOf
  <2>5. PhaseOf(w)' = "none"
    BY <2>2, <2>3, Phases DEF PhaseOf, NoJob
  <2>6. PromisedRows(w)' = PromisedRows(w) /\ HandedRows(w)' = HandedRows(w)
    BY <1>1, <2>1, <2>2 DEF PromisedRows, HandedRows, NoJob
  <2>7. \A v \in Ws : v # w => job'[v] = job[v] /\ rows'[v] = rows[v]
                               /\ delivered'[v] = delivered[v]
    BY <1>1, <2>2
  <2> QED BY <1>1, <2>3, <2>4, <2>5, <2>6, <2>7, SeenOfOne DEF Unseen
<1> QED BY <1>3, <1>4

\* What writes nothing is seen as a beginning or not at all.
LEMMA OthersContract ==
  ASSUME IInv, Owed, Next, \A p \in Proc : ~Writes(p)
  PROVE  Unseen \/ \E v \in Ws : Contract!Begin(v)
<1>1. UNCHANGED <<job, rows, delivered>>
  BY OtherSteps
<1>2. ASSUME NEW p \in Proc, Load(p) \/ Kill(p), pc[p] = "created"
      PROVE  \E v \in Ws : Contract!Begin(v)
  BY <1>2, BeginContract
<1>3. ASSUME NEW p \in Proc, Step(p) \/ Kill(p), pc[p] # "created"
      PROVE  Unseen
  BY <1>1, <1>3, CreationMoves, QuietContract DEF Writes
<1>4. ASSUME NEW p \in Proc, Step(p), ~Load(p)
      PROVE  pc[p] # "created"
  BY <1>4 DEF Step, Writes, Acquire, Open, Check, Reconcile, Identify, CallModel,
              Seal, Recheck, Confirm, Refuse, Refused
<1>5. ASSUME NEW p \in Proc, NEW w \in Ws, NEW resume \in BOOLEAN,
             Start(p, w, resume)
      PROVE  Unseen
  <2>1. /\ pc[p] = "idle" /\ pc'[p] = "lock"
        /\ \A q \in Proc : q # p => pc'[q] = pc[q] /\ run'[q] = run[q]
    BY <1>5 DEF Start, Goto, IInv, TypeOK
  <2>2. \A v \in Ws : BeingCreated(v)' <=> BeingCreated(v)
    BY <2>1 DEF BeingCreated, ws
  <2> QED BY <1>1, <2>2, QuietContract
<1>6. CASE Environment
  <2>1. pc' = pc /\ run' = run
    BY <1>6 DEF Environment, EditSource, SwapModel, TouchOutput
  <2>2. \A v \in Ws : BeingCreated(v)' <=> BeingCreated(v)
    BY <2>1 DEF BeingCreated, ws
  <2> QED BY <1>1, <2>2, QuietContract
<1> QED BY <1>2, <1>3, <1>4, <1>5, <1>6 DEF Next, Writes, Step

\* Every workspace is a translation job as TranslationJob describes it, for any
\* number of processes that are stopped and resumed anywhere: each transaction
\* and the rename is one action of the contract or none, and a job begins when
\* create_workspace can no longer take it away (engine.py and workspace.py
\* together).
THEOREM FulfilsContract == Spec => KeepsPromise
<1>1. Init => Contract!Init
  <2>1. Init => \A w \in Ws : ~BeingCreated(w)
    BY DEF Init, BeingCreated
  <2> QED
    BY <2>1 DEF Init, Contract!Init, NoJob, PhaseOf, Phase, PromisedRows, Rendered, Pending
<1>2. ASSUME IInv, Owed, [Next]_vars
      PROVE  [Contract!Next]_(Contract!jobVars)
  <2>1. Unseen => UNCHANGED Contract!jobVars
    BY DEF Unseen, Contract!jobVars, phases, shown, promises, handings, HandedRows
  <2>2. CASE UNCHANGED vars
    <3>1. \A w \in Ws : BeingCreated(w)' <=> BeingCreated(w)
      BY <2>2 DEF vars, BeingCreated, ws
    <3> QED BY <2>1, <2>2, <3>1, QuietContract DEF vars
  <2>3. ASSUME NEW p \in Proc, Writes(p)
        PROVE  Unseen \/ Contract!Next
    <3>1. CASE Checkpoint(p) \/ Intend(p) \/ Publish(p) \/ Complete(p)
      <4>1. \/ Unseen
            \/ \E v \in Ws : \E i \in Occ, r \in Shown : Contract!Record(v, i, r)
            \/ \E v \in Ws : Contract!Promise(v)
            \/ \E v \in Ws : Contract!Deliver(v)
            \/ \E v \in Ws : Contract!Finish(v)
        BY <1>2, <3>1, CheckpointContract, IntendContract, PublishContract,
           CompleteContract
      <4> QED BY <4>1 DEF Contract!Next
    <3>2. CASE Create(p) \/ Fill(p) \/ Ready(p) \/ Interrupt(p)
      BY <1>2, <3>2, CreateContract, FillContract, ReadyContract, InterruptContract
    <3> QED BY <2>3, <3>1, <3>2 DEF Writes
  <2>4. CASE Next /\ \A p \in Proc : ~Writes(p)
    <3>1. Unseen \/ \E v \in Ws : Contract!Begin(v)
      BY <1>2, <2>4, OthersContract
    <3> QED BY <2>1, <3>1 DEF Contract!Next
  <2> QED BY <1>2, <2>1, <2>2, <2>3, <2>4
<1>3. IInv /\ Owed /\ [Next]_vars => [Contract!Next]_(Contract!jobVars)
  BY <1>2
<1> QED BY <1>1, <1>3, OwedAlways, PTL DEF Spec, KeepsPromise, Contract!Spec
=============================================================================
