--------------------------- MODULE TranslationJob ---------------------------
(***************************************************************************)
(* What resumable translation jobs promise their operator, without the     *)
(* processes, leases and files that keep the promise: a result, once       *)
(* recorded, is final; the output tree is promised once, when every        *)
(* occurrence has a result; and a job is finished only after exactly the   *)
(* promised tree has been delivered.                                       *)
(***************************************************************************)
CONSTANTS Jobs,     \* the jobs, independent of each other
          Occ,      \* the reviewable occurrences of the source, in order
          Result,   \* what an occurrence can end as
          Pending,  \* the value of an occurrence that has not ended yet
          Nothing   \* no tree promised, no tree delivered

VARIABLES phase,      \* job -> "none", "translating", "promised", "finished"
          results,    \* job -> occurrence -> its result, or Pending
          promised,   \* job -> the results its promised tree shows, or Nothing
          handed      \* job -> the results the tree delivered to its output
                      \*        path shows, or Nothing

jobVars == <<phase, results, promised, handed>>

Init ==
  /\ phase = [j \in Jobs |-> "none"]
  /\ results = [j \in Jobs |-> [k \in Occ |-> Pending]]
  /\ promised = [j \in Jobs |-> Nothing]
  /\ handed = [j \in Jobs |-> Nothing]

Begin(j) ==
  /\ phase[j] = "none"
  /\ phase' = [phase EXCEPT ![j] = "translating"]
  /\ UNCHANGED <<results, promised, handed>>

Record(j, k, r) ==
  /\ phase[j] = "translating"
  /\ results[j][k] = Pending
  /\ results' = [results EXCEPT ![j][k] = r]
  /\ UNCHANGED <<phase, promised, handed>>

Promise(j) ==
  /\ phase[j] = "translating"
  /\ \A k \in Occ : results[j][k] # Pending
  /\ phase' = [phase EXCEPT ![j] = "promised"]
  /\ promised' = [promised EXCEPT ![j] = results[j]]
  /\ UNCHANGED <<results, handed>>

Deliver(j) ==
  /\ phase[j] = "promised"
  /\ handed' = [handed EXCEPT ![j] = promised[j]]
  /\ UNCHANGED <<phase, results, promised>>

Finish(j) ==
  /\ phase[j] = "promised"
  /\ handed[j] = promised[j]
  /\ phase' = [phase EXCEPT ![j] = "finished"]
  /\ UNCHANGED <<results, promised, handed>>

Next ==
  \E j \in Jobs :
    \/ Begin(j)
    \/ \E k \in Occ, r \in Result : Record(j, k, r)
    \/ Promise(j)
    \/ Deliver(j)
    \/ Finish(j)

Spec == Init /\ [][Next]_jobVars
=============================================================================
