----------------------------- MODULE MCResumable -----------------------------
(* Small instances of ResumableTranslation for TLC.                         *)
EXTENDS ResumableTranslation, TLC

CONSTANTS p1, p2, w1, w2, o1, c1, c2, d1, d2, t1

\* Each workspace names the one output path.
SharedOutput == [w \in Ws |-> o1]

\* The processes, the source bytes and the model digests are interchangeable.
Interchangeable ==
  Permutations({p1, p2}) \cup Permutations({c1, c2}) \cup Permutations({d1, d2})
=============================================================================
