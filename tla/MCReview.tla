------------------------------ MODULE MCReview ------------------------------
(* Small instances of ReviewSession for TLC: two entries, on one page or on *)
(* a page that a filter narrows to the first.                              *)
EXTENDS ReviewSession, TLC

CONSTANTS e1, e2, tr, n1

AllPages == {{e1}, {e1, e2}}

(* Envelopes of an older page: decisions without an undo, which is all that *)
(* version 1 had, and with one that does or does not fit them.             *)
Accepted == [Blank EXCEPT ![e1].decision = "accept"]
TakeBack == [decision |-> "accept", before |-> [r \in {e1} |-> Default]]
Old ==
  {[by |-> Outside, version |-> 2, items |-> m, undo |-> u] :
     m \in {Accepted, [Accepted EXCEPT ![e1].note = n1]},
     u \in {NoUndo, TakeBack}}

(* A version 3 envelope whose undo does not fit its decisions.             *)
Damaged ==
  {[by |-> Outside, version |-> 3, undo |-> TakeBack,
    items |-> [Accepted EXCEPT ![e1].decision = "reject"]]}

Found == Old \union Damaged

TabSymmetry == Permutations(Tab)
=============================================================================
