---------------------------- MODULE MCPostSystem ----------------------------
(* Small instances of PostSystem for TLC. *)
EXTENDS PostingStatus, TLC

CONSTANTS p1, p2, p3, t1, t2, w1, w2, s1, s2, r1, r2, b1

\* One ban that is already in force, one scheduled for later.
MCWindows == {[from |-> 0, until |-> 2], [from |-> 1, until |-> Forever]}

NoWindows == {}

\* Requests, posts and instances are interchangeable; no property orders them.
Symmetry == Permutations(Posts) \cup Permutations(Txns)
            \cup Permutations(Workers) \cup Permutations(Sellers)

=============================================================================
