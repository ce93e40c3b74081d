----------------------------- MODULE MCAccounts -----------------------------
(* Small instances of AccountSystem for TLC. *)
EXTENDS AccountSystem, TLC

CONSTANTS u1, c1, c2

\* Sessions beside changes of the password, a reset beside sessions, and codes
\* asked for and guessed at long enough for the nightly job to delete some.
SessionPlan == [kinds |-> {"login", "refresh", "change"}, until |-> 1]
EvictionPlan == [kinds |-> {"login", "refresh", "issue", "verify", "reset"}, until |-> 0]
CodePlan == [kinds |-> {"issue", "verify"}, until |-> 4]

MCPlans == {SessionPlan, EvictionPlan, CodePlan}

\* Requests are interchangeable; no property orders them.
Symmetry == Permutations(Clients)
=============================================================================
