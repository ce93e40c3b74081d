---------------------------- MODULE ReputationJob ----------------------------
(***************************************************************************)
(* ReputationWarningScheduler: every instance walks the sellers with a bad  *)
(* reputation page by page, and notifies each of them once.                 *)
(***************************************************************************)
EXTENDS Reviews

CONSTANTS
  Instances,   \* instances of the application
  PageLimit,   \* sellers on a page of candidates, 100
  MaxFailures  \* bound: runs that end with an error

ASSUME JobAssumption ==
  /\ PageLimit \in Nat \ {0} /\ MaxFailures \in Nat
  /\ Instances \cap (Clients \cup Staff \cup {None}) = {}

VARIABLES
  job,      \* the run of each instance; "idle" is running = false
  notices,  \* sellers whose notification is stored: the key is the seller's
  pushed,   \* observed: how often each seller was sent the notification
  failures  \* runs that ended with an error

jobVars == <<job, notices, pushed, failures>>

\* todo is what is left of the page; seller the one whose row the transaction
\* holds, then the one whose new notification is to be pushed.
Run == [pc : {"idle", "page", "next", "insert", "push"}, cursor : Nat,
        todo : SUBSET Sellers, seller : Sellers \cup {None}]

AtRest == [pc |-> "idle", cursor |-> 0, todo |-> {}, seller |-> None]

JobTypeOK ==
  /\ job \in [Instances -> Run]
  /\ notices \in SUBSET Sellers
  /\ pushed \in [Sellers -> Nat]
  /\ failures \in 0 .. MaxFailures

JobInit ==
  /\ job = [i \in Instances |-> AtRest]
  /\ notices = {}
  /\ pushed = [s \in Sellers |-> 0]
  /\ failures = 0

-----------------------------------------------------------------------------

Lowest(S, n) == {s \in S : Cardinality({t \in S : t < s}) < n}

Least(S) == CHOOSE s \in S : \A t \in S : s <= t

StartRun(i) ==
  /\ job[i].pc = "idle"
  /\ job' = [job EXCEPT ![i] = [AtRest EXCEPT !.pc = "page"]]
  /\ UNCHANGED <<reviewVars, notices, pushed, failures>>

\* Mutant: the query forgets the cursor and selects the first page again.
SelectPageAgain(i) ==
  LET page == Lowest({s \in Sellers \ locked : Warned(s)}, PageLimit) IN
  /\ job[i].pc = "page"
  /\ job' = [job EXCEPT ![i] =
       IF page = {} THEN AtRest ELSE [@ EXCEPT !.pc = "next", !.todo = page]]
  /\ UNCHANGED <<reviewVars, notices, pushed, failures>>

\* One query: the next sellers after the cursor, in the order of their ids, who
\* may log in and have a bad reputation.  An empty page ends the run.
SelectPage(i) ==
  LET page == Lowest({s \in Sellers \ locked : Warned(s) /\ s > job[i].cursor}, PageLimit) IN
  /\ job[i].pc = "page"
  /\ job' = [job EXCEPT ![i] =
       IF page = {} THEN AtRest ELSE [@ EXCEPT !.pc = "next", !.todo = page]]
  /\ UNCHANGED <<reviewVars, notices, pushed, failures>>

\* The run of i without the seller it has seen to; the last one of a page is
\* the cursor of the next.
After(i, s) ==
  LET rest == job[i].todo \ {s} IN
  [AtRest EXCEPT !.pc = IF rest = {} THEN "page" ELSE "next", !.todo = rest, !.cursor = s]

\* The seller's row is locked and the reputation read again: by now it may have
\* recovered, or the account been locked.
LockCandidate(i) ==
  LET s == Least(job[i].todo) IN
  /\ job[i].pc = "next"
  /\ Grantable(i, s, "nokey")
  /\ IF s \notin locked /\ Warned(s)
     THEN /\ job' = [job EXCEPT ![i].pc = "insert", ![i].seller = s]
          /\ locks' = locks \cup {[by |-> i, row |-> s, mode |-> "nokey"]}
     ELSE job' = [job EXCEPT ![i] = After(i, s)] /\ UNCHANGED locks
  /\ UNCHANGED <<locked, posts, reviews, call, notices, pushed, failures>>

Unlocked(i) == {l \in locks : l.by # i}

\* createOnce: a conflict on the key inserts nothing and returns no row.
CommitNotice(i) ==
  LET s == job[i].seller IN
  /\ job[i].pc = "insert"
  /\ notices' = notices \cup {s}
  /\ job' = [job EXCEPT ![i] =
       IF s \in notices THEN After(i, s) ELSE [@ EXCEPT !.pc = "push"]]
  /\ locks' = Unlocked(i)
  /\ UNCHANGED <<locked, posts, reviews, call, pushed, failures>>

\* emitCreated, after the commit.
Push(i) ==
  LET s == job[i].seller IN
  /\ job[i].pc = "push"
  /\ pushed' = [pushed EXCEPT ![s] = @ + 1]
  /\ job' = [job EXCEPT ![i] = After(i, s)]
  /\ UNCHANGED <<reviewVars, notices, failures>>

\* An error, or the death of the instance: the transaction rolls back, and the
\* next run starts from the first page.
RunFails(i) ==
  /\ job[i].pc # "idle" /\ failures < MaxFailures
  /\ failures' = failures + 1
  /\ job' = [job EXCEPT ![i] = AtRest]
  /\ locks' = Unlocked(i)
  /\ UNCHANGED <<locked, posts, reviews, call, notices, pushed>>

JobStep(i) ==
  \/ StartRun(i) \/ SelectPage(i) \/ LockCandidate(i) \/ CommitNotice(i) \/ Push(i)

JobNext == \E i \in Instances : JobStep(i) \/ RunFails(i)
=============================================================================
