------------------------------ MODULE PostExpiry ------------------------------
(***************************************************************************)
(* The expiry job of PostExpiryService: every minute each application       *)
(* instance selects a bounded batch of posts that are overdue or about to   *)
(* expire, skipping rows somebody holds, marks the overdue ones, records    *)
(* one notification per post, cycle and kind in the same transaction, and   *)
(* pushes the notifications it created once the transaction has committed.  *)
(***************************************************************************)
EXTENDS PostStore

VARIABLES
  batch,   \* what each instance is doing
  pushed   \* notifications already pushed to their recipient

\* at and seen are the statement's snapshot: its timestamp, and the
\* notifications committed when it began about the rows it considers.
Batch == [pc : {"idle", "select", "locked", "push"}, at : Nat,
          rows : SUBSET Posts, seen : SUBSET Notice, created : SUBSET Notice]

NoBatch == [pc |-> "idle", at |-> 0, rows |-> {}, seen |-> {}, created |-> {}]

ExpiryInit == batch = [w \in Workers |-> NoBatch] /\ pushed = {}

ExpiryTypeOK == batch \in [Workers -> Batch] /\ pushed \subseteq Notice

NoticeOf(p, kind) == [post |-> p, cycle |-> posts[p].renewals, kind |-> kind]

\* Mutant: rows already marked are not looked at again.
DueActive(p, at, seen) ==
  /\ ~posts[p].deleted
  /\ posts[p].status = "active"
  /\ \/ posts[p].expiresAt <= at
     \/ /\ posts[p].expiresAt > at
        /\ posts[p].expiresAt <= at + Reminder
        /\ NoticeOf(p, "expiring") \notin seen

\* The WHERE clause of the batch at timestamp `at`, given the notifications
\* it sees.
Due(p, at, seen) ==
  /\ ~posts[p].deleted
  /\ \/ /\ posts[p].expiresAt <= at
        /\ \/ posts[p].status = "active"
           \/ posts[p].status = "expired" /\ NoticeOf(p, "expired") \notin seen
     \/ /\ posts[p].status = "active"
        /\ posts[p].expiresAt > at
        /\ posts[p].expiresAt <= at + Reminder
        /\ NoticeOf(p, "expiring") \notin seen

\* The statement takes its snapshot ...
BeginBatch(w) ==
  /\ batch[w].pc = "idle"
  /\ LET rows == {p \in Posts : Due(p, clock, notices)} IN
       /\ rows # {}
       /\ batch' = [batch EXCEPT ![w] = [NoBatch EXCEPT
                      !.pc = "select", !.at = clock, !.rows = rows,
                      !.seen = {n \in notices : n.post \in rows}]]
  /\ UNCHANGED <<storeVars, pushed>>

\* The rows the statement may lock: free, and still due when their current
\* version is read again.
Lockable(w) ==
  {p \in batch[w].rows : postLock[p] = None /\ Due(p, batch[w].at, batch[w].seen)}

IsBatch(w, rows) ==
  /\ rows \subseteq Lockable(w)
  /\ \/ rows = Lockable(w) /\ Cardinality(rows) <= BatchSize
     \/ Cardinality(rows) = BatchSize
  /\ \A p \in rows, q \in Lockable(w) \ rows :
       posts[p].expiresAt <= posts[q].expiresAt

\* ... and locks the rows with the earliest deadlines, SKIP LOCKED.
LockBatch(w, rows) ==
  /\ batch[w].pc = "select"
  /\ IsBatch(w, rows)
  /\ postLock' = [p \in Posts |-> IF p \in rows THEN w ELSE postLock[p]]
  /\ batch' = [batch EXCEPT ![w] = [@ EXCEPT !.pc = "locked", !.rows = rows,
                                            !.seen = {}]]
  /\ UNCHANGED <<clock, account, restrictions, posts, ledger, notices,
                 sellerLock, pushed>>

\* Mutant: every row of the batch counts as overdue.
OverdueEarly(p, now) == posts[p].expiresAt <= now + Reminder

\* A fresh clock_timestamp() decides what each row has become, so that no
\* stale reminder is sent for a row that crossed its deadline meanwhile.
Overdue(p, now) == posts[p].expiresAt <= now

NoticeFor(p, now) ==
  NoticeOf(p, IF Overdue(p, now) THEN "expired" ELSE "expiring")

DueNotices(w) ==
  {NoticeFor(p, clock) : p \in {q \in batch[w].rows :
                                  posts[q].expiresAt <= clock + Reminder}}

\* Mutant: what was already stored is pushed as well.
CommitBatchRepushing(w) ==
  /\ batch[w].pc = "locked"
  /\ posts' = [p \in Posts |->
       IF p \in batch[w].rows /\ Overdue(p, clock) /\ posts[p].status = "active"
       THEN [posts[p] EXCEPT !.status = "expired"]
       ELSE posts[p]]
  /\ notices' = notices \cup DueNotices(w)
  /\ postLock' = [p \in Posts |-> IF postLock[p] = w THEN None ELSE postLock[p]]
  /\ batch' = [batch EXCEPT ![w] = [NoBatch EXCEPT
                 !.pc = "push", !.created = DueNotices(w)]]
  /\ UNCHANGED <<clock, account, restrictions, ledger, sellerLock, pushed>>

CommitBatch(w) ==
  /\ batch[w].pc = "locked"
  /\ posts' = [p \in Posts |->
       IF p \in batch[w].rows /\ Overdue(p, clock) /\ posts[p].status = "active"
       THEN [posts[p] EXCEPT !.status = "expired"]
       ELSE posts[p]]
  /\ notices' = notices \cup DueNotices(w)
  /\ postLock' = [p \in Posts |-> IF postLock[p] = w THEN None ELSE postLock[p]]
  /\ batch' = [batch EXCEPT ![w] = [NoBatch EXCEPT
                 !.pc = "push", !.created = DueNotices(w) \ notices]]
  /\ UNCHANGED <<clock, account, restrictions, ledger, sellerLock, pushed>>

Push(w) ==
  /\ batch[w].pc = "push"
  /\ pushed' = pushed \cup batch[w].created
  /\ batch' = [batch EXCEPT ![w] = NoBatch]
  /\ UNCHANGED storeVars

\* Mutant: an instance that dies leaves its row locks behind.
AbortBatchHolding(w) ==
  /\ batch[w].pc # "idle"
  /\ batch' = [batch EXCEPT ![w] = NoBatch]
  /\ UNCHANGED <<storeVars, pushed>>

\* The batch fails or its instance dies; after the commit only the push is lost.
AbortBatch(w) ==
  /\ batch[w].pc # "idle"
  /\ batch' = [batch EXCEPT ![w] = NoBatch]
  /\ postLock' = [p \in Posts |-> IF postLock[p] = w THEN None ELSE postLock[p]]
  /\ UNCHANGED <<clock, account, restrictions, posts, ledger, notices,
                 sellerLock, pushed>>

ExpiryStep(w) ==
  \/ BeginBatch(w)
  \/ \E rows \in SUBSET Posts : LockBatch(w, rows)
  \/ CommitBatch(w)
  \/ Push(w)
  \/ AbortBatch(w)

=============================================================================
