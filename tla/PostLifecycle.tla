---------------------------- MODULE PostLifecycle ----------------------------
(***************************************************************************)
(* PostLifecycleService and the operations of PostsService, ReportsService, *)
(* ModerationService and AccountLifecycleService that touch the same rows.  *)
(*                                                                         *)
(* The three operations that put a post on display (create, restore, renew) *)
(* are READ COMMITTED transactions of several statements; they are modelled *)
(* statement by statement, because each statement sees what others have     *)
(* committed in the meantime.  An operation whose transaction takes one row *)
(* lock and decides on that row alone is one action, enabled while nobody   *)
(* else holds the row.                                                      *)
(***************************************************************************)
EXTENDS PostStore

VARIABLE tx  \* state of each activation request

Step == {"idle", "seller", "post", "policy", "count", "write"}
Request == [pc : Step, op : {"create", "restore", "renew"},
            seller : Sellers \cup {None}, post : Posts \cup {None},
            ref : Refs \cup {None}, now : Nat]

Idle == [pc |-> "idle", op |-> "create", seller |-> None, post |-> None,
         ref |-> None, now |-> 0]

TxInit == tx = [t \in Txns |-> Idle]

TxTypeOK == tx \in [Txns -> Request]

EndTx(t) ==
  /\ tx' = [tx EXCEPT ![t] = Idle]
  /\ sellerLock' = Released(sellerLock, t)
  /\ postLock' = Released(postLock, t)

-----------------------------------------------------------------------------
(* Requests arrive *)

BeginCreate(t, s) ==
  /\ tx[t].pc = "idle"
  /\ tx' = [tx EXCEPT ![t] = [Idle EXCEPT !.pc = "seller", !.op = "create",
                                          !.seller = s]]
  /\ UNCHANGED storeVars

\* The seller is read from the unlocked post row; a post that is not deleted
\* is returned as it is.
BeginRestore(t, p) ==
  /\ tx[t].pc = "idle"
  /\ posts[p].deleted
  /\ tx' = [tx EXCEPT ![t] = [Idle EXCEPT !.pc = "seller", !.op = "restore",
                                          !.seller = posts[p].seller,
                                          !.post = p]]
  /\ UNCHANGED storeVars

\* ref = None is the free renewal; a reference is a paid one.
BeginRenew(t, s, p, ref) ==
  /\ tx[t].pc = "idle"
  /\ Exists(p)
  /\ tx' = [tx EXCEPT ![t] = [Idle EXCEPT !.pc = "seller", !.op = "renew",
                                          !.seller = s, !.post = p,
                                          !.ref = ref]]
  /\ UNCHANGED storeVars

-----------------------------------------------------------------------------
(* Statements of an activation transaction *)

\* Mutant: the seller is read without FOR NO KEY UPDATE waiting for its holder.
LockSellerUnserialised(t) ==
  LET s == tx[t].seller IN
  /\ tx[t].pc = "seller"
  /\ account[s] = "open"
  /\ sellerLock' = [sellerLock EXCEPT ![s] = t]
  /\ tx' = [tx EXCEPT ![t] =
               IF tx[t].op = "create" THEN [@ EXCEPT !.pc = "policy", !.now = clock]
                                      ELSE [@ EXCEPT !.pc = "post"]]
  /\ UNCHANGED <<clock, account, restrictions, posts, ledger, notices, postLock>>

\* SELECT ... FOR NO KEY UPDATE on the seller; a locked or deleted account
\* ends the transaction.  A create reads the clock next, the others lock the
\* post first.
LockSeller(t) ==
  LET s == tx[t].seller IN
  /\ tx[t].pc = "seller"
  /\ sellerLock[s] = None
  /\ account[s] = "open"
  /\ sellerLock' = [sellerLock EXCEPT ![s] = t]
  /\ tx' = [tx EXCEPT ![t] =
               IF tx[t].op = "create" THEN [@ EXCEPT !.pc = "policy", !.now = clock]
                                      ELSE [@ EXCEPT !.pc = "post"]]
  /\ UNCHANGED <<clock, account, restrictions, posts, ledger, notices, postLock>>

\* A deleted post that would not be on display again (sold, hidden, expired,
\* or active past its deadline) is restored without asking for quota.
RestoreDormant(t) ==
  LET p == tx[t].post IN
  /\ tx[t].pc = "post" /\ tx[t].op = "restore"
  /\ postLock[p] = None
  /\ posts[p].deleted
  /\ \/ posts[p].status # "active"
     \/ posts[p].expiresAt <= clock
  /\ posts' = [posts EXCEPT ![p] = [@ EXCEPT
                 !.deleted = FALSE,
                 !.status = IF posts[p].status = "active" THEN "expired" ELSE posts[p].status]]
  /\ EndTx(t)
  /\ UNCHANGED <<clock, account, restrictions, ledger, notices>>

LockPostToRestore(t) ==
  LET p == tx[t].post IN
  /\ tx[t].op = "restore"
  /\ posts[p].deleted
  /\ posts[p].status = "active"
  /\ posts[p].expiresAt > clock

\* An unsold, unhidden, undeleted post of the caller whose deadline has
\* passed; the first renewal is free, every later one is paid with a
\* reference nobody has used.
LockPostToRenew(t) ==
  LET p == tx[t].post IN
  /\ tx[t].op = "renew"
  /\ ~posts[p].deleted
  /\ posts[p].seller = tx[t].seller
  /\ tx[t].ref \notin UsedRefs
  /\ posts[p].status \in {"active", "expired"}
  /\ ~posts[p].sold
  /\ posts[p].expiresAt <= clock
  /\ (posts[p].renewals = 0) <=> (tx[t].ref = None)

\* SELECT ... FOR UPDATE on the post, then clock_timestamp() and the checks.
LockPost(t) ==
  LET p == tx[t].post IN
  /\ tx[t].pc = "post"
  /\ postLock[p] = None
  /\ LockPostToRestore(t) \/ LockPostToRenew(t)
  /\ postLock' = [postLock EXCEPT ![p] = t]
  /\ tx' = [tx EXCEPT ![t] = [@ EXCEPT !.pc = "policy", !.now = clock]]
  /\ UNCHANGED <<clock, account, restrictions, posts, ledger, notices,
                 sellerLock>>

\* The policy reads a clock of its own.  A reputation block is a refusal like
\* any other: the transaction may end in Rollback instead.
CheckPolicy(t) ==
  /\ tx[t].pc = "policy"
  /\ ~Restricted(tx[t].seller, clock)
  /\ tx' = [tx EXCEPT ![t].pc = "count"]
  /\ UNCHANGED storeVars

\* Mutant: the last place counts as free.
CountActiveLax(t) ==
  /\ tx[t].pc = "count"
  /\ Cardinality(ActiveOf(tx[t].seller, tx[t].now)) <= Quota
  /\ tx' = [tx EXCEPT ![t].pc = "write"]
  /\ UNCHANGED storeVars

CountActive(t) ==
  /\ tx[t].pc = "count"
  /\ Cardinality(ActiveOf(tx[t].seller, tx[t].now)) < Quota
  /\ tx' = [tx EXCEPT ![t].pc = "write"]
  /\ UNCHANGED storeVars

CommitCreate(t, p) ==
  /\ tx[t].pc = "write" /\ tx[t].op = "create"
  /\ ~Exists(p)
  /\ posts' = [posts EXCEPT ![p] = [NoRow EXCEPT
                 !.seller = tx[t].seller, !.status = "active",
                 !.expiresAt = tx[t].now + Lifetime]]
  /\ EndTx(t)
  /\ UNCHANGED <<clock, account, restrictions, ledger, notices>>

\* Mutant: restoring starts a fresh period of display.
CommitRestoreRefreshed(t) ==
  /\ tx[t].pc = "write" /\ tx[t].op = "restore"
  /\ posts' = [posts EXCEPT ![tx[t].post] = [@ EXCEPT
                 !.deleted = FALSE, !.expiresAt = tx[t].now + Lifetime]]
  /\ EndTx(t)
  /\ UNCHANGED <<clock, account, restrictions, ledger, notices>>

CommitRestore(t) ==
  /\ tx[t].pc = "write" /\ tx[t].op = "restore"
  /\ posts' = [posts EXCEPT ![tx[t].post].deleted = FALSE]
  /\ EndTx(t)
  /\ UNCHANGED <<clock, account, restrictions, ledger, notices>>

\* Mutant: no unique index on paymentReference.
CommitRenewUnindexed(t) ==
  LET p == tx[t].post IN
  /\ tx[t].pc = "write" /\ tx[t].op = "renew"
  /\ posts' = [posts EXCEPT ![p] = [@ EXCEPT
                 !.status = "active", !.expiresAt = tx[t].now + Lifetime,
                 !.renewals = posts[p].renewals + 1]]
  /\ ledger' = ledger \cup {[post |-> p, number |-> posts[p].renewals + 1,
                             ref |-> tx[t].ref,
                             previous |-> posts[p].expiresAt,
                             until |-> tx[t].now + Lifetime]}
  /\ EndTx(t)
  /\ UNCHANGED <<clock, account, restrictions, notices>>

\* The unique index on paymentReference refuses a reference that another
\* transaction committed after the check above.
CommitRenew(t) ==
  LET p == tx[t].post IN
  /\ tx[t].pc = "write" /\ tx[t].op = "renew"
  /\ tx[t].ref \notin UsedRefs
  /\ posts' = [posts EXCEPT ![p] = [@ EXCEPT
                 !.status = "active", !.expiresAt = tx[t].now + Lifetime,
                 !.renewals = posts[p].renewals + 1]]
  /\ ledger' = ledger \cup {[post |-> p, number |-> posts[p].renewals + 1,
                             ref |-> tx[t].ref,
                             previous |-> posts[p].expiresAt,
                             until |-> tx[t].now + Lifetime]}
  /\ EndTx(t)
  /\ UNCHANGED <<clock, account, restrictions, notices>>

\* A refused check, an early return, an error or a lost connection.
Rollback(t) ==
  /\ tx[t].pc # "idle"
  /\ EndTx(t)
  /\ UNCHANGED <<clock, account, restrictions, posts, ledger, notices>>

TxStep(t) ==
  \/ LockSeller(t) \/ RestoreDormant(t) \/ LockPost(t)
  \/ CheckPolicy(t) \/ CountActive(t)
  \/ \E p \in Posts : CommitCreate(t, p)
  \/ CommitRestore(t) \/ CommitRenew(t)
  \/ Rollback(t)

-----------------------------------------------------------------------------
(* Operations that hold a single row lock *)

\* Mutant: the statement does not wait for the row's holder.
GrabUnlocked(p) == Exists(p) /\ ~posts[p].deleted

\* A post the statement can lock: inserted, not deleted, not held.
Grab(p) == Exists(p) /\ ~posts[p].deleted /\ postLock[p] = None

\* The buyer named has written in the post's conversation (an input here); an
\* off-platform sale names nobody.  The review request is stored once.
MarkSold(p, buyer) ==
  /\ Grab(p)
  /\ posts[p].status \notin {"hidden", "sold"}
  /\ posts' = [posts EXCEPT ![p] = [@ EXCEPT
                 !.status = "sold", !.sold = TRUE, !.buyer = buyer]]
  /\ notices' = notices \cup
       (IF buyer = None THEN {}
        ELSE {[post |-> p, cycle |-> 0, kind |-> "review"]})
  /\ UNCHANGED <<clock, account, restrictions, ledger, sellerLock, postLock, tx>>

Remove(p) ==
  /\ Grab(p)
  /\ posts' = [posts EXCEPT ![p].deleted = TRUE]
  /\ UNCHANGED <<clock, account, restrictions, ledger, notices, sellerLock,
                 postLock, tx>>

\* RESOLVE_HIDE_POST of a report, whatever the status of the post.
Hide(p) ==
  /\ Grab(p)
  /\ posts' = [posts EXCEPT ![p].status = "hidden"]
  /\ UNCHANGED <<clock, account, restrictions, ledger, notices, sellerLock,
                 postLock, tx>>

\* Administrators lock and unlock accounts, users delete theirs: FOR UPDATE on
\* the user row.
SetAccount(s, state) ==
  /\ sellerLock[s] = None
  /\ account[s] # "deleted"
  /\ account' = [account EXCEPT ![s] = state]
  /\ UNCHANGED <<clock, restrictions, posts, ledger, notices, sellerLock,
                 postLock, tx>>

\* Mutant: a ban is inserted without locking the user row.
BanUnserialised(s, r) ==
  /\ account[s] # "deleted"
  /\ r \notin restrictions[s]
  /\ EndsAfter(r, r.from) /\ EndsAfter(r, clock)
  /\ restrictions' = [restrictions EXCEPT ![s] = @ \cup {r}]
  /\ UNCHANGED <<clock, account, posts, ledger, notices, sellerLock, postLock, tx>>

Ban(s, r) ==
  /\ sellerLock[s] = None
  /\ account[s] # "deleted"
  /\ r \notin restrictions[s]
  /\ EndsAfter(r, r.from) /\ EndsAfter(r, clock)
  /\ restrictions' = [restrictions EXCEPT ![s] = @ \cup {r}]
  /\ UNCHANGED <<clock, account, posts, ledger, notices, sellerLock, postLock, tx>>

\* Lifting locks the restriction row, not the user row.
Lift(s, r) ==
  /\ r \in restrictions[s]
  /\ EndsAfter(r, clock)
  /\ restrictions' = [restrictions EXCEPT ![s] = @ \ {r}]
  /\ UNCHANGED <<clock, account, posts, ledger, notices, sellerLock, postLock, tx>>

Tick ==
  /\ clock < MaxClock
  /\ clock' = clock + 1
  /\ UNCHANGED <<account, restrictions, posts, ledger, notices, sellerLock,
                 postLock, tx>>

LifecycleNext ==
  \/ \E t \in Txns : TxStep(t)
  \/ \E t \in Txns, s \in Sellers : BeginCreate(t, s)
  \/ \E t \in Txns, p \in Posts : BeginRestore(t, p)
  \/ \E t \in Txns, s \in Sellers, p \in Posts, ref \in Refs \cup {None} :
       BeginRenew(t, s, p, ref)
  \/ \E p \in Posts, buyer \in Buyers \cup {None} : MarkSold(p, buyer)
  \/ \E p \in Posts : Remove(p) \/ Hide(p)
  \/ \E s \in Sellers, state \in Moves : SetAccount(s, state)
  \/ \E s \in Sellers, r \in Windows : Ban(s, r) \/ Lift(s, r)
  \/ Tick

=============================================================================
