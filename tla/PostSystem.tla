------------------------------ MODULE PostSystem ------------------------------
(***************************************************************************)
(* The listing lifecycle as it runs: activation requests, single-row        *)
(* operations, moderation, the clock, and the expiry job of every instance, *)
(* all on the same rows.                                                    *)
(***************************************************************************)
EXTENDS PostLifecycle, PostExpiry

vars == <<storeVars, tx, batch, pushed>>

Init == StoreInit /\ TxInit /\ ExpiryInit

Next ==
  \/ LifecycleNext /\ UNCHANGED <<batch, pushed>>
  \/ (\E w \in Workers : ExpiryStep(w)) /\ UNCHANGED tx

Spec == Init /\ [][Next]_vars

-----------------------------------------------------------------------------
(* Safety *)

\* Every variable keeps its type.
TypeOK == StoreTypeOK /\ TxTypeOK /\ ExpiryTypeOK

\* Concurrent create, restore and renew requests never leave a seller with
\* more listings on display than POST_QUOTA, although each counts first and
\* writes later.
QuotaRespected == \A s \in Sellers : Cardinality(ActiveOf(s, clock)) <= Quota

\* What chk_posts_transaction_state demands of every row: whatever the order
\* of sale, moderation, expiry, deletion, restoring and renewal, only a sold
\* row (or one hidden afterwards) carries a sale.
TransactionState ==
  \A p \in Posts :
    /\ posts[p].status = "sold" => posts[p].sold
    /\ posts[p].status \in {"active", "expired"} =>
         ~posts[p].sold /\ posts[p].buyer = None
    /\ posts[p].status = "hidden" => posts[p].sold \/ posts[p].buyer = None

LedgerOf(p) == {row \in ledger : row.post = p}

\* The renewal history of a post is exactly the rows 1 .. renewalCount, only
\* the first of them is free, no payment reference pays twice, and each cycle
\* starts no earlier than the previous one ended.
RenewalLedger ==
  /\ \A p \in Posts :
       /\ {row.number : row \in LedgerOf(p)} = 1 .. posts[p].renewals
       /\ \A row \in LedgerOf(p) :
            /\ row.number = posts[p].renewals => row.until = posts[p].expiresAt
            /\ row.previous + Lifetime <= row.until
            /\ (row.number = 1) <=> (row.ref = None)
            /\ \A next \in LedgerOf(p) :
                 next.number = row.number + 1 => next.previous = row.until
  /\ \A row, other \in ledger :
       (row.ref = other.ref /\ row.ref # None)
       \/ (row.post = other.post /\ row.number = other.number) => row = other

\* A notification that a cycle has expired is stored only for a cycle that has
\* ended; a renewal or a restore cannot make it a lie.
NoticeTruth ==
  \A n \in notices :
    n.kind = "expired" =>
      \/ n.cycle < posts[n.post].renewals
      \/ n.cycle = posts[n.post].renewals /\ posts[n.post].expiresAt <= clock

\* However many instances run the job, no notification is pushed twice: what
\* an instance is about to push has been pushed by nobody and is awaited from
\* nobody else.
NoDoublePush ==
  \A w \in Workers :
    /\ batch[w].created \cap pushed = {}
    /\ \A v \in Workers \ {w} : batch[w].created \cap batch[v].created = {}

\* A listing comes on display only for a seller whose account is open and whom
\* no posting restriction has barred throughout, from the clock the request
\* read to its commit: an administrator's lock or ban is strictly before or
\* strictly after.
AuthorisedActivation ==
  [][\A p \in Posts :
       (Live(p)' /\ ~Live(p)) =>
         LET s == posts'[p].seller
             t == sellerLock[s]
         IN /\ account[s] = "open"
            /\ t \in Txns
            /\ \A r \in restrictions[s] :
                 ~(InForce(r, tx[t].now) /\ InForce(r, clock))]_vars

\* Deadline and renewal count move only together, by a renewal of a cycle that
\* has run out: editing, deleting and restoring reset neither.
DeadlineOnlyByRenewal ==
  [][\A p \in Posts :
       Exists(p) /\ (posts'[p].expiresAt # posts[p].expiresAt
                     \/ posts'[p].renewals # posts[p].renewals) =>
         /\ posts[p].expiresAt <= clock
         /\ posts'[p].expiresAt > posts[p].expiresAt
         /\ posts'[p].renewals = posts[p].renewals + 1]_vars

\* The lifecycle implements the shop window: a listing on display counts
\* against its seller's room, and a sold or hidden one is closed for good.
Shop == INSTANCE ShopWindow WITH
  window <- [s \in Sellers |-> ActiveOf(s, clock)],
  closed <- {p \in Posts : Closed(p)},
  standing <- {s \in Sellers : account[s] = "open"}

ShopContract == Shop!ShopSpec

-----------------------------------------------------------------------------
(* Why the safety properties hold: the inductive invariant *)

\* The steps a request takes with its post row locked (a create has none).
Holding == {"policy", "count", "write"}

\* An identifier not inserted yet is blank, an inserted row has its seller.
RowsOK == \A p \in Posts : IF Exists(p) THEN posts[p].seller # None
                                        ELSE posts[p] = NoRow

\* A request under way names an inserted post; from the moment the seller of
\* the post has been compared with its own, the two agree.
RequestsOK ==
  \A t \in Txns : tx[t].pc # "idle" =>
    /\ tx[t].seller \in Sellers
    /\ tx[t].now <= clock
    /\ tx[t].op # "create" => tx[t].post \in Posts /\ Exists(tx[t].post)
    /\ tx[t].op = "restore" \/ (tx[t].op = "renew" /\ tx[t].pc \in Holding) =>
         posts[tx[t].post].seller = tx[t].seller

\* A request holds its row locks until it ends.
LocksHeld ==
  \A t \in Txns :
    /\ tx[t].pc \in Holding \cup {"post"} => sellerLock[tx[t].seller] = t
    /\ tx[t].pc \in Holding /\ tx[t].op # "create" => postLock[tx[t].post] = t

\* Nothing sells or hides a post between the check of a renewal and its write.
RenewableHeld ==
  \A t \in Txns :
    tx[t].pc \in Holding /\ tx[t].op = "renew" =>
      posts[tx[t].post].status \in {"active", "expired"}

\* Once a request has counted, the seller it holds has room for its post.
RoomHeld ==
  \A t \in Txns :
    tx[t].pc = "write" => Cardinality(ActiveOf(tx[t].seller, clock)) < Quota

\* The inductive invariant: together with the row locks, the quota and the
\* transaction state of the rows are kept by every step.
LifecycleInv ==
  /\ TypeOK
  /\ RowsOK
  /\ RequestsOK
  /\ LocksHeld
  /\ RenewableHeld
  /\ TransactionState
  /\ RoomHeld
  /\ QuotaRespected

\* Between the check of a renewal and its write the cycle stays the one that
\* was checked: over by the time the request read, and free just if it is the
\* first.
CycleHeld ==
  \A t \in Txns :
    tx[t].pc \in Holding /\ tx[t].op = "renew" =>
      /\ posts[tx[t].post].expiresAt <= tx[t].now
      /\ (posts[tx[t].post].renewals = 0) <=> (tx[t].ref = None)

\* The seller a request holds stays open, and a restriction of the seller that
\* was not in force at the check can be so only after what the request read.
StandingHeld ==
  \A t \in Txns :
    /\ tx[t].pc \in Holding \cup {"post"} => account[tx[t].seller] = "open"
    /\ tx[t].pc \in {"count", "write"} =>
         \A r \in restrictions[tx[t].seller] :
           tx[t].now < r.from \/ ~EndsAfter(r, clock)

\* Notifications are about inserted posts, also those a batch will store, and
\* whatever is or will be pushed has been stored.
NoticesOK ==
  /\ \A n \in notices : Exists(n.post)
  /\ pushed \subseteq notices
  /\ \A w \in Workers :
       /\ batch[w].created \subseteq notices
       /\ batch[w].pc = "locked" => \A p \in batch[w].rows : Exists(p)

\* With what requests and batches hold, the history of renewals and the
\* notifications are kept by every step too.
SystemInv ==
  /\ LifecycleInv
  /\ CycleHeld
  /\ StandingHeld
  /\ NoticesOK
  /\ RenewalLedger
  /\ NoticeTruth
  /\ NoDoublePush

-----------------------------------------------------------------------------
(* Liveness *)

\* Requests end (statements time out, connections drop), each instance keeps
\* running its scheduler, and a batch that can again and again take a row, or
\* commit with it, is not interrupted for ever.
Fairness ==
  /\ \A t \in Txns : WF_vars(TxStep(t) /\ UNCHANGED <<batch, pushed>>)
  /\ \A w \in Workers : WF_vars(ExpiryStep(w) /\ UNCHANGED tx)
  /\ \A w \in Workers, p \in Posts :
       /\ SF_vars(/\ \E rows \in SUBSET Posts : p \in rows /\ LockBatch(w, rows)
                  /\ UNCHANGED tx)
       /\ SF_vars(CommitBatch(w) /\ p \in batch[w].rows /\ UNCHANGED tx)

FairSpec == Spec /\ Fairness

AwaitsExpiry(p) ==
  /\ posts[p].status = "active" /\ ~posts[p].deleted
  /\ posts[p].expiresAt <= clock

\* Requests stop getting at the post's row.  SKIP LOCKED gives a batch no turn
\* on a row that is held again each time the batch looks.
LeftAlone(p) == <>[](postLock[p] \notin Txns)

\* The job marks every overdue post that requests leave alone at last.
OverdueExpires ==
  \A p \in Posts : LeftAlone(p) => (AwaitsExpiry(p) ~> ~AwaitsExpiry(p))

\* The end of a cycle reaches its seller: the notification for it is stored,
\* unless the post is renewed, sold, hidden or deleted first.
EndOfCycleNotified ==
  \A p \in Posts : LeftAlone(p) =>
    ((posts[p].status = "expired" /\ ~posts[p].deleted)
     ~> (\/ posts[p].status # "expired" \/ posts[p].deleted
         \/ NoticeOf(p, "expired") \in notices))

\* Documented for bans and for lifting them alike: both take the seller's row
\* lock, so neither happens while an activation holds it.
LiftSerialised ==
  [][\A s \in Sellers :
       restrictions'[s] # restrictions[s] => sellerLock[s] = None]_vars

=============================================================================
