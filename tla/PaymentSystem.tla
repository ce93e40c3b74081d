---------------------------- MODULE PaymentSystem ----------------------------
(***************************************************************************)
(* Paid boosts beside the life of the posts they are for: checkouts, gateway *)
(* reports and reconciliation on the same user and post rows, under the same *)
(* locks, as activation, sale, removal, moderation and account locking.      *)
(***************************************************************************)
EXTENDS PostLifecycle, Payments

vars == <<storeVars, tx, payVars>>

\* A post just created by its seller.
OnDisplay(s) == [NoRow EXCEPT !.seller = s, !.status = "active",
                              !.expiresAt = Lifetime]

\* The shop is stocked: nothing here is about how its posts were created.
Init ==
  /\ clock = 0
  /\ account = [s \in Sellers |-> "open"]
  /\ restrictions = [s \in Sellers |-> {}]
  /\ posts \in [Posts -> {NoRow} \cup {OnDisplay(s) : s \in Sellers}]
  /\ \A s \in Sellers : Cardinality(ActiveOf(s, clock)) <= Quota
  /\ ledger = {}
  /\ notices = {}
  /\ sellerLock = [s \in Sellers |-> None]
  /\ postLock = [p \in Posts |-> None]
  /\ TxInit
  /\ PayInit

Next ==
  \/ LifecycleNext /\ UNCHANGED payVars
  \/ PayNext /\ UNCHANGED tx

Spec == Init /\ [][Next]_vars

-----------------------------------------------------------------------------
(* Safety *)

\* Every variable of the payment side keeps its type.
TypeOK == PayTypeOK

\* Money taken is always accounted for: a paid order either backs exactly one
\* boost in effect, or is under review with none; an order that is not paid
\* backs no boost at all.
MoneyAccounted ==
  \A o \in Orders :
    LET backed == {pr \in promotions : pr.order = o /\ ~pr.cancelled} IN
    /\ orders[o].fulfillment = "active" <=> backed # {}
    /\ Cardinality({pr \in promotions : pr.order = o}) <= 1
    /\ orders[o].status = "paid" =>
         orders[o].fulfillment \in {"active", "requires_review"}
    /\ backed # {} => orders[o].status = "paid"

\* Two boosts of a post are never in effect at the same time, whoever granted
\* them and however late the payment was confirmed.
BoostsDisjoint ==
  \A pr, other \in promotions :
    pr.post = other.post /\ pr # other /\ ~pr.cancelled =>
      ~Overlaps(other, pr.from, pr.until)

\* A key is answered with one order for ever, even when it joined a checkout
\* that has run out since; at most one checkout of a post waits for payment.
OneAnswer ==
  /\ \A a, b \in answers : a.owner = b.owner /\ a.key = b.key => a.order = b.order
  /\ \A p \in Posts : Cardinality(PendingOn(p)) <= 1

\* An outcome is only ever recorded because the gateway has given it: elapsed
\* time makes nothing fail, and no late or repeated report undoes a payment.
OutcomeFromGateway ==
  \A o \in Orders :
    /\ orders[o].status = "paid" => "success" \in gateway[o]
    /\ orders[o].status \in {"cancelled", "failed"} => "refused" \in gateway[o]

\* A paid boost starts only on a post that is on display, owned by the one who
\* paid, whose account is open, at that very moment.
BoostOnDisplay ==
  [][\A pr \in promotions' \ promotions :
       pr.order # None /\ ~pr.cancelled =>
         /\ Live(pr.post)
         /\ posts[pr.post].seller = orders[pr.order].owner
         /\ account[orders[pr.order].owner] = "open"
         /\ pr.from = clock]_vars

-----------------------------------------------------------------------------
(* Why the safety properties hold: the inductive invariant *)

\* The rows and locks that payments share with the life of the posts.
SharedOK ==
  /\ clock \in Nat
  /\ posts \in [Posts -> PostRow]
  /\ sellerLock \in [Sellers -> Txns \cup Actors \cup {None}]
  /\ postLock \in [Posts -> Txns \cup Actors \cup {None}]
  /\ TxTypeOK

\* An activation request writes a post only with its row locked; a create has
\* none, it inserts.
RequestsHold ==
  \A t \in Txns :
    tx[t].pc # "idle" /\ tx[t].op # "create" =>
      /\ tx[t].post \in Posts
      /\ tx[t].pc \in {"policy", "count", "write"} => postLock[tx[t].post] = t

\* An order once opened has a post that exists, and a receipt for its key; the
\* gateway speaks of no other, and the job asks of no other.
OrdersOK ==
  /\ \A o \in Orders :
       /\ orders[o].status # "none" =>
            /\ orders[o].owner \in Sellers
            /\ orders[o].post \in Posts /\ Exists(orders[o].post)
       /\ orders[o].owner # None =>
            \E r \in requests : /\ r.owner = orders[o].owner
                                /\ r.key = orders[o].key /\ r.order = o
       /\ gateway[o] # {} => orders[o].status # "none"
  /\ \A w \in Servers : \A i \in DOMAIN todo[w] :
       orders[todo[w][i]].status # "none"

\* What a report says, the gateway has said.
Told(event, o) ==
  /\ event = "success" => "success" \in gateway[o]
  /\ event \in {"cancelled", "failed"} => "refused" \in gateway[o]

\* A transaction knows its owner and a post that exists; that of a report has
\* them from an opened order, and settles nothing the gateway has not said.
CallsOK ==
  \A c \in Actors : call[c].pc # "idle" =>
    /\ call[c].owner \in Sellers
    /\ call[c].post \in Posts /\ Exists(call[c].post)
    /\ call[c].op = "checkout" => call[c].key \in Keys
    /\ call[c].op = "ipn" =>
         /\ call[c].order \in Orders
         /\ orders[call[c].order].status # "none"
         /\ orders[call[c].order].owner = call[c].owner
         /\ orders[call[c].order].post = call[c].post
         /\ Told(call[c].event, call[c].order)

\* A checkout goes on to the post with its owner locked, unless it has found
\* the account deleted; that is for ever, and makes the post unfit.
OwnerHeld ==
  \A c \in Actors : call[c].op = "checkout" /\ call[c].pc \in {"post", "write"} =>
    \/ sellerLock[call[c].owner] = c
    \/ call[c].pc = "post" /\ account[call[c].owner] = "deleted"

\* With its post locked, a transaction knows the row as it still is.
TargetHeld ==
  \A c \in Actors : call[c].pc = "write" =>
    postLock[call[c].post] = c /\ call[c].row = posts[call[c].post]

\* A key found unused under the owner's lock is unused until the write.
KeyFresh ==
  \A c \in Actors : call[c].op = "checkout" /\ call[c].pc = "write" =>
    Receipts(call[c].owner, call[c].key) = {}

\* A key has one receipt, for the order that every answer to it names; two
\* orders never await payment for one post.
KeysOK ==
  /\ \A r, other \in requests : r.owner = other.owner /\ r.key = other.key => r = other
  /\ \A a \in answers : \E r \in requests :
       r.owner = a.owner /\ r.key = a.key /\ r.order = a.order
  /\ \A p \in Posts : \A o, other \in PendingOn(p) : o = other

\* An order has at most one boost, cancelled or not, and has been paid for it.
Backing ==
  /\ \A pr \in promotions : pr.order # None => orders[pr.order].status = "paid"
  /\ \A pr, other \in promotions :
       pr.order # None /\ pr.order = other.order => pr = other
  /\ \A o \in Orders :
       /\ orders[o].fulfillment = "active" <=>
            \E pr \in promotions : pr.order = o /\ ~pr.cancelled
       /\ orders[o].status = "paid" =>
            orders[o].fulfillment \in {"active", "requires_review"}

\* The inductive invariant.  A key is answered with one order because the
\* owner's lock keeps "not used yet" true until the write; a boost starts on a
\* fit post because the post's lock keeps the row as it was read.
PayInv ==
  /\ TypeOK
  /\ SharedOK
  /\ RequestsHold
  /\ OrdersOK
  /\ CallsOK
  /\ OwnerHeld
  /\ TargetHeld
  /\ KeyFresh
  /\ KeysOK
  /\ Backing
  /\ OutcomeFromGateway
  /\ BoostsDisjoint

-----------------------------------------------------------------------------
(* Liveness *)

\* A caller's transaction ends, and every instance keeps running its
\* scheduler.  PostgreSQL queues those who wait for a row, so a settlement that
\* waits goes on at last, and a query that is repeated is answered at last.
Fairness ==
  /\ \A c \in Callers : WF_vars(CallStep(c) /\ UNCHANGED tx)
  /\ \A w \in Servers :
       /\ WF_vars(Reconcile(w) /\ UNCHANGED tx)
       /\ SF_vars((LockOwner(w) \/ LockTarget(w) \/ Settle(w)) /\ UNCHANGED tx)
       /\ \A o \in Orders :
            SF_vars((QueryAnswered(w, o) \/ ReviewOld(w, o)) /\ UNCHANGED tx)

FairSpec == Spec /\ Fairness

\* From some moment on no instance is stopped, and no connection lost, in the
\* middle of a settlement that has something to record.
Steady ==
  <>[][\A w \in Servers :
         call[w].pc # "idle" /\ (StopServer(w) \/ Abandon(w)) => SettleNothing(w)]_vars

\* Money the gateway has taken does not stay unnoticed, though every
\* notification be lost and more orders wait than a batch takes: the order
\* becomes paid, or the staff are asked to look at it.
PaymentSettles ==
  Steady =>
    \A o \in Orders :
      "success" \in gateway[o] ~>
        \/ orders[o].status = "paid"
        \/ orders[o].fulfillment = "requires_review"

=============================================================================
