------------------------------- MODULE Payments -------------------------------
(***************************************************************************)
(* PaymentsService and PostPromotionsService: paid boosts of posts.         *)
(*                                                                         *)
(* A checkout opens an order; the gateway charges the customer and reports  *)
(* the outcome, by notifications (IPN), by the customer's browser returning *)
(* and by answers to the queries of the reconciliation job, each any number *)
(* of times and in any order.  Every report runs the same transaction: lock *)
(* the owner, lock the post, then settle the order and grant the boost.     *)
(* Administrators grant and cancel boosts of their own.                     *)
(***************************************************************************)
EXTENDS PostStore, Sequences

CONSTANTS
  Callers,    \* concurrent checkout requests and gateway notifications
  Servers,    \* application instances running the reconciliation job
  Orders,     \* payment orders
  Keys,       \* Idempotency-Key values of the clients
  Packages,   \* lengths of the boosts on sale
  Boosts,     \* windows an administrator may ask a boost for
  Timeout,    \* VNPAY_PAYMENT_TIMEOUT_MINUTES
  ReviewAge,  \* age at which an undecided order goes to manual review
  Take,       \* orders one reconciliation batch selects
  Words       \* outcomes the gateway gives in this instance

ASSUME CallerAssumption ==
  /\ Callers \cap Servers = {} /\ (Callers \cup Servers) \cap Txns = {}
  /\ None \notin Callers \cup Servers \cup Orders \cup Keys
ASSUME PaymentAssumption ==
  /\ Packages \subseteq Nat \ {0}
  /\ Boosts \subseteq [from : Nat, until : Nat]
  /\ Words \subseteq {"success", "refused", "suspect"}
  /\ Timeout \in Nat \ {0} /\ ReviewAge \in Nat /\ Take \in Nat \ {0}

VARIABLES
  orders,      \* the payment_orders table
  requests,    \* the payment_requests table: what each key was used for
  promotions,  \* the post_promotions table
  queue,       \* pairs of orders of which the first has the earlier updatedAt
  call,        \* what each caller, and each instance's query, is doing
  todo,        \* orders the batch of each instance has still to query
  gateway,     \* external: what the gateway has said of each order so far
  answers      \* observed: the order each key has been answered with

payRows == <<orders, requests, promotions, queue>>
payVars == <<payRows, call, todo, gateway, answers>>

\* Transactions of the payment side: requests, and queries of an instance.
Actors == Callers \cup Servers

Event == {"success", "cancelled", "failed", "suspect", "processing"}

Order == [owner : Sellers \cup {None}, post : Posts \cup {None}, hours : Nat,
          key : Keys \cup {None}, createdAt : Nat, expiresAt : Nat,
          status : {"none", "pending", "expired", "paid", "cancelled", "failed"},
          fulfillment : {"pending", "active", "not_granted", "requires_review"}]

NoOrder == [owner |-> None, post |-> None, hours |-> 0, key |-> None,
            createdAt |-> 0, expiresAt |-> 0, status |-> "none",
            fulfillment |-> "pending"]

Receipt == [owner : Sellers, key : Keys, post : Posts, hours : Nat,
            order : Orders]

\* A boost; order = None is one an administrator granted.
Promotion == [post : Posts, order : Orders \cup {None}, from : Nat,
              until : Nat, cancelled : BOOLEAN]

\* A transaction under way.  start is its CURRENT_TIMESTAMP, row the post as
\* read when it was locked.
Call == [pc : {"idle", "owner", "post", "write"}, op : {"checkout", "ipn"},
         owner : Sellers \cup {None}, post : Posts \cup {None}, hours : Nat,
         key : Keys \cup {None}, order : Orders \cup {None},
         event : Event \cup {"none"}, start : Nat, row : PostRow]

NoCall == [pc |-> "idle", op |-> "checkout", owner |-> None, post |-> None,
           hours |-> 0, key |-> None, order |-> None, event |-> "none",
           start |-> 0, row |-> NoRow]

PayInit ==
  /\ orders = [o \in Orders |-> NoOrder]
  /\ requests = {}
  /\ promotions = {}
  /\ queue = {}
  /\ call = [c \in Actors |-> NoCall]
  /\ todo = [w \in Servers |-> <<>>]
  /\ gateway = [o \in Orders |-> {}]
  /\ answers = {}

PayTypeOK ==
  /\ orders \in [Orders -> Order]
  /\ requests \subseteq Receipt
  /\ promotions \subseteq Promotion
  /\ queue \subseteq Orders \X Orders
  /\ call \in [Actors -> Call]
  /\ todo \in [Servers -> Seq(Orders)]
  /\ gateway \in [Orders -> SUBSET Words]
  /\ answers \subseteq [owner : Sellers, key : Keys, order : Orders]

-----------------------------------------------------------------------------
(* Rows *)

\* Writing orders makes their updatedAt the latest.
Touched(set) ==
  {pair \in queue : pair[1] \notin set} \cup ((Orders \ set) \X set)

Overlaps(pr, from, until) == ~pr.cancelled /\ pr.from < until /\ pr.until > from

\* Mutant: a boost scheduled for later is not in the way.
EligibleUnscheduled(row, p, owner, hours, now) ==
  /\ row.seller = owner /\ ~row.deleted
  /\ row.status = "active" /\ row.expiresAt > now
  /\ account[owner] = "open"
  /\ \A pr \in promotions : pr.post = p => ~Overlaps(pr, now, now + 1)

\* PromotionEligibilityService.check for a boost of the given length.
Eligible(row, p, owner, hours, now) ==
  /\ row.seller = owner /\ ~row.deleted
  /\ row.status = "active" /\ row.expiresAt > now
  /\ account[owner] = "open"
  /\ \A pr \in promotions : pr.post = p => ~Overlaps(pr, now, now + hours)

\* What the key was used for: rows of payment_requests, and orders opened
\* with the key.
Receipts(owner, key) ==
  {[post |-> r.post, hours |-> r.hours, order |-> r.order] :
     r \in {q \in requests : q.owner = owner /\ q.key = key}}
  \cup
  {[post |-> orders[o].post, hours |-> orders[o].hours, order |-> o] :
     o \in {x \in Orders : orders[x].owner = owner /\ orders[x].key = key}}

Unsettled(o) ==
  orders[o].status \in {"pending", "expired"} /\ orders[o].fulfillment = "pending"

EndCall(c) ==
  /\ call' = [call EXCEPT ![c] = NoCall]
  /\ sellerLock' = Released(sellerLock, c)
  /\ postLock' = Released(postLock, c)

-----------------------------------------------------------------------------
(* Transactions arrive *)

BeginCheckout(c, owner, p, hours, k) ==
  /\ call[c].pc = "idle"
  /\ Exists(p)
  /\ call' = [call EXCEPT ![c] = [NoCall EXCEPT
                !.pc = "owner", !.owner = owner, !.post = p, !.hours = hours,
                !.key = k, !.start = clock]]
  /\ UNCHANGED <<storeVars, payRows, todo, gateway, answers>>

\* What a notification may say after the gateway's own word on the order.
Telling == [success |-> {"success"}, refused |-> {"cancelled", "failed"},
            suspect |-> {"suspect"}]

\* The order is found without a lock; its owner and post never change.
IpnFor(o, event) ==
  [NoCall EXCEPT !.pc = "owner", !.op = "ipn", !.owner = orders[o].owner,
                 !.post = orders[o].post, !.order = o, !.event = event]

\* A notification, or the customer's return; any that was sent may arrive,
\* late and more than once.
BeginIpn(c, o) ==
  /\ call[c].pc = "idle"
  /\ \E word \in gateway[o] : \E event \in Telling[word] :
       call' = [call EXCEPT ![c] = IpnFor(o, event)]
  /\ UNCHANGED <<storeVars, payRows, todo, gateway, answers>>

-----------------------------------------------------------------------------
(* Statements of both transactions *)

\* FOR NO KEY UPDATE on the owner.  A checkout does not see the row of a
\* deleted account and goes on without the lock; an ipn sees deleted rows too.
LockOwner(c) ==
  LET s == call[c].owner
      found == call[c].op = "ipn" \/ account[s] # "deleted"
  IN
  /\ call[c].pc = "owner"
  /\ found => sellerLock[s] = None
  /\ sellerLock' = IF found THEN [sellerLock EXCEPT ![s] = c] ELSE sellerLock
  /\ call' = [call EXCEPT ![c].pc = "post"]
  /\ UNCHANGED <<clock, account, restrictions, posts, ledger, notices, postLock,
                 payRows, todo, gateway, answers>>

\* Mutant: the post is read without a lock.
LockTargetUnlocked(c) ==
  LET p == call[c].post IN
  /\ call[c].pc = "post"
  /\ postLock[p] = None
  /\ call[c].op = "checkout" =>
       /\ Receipts(call[c].owner, call[c].key) = {}
       /\ Eligible(posts[p], p, call[c].owner, call[c].hours, clock)
  /\ call' = [call EXCEPT ![c].pc = "write", ![c].row = posts[p]]
  /\ UNCHANGED <<storeVars, payRows, todo, gateway, answers>>

\* FOR UPDATE on the post.  A checkout with a new key goes on if the post can
\* be boosted; an ipn goes on whatever has become of the post.
LockTarget(c) ==
  LET p == call[c].post IN
  /\ call[c].pc = "post"
  /\ postLock[p] = None
  /\ call[c].op = "checkout" =>
       /\ Receipts(call[c].owner, call[c].key) = {}
       /\ Eligible(posts[p], p, call[c].owner, call[c].hours, clock)
  /\ postLock' = [postLock EXCEPT ![p] = c]
  /\ call' = [call EXCEPT ![c].pc = "write", ![c].row = posts[p]]
  /\ UNCHANGED <<clock, account, restrictions, posts, ledger, notices,
                 sellerLock, payRows, todo, gateway, answers>>

Answer(c, o) ==
  answers' = answers \cup {[owner |-> call[c].owner, key |-> call[c].key,
                            order |-> o]}

\* A key used before, for the same post and package: its order is answered
\* again; while it can still be paid the post must still be fit for it.
Reuse(c) ==
  LET p == call[c].post IN
  /\ call[c].pc = "post" /\ call[c].op = "checkout"
  /\ \E r \in Receipts(call[c].owner, call[c].key) :
       /\ r.post = p /\ r.hours = call[c].hours
       /\ orders[r.order].status = "pending" /\ orders[r.order].expiresAt > clock =>
            /\ postLock[p] = None
            /\ Eligible(posts[p], p, call[c].owner, orders[r.order].hours, clock)
       /\ Answer(c, r.order)
  /\ EndCall(c)
  /\ UNCHANGED <<clock, account, restrictions, posts, ledger, notices, payRows,
                 todo, gateway>>

PendingOn(p) == {o \in Orders : orders[o].post = p /\ orders[o].status = "pending"}

Open(p) == {o \in PendingOn(p) : orders[o].expiresAt > clock}

ReceiptOf(c, o) ==
  [owner |-> call[c].owner, key |-> call[c].key, post |-> call[c].post,
   hours |-> call[c].hours, order |-> o]

\* Mutant: joining an open checkout leaves no receipt.
JoinUnrecorded(c) ==
  /\ call[c].pc = "write" /\ call[c].op = "checkout"
  /\ \E o \in Open(call[c].post) :
       /\ orders[o].hours = call[c].hours
       /\ Answer(c, o)
  /\ EndCall(c)
  /\ UNCHANGED <<clock, account, restrictions, posts, ledger, notices, payRows,
                 todo, gateway>>

\* The post has an open checkout for the same package: the key joins it.
Join(c) ==
  /\ call[c].pc = "write" /\ call[c].op = "checkout"
  /\ \E o \in Open(call[c].post) :
       /\ orders[o].hours = call[c].hours
       /\ requests' = requests \cup {ReceiptOf(c, o)}
       /\ Answer(c, o)
  /\ EndCall(c)
  /\ UNCHANGED <<clock, account, restrictions, posts, ledger, notices, orders,
                 promotions, queue, todo, gateway>>

\* Pending orders past their deadline are marked first, by the clock at which
\* the transaction began; the unique index on pending orders refuses a new
\* one beside an order that ran out since.
OpenCheckout(c, o) ==
  LET p == call[c].post
      stale == {x \in PendingOn(p) : orders[x].expiresAt <= call[c].start}
  IN
  /\ call[c].pc = "write" /\ call[c].op = "checkout"
  /\ orders[o].status = "none"
  /\ Open(p) = {}
  /\ PendingOn(p) \subseteq stale
  /\ orders' = [x \in Orders |->
       IF x \in stale THEN [orders[x] EXCEPT !.status = "expired"]
       ELSE IF x = o
       THEN [NoOrder EXCEPT !.owner = call[c].owner, !.post = p,
                            !.hours = call[c].hours, !.key = call[c].key,
                            !.createdAt = clock, !.expiresAt = clock + Timeout,
                            !.status = "pending"]
       ELSE orders[x]]
  /\ requests' = requests \cup {ReceiptOf(c, o)}
  /\ queue' = Touched(stale \cup {o})
  /\ Answer(c, o)
  /\ EndCall(c)
  /\ UNCHANGED <<clock, account, restrictions, posts, ledger, notices,
                 promotions, todo, gateway>>

\* A refused check, an early return, an error or a lost connection.
Abandon(c) ==
  /\ call[c].pc # "idle"
  /\ EndCall(c)
  /\ UNCHANGED <<clock, account, restrictions, posts, ledger, notices, payRows,
                 todo, gateway, answers>>

-----------------------------------------------------------------------------
(* Settling an order: the last statements of an ipn *)

Settling(c, events) ==
  /\ call[c].pc = "write" /\ call[c].op = "ipn"
  /\ call[c].event \in events

\* The caller's order, written back with a status and a fulfillment.
Record(c, status, fulfillment) ==
  LET o == call[c].order IN
  /\ orders' = [orders EXCEPT ![o].status = status, ![o].fulfillment = fulfillment]
  /\ queue' = Touched({o})

StillEligible(c) ==
  LET o == call[c].order IN
  Eligible(call[c].row, orders[o].post, orders[o].owner, orders[o].hours, clock)

\* A paid order is never settled again.  The gateway's "processing" changes
\* nothing either.
SettleNothing(c) ==
  /\ \/ Settling(c, Event) /\ orders[call[c].order].status = "paid"
     \/ Settling(c, {"processing"})
  /\ EndCall(c)
  /\ UNCHANGED <<clock, account, restrictions, posts, ledger, notices, payRows,
                 todo, gateway, answers>>

\* Charged, and the post can be boosted: the boost starts now, whatever the
\* order was before.
GrantBoost(c) ==
  LET o == call[c].order IN
  /\ Settling(c, {"success"})
  /\ orders[o].status # "paid"
  /\ StillEligible(c)
  /\ Record(c, "paid", "active")
  /\ promotions' = promotions \cup
       {[post |-> orders[o].post, order |-> o, from |-> clock,
         until |-> clock + orders[o].hours, cancelled |-> FALSE]}
  /\ EndCall(c)
  /\ UNCHANGED <<clock, account, restrictions, posts, ledger, notices, requests,
                 todo, gateway, answers>>

\* Charged, but the post can no longer be boosted.
HoldForReview(c) ==
  /\ Settling(c, {"success"})
  /\ orders[call[c].order].status # "paid"
  /\ ~StillEligible(c)
  /\ Record(c, "paid", "requires_review")
  /\ EndCall(c)
  /\ UNCHANGED <<clock, account, restrictions, posts, ledger, notices, requests,
                 promotions, todo, gateway, answers>>

\* The customer cancelled, or the payment failed.
RecordRefusal(c) ==
  /\ Settling(c, {"cancelled", "failed"})
  /\ orders[call[c].order].status # "paid"
  /\ Record(c, call[c].event, "not_granted")
  /\ EndCall(c)
  /\ UNCHANGED <<clock, account, restrictions, posts, ledger, notices, requests,
                 promotions, todo, gateway, answers>>

\* Any other status of the gateway's is for the staff to look at.
FlagSuspect(c) ==
  /\ Settling(c, {"suspect"})
  /\ orders[call[c].order].status # "paid"
  /\ Record(c, orders[call[c].order].status, "requires_review")
  /\ EndCall(c)
  /\ UNCHANGED <<clock, account, restrictions, posts, ledger, notices, requests,
                 promotions, todo, gateway, answers>>

Settle(c) ==
  \/ SettleNothing(c) \/ GrantBoost(c) \/ HoldForReview(c)
  \/ RecordRefusal(c) \/ FlagSuspect(c)

-----------------------------------------------------------------------------
(* Boosts granted and cancelled by administrators: post lock only *)

AddBoost(p, b) ==
  /\ postLock[p] = None
  /\ Live(p) /\ account[posts[p].seller] = "open"
  /\ b.from < b.until /\ b.until > clock
  /\ \A pr \in promotions : pr.post = p => ~Overlaps(pr, b.from, b.until)
  /\ promotions' = promotions \cup
       {[post |-> p, order |-> None, from |-> b.from, until |-> b.until,
         cancelled |-> FALSE]}
  /\ UNCHANGED <<storeVars, orders, requests, queue, call, todo, gateway, answers>>

\* Mutant: the order still claims its boost.
CancelBoostUnflagged(pr) ==
  /\ pr \in promotions /\ ~pr.cancelled
  /\ postLock[pr.post] = None
  /\ pr.until > clock
  /\ promotions' = (promotions \ {pr}) \cup {[pr EXCEPT !.cancelled = TRUE]}
  /\ UNCHANGED <<storeVars, orders, requests, queue, call, todo, gateway, answers>>

\* Money stays collected: a cancelled paid boost puts its order under review.
CancelBoost(pr) ==
  /\ pr \in promotions /\ ~pr.cancelled
  /\ postLock[pr.post] = None
  /\ pr.until > clock
  /\ promotions' = (promotions \ {pr}) \cup {[pr EXCEPT !.cancelled = TRUE]}
  /\ IF pr.order # None /\ orders[pr.order].status = "paid"
     THEN /\ orders' = [orders EXCEPT ![pr.order].fulfillment = "requires_review"]
          /\ queue' = Touched({pr.order})
     ELSE UNCHANGED <<orders, queue>>
  /\ UNCHANGED <<storeVars, requests, call, todo, gateway, answers>>

-----------------------------------------------------------------------------
(* The reconciliation job *)

\* ORDER BY updatedAt LIMIT Take: n unsettled orders in their turn, and no
\* other that would come before one of them.
IsSelection(some, n) ==
  /\ \A i, j \in 1 .. n :
       i < j => some[i] # some[j] /\ <<some[j], some[i]>> \notin queue
  /\ \A o \in Orders :
       Unsettled(o) /\ (\A i \in 1 .. n : some[i] # o) =>
         n = Take /\ \A i \in 1 .. n : <<o, some[i]>> \notin queue

BeginReconcile(w) ==
  /\ todo[w] = <<>> /\ call[w].pc = "idle"
  /\ \E n \in 1 .. Take : \E some \in [1 .. n -> {o \in Orders : Unsettled(o)}] :
       /\ IsSelection(some, n)
       /\ todo' = [todo EXCEPT ![w] = some]
  /\ UNCHANGED <<storeVars, payRows, call, gateway, answers>>

Undecided(o) == orders[o].status \in {"pending", "expired"}

\* Mutant: the order keeps its place in the queue.
TakeUpUntouched(w, o) ==
  /\ todo[w] # <<>> /\ call[w].pc = "idle"
  /\ o = Head(todo[w])
  /\ todo' = [todo EXCEPT ![w] = Tail(@)]
  /\ queue' = queue

\* The next order of the batch, taken up when the previous query is done.  It
\* is touched first, so that it goes to the back for the next selection.
TakeUp(w, o) ==
  /\ todo[w] # <<>> /\ call[w].pc = "idle"
  /\ o = Head(todo[w])
  /\ todo' = [todo EXCEPT ![w] = Tail(@)]
  /\ queue' = IF Undecided(o) THEN Touched({o}) ELSE queue

\* Mutant: an order nobody has decided by then counts as failed.
ReviewOldFailed(w, o) ==
  /\ TakeUp(w, o)
  /\ clock - orders[o].createdAt > ReviewAge
  /\ orders' = IF Undecided(o)
               THEN [orders EXCEPT ![o].status = "failed",
                                   ![o].fulfillment = "not_granted"]
               ELSE orders
  /\ UNCHANGED <<storeVars, requests, promotions, call, gateway, answers>>

\* Too old: handed to the staff, unless it has been decided since.
ReviewOld(w, o) ==
  /\ TakeUp(w, o)
  /\ clock - orders[o].createdAt > ReviewAge
  /\ orders' = IF Undecided(o)
               THEN [orders EXCEPT ![o].fulfillment = "requires_review"]
               ELSE orders
  /\ UNCHANGED <<storeVars, requests, promotions, call, gateway, answers>>

\* The query fails, or its answer does not verify.
QueryLost(w, o) ==
  /\ TakeUp(w, o)
  /\ clock - orders[o].createdAt <= ReviewAge
  /\ UNCHANGED <<storeVars, orders, requests, promotions, call, gateway, answers>>

Final == {"success", "refused"}

\* Mutant: the gateway's word is passed on untranslated.
AnsweredRaw(o) == IF gateway[o] = {} THEN {"processing"} ELSE gateway[o]

\* What a query is told: the outcome once there is one.
Answered(o) ==
  IF "success" \in gateway[o] THEN {"success"}
  ELSE IF "refused" \in gateway[o] THEN {"cancelled", "failed"}
  ELSE IF "suspect" \in gateway[o] THEN {"suspect"}
  ELSE {"processing"}

\* The answer is settled like a notification.
QueryAnswered(w, o) ==
  /\ TakeUp(w, o)
  /\ clock - orders[o].createdAt <= ReviewAge
  /\ \E event \in Answered(o) : call' = [call EXCEPT ![w] = IpnFor(o, event)]
  /\ UNCHANGED <<storeVars, orders, requests, promotions, gateway, answers>>

\* The instance dies: its batch is forgotten, its transaction rolled back.
StopServer(w) ==
  /\ todo[w] # <<>> \/ call[w].pc # "idle"
  /\ todo' = [todo EXCEPT ![w] = <<>>]
  /\ EndCall(w)
  /\ UNCHANGED <<clock, account, restrictions, posts, ledger, notices, payRows,
                 gateway, answers>>

-----------------------------------------------------------------------------
(* External: the gateway *)

\* It decides an order once; before that it may hold it as suspect.
Decide(o, word) ==
  /\ orders[o].status # "none"
  /\ gateway[o] \cap Final = {} /\ word \notin gateway[o]
  /\ gateway' = [gateway EXCEPT ![o] = @ \cup {word}]
  /\ UNCHANGED <<storeVars, payRows, call, todo, answers>>

-----------------------------------------------------------------------------

CallStep(c) ==
  \/ LockOwner(c) \/ LockTarget(c) \/ Reuse(c) \/ Join(c)
  \/ \E o \in Orders : OpenCheckout(c, o)
  \/ Settle(c)
  \/ Abandon(c)

Reconcile(w) ==
  \/ BeginReconcile(w)
  \/ \E o \in Orders : ReviewOld(w, o) \/ QueryLost(w, o) \/ QueryAnswered(w, o)
  \/ StopServer(w)

PayNext ==
  \/ \E c \in Callers, owner \in Sellers, p \in Posts, hours \in Packages, k \in Keys :
       BeginCheckout(c, owner, p, hours, k)
  \/ \E c \in Callers, o \in Orders : BeginIpn(c, o)
  \/ \E c \in Actors : CallStep(c)
  \/ \E w \in Servers : Reconcile(w)
  \/ \E p \in Posts, b \in Boosts : AddBoost(p, b)
  \/ \E pr \in promotions : CancelBoost(pr)
  \/ \E o \in Orders, word \in Words : Decide(o, word)

=============================================================================
