----------------------------- MODULE PaymentProofs -----------------------------
(***************************************************************************)
(* Proofs about payments and promotions beside the life of the posts, for   *)
(* any number of posts, orders, keys, requests and instances, any prices    *)
(* and deadlines, and whatever the gateway says and when.                   *)
(***************************************************************************)
EXTENDS PaymentSystem, LifecycleProofs, FiniteSetTheorems

-----------------------------------------------------------------------------
(* Types *)

\* Blank records.
LEMMA BlankTyped == NoRow \in PostRow /\ NoCall \in Call /\ NoOrder \in Order
<1>1. NoRow \in PostRow
  BY DEF NoRow, PostRow, Status
<1>2. NoCall \in Call
  BY <1>1 DEF NoCall, Call
<1>3. NoOrder \in Order
  BY DEF NoOrder, Order
<1> QED BY <1>1, <1>2, <1>3

\* A checkout that has just arrived.
LEMMA CheckoutTyped ==
  ASSUME NEW owner \in Sellers, NEW p \in Posts, NEW hours \in Nat, NEW k \in Keys,
         NEW now \in Nat
  PROVE  [NoCall EXCEPT !.pc = "owner", !.owner = owner, !.post = p,
                        !.hours = hours, !.key = k, !.start = now] \in Call
BY BlankTyped DEF NoCall, Call

\* A report that has just arrived.
LEMMA IpnTyped ==
  ASSUME orders \in [Orders -> Order], NEW o \in Orders, NEW event \in Event
  PROVE  IpnFor(o, event) \in Call
<1>1. orders[o].owner \in Sellers \cup {None} /\ orders[o].post \in Posts \cup {None}
  BY DEF Order
<1> QED BY <1>1, BlankTyped DEF IpnFor, NoCall, Call

\* A transaction goes on to its next statement.
LEMMA CallAdvances ==
  ASSUME NEW x \in Call, NEW row \in PostRow
  PROVE  /\ [x EXCEPT !.pc = "post"] \in Call
         /\ [x EXCEPT !.pc = "write", !.row = row] \in Call
BY DEF Call

\* What a transaction writes into its order.
LEMMA OrderWritten ==
  ASSUME NEW x \in Order,
         NEW status \in {"none", "pending", "expired", "paid", "cancelled", "failed"},
         NEW fulfillment \in {"pending", "active", "not_granted", "requires_review"}
  PROVE  /\ [x EXCEPT !.status = status] \in Order
         /\ [x EXCEPT !.fulfillment = fulfillment] \in Order
         /\ [x EXCEPT !.status = status, !.fulfillment = fulfillment] \in Order
BY DEF Order

\* Ending a transaction keeps the types, and leaves the others alone.
LEMMA EndCallEffect ==
  ASSUME TypeOK, SharedOK, NEW d \in Actors, EndCall(d)
  PROVE  /\ call' \in [Actors -> Call] /\ call'[d] = NoCall
         /\ sellerLock' \in [Sellers -> Txns \cup Actors \cup {None}]
         /\ postLock' \in [Posts -> Txns \cup Actors \cup {None}]
         /\ \A c \in Actors \ {d} :
              /\ call'[c] = call[c]
              /\ \A s \in Sellers : sellerLock[s] = c => sellerLock'[s] = c
              /\ \A p \in Posts : postLock[p] = c => postLock'[p] = c
<1>1. call' \in [Actors -> Call] /\ call'[d] = NoCall
      /\ \A c \in Actors \ {d} : call'[c] = call[c]
  BY BlankTyped DEF TypeOK, PayTypeOK, EndCall
<1>2. /\ sellerLock' \in [Sellers -> Txns \cup Actors \cup {None}]
      /\ \A s \in Sellers : sellerLock[s] # d => sellerLock'[s] = sellerLock[s]
  BY DEF SharedOK, EndCall, Released
<1>3. /\ postLock' \in [Posts -> Txns \cup Actors \cup {None}]
      /\ \A p \in Posts : postLock[p] # d => postLock'[p] = postLock[p]
  BY DEF SharedOK, EndCall, Released
<1> QED BY <1>1, <1>2, <1>3

\* What a transaction under way carries is well typed.
LEMMA CarriedTyped ==
  ASSUME TypeOK, CallsOK, NEW c \in Actors, call[c].pc # "idle"
  PROVE  /\ call[c] \in Call /\ call[c].owner \in Sellers /\ call[c].post \in Posts
         /\ call[c].hours \in Nat /\ call[c].start \in Nat
         /\ call[c].op = "checkout" => call[c].key \in Keys
         /\ call[c].op # "checkout" => call[c].op = "ipn" /\ call[c].order \in Orders
         /\ call[c].op = "ipn" => call[c].op # "checkout"
<1>1. call[c] \in Call
  BY DEF TypeOK, PayTypeOK
<1> QED BY <1>1 DEF CallsOK, Call

\* Statements of the transactions keep the types.
LEMMA TypeCallStep ==
  ASSUME TypeOK, SharedOK, CallsOK, NEW c \in Actors, CallStep(c)
  PROVE  TypeOK'
<1>0. /\ orders \in [Orders -> Order] /\ requests \subseteq Receipt
      /\ promotions \subseteq Promotion /\ queue \subseteq Orders \X Orders
      /\ call \in [Actors -> Call] /\ call[c] \in Call
      /\ answers \subseteq [owner : Sellers, key : Keys, order : Orders]
      /\ clock \in Nat /\ posts \in [Posts -> PostRow]
  BY DEF TypeOK, PayTypeOK, SharedOK
<1>a. ASSUME NEW o \in Orders, Answer(c, o), call[c].pc # "idle",
             call[c].op = "checkout"
      PROVE  answers' \subseteq [owner : Sellers, key : Keys, order : Orders]
  BY <1>0, <1>a, CarriedTyped DEF Answer
<1>q. ASSUME NEW S \in SUBSET Orders PROVE Touched(S) \subseteq Orders \X Orders
  BY <1>0 DEF Touched
<1>r. ASSUME NEW o \in Orders, call[c].pc # "idle", call[c].op = "checkout"
      PROVE  ReceiptOf(c, o) \in Receipt
  BY <1>0, <1>r, CarriedTyped DEF ReceiptOf, Receipt
<1>p. UNCHANGED <<orders, requests, promotions, queue>> =>
        /\ orders' \in [Orders -> Order] /\ requests' \subseteq Receipt
        /\ promotions' \subseteq Promotion /\ queue' \subseteq Orders \X Orders
  BY <1>0
<1>1. CASE LockOwner(c)
  <2>1. call' \in [Actors -> Call]
    BY <1>0, <1>1, BlankTyped, CallAdvances DEF LockOwner
  <2>2. UNCHANGED <<payRows, todo, gateway, answers>>
    BY <1>1 DEF LockOwner
  <2> QED BY <2>1, <2>2 DEF TypeOK, PayTypeOK, payRows
<1>2. CASE LockTarget(c)
  <2>1. call[c].post \in Posts
    BY <1>2, CarriedTyped DEF LockTarget
  <2>2. call' \in [Actors -> Call]
    BY <1>0, <1>2, <2>1, CallAdvances DEF LockTarget
  <2> QED BY <1>2, <2>2 DEF LockTarget, TypeOK, PayTypeOK, payRows
<1>3. CASE Reuse(c)
  <2>1. PICK r \in Receipts(call[c].owner, call[c].key) : Answer(c, r.order)
    BY <1>3 DEF Reuse
  <2>2. r.order \in Orders
    BY <1>0, <2>1 DEF Receipts, Receipt
  <2>3. answers' \subseteq [owner : Sellers, key : Keys, order : Orders]
    BY <1>3, <1>a, <2>1, <2>2 DEF Reuse
  <2> QED BY <1>3, <2>3, EndCallEffect DEF Reuse, TypeOK, PayTypeOK, payRows
<1>4. CASE Join(c)
  <2>1. PICK o \in Open(call[c].post) :
          requests' = requests \cup {ReceiptOf(c, o)} /\ Answer(c, o)
    BY <1>4 DEF Join
  <2>2. o \in Orders
    BY <2>1 DEF Open, PendingOn
  <2>3. /\ answers' \subseteq [owner : Sellers, key : Keys, order : Orders]
        /\ requests' \subseteq Receipt
    BY <1>0, <1>4, <1>a, <1>r, <2>1, <2>2 DEF Join
  <2> QED BY <1>4, <2>3, EndCallEffect DEF Join, TypeOK, PayTypeOK, payRows
<1>5. ASSUME NEW o \in Orders, OpenCheckout(c, o) PROVE TypeOK'
  <2> DEFINE p == call[c].post
             stale == {x \in PendingOn(p) : orders[x].expiresAt <= call[c].start}
             opened == [NoOrder EXCEPT !.owner = call[c].owner, !.post = p,
                                       !.hours = call[c].hours, !.key = call[c].key,
                                       !.createdAt = clock,
                                       !.expiresAt = clock + Timeout,
                                       !.status = "pending"]
  <2>1. call[c].pc # "idle" /\ call[c].op = "checkout" /\ stale \subseteq Orders
    BY <1>5 DEF OpenCheckout, PendingOn
  <2>2. opened \in Order
    <3>1. clock + Timeout \in Nat
      BY <1>0, PaymentAssumption
    <3> QED BY <1>0, <2>1, <3>1, CarriedTyped, BlankTyped DEF Order, NoOrder
  <2>3. \A x \in Orders : [orders[x] EXCEPT !.status = "expired"] \in Order
    BY <1>0, OrderWritten
  <2>4. orders' \in [Orders -> Order]
    <3>1. orders' = [x \in Orders |->
                       IF x \in stale THEN [orders[x] EXCEPT !.status = "expired"]
                       ELSE IF x = o THEN opened ELSE orders[x]]
      BY <1>5 DEF OpenCheckout
    <3> HIDE DEF stale, opened
    <3> QED BY <1>0, <2>2, <2>3, <3>1
  <2>5. /\ answers' \subseteq [owner : Sellers, key : Keys, order : Orders]
        /\ requests' \subseteq Receipt
    BY <1>0, <1>5, <1>a, <1>r, <2>1 DEF OpenCheckout
  <2>6. queue' \subseteq Orders \X Orders
    BY <1>5, <1>q, <2>1 DEF OpenCheckout
  <2> QED BY <1>5, <2>4, <2>5, <2>6, EndCallEffect
          DEF OpenCheckout, TypeOK, PayTypeOK
<1>6. CASE Settle(c)
  <2> DEFINE o == call[c].order
  <2>0. o \in Orders /\ orders[o] \in Order
    <3>1. call[c].pc # "idle" /\ call[c].op = "ipn"
      BY <1>6 DEF Settle, SettleNothing, GrantBoost, HoldForReview, RecordRefusal,
                  FlagSuspect, Settling
    <3> QED BY <1>0, <3>1 DEF CallsOK
  <2>1. ASSUME NEW status \in {"none", "pending", "expired", "paid", "cancelled", "failed"},
               NEW fulfillment \in {"active", "not_granted", "requires_review"},
               Record(c, status, fulfillment)
        PROVE  orders' \in [Orders -> Order] /\ queue' \subseteq Orders \X Orders
    <3>1. orders' = [orders EXCEPT ![o] = [orders[o] EXCEPT
                       !.status = status, !.fulfillment = fulfillment]]
      BY <1>0, <2>0, <2>1 DEF Record
    <3>2. [orders[o] EXCEPT !.status = status, !.fulfillment = fulfillment] \in Order
      BY <2>0, OrderWritten
    <3> QED BY <1>0, <1>q, <2>0, <2>1, <3>1, <3>2 DEF Record
  <2>2. EndCall(c) /\ UNCHANGED <<requests, todo, gateway, answers>>
    BY <1>6 DEF Settle, SettleNothing, GrantBoost, HoldForReview, RecordRefusal,
                FlagSuspect, payRows
  <2>3. /\ orders' \in [Orders -> Order] /\ queue' \subseteq Orders \X Orders
        /\ promotions' \subseteq Promotion
    <3>1. CASE SettleNothing(c)
      BY <1>0, <3>1 DEF SettleNothing, payRows
    <3>2. CASE GrantBoost(c)
      <4>1. orders[o].post \in Posts
        <5>1. call[c].pc # "idle" /\ call[c].op = "ipn"
          BY <3>2 DEF GrantBoost, Settling
        <5> QED BY <5>1 DEF CallsOK
      <4>2. clock + orders[o].hours \in Nat
        BY <1>0, <2>0 DEF Order
      <4>3. promotions' \subseteq Promotion
        <5> DEFINE boost == [post |-> orders[o].post, order |-> o, from |-> clock,
                             until |-> clock + orders[o].hours, cancelled |-> FALSE]
        <5>1. boost \in Promotion
          BY <1>0, <2>0, <4>1, <4>2 DEF Promotion
        <5>2. promotions' = promotions \cup {boost}
          BY <3>2 DEF GrantBoost
        <5> QED BY <1>0, <5>1, <5>2
      <4>4. Record(c, "paid", "active")
        BY <3>2 DEF GrantBoost
      <4> QED BY <2>1, <4>3, <4>4
    <3>3. CASE HoldForReview(c)
      BY <1>0, <2>1, <3>3 DEF HoldForReview
    <3>4. CASE RecordRefusal(c)
      <4>1. call[c].event \in {"cancelled", "failed"}
        BY <3>4 DEF RecordRefusal, Settling
      <4> QED BY <1>0, <2>1, <3>4, <4>1 DEF RecordRefusal
    <3>5. CASE FlagSuspect(c)
      <4>1. orders[o].status \in {"none", "pending", "expired", "paid", "cancelled", "failed"}
        BY <2>0 DEF Order
      <4> QED BY <1>0, <2>1, <3>5, <4>1 DEF FlagSuspect
    <3> QED BY <1>6, <3>1, <3>2, <3>3, <3>4, <3>5 DEF Settle
  <2> QED BY <2>2, <2>3, EndCallEffect DEF TypeOK, PayTypeOK
<1>7. CASE Abandon(c)
  BY <1>7, EndCallEffect DEF Abandon, TypeOK, PayTypeOK, payRows
<1> QED BY <1>1, <1>2, <1>3, <1>4, <1>5, <1>6, <1>7 DEF CallStep

\* The reconciliation job keeps the types.
LEMMA TypeReconcile ==
  ASSUME TypeOK, SharedOK, NEW w \in Servers, Reconcile(w)
  PROVE  TypeOK'
<1>0. /\ orders \in [Orders -> Order] /\ queue \subseteq Orders \X Orders
      /\ call \in [Actors -> Call] /\ w \in Actors
      /\ todo \in [Servers -> Seq(Orders)]
  BY DEF TypeOK, PayTypeOK, Actors
<1>1. CASE BeginReconcile(w)
  <2>1. PICK n \in 1 .. Take : \E some \in [1 .. n -> {o \in Orders : Unsettled(o)}] :
          todo' = [todo EXCEPT ![w] = some]
    BY <1>1 DEF BeginReconcile
  <2>2. PICK some \in [1 .. n -> Orders] : todo' = [todo EXCEPT ![w] = some]
    BY <2>1
  <2>3. some \in Seq(Orders)
    <3>1. n \in Nat
      BY <2>1, PaymentAssumption
    <3> QED BY <2>2, <3>1
  <2>4. todo' \in [Servers -> Seq(Orders)]
    BY <1>0, <2>2, <2>3
  <2> QED BY <1>1, <2>4 DEF BeginReconcile, TypeOK, PayTypeOK, payRows
<1>2. ASSUME NEW o \in Orders, TakeUp(w, o)
      PROVE  todo' \in [Servers -> Seq(Orders)] /\ queue' \subseteq Orders \X Orders
  <2>1. Tail(todo[w]) \in Seq(Orders)
    BY <1>0, <1>2 DEF TakeUp
  <2>2. Touched({o}) \subseteq Orders \X Orders
    BY <1>0 DEF Touched
  <2> QED BY <1>0, <1>2, <2>1, <2>2 DEF TakeUp
<1>3. ASSUME NEW o \in Orders, ReviewOld(w, o) PROVE TypeOK'
  <2>1. [orders[o] EXCEPT !.fulfillment = "requires_review"] \in Order
    BY <1>0, OrderWritten
  <2>2. \/ orders' = [orders EXCEPT ![o] = [orders[o] EXCEPT
                                              !.fulfillment = "requires_review"]]
        \/ orders' = orders
    BY <1>3 DEF ReviewOld
  <2>3. orders' \in [Orders -> Order]
    BY <1>0, <2>1, <2>2
  <2> QED BY <1>2, <1>3, <2>3 DEF ReviewOld, TypeOK, PayTypeOK
<1>4. ASSUME NEW o \in Orders, QueryLost(w, o) PROVE TypeOK'
  BY <1>2, <1>4 DEF QueryLost, TypeOK, PayTypeOK
<1>5. ASSUME NEW o \in Orders, QueryAnswered(w, o) PROVE TypeOK'
  <2>1. PICK event \in Answered(o) : call' = [call EXCEPT ![w] = IpnFor(o, event)]
    BY <1>5 DEF QueryAnswered
  <2>2. event \in Event
    BY <2>1 DEF Answered, Event
  <2>3. call' \in [Actors -> Call]
    BY <1>0, <2>1, <2>2, IpnTyped
  <2> QED BY <1>2, <1>5, <2>3 DEF QueryAnswered, TypeOK, PayTypeOK
<1>6. CASE StopServer(w)
  <2>1. todo' \in [Servers -> Seq(Orders)]
    BY <1>0, <1>6 DEF StopServer
  <2> QED BY <1>0, <1>6, <2>1, EndCallEffect DEF StopServer, TypeOK, PayTypeOK, payRows
<1> QED BY <1>1, <1>3, <1>4, <1>5, <1>6 DEF Reconcile

\* Every step keeps the types.
LEMMA TypeNext ==
  ASSUME TypeOK, SharedOK, CallsOK, [Next]_vars
  PROVE  TypeOK'
<1>0. /\ orders \in [Orders -> Order] /\ call \in [Actors -> Call]
      /\ promotions \subseteq Promotion /\ queue \subseteq Orders \X Orders
      /\ gateway \in [Orders -> SUBSET Words] /\ clock \in Nat
  BY DEF TypeOK, PayTypeOK, SharedOK
<1>1. CASE UNCHANGED payVars
  BY <1>1 DEF payVars, payRows, TypeOK, PayTypeOK
<1>2. ASSUME NEW c \in Callers, NEW owner \in Sellers, NEW p \in Posts,
             NEW hours \in Packages, NEW k \in Keys,
             BeginCheckout(c, owner, p, hours, k)
      PROVE  TypeOK'
  <2>1. [NoCall EXCEPT !.pc = "owner", !.owner = owner, !.post = p,
                       !.hours = hours, !.key = k, !.start = clock] \in Call
    BY <1>0, CheckoutTyped, PaymentAssumption
  <2>2. call' \in [Actors -> Call]
    BY <1>0, <1>2, <2>1 DEF BeginCheckout
  <2> QED BY <1>2, <2>2 DEF BeginCheckout, TypeOK, PayTypeOK, payRows
<1>3. ASSUME NEW c \in Callers, NEW o \in Orders, BeginIpn(c, o) PROVE TypeOK'
  <2>1. PICK word \in gateway[o] : \E event \in Telling[word] :
          call' = [call EXCEPT ![c] = IpnFor(o, event)]
    BY <1>3 DEF BeginIpn
  <2>2. word \in {"success", "refused", "suspect"}
    BY <1>0, <2>1, PaymentAssumption
  <2>3. Telling[word] \subseteq Event
    BY <2>2 DEF Telling, Event
  <2>4. call' \in [Actors -> Call]
    BY <1>0, <2>1, <2>3, IpnTyped
  <2> QED BY <1>3, <2>4 DEF BeginIpn, TypeOK, PayTypeOK, payRows
<1>4. ASSUME NEW c \in Actors, CallStep(c) PROVE TypeOK'
  BY <1>4, TypeCallStep
<1>5. ASSUME NEW w \in Servers, Reconcile(w) PROVE TypeOK'
  BY <1>5, TypeReconcile
<1>6. ASSUME NEW p \in Posts, NEW b \in Boosts, AddBoost(p, b) PROVE TypeOK'
  <2> DEFINE boost == [post |-> p, order |-> None, from |-> b.from,
                       until |-> b.until, cancelled |-> FALSE]
  <2>1. boost \in Promotion
    BY PaymentAssumption DEF Promotion
  <2>2. promotions' = promotions \cup {boost}
    BY <1>6 DEF AddBoost
  <2>3. promotions' \subseteq Promotion
    BY <1>0, <2>1, <2>2
  <2> QED BY <1>6, <2>3 DEF AddBoost, TypeOK, PayTypeOK
<1>7. ASSUME NEW pr \in promotions, CancelBoost(pr) PROVE TypeOK'
  <2>1. [pr EXCEPT !.cancelled = TRUE] \in Promotion
    BY <1>0 DEF Promotion
  <2>2. promotions' \subseteq Promotion
    BY <1>0, <1>7, <2>1 DEF CancelBoost
  <2>3. orders' \in [Orders -> Order] /\ queue' \subseteq Orders \X Orders
    <3>1. CASE UNCHANGED <<orders, queue>>
      BY <1>0, <3>1
    <3>2. CASE pr.order # None /\ orders' = [orders EXCEPT ![pr.order].fulfillment =
                                                "requires_review"]
               /\ queue' = Touched({pr.order})
      <4>1. pr.order \in Orders
        BY <1>0, <3>2 DEF Promotion
      <4>2. [orders[pr.order] EXCEPT !.fulfillment = "requires_review"] \in Order
        BY <1>0, <4>1, OrderWritten
      <4> QED BY <1>0, <3>2, <4>1, <4>2 DEF Touched
    <3> QED BY <1>7, <3>1, <3>2 DEF CancelBoost
  <2> QED BY <1>7, <2>2, <2>3 DEF CancelBoost, TypeOK, PayTypeOK
<1>8. ASSUME NEW o \in Orders, NEW word \in Words, Decide(o, word) PROVE TypeOK'
  <2>1. gateway' \in [Orders -> SUBSET Words]
    BY <1>0, <1>8 DEF Decide
  <2> QED BY <1>8, <2>1 DEF Decide, TypeOK, PayTypeOK, payRows
<1>9. CASE PayNext
  BY <1>2, <1>3, <1>4, <1>5, <1>6, <1>7, <1>8, <1>9 DEF PayNext
<1> QED BY <1>1, <1>9 DEF Next, vars

-----------------------------------------------------------------------------
(* What a step does to the transactions and their locks *)

\* A transaction that does not step keeps its state and its row locks.
Stays(c) ==
  /\ call'[c] = call[c]
  /\ \A s \in Sellers : sellerLock[s] = c => sellerLock'[s] = c
  /\ \A p \in Posts : postLock[p] = c => postLock'[p] = c

\* The transaction of a checkout that has just arrived.
CheckoutFor(owner, p, hours, k) ==
  [NoCall EXCEPT !.pc = "owner", !.owner = owner, !.post = p, !.hours = hours,
                 !.key = k, !.start = clock]

\* A checkout arrives for a post that exists.
StartsCheckout(c) ==
  \E owner \in Sellers, p \in Posts, hours \in Packages, k \in Keys :
    /\ Exists(p)
    /\ call'[c] = CheckoutFor(owner, p, hours, k)
    /\ UNCHANGED <<orders, gateway>>

\* A report arrives about an opened order, and says what the gateway has said.
StartsIpn(c) ==
  \E o \in Orders, event \in Event :
    /\ orders[o].status # "none" /\ Told(event, o)
    /\ call'[c] = IpnFor(o, event)
    /\ UNCHANGED <<orders, gateway>>

\* How a transaction may change in a step.
CallEffect(c) ==
  \/ Stays(c) \/ call'[c] = NoCall
  \/ StartsCheckout(c) \/ StartsIpn(c)
  \/ LockOwner(c) \/ LockTarget(c)

\* Statements of one transaction leave the others alone.
LEMMA CallStepMoves ==
  ASSUME TypeOK, SharedOK, NEW d \in Actors, CallStep(d), NEW c \in Actors
  PROVE  CallEffect(c)
<1>0. call \in [Actors -> Call] /\ None \notin Actors
  BY CallerAssumption DEF TypeOK, PayTypeOK, Actors
<1>1. CASE EndCall(d)
  BY <1>1, EndCallEffect DEF CallEffect, Stays
<1>2. CASE LockOwner(d)
  BY <1>0, <1>2 DEF LockOwner, CallEffect, Stays, SharedOK
<1>3. CASE LockTarget(d)
  BY <1>0, <1>3 DEF LockTarget, CallEffect, Stays, SharedOK
<1> QED BY <1>1, <1>2, <1>3
        DEF CallStep, Reuse, Join, OpenCheckout, Settle, SettleNothing, GrantBoost,
            HoldForReview, RecordRefusal, FlagSuspect, Abandon

\* What the gateway has told a notification or a query is true of it.
LEMMA ToldTrue ==
  ASSUME TypeOK, NEW o \in Orders
  PROVE  /\ \A word \in gateway[o] : \A event \in Telling[word] :
              event \in Event /\ Told(event, o)
         /\ \A event \in Answered(o) : event \in Event /\ Told(event, o)
<1>1. gateway[o] \subseteq {"success", "refused", "suspect"}
  BY PaymentAssumption DEF TypeOK, PayTypeOK
<1>2. ASSUME NEW word \in gateway[o], NEW event \in Telling[word]
      PROVE  event \in Event /\ Told(event, o)
  BY <1>1, <1>2 DEF Telling, Event, Told
<1>3. ASSUME NEW event \in Answered(o) PROVE event \in Event /\ Told(event, o)
  BY <1>3 DEF Answered, Event, Told
<1> QED BY <1>2, <1>3

\* So do the steps of the reconciliation job.
LEMMA ReconcileMoves ==
  ASSUME TypeOK, SharedOK, OrdersOK, NEW w \in Servers, Reconcile(w), NEW c \in Actors
  PROVE  CallEffect(c)
<1>0. call \in [Actors -> Call] /\ w \in Actors /\ todo \in [Servers -> Seq(Orders)]
  BY DEF TypeOK, PayTypeOK, Actors
<1>1. CASE UNCHANGED <<storeVars, call>>
  BY <1>1 DEF storeVars, CallEffect, Stays
<1>2. ASSUME NEW o \in Orders, QueryAnswered(w, o) PROVE CallEffect(c)
  <2>1. PICK event \in Answered(o) : call' = [call EXCEPT ![w] = IpnFor(o, event)]
    BY <1>2 DEF QueryAnswered
  <2>2. orders[o].status # "none"
    <3>1. todo[w] \in Seq(Orders) /\ todo[w] # <<>> /\ o = Head(todo[w])
      BY <1>0, <1>2 DEF QueryAnswered, TakeUp
    <3>2. 1 \in DOMAIN todo[w] /\ o = todo[w][1]
      BY <3>1
    <3> QED BY <3>2 DEF OrdersOK
  <2>3. c = w => StartsIpn(c)
    BY <1>0, <1>2, <2>1, <2>2, ToldTrue DEF StartsIpn, QueryAnswered
  <2>4. c # w => Stays(c)
    BY <1>0, <1>2, <2>1 DEF Stays, QueryAnswered, storeVars
  <2> QED BY <2>3, <2>4 DEF CallEffect
<1>3. CASE StopServer(w)
  BY <1>0, <1>3, EndCallEffect DEF StopServer, CallEffect, Stays
<1> QED BY <1>1, <1>2, <1>3 DEF Reconcile, BeginReconcile, ReviewOld, QueryLost

\* How the state of one transaction may change in a step.
LEMMA CallsMove ==
  ASSUME TypeOK, SharedOK, OrdersOK, [Next]_vars, NEW c \in Actors
  PROVE  CallEffect(c)
<1>0. call \in [Actors -> Call] /\ None \notin Actors /\ Callers \subseteq Actors
  BY CallerAssumption DEF TypeOK, PayTypeOK, Actors
<1>1. CASE UNCHANGED vars
  BY <1>1 DEF vars, storeVars, payVars, CallEffect, Stays
<1>2. CASE LifecycleNext /\ UNCHANGED payVars
  <2>1. c \notin Txns \cup {None}
    BY CallerAssumption DEF Actors
  <2>2. Stays(c)
    BY <1>2, <2>1, LocksLifecycle DEF payVars, Stays, SharedOK
  <2> QED BY <2>2 DEF CallEffect
<1>3. ASSUME NEW d \in Callers, NEW owner \in Sellers, NEW p \in Posts,
             NEW hours \in Packages, NEW k \in Keys,
             BeginCheckout(d, owner, p, hours, k)
      PROVE  CallEffect(c)
  <2>1. c = d => StartsCheckout(c)
    BY <1>0, <1>3 DEF BeginCheckout, StartsCheckout, CheckoutFor, payRows
  <2>2. c # d => Stays(c)
    BY <1>0, <1>3 DEF BeginCheckout, Stays, storeVars
  <2> QED BY <2>1, <2>2 DEF CallEffect
<1>4. ASSUME NEW d \in Callers, NEW o \in Orders, BeginIpn(d, o)
      PROVE  CallEffect(c)
  <2>1. PICK word \in gateway[o] : \E event \in Telling[word] :
          call' = [call EXCEPT ![d] = IpnFor(o, event)]
    BY <1>4 DEF BeginIpn
  <2>2. PICK event \in Telling[word] : call' = [call EXCEPT ![d] = IpnFor(o, event)]
    BY <2>1
  <2>3. orders[o].status # "none" /\ event \in Event /\ Told(event, o)
    BY <2>1, <2>2, ToldTrue DEF OrdersOK
  <2>4. c = d => StartsIpn(c)
    BY <1>0, <1>4, <2>2, <2>3 DEF BeginIpn, StartsIpn, payRows
  <2>5. c # d => Stays(c)
    BY <1>0, <1>4, <2>2 DEF BeginIpn, Stays, storeVars
  <2> QED BY <2>4, <2>5 DEF CallEffect
<1>5. ASSUME NEW d \in Actors, CallStep(d) PROVE CallEffect(c)
  BY <1>5, CallStepMoves
<1>6. ASSUME NEW w \in Servers, Reconcile(w) PROVE CallEffect(c)
  BY <1>6, ReconcileMoves
<1>7. ASSUME UNCHANGED <<storeVars, call>> PROVE CallEffect(c)
  BY <1>7 DEF storeVars, CallEffect, Stays
<1>8. ASSUME NEW p \in Posts, NEW b \in Boosts, AddBoost(p, b) PROVE CallEffect(c)
  BY <1>7, <1>8 DEF AddBoost
<1>9. ASSUME NEW pr \in promotions, CancelBoost(pr) PROVE CallEffect(c)
  BY <1>7, <1>9 DEF CancelBoost
<1>10. ASSUME NEW o \in Orders, NEW word \in Words, Decide(o, word) PROVE CallEffect(c)
  BY <1>7, <1>10 DEF Decide
<1>11. CASE PayNext
  BY <1>3, <1>4, <1>5, <1>6, <1>8, <1>9, <1>10, <1>11 DEF PayNext
<1> QED BY <1>1, <1>2, <1>11 DEF Next

-----------------------------------------------------------------------------
(* The rows and locks shared with the life of the posts *)

\* Payments read users and posts and write neither; they keep the locks typed,
\* and take no lock from an activation request.
LEMMA PayStore ==
  ASSUME TypeOK, SharedOK, PayNext
  PROVE  /\ UNCHANGED <<clock, account, posts>>
         /\ sellerLock' \in [Sellers -> Txns \cup Actors \cup {None}]
         /\ postLock' \in [Posts -> Txns \cup Actors \cup {None}]
         /\ \A t \in Txns, p \in Posts : postLock[p] = t => postLock'[p] = t
<1> DEFINE Kept == /\ UNCHANGED <<clock, account, posts>>
                   /\ sellerLock' \in [Sellers -> Txns \cup Actors \cup {None}]
                   /\ postLock' \in [Posts -> Txns \cup Actors \cup {None}]
                   /\ \A t \in Txns, p \in Posts : postLock[p] = t => postLock'[p] = t
<1>0. Actors \cap Txns = {} /\ None \notin Txns /\ Servers \subseteq Actors
  BY CallerAssumption, NoneAssumption DEF Actors
<1>1. ASSUME UNCHANGED storeVars PROVE Kept
  BY <1>1 DEF storeVars, SharedOK
<1>2. ASSUME NEW c \in Actors, EndCall(c), UNCHANGED <<clock, account, posts>> PROVE Kept
  <2>1. /\ sellerLock' \in [Sellers -> Txns \cup Actors \cup {None}]
        /\ postLock' \in [Posts -> Txns \cup Actors \cup {None}]
    BY <1>2, EndCallEffect
  <2>2. \A t \in Txns, p \in Posts : postLock[p] = t => postLock'[p] = t
    BY <1>0, <1>2 DEF EndCall, Released, SharedOK
  <2> QED BY <1>2, <2>1, <2>2
<1>3. ASSUME NEW c \in Actors, LockOwner(c) PROVE Kept
  BY <1>3 DEF LockOwner, SharedOK
<1>4. ASSUME NEW c \in Actors, LockTarget(c) PROVE Kept
  BY <1>0, <1>4 DEF LockTarget, SharedOK
<1> HIDE DEF Kept
<1>5. ASSUME NEW c \in Actors, CallStep(c) PROVE Kept
  BY <1>2, <1>3, <1>4, <1>5
     DEF CallStep, Reuse, Join, OpenCheckout, Settle, SettleNothing, GrantBoost,
         HoldForReview, RecordRefusal, FlagSuspect, Abandon
<1>6. ASSUME NEW w \in Servers, Reconcile(w) PROVE Kept
  BY <1>0, <1>1, <1>2, <1>6
     DEF Reconcile, BeginReconcile, ReviewOld, QueryLost, QueryAnswered, StopServer
<1>7. Kept
  BY <1>1, <1>5, <1>6
     DEF PayNext, BeginCheckout, BeginIpn, AddBoost, CancelBoost, Decide
<1> QED BY <1>7 DEF Kept

\* The shared rows and locks keep their types.
LEMMA SharedNext ==
  ASSUME TypeOK, SharedOK, [Next]_vars
  PROVE  SharedOK'
<1>1. CASE LifecycleNext
  <2>1. posts' \in [Posts -> PostRow] /\ TxTypeOK' /\ clock' \in Nat
    BY <1>1, PostsTyped, RequestsTyped DEF SharedOK
  <2>2. /\ sellerLock' \in [Sellers -> Txns \cup Actors \cup {None}]
        /\ postLock' \in [Posts -> Txns \cup Actors \cup {None}]
    BY <1>1, LocksLifecycle DEF SharedOK
  <2> QED BY <2>1, <2>2 DEF SharedOK
<1>2. CASE PayNext /\ UNCHANGED tx
  BY <1>2, PayStore DEF SharedOK, TxTypeOK
<1>3. CASE UNCHANGED vars
  BY <1>3 DEF vars, storeVars, SharedOK, TxTypeOK
<1> QED BY <1>1, <1>2, <1>3 DEF Next

\* An activation request takes its post's lock before it writes, and keeps it.
LEMMA RequestsHoldNext ==
  ASSUME TypeOK, SharedOK, RequestsHold, [Next]_vars
  PROVE  RequestsHold'
<1> SUFFICES ASSUME NEW t \in Txns, tx'[t].pc # "idle", tx'[t].op # "create"
             PROVE  /\ tx'[t].post \in Posts
                    /\ tx'[t].pc \in {"policy", "count", "write"} =>
                         postLock'[tx'[t].post] = t
  BY DEF RequestsHold
<1>0. /\ tx \in [Txns -> Request] /\ None \notin Txns
      /\ postLock \in [Posts -> Txns \cup Actors \cup {None}]
  BY NoneAssumption DEF SharedOK, TxTypeOK
<1>s. ASSUME tx'[t] = tx[t], \A p \in Posts : postLock[p] = t => postLock'[p] = t
      PROVE  /\ tx'[t].post \in Posts
             /\ tx'[t].pc \in {"policy", "count", "write"} => postLock'[tx'[t].post] = t
  BY <1>s DEF RequestsHold
<1>1. ASSUME NEW u \in Txns, TxStep(u)
      PROVE  /\ tx'[t].post \in Posts
             /\ tx'[t].pc \in {"policy", "count", "write"} => postLock'[tx'[t].post] = t
  <2>1. CASE EndTx(u)
    <3>1. u # t
      BY <1>0, <2>1 DEF EndTx, Idle
    <3> QED BY <1>0, <1>s, <2>1, <3>1 DEF EndTx, Released
  <2>2. CASE LockSeller(u)
    BY <1>0, <2>2 DEF LockSeller, RequestsHold, Request
  <2>3. CASE LockPost(u)
    BY <1>0, <2>3 DEF LockPost, LockPostToRestore, LockPostToRenew, RequestsHold, Request
  <2>4. CASE CheckPolicy(u) \/ CountActive(u)
    BY <1>0, <2>4 DEF CheckPolicy, CountActive, storeVars, RequestsHold, Request
  <2> QED BY <1>1, <2>1, <2>2, <2>3, <2>4
          DEF TxStep, RestoreDormant, CommitCreate, CommitRestore, CommitRenew,
              Rollback
<1>2. ASSUME NEW u \in Txns, NEW s \in Sellers, BeginCreate(u, s)
      PROVE  /\ tx'[t].post \in Posts
             /\ tx'[t].pc \in {"policy", "count", "write"} => postLock'[tx'[t].post] = t
  BY <1>0, <1>2 DEF BeginCreate, storeVars, Idle, RequestsHold
<1>3. ASSUME NEW u \in Txns, NEW p \in Posts, BeginRestore(u, p)
      PROVE  /\ tx'[t].post \in Posts
             /\ tx'[t].pc \in {"policy", "count", "write"} => postLock'[tx'[t].post] = t
  BY <1>0, <1>3 DEF BeginRestore, storeVars, Idle, RequestsHold
<1>4. ASSUME NEW u \in Txns, NEW s \in Sellers, NEW p \in Posts,
             NEW ref \in Refs \cup {None}, BeginRenew(u, s, p, ref)
      PROVE  /\ tx'[t].post \in Posts
             /\ tx'[t].pc \in {"policy", "count", "write"} => postLock'[tx'[t].post] = t
  BY <1>0, <1>4 DEF BeginRenew, storeVars, Idle, RequestsHold
<1>5. ASSUME UNCHANGED <<tx, postLock>>
      PROVE  /\ tx'[t].post \in Posts
             /\ tx'[t].pc \in {"policy", "count", "write"} => postLock'[tx'[t].post] = t
  BY <1>5, <1>s
<1>6. CASE PayNext /\ UNCHANGED tx
  BY <1>6, <1>s, PayStore
<1>7. CASE LifecycleNext
  BY <1>1, <1>2, <1>3, <1>4, <1>5, <1>7
     DEF LifecycleNext, MarkSold, Remove, Hide, SetAccount, Ban, Lift, Tick
<1> QED BY <1>5, <1>6, <1>7 DEF Next, vars, storeVars

\* A post that exists goes on existing; while a checkout or a report has it
\* locked, its row stays as it is; and a deleted account stays deleted.
LEMMA PostsNext ==
  ASSUME TypeOK, SharedOK, RequestsHold, [Next]_vars
  PROVE  /\ \A p \in Posts : Exists(p) =>
              /\ Exists(p)'
              /\ \A c \in Actors : postLock[p] = c => posts'[p] = posts[p]
         /\ \A s \in Sellers : account[s] = "deleted" => account'[s] = "deleted"
<1>0. \A c \in Actors : c \notin Txns \cup {None}
  BY CallerAssumption DEF Actors
<1>1. CASE LifecycleNext
  <2>1. \A t \in Txns : tx[t].pc = "write" /\ tx[t].op # "create" =>
           tx[t].post \in Posts /\ postLock[tx[t].post] = t
    BY DEF RequestsHold
  <2>2. ASSUME NEW p \in Posts, Exists(p)
        PROVE  Exists(p)' /\ (posts'[p] = posts[p] \/ postLock[p] \in Txns \cup {None})
    BY <1>1, <2>1, <2>2, PostsLifecycle DEF SharedOK
  <2> QED BY <1>0, <1>1, <2>2, DeletedStays
<1>2. CASE UNCHANGED <<account, posts>>
  BY <1>2 DEF Exists
<1> QED BY <1>1, <1>2, PayStore DEF Next, vars, storeVars

-----------------------------------------------------------------------------
(* What a step does to an order *)

\* An outcome is recorded for the order of the transaction.
Settles(c, o) ==
  /\ call[c].order = o
  /\ GrantBoost(c) \/ HoldForReview(c) \/ RecordRefusal(c) \/ FlagSuspect(c)

\* How an order may change in a step.
OrderEffect(o) ==
  \/ orders'[o] = orders[o]
  \/ \E c \in Actors : OpenCheckout(c, o)
  \/ /\ orders[o].status = "pending"
     /\ orders'[o] = [orders[o] EXCEPT !.status = "expired"]
  \/ \E c \in Actors : Settles(c, o)
  \/ \E w \in Servers :
       /\ ReviewOld(w, o) /\ orders[o].status \in {"pending", "expired"}
       /\ orders'[o] = [orders[o] EXCEPT !.fulfillment = "requires_review"]
  \/ \E pr \in promotions :
       /\ CancelBoost(pr) /\ pr.order = o /\ orders[o].status = "paid"
       /\ orders'[o] = [orders[o] EXCEPT !.fulfillment = "requires_review"]

\* How the row of one order may change in a step.
LEMMA OrdersMove ==
  ASSUME TypeOK, [Next]_vars, NEW o \in Orders
  PROVE  OrderEffect(o)
<1>0. orders \in [Orders -> Order]
  BY DEF TypeOK, PayTypeOK
<1>1. ASSUME UNCHANGED orders PROVE OrderEffect(o)
  BY <1>1 DEF OrderEffect
<1>2. ASSUME NEW c \in Actors, CallStep(c) PROVE OrderEffect(o)
  <2>1. ASSUME NEW x \in Orders, OpenCheckout(c, x) PROVE OrderEffect(o)
    <3> DEFINE stale == {y \in PendingOn(call[c].post) :
                           orders[y].expiresAt <= call[c].start}
    <3>1. CASE o = x
      BY <2>1, <3>1 DEF OrderEffect
    <3>2. CASE o # x /\ o \in stale
      <4>1. orders'[o] = [orders[o] EXCEPT !.status = "expired"]
        BY <2>1, <3>2 DEF OpenCheckout
      <4> QED BY <3>2, <4>1 DEF OrderEffect, PendingOn
    <3>3. CASE o # x /\ o \notin stale
      <4>1. orders'[o] = orders[o]
        BY <2>1, <3>3 DEF OpenCheckout
      <4> QED BY <4>1 DEF OrderEffect
    <3> QED BY <3>1, <3>2, <3>3
  <2>2. CASE GrantBoost(c) \/ HoldForReview(c) \/ RecordRefusal(c) \/ FlagSuspect(c)
    <3>1. CASE call[c].order = o
      BY <2>2, <3>1 DEF OrderEffect, Settles
    <3>2. CASE call[c].order # o
      <4>1. orders'[o] = orders[o]
        BY <1>0, <2>2, <3>2 DEF GrantBoost, HoldForReview, RecordRefusal, FlagSuspect,
                                Record
      <4> QED BY <4>1 DEF OrderEffect
    <3> QED BY <3>1, <3>2
  <2>3. CASE UNCHANGED orders
    BY <1>1, <2>3
  <2> QED BY <1>2, <2>1, <2>2, <2>3
          DEF CallStep, LockOwner, LockTarget, Reuse, Join, Settle, SettleNothing,
              Abandon, payRows
<1>3. ASSUME NEW w \in Servers, Reconcile(w) PROVE OrderEffect(o)
  <2>1. ASSUME NEW x \in Orders, ReviewOld(w, x) PROVE OrderEffect(o)
    <3>1. CASE UNCHANGED orders
      BY <1>1, <3>1
    <3>2. CASE Undecided(x) /\ orders' = [orders EXCEPT ![x].fulfillment =
                                            "requires_review"]
      BY <1>0, <2>1, <3>2 DEF Undecided, OrderEffect
    <3> QED BY <2>1, <3>1, <3>2 DEF ReviewOld
  <2> QED BY <1>1, <1>3, <2>1
          DEF Reconcile, BeginReconcile, QueryLost, QueryAnswered, StopServer, payRows
<1>4. ASSUME NEW pr \in promotions, CancelBoost(pr) PROVE OrderEffect(o)
  <2>1. CASE UNCHANGED orders
    BY <1>1, <2>1
  <2>2. CASE orders[pr.order].status = "paid"
             /\ orders' = [orders EXCEPT ![pr.order].fulfillment = "requires_review"]
    BY <1>0, <1>4, <2>2 DEF OrderEffect
  <2> QED BY <1>4, <2>1, <2>2 DEF CancelBoost
<1>5. CASE PayNext
  BY <1>1, <1>2, <1>3, <1>4, <1>5
     DEF PayNext, BeginCheckout, BeginIpn, AddBoost, Decide, payRows
<1> QED BY <1>1, <1>5 DEF Next, vars, payVars, payRows

\* What can be recorded for an order that is not paid, and why.
Outcome(c, o, status, fulfillment) ==
  /\ orders'[o] = [orders[o] EXCEPT !.status = status, !.fulfillment = fulfillment]
  /\ \/ /\ status = "paid" /\ Told("success", o)
        /\ \/ fulfillment = "active" /\ GrantBoost(c)
           \/ fulfillment = "requires_review" /\ promotions' = promotions
     \/ /\ status \in {"cancelled", "failed"} /\ Told(status, o)
        /\ fulfillment = "not_granted" /\ promotions' = promotions
     \/ /\ status = orders[o].status
        /\ fulfillment = "requires_review" /\ promotions' = promotions

\* What a settling transaction knows of its order, and what it records.
LEMMA SettlesOnce ==
  ASSUME TypeOK, CallsOK, NEW c \in Actors, NEW o \in Orders, Settles(c, o)
  PROVE  /\ orders[o].status # "none" /\ orders[o].status # "paid"
         /\ call[c].pc = "write" /\ call[c].op = "ipn"
         /\ orders[o].owner = call[c].owner /\ orders[o].post = call[c].post
         /\ \E status, fulfillment : Outcome(c, o, status, fulfillment)
<1>0. orders \in [Orders -> Order]
  BY DEF TypeOK, PayTypeOK
<1>1. call[c].pc = "write" /\ call[c].op = "ipn" /\ call[c].order = o
  BY DEF Settles, GrantBoost, HoldForReview, RecordRefusal, FlagSuspect, Settling
<1>2. orders[o].status # "paid"
  BY <1>1 DEF Settles, GrantBoost, HoldForReview, RecordRefusal, FlagSuspect
<1>3. /\ orders[o].status # "none" /\ Told(call[c].event, o)
      /\ orders[o].owner = call[c].owner /\ orders[o].post = call[c].post
  BY <1>1 DEF CallsOK
<1>4. ASSUME NEW status, NEW fulfillment, Record(c, status, fulfillment)
      PROVE  orders'[o] = [orders[o] EXCEPT !.status = status,
                                            !.fulfillment = fulfillment]
  BY <1>0, <1>1, <1>4 DEF Record
<1>5. CASE GrantBoost(c)
  <2>1. Record(c, "paid", "active") /\ call[c].event = "success"
    BY <1>5 DEF GrantBoost, Settling
  <2>2. Outcome(c, o, "paid", "active")
    BY <1>3, <1>4, <1>5, <2>1 DEF Outcome
  <2> QED BY <1>1, <1>2, <1>3, <2>2
<1>6. CASE HoldForReview(c)
  <2>1. Record(c, "paid", "requires_review") /\ call[c].event = "success"
        /\ promotions' = promotions
    BY <1>6 DEF HoldForReview, Settling
  <2>2. Outcome(c, o, "paid", "requires_review")
    BY <1>3, <1>4, <2>1 DEF Outcome
  <2> QED BY <1>1, <1>2, <1>3, <2>2
<1>7. CASE RecordRefusal(c)
  <2>1. Record(c, call[c].event, "not_granted") /\ promotions' = promotions
        /\ call[c].event \in {"cancelled", "failed"}
    BY <1>7 DEF RecordRefusal, Settling
  <2>2. Outcome(c, o, call[c].event, "not_granted")
    BY <1>3, <1>4, <2>1 DEF Outcome
  <2> QED BY <1>1, <1>2, <1>3, <2>2
<1>8. CASE FlagSuspect(c)
  <2>1. Record(c, orders[o].status, "requires_review") /\ promotions' = promotions
    BY <1>1, <1>8 DEF FlagSuspect
  <2>2. Outcome(c, o, orders[o].status, "requires_review")
    BY <1>4, <2>1 DEF Outcome
  <2> QED BY <1>1, <1>2, <1>3, <2>2
<1> QED BY <1>5, <1>6, <1>7, <1>8 DEF Settles

\* What an opened checkout looks like.
LEMMA Opened ==
  ASSUME TypeOK, NEW c \in Actors, NEW o \in Orders, OpenCheckout(c, o)
  PROVE  /\ orders[o].status = "none" /\ orders'[o].status = "pending"
         /\ orders'[o].fulfillment = "pending"
         /\ orders'[o].owner = call[c].owner /\ orders'[o].key = call[c].key
         /\ orders'[o].post = call[c].post
         /\ call[c].pc = "write" /\ call[c].op = "checkout"
         /\ requests' = requests \cup {ReceiptOf(c, o)}
         /\ \A x \in Orders \ {o} :
              /\ orders'[x].post = orders[x].post
              /\ x \in PendingOn(call[c].post) => orders'[x].status = "expired"
              /\ x \notin PendingOn(call[c].post) => orders'[x] = orders[x]
<1> DEFINE p == call[c].post
           stale == {x \in PendingOn(p) : orders[x].expiresAt <= call[c].start}
           opened == [NoOrder EXCEPT !.owner = call[c].owner, !.post = p,
                                     !.hours = call[c].hours, !.key = call[c].key,
                                     !.createdAt = clock, !.expiresAt = clock + Timeout,
                                     !.status = "pending"]
<1>1. /\ orders[o].status = "none" /\ call[c].pc = "write" /\ call[c].op = "checkout"
      /\ requests' = requests \cup {ReceiptOf(c, o)} /\ stale = PendingOn(p)
  BY DEF OpenCheckout
<1>2. orders' = [x \in Orders |->
                   IF x \in stale THEN [orders[x] EXCEPT !.status = "expired"]
                   ELSE IF x = o THEN opened ELSE orders[x]]
  BY DEF OpenCheckout
<1>3. o \notin PendingOn(p)
  BY <1>1 DEF PendingOn
<1>4. orders'[o] = opened
  BY <1>1, <1>2, <1>3
<1>5. /\ opened.status = "pending" /\ opened.fulfillment = "pending"
      /\ opened.owner = call[c].owner /\ opened.key = call[c].key /\ opened.post = p
  BY DEF NoOrder
<1>6. ASSUME NEW x \in Orders \ {o}
      PROVE  /\ orders'[x].post = orders[x].post
             /\ x \in PendingOn(p) => orders'[x].status = "expired"
             /\ x \notin PendingOn(p) => orders'[x] = orders[x]
  <2>1. x \in PendingOn(p) => orders'[x] = [orders[x] EXCEPT !.status = "expired"]
    BY <1>1, <1>2
  <2>2. x \notin PendingOn(p) => orders'[x] = orders[x]
    BY <1>1, <1>2, <1>6
  <2>3. orders[x] \in Order
    BY DEF TypeOK, PayTypeOK
  <2> QED BY <2>1, <2>2, <2>3 DEF Order
<1> HIDE DEF opened, stale
<1> QED BY <1>1, <1>4, <1>5, <1>6

\* An order once opened stays opened, for the same owner, key and post.
LEMMA OrderKept ==
  ASSUME TypeOK, CallsOK, NEW o \in Orders, OrderEffect(o), orders[o].status # "none"
  PROVE  /\ orders'[o].status # "none" /\ orders'[o].owner = orders[o].owner
         /\ orders'[o].post = orders[o].post /\ orders'[o].key = orders[o].key
<1>0. orders[o] \in Order
  BY DEF TypeOK, PayTypeOK
<1>1. ASSUME NEW status, NEW fulfillment, status # "none",
             orders'[o] = [orders[o] EXCEPT !.status = status,
                                            !.fulfillment = fulfillment]
      PROVE  /\ orders'[o].status # "none" /\ orders'[o].owner = orders[o].owner
             /\ orders'[o].post = orders[o].post /\ orders'[o].key = orders[o].key
  BY <1>0, <1>1 DEF Order
<1>2. ASSUME NEW c \in Actors, Settles(c, o)
      PROVE  /\ orders'[o].status # "none" /\ orders'[o].owner = orders[o].owner
             /\ orders'[o].post = orders[o].post /\ orders'[o].key = orders[o].key
  <2>1. PICK status, fulfillment : Outcome(c, o, status, fulfillment)
    BY <1>2, SettlesOnce
  <2>2. status # "none"
    BY <2>1 DEF Outcome
  <2> QED BY <1>1, <2>1, <2>2 DEF Outcome
<1>3. \A c \in Actors : ~OpenCheckout(c, o)
  BY DEF OpenCheckout
<1> QED BY <1>0, <1>2, <1>3 DEF OrderEffect, Order

-----------------------------------------------------------------------------
(* Outcomes *)

\* The gateway takes nothing back, and speaks of opened orders only.
LEMMA GatewayGrows ==
  ASSUME TypeOK, [Next]_vars, NEW o \in Orders
  PROVE  /\ gateway[o] \subseteq gateway'[o]
         /\ gateway'[o] # gateway[o] => orders[o].status # "none" /\ orders' = orders
<1>0. gateway \in [Orders -> SUBSET Words]
  BY DEF TypeOK, PayTypeOK
<1>1. ASSUME NEW x \in Orders, NEW word \in Words, Decide(x, word)
      PROVE  /\ gateway[o] \subseteq gateway'[o]
             /\ gateway'[o] # gateway[o] => orders[o].status # "none" /\ orders' = orders
  BY <1>0, <1>1 DEF Decide, payRows
<1>2. CASE UNCHANGED gateway
  BY <1>2
<1>3. ASSUME NEW c \in Actors, CallStep(c) PROVE UNCHANGED gateway
  BY <1>3 DEF CallStep, LockOwner, LockTarget, Reuse, Join, OpenCheckout, Settle,
              SettleNothing, GrantBoost, HoldForReview, RecordRefusal, FlagSuspect,
              Abandon
<1>4. ASSUME NEW w \in Servers, Reconcile(w) PROVE UNCHANGED gateway
  BY <1>4 DEF Reconcile, BeginReconcile, ReviewOld, QueryLost, QueryAnswered, StopServer
<1>5. CASE PayNext
  BY <1>1, <1>2, <1>3, <1>4, <1>5
     DEF PayNext, BeginCheckout, BeginIpn, AddBoost, CancelBoost
<1> QED BY <1>2, <1>5 DEF Next, vars, payVars

\* An outcome is recorded only on the gateway's word.
LEMMA OutcomeNext ==
  ASSUME TypeOK, CallsOK, OutcomeFromGateway, [Next]_vars
  PROVE  OutcomeFromGateway'
<1> SUFFICES ASSUME NEW o \in Orders
             PROVE  /\ orders'[o].status = "paid" => "success" \in gateway'[o]
                    /\ orders'[o].status \in {"cancelled", "failed"} =>
                         "refused" \in gateway'[o]
  BY DEF OutcomeFromGateway
<1>0. orders[o] \in Order
  BY DEF TypeOK, PayTypeOK
<1>1. CASE orders'[o].status = orders[o].status
  BY <1>1, GatewayGrows DEF OutcomeFromGateway
<1>2. CASE orders'[o].status \in {"pending", "expired"}
  BY <1>2
<1>3. ASSUME NEW c \in Actors, OpenCheckout(c, o) PROVE orders'[o].status = "pending"
  BY <1>3, Opened
<1>4. ASSUME NEW c \in Actors, Settles(c, o)
      PROVE  /\ orders'[o].status = "paid" => "success" \in gateway'[o]
             /\ orders'[o].status \in {"cancelled", "failed"} =>
                  "refused" \in gateway'[o]
  <2>1. PICK status, fulfillment : Outcome(c, o, status, fulfillment)
    BY <1>4, SettlesOnce
  <2>2. orders'[o].status = status
    BY <1>0, <2>1 DEF Outcome, Order
  <2> QED BY <1>1, <2>1, <2>2, GatewayGrows DEF Outcome, Told
<1>5. OrderEffect(o)
  BY OrdersMove
<1> QED BY <1>0, <1>1, <1>2, <1>3, <1>4, <1>5 DEF OrderEffect, Order

-----------------------------------------------------------------------------
(* Orders, receipts and answers *)

\* A checkout that ends with a receipt for order o.
Records(d, o) ==
  /\ call[d].pc = "write" /\ call[d].op = "checkout" /\ call'[d] = NoCall
  /\ requests' = requests \cup {ReceiptOf(d, o)}
  /\ Answer(d, o)

\* A receipt is only ever added, by a checkout that is at its write, with its
\* answer; a key used before is answered from what is recorded.
LEMMA ReceiptsMove ==
  ASSUME TypeOK, SharedOK, [Next]_vars
  PROVE  \/ UNCHANGED <<requests, answers>>
         \/ \E d \in Actors, o \in Orders : Records(d, o)
         \/ /\ UNCHANGED <<requests, orders>>
            /\ \E d \in Actors : \E r \in Receipts(call[d].owner, call[d].key) :
                 call[d].pc # "idle" /\ call[d].op = "checkout" /\ Answer(d, r.order)
<1>1. ASSUME NEW d \in Actors, Join(d) PROVE \E o \in Orders : Records(d, o)
  <2>1. PICK o \in Open(call[d].post) :
          requests' = requests \cup {ReceiptOf(d, o)} /\ Answer(d, o)
    BY <1>1 DEF Join
  <2>2. o \in Orders
    BY <2>1 DEF Open, PendingOn
  <2> QED BY <1>1, <2>1, <2>2, EndCallEffect DEF Join, Records
<1>2. ASSUME NEW d \in Actors, NEW o \in Orders, OpenCheckout(d, o) PROVE Records(d, o)
  BY <1>2, EndCallEffect DEF OpenCheckout, Records
<1>3. ASSUME NEW d \in Actors, Reuse(d)
      PROVE  /\ UNCHANGED <<requests, orders>>
             /\ \E r \in Receipts(call[d].owner, call[d].key) :
                  call[d].pc # "idle" /\ call[d].op = "checkout" /\ Answer(d, r.order)
  BY <1>3 DEF Reuse, payRows
<1>4. ASSUME NEW d \in Actors, CallStep(d), ~Join(d), ~Reuse(d),
             \A o \in Orders : ~OpenCheckout(d, o)
      PROVE  UNCHANGED <<requests, answers>>
  BY <1>4 DEF CallStep, LockOwner, LockTarget, Settle, SettleNothing, GrantBoost,
              HoldForReview, RecordRefusal, FlagSuspect, Abandon, payRows
<1>5. ASSUME NEW w \in Servers, Reconcile(w) PROVE UNCHANGED <<requests, answers>>
  BY <1>5 DEF Reconcile, BeginReconcile, ReviewOld, QueryLost, QueryAnswered,
              StopServer, payRows
<1>6. CASE PayNext
  BY <1>1, <1>2, <1>3, <1>4, <1>5, <1>6
     DEF PayNext, BeginCheckout, BeginIpn, AddBoost, CancelBoost, Decide, payRows
<1> QED BY <1>6 DEF Next, vars, payVars, payRows

\* An order once opened is for a post that exists, with a receipt for its key;
\* no batch of the job holds another.
LEMMA OrdersNext ==
  ASSUME TypeOK, SharedOK, RequestsHold, OrdersOK, CallsOK, [Next]_vars
  PROVE  OrdersOK'
<1>0. /\ orders \in [Orders -> Order] /\ todo \in [Servers -> Seq(Orders)]
      /\ None \notin Sellers
  BY NoneAssumption DEF TypeOK, PayTypeOK
<1>r. requests \subseteq requests'
  BY ReceiptsMove DEF Records
<1>1. ASSUME NEW o \in Orders
      PROVE  /\ orders'[o].status # "none" =>
                  /\ orders'[o].owner \in Sellers
                  /\ orders'[o].post \in Posts /\ posts'[orders'[o].post].status # "none"
             /\ orders'[o].owner # None =>
                  \E r \in requests' : /\ r.owner = orders'[o].owner
                                       /\ r.key = orders'[o].key /\ r.order = o
             /\ gateway'[o] # {} => orders'[o].status # "none"
  <2>0. OrderEffect(o)
    BY OrdersMove
  <2>1. CASE orders[o].status # "none"
    <3>1. /\ orders'[o].status # "none" /\ orders'[o].owner = orders[o].owner
          /\ orders'[o].post = orders[o].post /\ orders'[o].key = orders[o].key
      BY <2>0, <2>1, OrderKept
    <3>2. /\ orders[o].owner \in Sellers /\ orders[o].post \in Posts
          /\ posts'[orders[o].post].status # "none"
      BY <2>1, PostsNext DEF OrdersOK, Exists
    <3>3. \E r \in requests : r.owner = orders[o].owner /\ r.key = orders[o].key
                              /\ r.order = o
      BY <1>0, <3>2 DEF OrdersOK
    <3> QED BY <1>r, <3>1, <3>2, <3>3
  <2>2. CASE orders[o].status = "none" /\ orders'[o] = orders[o]
    <3>1. gateway'[o] = {}
      BY <2>2, GatewayGrows DEF OrdersOK
    <3>2. orders'[o].owner # None =>
            \E r \in requests : r.owner = orders[o].owner /\ r.key = orders[o].key
                                /\ r.order = o
      BY <2>2 DEF OrdersOK
    <3> QED BY <1>r, <2>2, <3>1, <3>2
  <2>3. ASSUME NEW c \in Actors, OpenCheckout(c, o)
        PROVE  /\ orders'[o].status # "none"
               /\ orders'[o].owner \in Sellers
               /\ orders'[o].post \in Posts /\ posts'[orders'[o].post].status # "none"
               /\ \E r \in requests' : /\ r.owner = orders'[o].owner
                                       /\ r.key = orders'[o].key /\ r.order = o
    <3>1. /\ call[c].pc = "write" /\ orders'[o].status = "pending"
          /\ orders'[o].owner = call[c].owner /\ orders'[o].key = call[c].key
          /\ orders'[o].post = call[c].post
          /\ requests' = requests \cup {ReceiptOf(c, o)}
      BY <2>3, Opened
    <3>2. /\ call[c].owner \in Sellers /\ call[c].post \in Posts
          /\ posts'[call[c].post].status # "none"
      BY <3>1, PostsNext DEF CallsOK, Exists
    <3>3. /\ ReceiptOf(c, o).owner = call[c].owner /\ ReceiptOf(c, o).key = call[c].key
          /\ ReceiptOf(c, o).order = o
      BY DEF ReceiptOf
    <3> QED BY <3>1, <3>2, <3>3
  <2>4. ASSUME NEW c \in Actors, Settles(c, o) PROVE orders[o].status # "none"
    BY <2>4, SettlesOnce
  <2> QED BY <2>0, <2>1, <2>2, <2>3, <2>4 DEF OrderEffect
<1>2. ASSUME NEW w \in Servers, NEW i \in DOMAIN todo'[w]
      PROVE  orders'[todo'[w][i]].status # "none"
  <2>1. ASSUME \A o \in Orders : orders[o].status # "none" => orders'[o].status # "none",
               todo'[w] = todo[w]
        PROVE  orders'[todo'[w][i]].status # "none"
    <3>1. i \in DOMAIN todo[w] /\ todo[w][i] \in Orders
      BY <1>0, <2>1
    <3> QED BY <2>1, <3>1 DEF OrdersOK
  <2>2. \A o \in Orders : orders[o].status # "none" => orders'[o].status # "none"
    BY OrdersMove, OrderKept
  <2>3. ASSUME NEW v \in Servers, BeginReconcile(v)
        PROVE  orders'[todo'[w][i]].status # "none"
    <3>1. CASE v # w
      BY <1>0, <2>1, <2>2, <2>3, <3>1 DEF BeginReconcile
    <3>2. CASE v = w
      <4>1. PICK n \in 1 .. Take :
              \E some \in [1 .. n -> {o \in Orders : Unsettled(o)}] :
                todo' = [todo EXCEPT ![w] = some]
        BY <2>3, <3>2 DEF BeginReconcile
      <4>2. PICK some \in [1 .. n -> {o \in Orders : Unsettled(o)}] :
              todo' = [todo EXCEPT ![w] = some]
        BY <4>1
      <4>3. todo'[w][i] \in {o \in Orders : Unsettled(o)}
        BY <1>0, <4>2
      <4> QED BY <2>3, <4>3 DEF BeginReconcile, Unsettled, payRows
    <3> QED BY <3>1, <3>2
  <2>4. ASSUME NEW v \in Servers, NEW o \in Orders, TakeUp(v, o)
        PROVE  orders'[todo'[w][i]].status # "none"
    <3>1. CASE v # w
      BY <1>0, <2>1, <2>2, <2>4, <3>1 DEF TakeUp
    <3>2. CASE v = w
      <4>1. todo'[w] = Tail(todo[w]) /\ todo[w] \in Seq(Orders) /\ todo[w] # <<>>
        BY <1>0, <2>4, <3>2 DEF TakeUp
      <4>2. /\ i \in Nat /\ i + 1 \in DOMAIN todo[w]
            /\ Tail(todo[w])[i] = todo[w][i + 1] /\ todo[w][i + 1] \in Orders
        BY <1>2, <4>1
      <4>3. orders[todo[w][i + 1]].status # "none"
        BY <4>2 DEF OrdersOK
      <4> QED BY <2>2, <4>1, <4>2, <4>3
    <3> QED BY <3>1, <3>2
  <2>5. ASSUME NEW v \in Servers, StopServer(v)
        PROVE  orders'[todo'[w][i]].status # "none"
    <3>1. todo'[w] = todo[w] \/ todo'[w] = <<>>
      BY <1>0, <2>5 DEF StopServer
    <3>2. todo'[w] # <<>>
      BY <1>2
    <3> QED BY <2>1, <2>2, <3>1, <3>2
  <2>6. CASE UNCHANGED todo
    BY <2>1, <2>2, <2>6
  <2>7. ASSUME NEW v \in Servers, Reconcile(v)
        PROVE  orders'[todo'[w][i]].status # "none"
    BY <2>3, <2>4, <2>5, <2>7
       DEF Reconcile, ReviewOld, QueryLost, QueryAnswered
  <2>8. ASSUME NEW c \in Actors, CallStep(c) PROVE UNCHANGED todo
    BY <2>8 DEF CallStep, LockOwner, LockTarget, Reuse, Join, OpenCheckout, Settle,
                SettleNothing, GrantBoost, HoldForReview, RecordRefusal, FlagSuspect,
                Abandon
  <2>9. CASE PayNext
    BY <2>6, <2>7, <2>8, <2>9
       DEF PayNext, BeginCheckout, BeginIpn, AddBoost, CancelBoost, Decide
  <2> QED BY <2>6, <2>9 DEF Next, vars, payVars
<1> QED BY <1>1, <1>2 DEF OrdersOK, Exists

-----------------------------------------------------------------------------
(* What a transaction knows *)

\* Arrivals, spelled out.
LEMMA Arrivals ==
  /\ NoCall.pc = "idle"
  /\ \A owner, p, hours, k :
       LET x == CheckoutFor(owner, p, hours, k)
       IN  /\ x.pc = "owner" /\ x.op = "checkout" /\ x.owner = owner
           /\ x.post = p /\ x.key = k
  /\ \A o, event :
       LET x == IpnFor(o, event)
       IN  /\ x.pc = "owner" /\ x.op = "ipn" /\ x.owner = orders[o].owner
           /\ x.post = orders[o].post /\ x.order = o /\ x.event = event
BY DEF NoCall, CheckoutFor, IpnFor

\* A transaction that arrives has its owner to lock first.
LEMMA ArrivesFirst ==
  ASSUME NEW c \in Actors, StartsCheckout(c) \/ StartsIpn(c)
  PROVE  call'[c].pc = "owner"
<1>1. CASE StartsCheckout(c)
  <2>1. PICK owner \in Sellers, p \in Posts, hours \in Packages, k \in Keys :
          call'[c] = CheckoutFor(owner, p, hours, k)
    BY <1>1 DEF StartsCheckout
  <2> QED BY <2>1, Arrivals
<1>2. CASE StartsIpn(c)
  <2>1. PICK o \in Orders, event \in Event : call'[c] = IpnFor(o, event)
    BY <1>2 DEF StartsIpn
  <2> QED BY <2>1, Arrivals
<1> QED BY <1>1, <1>2

\* Taking a lock, a transaction keeps what it is about.
LEMMA LockingFrame ==
  ASSUME TypeOK, NEW c \in Actors, LockOwner(c) \/ LockTarget(c)
  PROVE  /\ call[c].pc # "idle" /\ call[c].pc # "write"
         /\ call'[c].owner = call[c].owner /\ call'[c].post = call[c].post
         /\ call'[c].op = call[c].op /\ call'[c].key = call[c].key
         /\ call'[c].order = call[c].order /\ call'[c].event = call[c].event
         /\ UNCHANGED <<account, posts, orders, requests, gateway>>
         /\ LockOwner(c) => call'[c].pc = "post"
         /\ LockTarget(c) => call'[c].pc = "write" /\ call'[c].row = posts[call[c].post]
<1>0. call \in [Actors -> Call] /\ call[c] \in Call
  BY DEF TypeOK, PayTypeOK
<1>1. CASE LockOwner(c)
  <2>1. /\ call'[c] = [call[c] EXCEPT !.pc = "post"] /\ call[c].pc = "owner"
        /\ UNCHANGED <<account, posts, orders, requests, gateway>>
    BY <1>0, <1>1 DEF LockOwner, payRows
  <2>2. ~LockTarget(c)
    BY <2>1 DEF LockTarget
  <2> QED BY <1>0, <2>1, <2>2 DEF Call
<1>2. CASE LockTarget(c)
  <2>1. /\ call'[c] = [call[c] EXCEPT !.pc = "write", !.row = posts[call[c].post]]
        /\ call[c].pc = "post"
        /\ UNCHANGED <<account, posts, orders, requests, gateway>>
    BY <1>0, <1>2 DEF LockTarget, payRows
  <2>2. ~LockOwner(c)
    BY <2>1 DEF LockOwner
  <2> QED BY <1>0, <2>1, <2>2 DEF Call
<1> QED BY <1>1, <1>2

\* What CallsOK says of a transaction stays true while it does not move on.
LEMMA StillKnown ==
  ASSUME TypeOK, SharedOK, RequestsHold, OrdersOK, CallsOK, [Next]_vars,
         NEW c \in Actors, call[c].pc # "idle"
  PROVE  /\ call[c].owner \in Sellers
         /\ call[c].post \in Posts /\ posts'[call[c].post].status # "none"
         /\ call[c].op = "checkout" => call[c].key \in Keys
         /\ call[c].op = "ipn" =>
              /\ call[c].order \in Orders
              /\ orders'[call[c].order].status # "none"
              /\ orders'[call[c].order].owner = call[c].owner
              /\ orders'[call[c].order].post = call[c].post
              /\ call[c].event = "success" => "success" \in gateway'[call[c].order]
              /\ call[c].event \in {"cancelled", "failed"} =>
                   "refused" \in gateway'[call[c].order]
<1>1. /\ call[c].owner \in Sellers /\ call[c].post \in Posts
      /\ posts'[call[c].post].status # "none"
      /\ call[c].op = "checkout" => call[c].key \in Keys
  BY PostsNext DEF CallsOK, Exists
<1>2. ASSUME call[c].op = "ipn"
      PROVE  /\ call[c].order \in Orders
             /\ orders'[call[c].order].status # "none"
             /\ orders'[call[c].order].owner = call[c].owner
             /\ orders'[call[c].order].post = call[c].post
             /\ call[c].event = "success" => "success" \in gateway'[call[c].order]
             /\ call[c].event \in {"cancelled", "failed"} =>
                  "refused" \in gateway'[call[c].order]
  <2>1. PICK o \in Orders : o = call[c].order
    BY <1>2 DEF CallsOK
  <2>2. /\ orders[o].status # "none" /\ orders[o].owner = call[c].owner
        /\ orders[o].post = call[c].post /\ Told(call[c].event, o)
    BY <1>2, <2>1 DEF CallsOK
  <2>3. /\ orders'[o].status # "none" /\ orders'[o].owner = orders[o].owner
        /\ orders'[o].post = orders[o].post
    BY <2>2, OrdersMove, OrderKept
  <2>4. gateway[o] \subseteq gateway'[o]
    BY GatewayGrows
  <2> QED BY <2>1, <2>2, <2>3, <2>4 DEF Told
<1> QED BY <1>1, <1>2

\* A transaction under way keeps knowing its owner, post and order.
LEMMA CallsNext ==
  ASSUME TypeOK, SharedOK, RequestsHold, OrdersOK, CallsOK, [Next]_vars
  PROVE  CallsOK'
<1> SUFFICES ASSUME NEW c \in Actors, call'[c].pc # "idle"
             PROVE  /\ call'[c].owner \in Sellers
                    /\ call'[c].post \in Posts /\ posts'[call'[c].post].status # "none"
                    /\ call'[c].op = "checkout" => call'[c].key \in Keys
                    /\ call'[c].op = "ipn" =>
                         /\ call'[c].order \in Orders
                         /\ orders'[call'[c].order].status # "none"
                         /\ orders'[call'[c].order].owner = call'[c].owner
                         /\ orders'[call'[c].order].post = call'[c].post
                         /\ call'[c].event = "success" =>
                              "success" \in gateway'[call'[c].order]
                         /\ call'[c].event \in {"cancelled", "failed"} =>
                              "refused" \in gateway'[call'[c].order]
  BY DEF CallsOK, Exists, Told
<1>1. CASE Stays(c)
  <2>1. call'[c] = call[c] /\ call[c].pc # "idle"
    BY <1>1 DEF Stays
  <2> QED BY <2>1, StillKnown
<1>2. CASE LockOwner(c) \/ LockTarget(c)
  <2>1. /\ call[c].pc # "idle"
        /\ call'[c].owner = call[c].owner /\ call'[c].post = call[c].post
        /\ call'[c].op = call[c].op /\ call'[c].key = call[c].key
        /\ call'[c].order = call[c].order /\ call'[c].event = call[c].event
    BY <1>2, LockingFrame
  <2> QED BY <2>1, StillKnown
<1>3. CASE StartsCheckout(c)
  <2>1. PICK owner \in Sellers, p \in Posts, hours \in Packages, k \in Keys :
          /\ Exists(p)
          /\ call'[c] = CheckoutFor(owner, p, hours, k)
    BY <1>3 DEF StartsCheckout
  <2>2. /\ call'[c].op = "checkout" /\ call'[c].owner = owner
        /\ call'[c].post = p /\ call'[c].key = k
    BY <2>1, Arrivals
  <2>3. posts'[p].status # "none"
    BY <2>1, PostsNext DEF Exists
  <2> QED BY <2>2, <2>3
<1>4. CASE StartsIpn(c)
  <2>1. PICK o \in Orders, event \in Event :
          /\ orders[o].status # "none" /\ Told(event, o)
          /\ call'[c] = IpnFor(o, event) /\ UNCHANGED <<orders, gateway>>
    BY <1>4 DEF StartsIpn
  <2>2. /\ call'[c].op = "ipn" /\ call'[c].owner = orders[o].owner
        /\ call'[c].post = orders[o].post /\ call'[c].order = o
        /\ call'[c].event = event
    BY <2>1, Arrivals
  <2>3. /\ orders[o].owner \in Sellers /\ orders[o].post \in Posts
        /\ posts'[orders[o].post].status # "none"
    BY <2>1, PostsNext DEF OrdersOK, Exists
  <2> QED BY <2>1, <2>2, <2>3 DEF Told
<1>5. call'[c] # NoCall
  BY Arrivals
<1> QED BY <1>1, <1>2, <1>3, <1>4, <1>5, CallsMove DEF CallEffect

\* A checkout keeps its owner's lock, or has found the account deleted.
LEMMA OwnerHeldNext ==
  ASSUME TypeOK, SharedOK, RequestsHold, OrdersOK, CallsOK, OwnerHeld, [Next]_vars
  PROVE  OwnerHeld'
<1> SUFFICES ASSUME NEW c \in Actors, call'[c].op = "checkout",
                    call'[c].pc \in {"post", "write"}
             PROVE  \/ sellerLock'[call'[c].owner] = c
                    \/ call'[c].pc = "post" /\ account'[call'[c].owner] = "deleted"
  BY DEF OwnerHeld
<1>0. sellerLock \in [Sellers -> Txns \cup Actors \cup {None}]
  BY DEF SharedOK
<1>1. CASE Stays(c)
  <2>1. call'[c] = call[c] /\ call[c].owner \in Sellers
    BY <1>1 DEF Stays, CallsOK
  <2> QED BY <1>1, <2>1, PostsNext DEF Stays, OwnerHeld
<1>2. CASE LockOwner(c)
  <2>1. /\ call'[c].owner = call[c].owner /\ call[c].owner \in Sellers
        /\ call'[c].op = call[c].op /\ call'[c].pc = "post" /\ account' = account
    BY <1>2, LockingFrame DEF CallsOK
  <2>2. account[call[c].owner] # "deleted" =>
          sellerLock' = [sellerLock EXCEPT ![call[c].owner] = c]
    BY <1>2 DEF LockOwner
  <2> QED BY <1>0, <2>1, <2>2
<1>3. CASE LockTarget(c)
  <2>1. /\ call'[c].owner = call[c].owner /\ call'[c].op = call[c].op
        /\ call'[c].pc = "write"
    BY <1>3, LockingFrame
  <2>2. call[c].pc = "post" /\ account[call[c].owner] = "open" /\ sellerLock' = sellerLock
    BY <1>3, <2>1 DEF LockTarget, Eligible
  <2> QED BY <2>1, <2>2 DEF OwnerHeld
<1>4. CASE StartsCheckout(c) \/ StartsIpn(c)
  BY <1>4, ArrivesFirst
<1>5. call'[c] # NoCall
  BY Arrivals
<1> QED BY <1>1, <1>2, <1>3, <1>4, <1>5, CallsMove DEF CallEffect

\* Between locking the post and writing, nobody writes its row.
LEMMA TargetHeldNext ==
  ASSUME TypeOK, SharedOK, RequestsHold, OrdersOK, CallsOK, TargetHeld, [Next]_vars
  PROVE  TargetHeld'
<1> SUFFICES ASSUME NEW c \in Actors, call'[c].pc = "write"
             PROVE  /\ postLock'[call'[c].post] = c
                    /\ call'[c].row = posts'[call'[c].post]
  BY DEF TargetHeld
<1>0. postLock \in [Posts -> Txns \cup Actors \cup {None}]
  BY DEF SharedOK
<1>1. CASE Stays(c)
  <2>1. /\ call'[c] = call[c] /\ call[c].post \in Posts /\ Exists(call[c].post)
        /\ postLock[call[c].post] = c /\ call[c].row = posts[call[c].post]
    BY <1>1 DEF Stays, CallsOK, TargetHeld
  <2>2. posts'[call[c].post] = posts[call[c].post]
    BY <2>1, PostsNext
  <2> QED BY <1>1, <2>1, <2>2 DEF Stays
<1>2. CASE LockOwner(c)
  BY <1>2, LockingFrame
<1>3. CASE LockTarget(c)
  <2>1. /\ call'[c].post = call[c].post /\ call[c].post \in Posts /\ posts' = posts
        /\ call'[c].row = posts[call[c].post]
    BY <1>3, LockingFrame DEF CallsOK
  <2>2. postLock' = [postLock EXCEPT ![call[c].post] = c]
    BY <1>3 DEF LockTarget
  <2> QED BY <1>0, <2>1, <2>2
<1>4. CASE StartsCheckout(c) \/ StartsIpn(c)
  BY <1>4, ArrivesFirst
<1>5. call'[c] # NoCall
  BY Arrivals
<1> QED BY <1>1, <1>2, <1>3, <1>4, <1>5, CallsMove DEF CallEffect

-----------------------------------------------------------------------------
(* Keys *)

\* What there is to know of a key, and of an order that was opened with it.
LEMMA ReceiptsFacts ==
  ASSUME NEW owner, NEW key
  PROVE  /\ \A r \in requests : r.owner = owner /\ r.key = key =>
              Receipts(owner, key) # {}
         /\ \A o \in Orders : orders[o].owner = owner /\ orders[o].key = key =>
              Receipts(owner, key) # {}
         /\ \A r \in Receipts(owner, key) :
              \/ \E q \in requests : q.owner = owner /\ q.key = key /\ q.order = r.order
              \/ /\ r.order \in Orders
                 /\ orders[r.order].owner = owner /\ orders[r.order].key = key
<1>1. ASSUME NEW r \in requests, r.owner = owner, r.key = key
      PROVE  Receipts(owner, key) # {}
  <2>1. [post |-> r.post, hours |-> r.hours, order |-> r.order] \in Receipts(owner, key)
    BY <1>1 DEF Receipts
  <2> QED BY <2>1
<1>2. ASSUME NEW o \in Orders, orders[o].owner = owner, orders[o].key = key
      PROVE  Receipts(owner, key) # {}
  <2>1. [post |-> orders[o].post, hours |-> orders[o].hours, order |-> o]
          \in Receipts(owner, key)
    BY <1>2 DEF Receipts
  <2> QED BY <2>1
<1>3. ASSUME NEW r \in Receipts(owner, key)
      PROVE  \/ \E q \in requests : q.owner = owner /\ q.key = key /\ q.order = r.order
             \/ /\ r.order \in Orders
                /\ orders[r.order].owner = owner /\ orders[r.order].key = key
  BY DEF Receipts
<1> QED BY <1>1, <1>2, <1>3

\* Only a checkout with the key itself, at its write, makes a key used.
LEMMA KeyUsed ==
  ASSUME TypeOK, SharedOK, CallsOK, [Next]_vars, NEW owner, NEW key,
         Receipts(owner, key) = {}, Receipts(owner, key)' # {}
  PROVE  \E d \in Actors : /\ call[d].pc = "write" /\ call[d].op = "checkout"
                           /\ call[d].owner = owner /\ call[d].key = key
                           /\ call'[d] = NoCall
<1> DEFINE Goal == \E d \in Actors : /\ call[d].pc = "write" /\ call[d].op = "checkout"
                                     /\ call[d].owner = owner /\ call[d].key = key
                                     /\ call'[d] = NoCall
<1>1. ASSUME NEW r \in requests', r.owner = owner, r.key = key PROVE Goal
  <2>1. r \notin requests
    BY <1>1, ReceiptsFacts
  <2>2. PICK d \in Actors, o \in Orders : Records(d, o)
    BY <2>1, ReceiptsMove
  <2>3. r = ReceiptOf(d, o)
    BY <2>1, <2>2 DEF Records
  <2> QED BY <1>1, <2>2, <2>3 DEF Records, ReceiptOf
<1>2. ASSUME NEW o \in Orders, orders'[o].owner = owner, orders'[o].key = key PROVE Goal
  <2>1. ~(orders[o].owner = owner /\ orders[o].key = key)
    BY ReceiptsFacts
  <2>2. orders[o].status = "none" /\ orders'[o] # orders[o]
    BY <1>2, <2>1, OrdersMove, OrderKept
  <2>3. \A c \in Actors : ~Settles(c, o)
    BY <2>2, SettlesOnce
  <2>4. PICK d \in Actors : OpenCheckout(d, o)
    BY <2>2, <2>3, OrdersMove DEF OrderEffect
  <2>5. /\ call[d].pc = "write" /\ call[d].op = "checkout"
        /\ call[d].owner = owner /\ call[d].key = key
    BY <1>2, <2>4, Opened
  <2>6. call'[d] = NoCall
    BY <2>4, EndCallEffect DEF OpenCheckout
  <2> QED BY <2>5, <2>6
<1> HIDE DEF Goal
<1>3. Goal
  BY <1>1, <1>2 DEF Receipts
<1> QED BY <1>3 DEF Goal

\* No other checkout uses a key while the owner's lock is held.
LEMMA KeyFreshNext ==
  ASSUME TypeOK, SharedOK, OrdersOK, CallsOK, OwnerHeld, KeyFresh, [Next]_vars
  PROVE  KeyFresh'
<1> SUFFICES ASSUME NEW c \in Actors, call'[c].op = "checkout", call'[c].pc = "write"
             PROVE  Receipts(call[c].owner, call[c].key)' = {}
  BY DEF KeyFresh
<1>1. CASE Stays(c)
  <2>1. call'[c] = call[c] /\ Receipts(call[c].owner, call[c].key) = {}
        /\ sellerLock[call[c].owner] = c
    BY <1>1 DEF Stays, KeyFresh, OwnerHeld
  <2>2. PICK own, k : own = call[c].owner /\ k = call[c].key
    OBVIOUS
  <2>3. Receipts(own, k) = {}
    BY <2>1, <2>2
  <2>4. ASSUME Receipts(own, k)' # {} PROVE FALSE
    <3>1. PICK d \in Actors : /\ call[d].pc = "write" /\ call[d].op = "checkout"
                              /\ call[d].owner = own /\ call[d].key = k
                              /\ call'[d] = NoCall
      BY <2>3, <2>4, KeyUsed
    <3>2. d = c
      BY <2>1, <2>2, <3>1 DEF OwnerHeld
    <3> QED BY <3>1, <3>2, Arrivals
  <2> QED BY <2>1, <2>2, <2>4
<1>2. CASE LockOwner(c)
  BY <1>2, LockingFrame
<1>3. CASE LockTarget(c)
  <2>1. /\ call'[c].owner = call[c].owner /\ call'[c].key = call[c].key
        /\ call[c].op = "checkout" /\ UNCHANGED <<orders, requests>>
    BY <1>3, LockingFrame
  <2>2. Receipts(call[c].owner, call[c].key) = {}
    BY <1>3, <2>1 DEF LockTarget
  <2> QED BY <2>1, <2>2 DEF Receipts
<1>4. CASE StartsCheckout(c) \/ StartsIpn(c)
  BY <1>4, ArrivesFirst
<1>5. call'[c] # NoCall
  BY Arrivals
<1> QED BY <1>1, <1>2, <1>3, <1>4, <1>5, CallsMove DEF CallEffect

\* A key keeps its one receipt, and its answers agree with it.
LEMMA KeysNext ==
  ASSUME TypeOK, SharedOK, OrdersOK, CallsOK, KeyFresh, KeysOK, [Next]_vars
  PROVE  KeysOK'
<1>1. ASSUME NEW r \in requests', NEW other \in requests', r.owner = other.owner,
             r.key = other.key
      PROVE  r = other
  <2>1. CASE requests' = requests
    BY <1>1, <2>1 DEF KeysOK
  <2>2. ASSUME NEW d \in Actors, NEW o \in Orders, Records(d, o) PROVE r = other
    <3>1. Receipts(call[d].owner, call[d].key) = {}
      BY <2>2 DEF Records, KeyFresh
    <3>2. /\ requests' = requests \cup {ReceiptOf(d, o)}
          /\ ReceiptOf(d, o).owner = call[d].owner /\ ReceiptOf(d, o).key = call[d].key
      BY <2>2 DEF Records, ReceiptOf
    <3>3. \A q \in requests : ~(q.owner = call[d].owner /\ q.key = call[d].key)
      BY <3>1, ReceiptsFacts
    <3> QED BY <1>1, <3>2, <3>3 DEF KeysOK
  <2> QED BY <2>1, <2>2, ReceiptsMove
<1>2. ASSUME NEW a \in answers'
      PROVE  \E r \in requests' : r.owner = a.owner /\ r.key = a.key /\ r.order = a.order
  <2>1. CASE a \in answers
    <3>1. requests \subseteq requests'
      BY ReceiptsMove DEF Records
    <3> QED BY <2>1, <3>1 DEF KeysOK
  <2>2. ASSUME NEW d \in Actors, NEW o \in Orders, Records(d, o), a \notin answers
        PROVE  \E r \in requests' : r.owner = a.owner /\ r.key = a.key
                                    /\ r.order = a.order
    <3>1. a = [owner |-> call[d].owner, key |-> call[d].key, order |-> o]
      BY <2>2 DEF Records, Answer
    <3>2. ReceiptOf(d, o) \in requests'
      BY <2>2 DEF Records
    <3> QED BY <3>1, <3>2 DEF ReceiptOf
  <2>3. ASSUME NEW d \in Actors, NEW x \in Receipts(call[d].owner, call[d].key),
               call[d].pc # "idle", call[d].op = "checkout", Answer(d, x.order),
               requests' = requests, a \notin answers
        PROVE  \E r \in requests' : r.owner = a.owner /\ r.key = a.key
                                    /\ r.order = a.order
    <3>1. a = [owner |-> call[d].owner, key |-> call[d].key, order |-> x.order]
      BY <2>3 DEF Answer
    <3>2. call[d].owner # None
      BY <2>3, NoneAssumption DEF CallsOK
    <3>3. CASE \E q \in requests : /\ q.owner = call[d].owner /\ q.key = call[d].key
                                   /\ q.order = x.order
      BY <2>3, <3>1, <3>3
    <3>4. CASE /\ x.order \in Orders /\ orders[x.order].owner = call[d].owner
               /\ orders[x.order].key = call[d].key
      <4>1. \E r \in requests : /\ r.owner = orders[x.order].owner
                                /\ r.key = orders[x.order].key /\ r.order = x.order
        BY <3>2, <3>4 DEF OrdersOK
      <4> QED BY <2>3, <3>1, <3>4, <4>1
    <3> QED BY <2>3, <3>3, <3>4, ReceiptsFacts
  <2> QED BY <2>1, <2>2, <2>3, ReceiptsMove
<1>3. ASSUME NEW p \in Posts, NEW o \in Orders, NEW other \in Orders,
             orders'[o].post = p, orders'[o].status = "pending",
             orders'[other].post = p, orders'[other].status = "pending"
      PROVE  o = other
  <2>1. ASSUME NEW c \in Actors, NEW x \in Orders, OpenCheckout(c, x), o # other
        PROVE  FALSE
    <3>1. /\ orders'[x].post = call[c].post
          /\ \A y \in Orders \ {x} :
               /\ orders'[y].post = orders[y].post
               /\ y \in PendingOn(call[c].post) => orders'[y].status = "expired"
               /\ y \notin PendingOn(call[c].post) => orders'[y] = orders[y]
      BY <2>1, Opened
    <3>2. CASE o = x \/ other = x
      <4>1. PICK y \in Orders \ {x} : orders'[y].post = call[c].post
                                      /\ orders'[y].status = "pending"
        BY <1>3, <2>1, <3>1, <3>2
      <4>2. y \notin PendingOn(call[c].post) /\ orders'[y] = orders[y]
        BY <3>1, <4>1
      <4> QED BY <4>1, <4>2 DEF PendingOn
    <3>3. CASE o # x /\ other # x
      <4>1. orders'[o] = orders[o] /\ orders'[other] = orders[other]
        BY <1>3, <3>1, <3>3
      <4> QED BY <1>3, <2>1, <4>1 DEF KeysOK, PendingOn
    <3> QED BY <3>2, <3>3
  <2>2. ASSUME NEW x \in Orders, orders'[x].status = "pending",
               \A c \in Actors : ~OpenCheckout(c, x)
        PROVE  orders[x].status = "pending" /\ orders'[x].post = orders[x].post
    <3>0. orders[x] \in Order
      BY DEF TypeOK, PayTypeOK
    <3>1. CASE orders[x].status = "none"
      <4>1. \A c \in Actors : ~Settles(c, x)
        BY <3>1, SettlesOnce
      <4>2. orders'[x] = orders[x]
        BY <2>2, <3>1, <4>1, OrdersMove DEF OrderEffect
      <4> QED BY <2>2, <3>1, <4>2
    <3>2. CASE orders[x].status # "none"
      <4>1. orders'[x].post = orders[x].post
        BY <3>2, OrdersMove, OrderKept
      <4>2. ASSUME NEW c \in Actors, Settles(c, x) PROVE orders[x].status = "pending"
        <5>1. PICK status, fulfillment : Outcome(c, x, status, fulfillment)
          BY <4>2, SettlesOnce
        <5>2. orders'[x].status = status
          BY <3>0, <5>1 DEF Outcome, Order
        <5> QED BY <2>2, <5>1, <5>2 DEF Outcome
      <4>3. orders[x].status = "pending"
        BY <2>2, <3>0, <4>2, OrdersMove DEF OrderEffect, Order
      <4> QED BY <4>1, <4>3
    <3> QED BY <3>1, <3>2
  <2> QED BY <1>3, <2>1, <2>2 DEF KeysOK, PendingOn
<1> QED BY <1>1, <1>2, <1>3 DEF KeysOK, PendingOn

-----------------------------------------------------------------------------
(* Boosts *)

\* How the table of boosts may change in a step.
LEMMA PromotionsMove ==
  ASSUME [Next]_vars
  PROVE  \/ promotions' = promotions
         \/ \E c \in Actors : GrantBoost(c)
         \/ \E p \in Posts, b \in Boosts : AddBoost(p, b)
         \/ \E pr \in promotions : CancelBoost(pr)
<1>1. ASSUME NEW c \in Actors, CallStep(c), ~GrantBoost(c)
      PROVE  promotions' = promotions
  BY <1>1 DEF CallStep, LockOwner, LockTarget, Reuse, Join, OpenCheckout, Settle,
              SettleNothing, HoldForReview, RecordRefusal, FlagSuspect, Abandon, payRows
<1>2. ASSUME NEW w \in Servers, Reconcile(w) PROVE promotions' = promotions
  BY <1>2 DEF Reconcile, BeginReconcile, ReviewOld, QueryLost, QueryAnswered,
              StopServer, payRows
<1>3. CASE PayNext
  BY <1>1, <1>2, <1>3 DEF PayNext, BeginCheckout, BeginIpn, Decide, payRows
<1> QED BY <1>3 DEF Next, vars, payVars, payRows

\* A boost that starts because its order has been paid.
BoostFor(o) ==
  [post |-> orders[o].post, order |-> o, from |-> clock,
   until |-> clock + orders[o].hours, cancelled |-> FALSE]

\* What granting a boost records, and on which grounds.
LEMMA Granted ==
  ASSUME TypeOK, SharedOK, CallsOK, TargetHeld, NEW c \in Actors, GrantBoost(c)
  PROVE  LET o == call[c].order
         IN  /\ o \in Orders /\ orders[o].status # "paid"
             /\ orders'[o].status = "paid" /\ orders'[o].fulfillment = "active"
             /\ \A x \in Orders \ {o} : orders'[x] = orders[x]
             /\ BoostFor(o) \in Promotion
             /\ promotions' = promotions \cup {BoostFor(o)}
             /\ orders[o].post \in Posts
             /\ Eligible(posts[orders[o].post], orders[o].post, orders[o].owner,
                         orders[o].hours, clock)
<1> DEFINE o == call[c].order
<1>0. orders \in [Orders -> Order] /\ clock \in Nat
  BY DEF TypeOK, PayTypeOK, SharedOK
<1>1. call[c].pc = "write" /\ call[c].op = "ipn"
  BY DEF GrantBoost, Settling
<1>2. /\ o \in Orders /\ orders[o].post = call[c].post /\ orders[o].post \in Posts
      /\ orders[o].owner = call[c].owner /\ call[c].row = posts[orders[o].post]
  BY <1>1 DEF CallsOK, TargetHeld
<1>3. /\ orders[o].status # "paid" /\ StillEligible(c) /\ Record(c, "paid", "active")
      /\ promotions' = promotions \cup {BoostFor(o)}
  BY DEF GrantBoost, BoostFor
<1>4. /\ orders'[o].status = "paid" /\ orders'[o].fulfillment = "active"
      /\ \A x \in Orders \ {o} : orders'[x] = orders[x]
  BY <1>0, <1>2, <1>3 DEF Record, Order
<1>5. BoostFor(o) \in Promotion
  BY <1>0, <1>2 DEF BoostFor, Promotion, Order
<1>6. Eligible(posts[orders[o].post], orders[o].post, orders[o].owner,
               orders[o].hours, clock)
  BY <1>2, <1>3 DEF StillEligible
<1> QED BY <1>2, <1>3, <1>4, <1>5, <1>6

\* A boost an administrator grants.
BoostOf(p, b) ==
  [post |-> p, order |-> None, from |-> b.from, until |-> b.until, cancelled |-> FALSE]

\* What granting a boost without an order does.
LEMMA Added ==
  ASSUME NEW p \in Posts, NEW b \in Boosts, AddBoost(p, b)
  PROVE  /\ BoostOf(p, b) \in Promotion
         /\ promotions' = promotions \cup {BoostOf(p, b)} /\ orders' = orders
         /\ \A pr \in promotions : pr.post = p => ~Overlaps(pr, b.from, b.until)
BY PaymentAssumption DEF AddBoost, BoostOf, Promotion

\* A boost as it is once cancelled.
Ended(pr) == [pr EXCEPT !.cancelled = TRUE]

\* What cancelling a boost does: that of an order puts the order under review.
LEMMA Cancelled ==
  ASSUME TypeOK, Backing, NEW pr \in promotions, CancelBoost(pr)
  PROVE  /\ Ended(pr) \in Promotion /\ Ended(pr).cancelled /\ ~pr.cancelled
         /\ Ended(pr).order = pr.order
         /\ promotions' = (promotions \ {pr}) \cup {Ended(pr)}
         /\ \A x \in Orders \ {pr.order} : orders'[x] = orders[x]
         /\ pr.order # None =>
              /\ pr.order \in Orders /\ orders'[pr.order].status = "paid"
              /\ orders'[pr.order].fulfillment = "requires_review"
<1>0. orders \in [Orders -> Order] /\ pr \in Promotion
  BY DEF TypeOK, PayTypeOK
<1>1. /\ Ended(pr) \in Promotion /\ Ended(pr).cancelled /\ Ended(pr).order = pr.order
      /\ ~pr.cancelled /\ promotions' = (promotions \ {pr}) \cup {Ended(pr)}
  BY <1>0 DEF CancelBoost, Ended, Promotion
<1>2. CASE pr.order = None
  <2>1. orders' = orders
    BY <1>2 DEF CancelBoost
  <2> QED BY <1>1, <1>2, <2>1
<1>3. CASE pr.order # None
  <2>1. pr.order \in Orders /\ orders[pr.order].status = "paid"
    BY <1>0, <1>3 DEF Backing, Promotion
  <2>2. orders' = [orders EXCEPT ![pr.order].fulfillment = "requires_review"]
    BY <1>3, <2>1 DEF CancelBoost
  <2> QED BY <1>0, <1>1, <2>1, <2>2 DEF Order
<1> QED BY <1>2, <1>3

\* An order once paid stays paid.
LEMMA PaidStays ==
  ASSUME TypeOK, CallsOK, [Next]_vars, NEW o \in Orders, orders[o].status = "paid"
  PROVE  orders'[o].status = "paid"
<1>1. orders[o] \in Order
  BY DEF TypeOK, PayTypeOK
<1>2. \A c \in Actors : ~OpenCheckout(c, o) /\ ~Settles(c, o)
  BY SettlesOnce DEF OpenCheckout
<1>3. CASE \/ orders'[o] = orders[o]
           \/ orders'[o] = [orders[o] EXCEPT !.fulfillment = "requires_review"]
  BY <1>1, <1>3 DEF Order
<1> QED BY <1>2, <1>3, OrdersMove DEF OrderEffect

\* An order that is not paid backs nothing, so a boost is the first of its
\* order; cancelling it puts the order under review at the same moment.
LEMMA BackingNext ==
  ASSUME TypeOK, SharedOK, OrdersOK, CallsOK, TargetHeld, Backing, [Next]_vars
  PROVE  Backing'
<1>0. /\ promotions \subseteq Promotion /\ None \notin Orders
      /\ \A o \in Orders : orders[o] \in Order
  BY CallerAssumption DEF TypeOK, PayTypeOK
<1>n. \A o \in Orders : orders[o].status # "paid" => \A pr \in promotions : pr.order # o
  BY <1>0 DEF Backing
<1>1. ASSUME NEW pr \in promotions', pr.order # None PROVE orders'[pr.order].status = "paid"
  <2>1. ASSUME NEW x \in promotions, x.order # None PROVE orders'[x.order].status = "paid"
    <3>1. x.order \in Orders /\ orders[x.order].status = "paid"
      BY <1>0, <2>1 DEF Backing, Promotion
    <3> QED BY <3>1, PaidStays
  <2>2. ASSUME NEW c \in Actors, GrantBoost(c) PROVE orders'[pr.order].status = "paid"
    <3>1. /\ promotions' = promotions \cup {BoostFor(call[c].order)}
          /\ orders'[call[c].order].status = "paid"
      BY <2>2, Granted
    <3>2. BoostFor(call[c].order).order = call[c].order
      BY DEF BoostFor
    <3> QED BY <1>1, <2>1, <3>1, <3>2
  <2>3. ASSUME NEW p \in Posts, NEW b \in Boosts, AddBoost(p, b)
        PROVE  orders'[pr.order].status = "paid"
    <3>1. promotions' = promotions \cup {BoostOf(p, b)} /\ BoostOf(p, b).order = None
      BY <2>3, Added DEF BoostOf
    <3> QED BY <1>1, <2>1, <3>1
  <2>4. ASSUME NEW x \in promotions, CancelBoost(x) PROVE orders'[pr.order].status = "paid"
    BY <1>1, <2>1, <2>4, Cancelled
  <2> QED BY <1>1, <2>1, <2>2, <2>3, <2>4, PromotionsMove
<1>2. ASSUME NEW pr \in promotions', NEW other \in promotions',
             pr.order # None, pr.order = other.order
      PROVE  pr = other
  <2>1. ASSUME NEW c \in Actors, GrantBoost(c) PROVE pr = other
    <3>1. /\ promotions' = promotions \cup {BoostFor(call[c].order)}
          /\ \A x \in promotions : x.order # call[c].order
      BY <1>n, <2>1, Granted
    <3>2. BoostFor(call[c].order).order = call[c].order
      BY DEF BoostFor
    <3> QED BY <1>2, <3>1, <3>2 DEF Backing
  <2>2. ASSUME NEW p \in Posts, NEW b \in Boosts, AddBoost(p, b) PROVE pr = other
    <3>1. promotions' = promotions \cup {BoostOf(p, b)} /\ BoostOf(p, b).order = None
      BY <2>2, Added DEF BoostOf
    <3> QED BY <1>2, <3>1 DEF Backing
  <2>3. ASSUME NEW x \in promotions, CancelBoost(x) PROVE pr = other
    BY <1>2, <2>3, Cancelled DEF Backing
  <2> QED BY <1>2, <2>1, <2>2, <2>3, PromotionsMove DEF Backing
<1>3. ASSUME NEW o \in Orders
      PROVE  /\ orders'[o].fulfillment = "active" <=>
                  \E pr \in promotions' : pr.order = o /\ ~pr.cancelled
             /\ orders'[o].status = "paid" =>
                  orders'[o].fulfillment \in {"active", "requires_review"}
  <2> DEFINE Agrees == /\ orders'[o].fulfillment = "active" <=>
                            \E pr \in promotions' : pr.order = o /\ ~pr.cancelled
                       /\ orders'[o].status = "paid" =>
                            orders'[o].fulfillment \in {"active", "requires_review"}
  <2>1. ASSUME orders'[o] = orders[o],
               \A pr \in promotions' : pr.order = o => pr \in promotions,
               \A pr \in promotions : pr.order = o => pr \in promotions'
        PROVE  Agrees
    BY <2>1 DEF Backing
  <2>2. ASSUME promotions' = promotions, orders[o].status # "paid",
               orders'[o].fulfillment # "active",
               orders'[o].status = "paid" => orders'[o].fulfillment = "requires_review"
        PROVE  Agrees
    BY <1>n, <2>2
  <2>3. ASSUME promotions' = promotions PROVE Agrees
    <3>1. CASE orders'[o] = orders[o]
      BY <2>1, <2>3, <3>1
    <3>2. ASSUME NEW c \in Actors, OpenCheckout(c, o) PROVE Agrees
      BY <2>2, <2>3, <3>2, Opened
    <3>3. CASE orders[o].status = "pending"
               /\ orders'[o] = [orders[o] EXCEPT !.status = "expired"]
      <4>1. orders'[o].fulfillment = orders[o].fulfillment /\ orders'[o].status = "expired"
        BY <1>0, <3>3 DEF Order
      <4> QED BY <2>3, <3>3, <4>1 DEF Backing
    <3>4. ASSUME NEW c \in Actors, Settles(c, o) PROVE Agrees
      <4>1. PICK status, fulfillment : Outcome(c, o, status, fulfillment)
        BY <3>4, SettlesOnce
      <4>2. orders'[o].status = status /\ orders'[o].fulfillment = fulfillment
        BY <1>0, <4>1 DEF Outcome, Order
      <4>3. orders[o].status # "paid"
        BY <3>4, SettlesOnce
      <4>4. ~GrantBoost(c)
        <5>1. ASSUME GrantBoost(c) PROVE FALSE
          <6>1. BoostFor(o) \in promotions /\ BoostFor(o).order = o
            BY <2>3, <3>4, <5>1, Granted DEF Settles, BoostFor
          <6> QED BY <1>n, <4>3, <6>1
        <5> QED BY <5>1
      <4> QED BY <2>2, <2>3, <4>1, <4>2, <4>3, <4>4 DEF Outcome
    <3>5. CASE orders[o].status \in {"pending", "expired"}
               /\ orders'[o] = [orders[o] EXCEPT !.fulfillment = "requires_review"]
      <4>1. orders'[o].fulfillment = "requires_review"
        BY <1>0, <3>5 DEF Order
      <4> QED BY <2>2, <2>3, <3>5, <4>1
    <3>6. ASSUME NEW pr \in promotions, CancelBoost(pr) PROVE FALSE
      BY <2>3, <3>6, Cancelled
    <3> HIDE DEF Agrees
    <3>7. OrderEffect(o)
      BY OrdersMove
    <3> QED BY <3>1, <3>2, <3>3, <3>4, <3>5, <3>6, <3>7 DEF OrderEffect
  <2>4. ASSUME NEW c \in Actors, GrantBoost(c) PROVE Agrees
    <3>1. /\ promotions' = promotions \cup {BoostFor(call[c].order)}
          /\ call[c].order = o => orders'[o].status = "paid"
                                  /\ orders'[o].fulfillment = "active"
          /\ call[c].order # o => orders'[o] = orders[o]
      BY <2>4, Granted
    <3>2. BoostFor(call[c].order).order = call[c].order
          /\ ~BoostFor(call[c].order).cancelled
      BY DEF BoostFor
    <3> QED BY <2>1, <3>1, <3>2
  <2>5. ASSUME NEW p \in Posts, NEW b \in Boosts, AddBoost(p, b) PROVE Agrees
    <3>1. /\ promotions' = promotions \cup {BoostOf(p, b)} /\ orders' = orders
          /\ BoostOf(p, b).order # o
      BY <1>0, <2>5, Added DEF BoostOf
    <3> QED BY <2>1, <3>1
  <2>6. ASSUME NEW pr \in promotions, CancelBoost(pr) PROVE Agrees
    <3>1. /\ Ended(pr).cancelled /\ Ended(pr).order = pr.order
          /\ promotions' = (promotions \ {pr}) \cup {Ended(pr)}
          /\ o # pr.order => orders'[o] = orders[o]
          /\ o = pr.order => orders'[o].fulfillment = "requires_review"
      BY <1>0, <2>6, Cancelled
    <3>2. CASE o = pr.order
      <4>1. \A x \in promotions : x.order = o => x = pr
        BY <1>0, <3>2 DEF Backing
      <4> QED BY <3>1, <3>2, <4>1
    <3>3. CASE o # pr.order
      BY <2>1, <3>1, <3>3
    <3> QED BY <3>2, <3>3
  <2> HIDE DEF Agrees
  <2>7. Agrees
    BY <2>3, <2>4, <2>5, <2>6, PromotionsMove
  <2> QED BY <2>7 DEF Agrees
<1> QED BY <1>1, <1>2, <1>3 DEF Backing

\* A boost that overlaps no other may be added.
LEMMA DisjointAdd ==
  ASSUME BoostsDisjoint, promotions \subseteq Promotion, NEW b \in Promotion,
         ~b.cancelled, promotions' = promotions \cup {b},
         \A pr \in promotions : pr.post = b.post => ~Overlaps(pr, b.from, b.until)
  PROVE  BoostsDisjoint'
BY DEF BoostsDisjoint, Overlaps, Promotion

\* Every boost is granted in view of those there are, and a boost that begins
\* with a payment at the moment it is paid for.
LEMMA DisjointNext ==
  ASSUME TypeOK, SharedOK, CallsOK, TargetHeld, Backing, BoostsDisjoint, [Next]_vars
  PROVE  BoostsDisjoint'
<1>0. promotions \subseteq Promotion
  BY DEF TypeOK, PayTypeOK
<1>1. ASSUME NEW c \in Actors, GrantBoost(c) PROVE BoostsDisjoint'
  <2> DEFINE b == BoostFor(call[c].order)
  <2>1. b \in Promotion /\ promotions' = promotions \cup {b}
    BY <1>1, Granted
  <2>2. /\ ~b.cancelled
        /\ \A pr \in promotions : pr.post = b.post => ~Overlaps(pr, b.from, b.until)
    BY <1>1, Granted DEF BoostFor, Eligible
  <2> HIDE DEF b
  <2> QED BY <1>0, <2>1, <2>2, DisjointAdd
<1>2. ASSUME NEW p \in Posts, NEW x \in Boosts, AddBoost(p, x) PROVE BoostsDisjoint'
  <2> DEFINE b == BoostOf(p, x)
  <2>1. b \in Promotion /\ promotions' = promotions \cup {b}
    BY <1>2, Added
  <2>2. /\ ~b.cancelled
        /\ \A pr \in promotions : pr.post = b.post => ~Overlaps(pr, b.from, b.until)
    BY <1>2, Added DEF BoostOf
  <2> HIDE DEF b
  <2> QED BY <1>0, <2>1, <2>2, DisjointAdd
<1>3. ASSUME NEW x \in promotions, CancelBoost(x) PROVE BoostsDisjoint'
  <2>1. promotions' = (promotions \ {x}) \cup {Ended(x)} /\ Ended(x).cancelled
    BY <1>3, Cancelled
  <2> QED BY <2>1 DEF BoostsDisjoint, Overlaps
<1>4. CASE promotions' = promotions
  BY <1>4 DEF BoostsDisjoint
<1> QED BY <1>1, <1>2, <1>3, <1>4, PromotionsMove

-----------------------------------------------------------------------------
(* The inductive invariant *)

\* A shop with its posts on display, and no payment yet, satisfies it.
THEOREM PayInvInit == Init => PayInv
<1> SUFFICES ASSUME Init PROVE PayInv
  OBVIOUS
<1> USE DEF Init, PayInit
<1>1. TypeOK
  BY BlankTyped DEF TypeOK, PayTypeOK
<1>2. SharedOK
  <2>1. \A s \in Sellers : OnDisplay(s) \in PostRow
    BY BlankTyped, LimitAssumption DEF OnDisplay, NoRow, PostRow, Status
  <2>2. posts \in [Posts -> PostRow]
    BY <2>1, BlankTyped
  <2>3. TxTypeOK
    BY DEF TxInit, TxTypeOK, Idle, Request, Step
  <2> QED BY <2>2, <2>3 DEF SharedOK
<1>3. RequestsHold
  BY DEF TxInit, Idle, RequestsHold
<1>4. OrdersOK
  BY DEF OrdersOK, NoOrder
<1>5. CallsOK /\ OwnerHeld /\ TargetHeld /\ KeyFresh
  BY DEF NoCall, CallsOK, OwnerHeld, TargetHeld, KeyFresh
<1>6. KeysOK
  BY DEF KeysOK, PendingOn, NoOrder
<1>7. Backing /\ OutcomeFromGateway /\ BoostsDisjoint
  BY DEF Backing, NoOrder, OutcomeFromGateway, BoostsDisjoint
<1> QED BY <1>1, <1>2, <1>3, <1>4, <1>5, <1>6, <1>7 DEF PayInv

\* Every step keeps it: payments, jobs, and the life of the posts beside them.
THEOREM PayInvNext == PayInv /\ [Next]_vars => PayInv'
<1> SUFFICES ASSUME PayInv, [Next]_vars PROVE PayInv'
  OBVIOUS
<1>1. /\ TypeOK /\ SharedOK /\ RequestsHold /\ OrdersOK /\ CallsOK /\ OwnerHeld
      /\ TargetHeld /\ KeyFresh /\ KeysOK /\ Backing /\ OutcomeFromGateway
      /\ BoostsDisjoint
  BY DEF PayInv
<1>2. TypeOK' /\ SharedOK' /\ RequestsHold'
  BY <1>1, TypeNext, SharedNext, RequestsHoldNext
<1>3. OrdersOK' /\ CallsOK'
  BY <1>1, OrdersNext, CallsNext
<1>4. OwnerHeld' /\ TargetHeld' /\ KeyFresh' /\ KeysOK'
  BY <1>1, OwnerHeldNext, TargetHeldNext, KeyFreshNext, KeysNext
<1>5. Backing' /\ OutcomeFromGateway' /\ BoostsDisjoint'
  BY <1>1, BackingNext, OutcomeNext, DisjointNext
<1> QED BY <1>2, <1>3, <1>4, <1>5 DEF PayInv

\* The inductive invariant holds throughout.
THEOREM PayInvariant == Spec => []PayInv
BY PayInvInit, PayInvNext, PTL DEF Spec

-----------------------------------------------------------------------------
(* What follows from it *)

\* A set whose members are all one has at most one member.
LEMMA AtMostOne ==
  ASSUME NEW S, \A x, y \in S : x = y
  PROVE  Cardinality(S) <= 1
<1>1. CASE S = {}
  BY <1>1, FS_EmptySet
<1>2. ASSUME NEW x \in S PROVE Cardinality(S) <= 1
  <2>1. S = {x}
    OBVIOUS
  <2> QED BY <2>1, FS_Singleton
<1> QED BY <1>1, <1>2

\* No outcome of a payment is made up: an order is paid, cancelled or failed
\* only if the gateway has said so.
THEOREM OutcomesAreTheGateways == Spec => []OutcomeFromGateway
<1>1. PayInv => OutcomeFromGateway
  BY DEF PayInv
<1> QED BY <1>1, PayInvariant, PTL

\* Two boosts of a post are never in effect together, though one was granted
\* while the payment of the other was on its way.
THEOREM BoostsNeverOverlap == Spec => []BoostsDisjoint
<1>1. PayInv => BoostsDisjoint
  BY DEF PayInv
<1> QED BY <1>1, PayInvariant, PTL

\* Money taken backs one boost or is under review, and is taken for one boost
\* at most, however often and in whatever order its payment is reported.
THEOREM MoneyAlwaysAccounted == Spec => []MoneyAccounted
<1>1. ASSUME PayInv PROVE MoneyAccounted
  <2> SUFFICES ASSUME NEW o \in Orders
               PROVE  /\ orders[o].fulfillment = "active" <=>
                           {pr \in promotions : pr.order = o /\ ~pr.cancelled} # {}
                      /\ Cardinality({pr \in promotions : pr.order = o}) <= 1
                      /\ orders[o].status = "paid" =>
                           orders[o].fulfillment \in {"active", "requires_review"}
                      /\ {pr \in promotions : pr.order = o /\ ~pr.cancelled} # {} =>
                           orders[o].status = "paid"
    BY DEF MoneyAccounted
  <2>1. Backing /\ o # None
    BY <1>1, CallerAssumption DEF PayInv
  <2>2. /\ orders[o].fulfillment = "active" <=>
             {pr \in promotions : pr.order = o /\ ~pr.cancelled} # {}
        /\ orders[o].status = "paid" =>
             orders[o].fulfillment \in {"active", "requires_review"}
        /\ {pr \in promotions : pr.order = o /\ ~pr.cancelled} # {} =>
             orders[o].status = "paid"
    BY <2>1 DEF Backing
  <2>3. \A x, y \in {pr \in promotions : pr.order = o} : x = y
    BY <2>1 DEF Backing
  <2> QED BY <2>2, <2>3, AtMostOne
<1> QED BY <1>1, PayInvariant, PTL

\* A key is answered with one order for ever, and at most one order of a post
\* awaits payment, though requests with the key race each other.
THEOREM KeysAnsweredOnce == Spec => []OneAnswer
<1>1. ASSUME PayInv PROVE OneAnswer
  <2>1. KeysOK
    BY <1>1 DEF PayInv
  <2>2. ASSUME NEW a \in answers, NEW b \in answers, a.owner = b.owner, a.key = b.key
        PROVE  a.order = b.order
    BY <2>1, <2>2 DEF KeysOK
  <2>3. ASSUME NEW p \in Posts PROVE Cardinality(PendingOn(p)) <= 1
    <3>1. \A x, y \in PendingOn(p) : x = y
      BY <2>1 DEF KeysOK
    <3> QED BY <3>1, AtMostOne
  <2> QED BY <2>2, <2>3 DEF OneAnswer
<1> QED BY <1>1, PayInvariant, PTL

\* A paid boost starts only on a post on display, of the one who paid, whose
\* account is open: what the report found when it locked the post is still so.
THEOREM BoostsStartOnDisplay == Spec => BoostOnDisplay
<1>1. ASSUME PayInv, [Next]_vars, NEW pr \in promotions' \ promotions,
             pr.order # None, ~pr.cancelled
      PROVE  /\ Live(pr.post)
             /\ posts[pr.post].seller = orders[pr.order].owner
             /\ account[orders[pr.order].owner] = "open"
             /\ pr.from = clock
  <2>0. TypeOK /\ SharedOK /\ CallsOK /\ TargetHeld /\ Backing
    BY <1>1 DEF PayInv
  <2>1. ASSUME NEW p \in Posts, NEW b \in Boosts, AddBoost(p, b) PROVE FALSE
    <3>1. promotions' = promotions \cup {BoostOf(p, b)} /\ BoostOf(p, b).order = None
      BY <2>1, Added DEF BoostOf
    <3> QED BY <1>1, <3>1
  <2>2. ASSUME NEW x \in promotions, CancelBoost(x) PROVE FALSE
    BY <1>1, <2>0, <2>2, Cancelled
  <2>3. PICK c \in Actors : GrantBoost(c)
    BY <1>1, <2>1, <2>2, PromotionsMove
  <2>4. pr = BoostFor(call[c].order)
    BY <1>1, <2>0, <2>3, Granted
  <2>5. pr.order = call[c].order /\ pr.post = orders[call[c].order].post
        /\ pr.from = clock
    BY <2>4 DEF BoostFor
  <2>6. Eligible(posts[pr.post], pr.post, orders[pr.order].owner,
                 orders[pr.order].hours, clock)
    BY <2>0, <2>3, <2>5, Granted
  <2> QED BY <2>5, <2>6 DEF Eligible, Live, LiveAt
<1>2. PayInv /\ [Next]_vars =>
        [\A pr \in promotions' \ promotions :
           pr.order # None /\ ~pr.cancelled =>
             /\ Live(pr.post)
             /\ posts[pr.post].seller = orders[pr.order].owner
             /\ account[orders[pr.order].owner] = "open"
             /\ pr.from = clock]_vars
  BY <1>1
<1> QED BY <1>2, PayInvariant, PTL DEF Spec, BoostOnDisplay

=============================================================================
