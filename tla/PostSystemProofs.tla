--------------------------- MODULE PostSystemProofs ---------------------------
(***************************************************************************)
(* Proofs about the listing lifecycle, for any number of sellers, posts,    *)
(* requests and instances and any value of the limits.                      *)
(***************************************************************************)
EXTENDS PostingStatus, LifecycleProofs, FiniteSetTheorems

-----------------------------------------------------------------------------
(* Type correctness *)

\* The empty shop is well typed.
LEMMA TypeInit == Init => TypeOK
BY NoneAssumption, LimitAssumption
   DEF Init, StoreInit, TxInit, ExpiryInit, TypeOK, StoreTypeOK, TxTypeOK,
       ExpiryTypeOK, PostRow, NoRow, Status, AccountState, Request, Idle, Step,
       Batch, NoBatch

\* Ending a transaction keeps the types.
LEMMA TypeEndTx ==
  ASSUME TypeOK, NEW t \in Txns, EndTx(t)
  PROVE  /\ tx' \in [Txns -> Request]
         /\ sellerLock' \in [Sellers -> Txns \cup {None}]
         /\ postLock' \in [Posts -> Txns \cup Workers \cup {None}]
BY DEF TypeOK, StoreTypeOK, TxTypeOK, EndTx, Released, Request, Idle, Step

\* Steps of a request keep the types.
LEMMA TypeTxStep ==
  ASSUME TypeOK, RequestsOK, NEW t \in Txns, TxStep(t),
         UNCHANGED <<batch, pushed>>
  PROVE  TypeOK'
<1> DEFINE p == tx[t].post
<1>0. /\ tx[t] \in Request /\ clock \in Nat
      /\ posts \in [Posts -> PostRow]
      /\ {"policy", "post", "count", "write"} \subseteq Step
  BY DEF TypeOK, StoreTypeOK, TxTypeOK, Step
<1> USE DEF TypeOK, StoreTypeOK, TxTypeOK, ExpiryTypeOK
<1>1. CASE LockSeller(t)
  <2>1. tx' \in [Txns -> Request]
    BY <1>0, <1>1, TypeAdvance DEF LockSeller
  <2>2. sellerLock' \in [Sellers -> Txns \cup {None}]
    BY <1>1 DEF LockSeller
  <2> QED BY <1>1, <2>1, <2>2 DEF LockSeller
<1>2. CASE RestoreDormant(t)
  <2>1. p \in Posts
    BY <1>2 DEF RestoreDormant, RequestsOK
  <2> DEFINE status == IF posts[p].status = "active" THEN "expired"
                                                     ELSE posts[p].status
             row == [posts[p] EXCEPT !.deleted = FALSE, !.status = status]
  <2>2. status \in Status
    BY <1>0, <2>1 DEF PostRow, Status
  <2>3. row \in PostRow
    BY <1>0, <2>1, <2>2, TypeRow
  <2>4. posts' = [posts EXCEPT ![p] = row]
    BY <1>2 DEF RestoreDormant
  <2>5. posts' \in [Posts -> PostRow]
    BY <1>0, <2>1, <2>3, <2>4, TypeWrite
  <2> QED BY <1>2, <2>5, TypeEndTx DEF RestoreDormant
<1>3. CASE LockPost(t)
  <2>1. tx' \in [Txns -> Request]
    BY <1>0, <1>3, TypeAdvance DEF LockPost
  <2>2. postLock' \in [Posts -> Txns \cup Workers \cup {None}]
    BY <1>3 DEF LockPost
  <2> QED BY <1>3, <2>1, <2>2 DEF LockPost
<1>4. CASE CheckPolicy(t)
  BY <1>0, <1>4, TypeAdvance DEF CheckPolicy, storeVars
<1>5. CASE CountActive(t)
  BY <1>0, <1>5, TypeAdvance DEF CountActive, storeVars
<1>6. CASE \E q \in Posts : CommitCreate(t, q)
  <2>1. PICK q \in Posts : CommitCreate(t, q) BY <1>6
  <2>2. tx[t].now + Lifetime \in Nat /\ tx[t].seller \in Sellers \cup {None}
    BY <1>0, LimitAssumption DEF Request
  <2>3. posts' \in [Posts -> PostRow]
    BY <2>1, <2>2 DEF CommitCreate, NoRow, PostRow, Status
  <2> QED BY <2>1, <2>3, TypeEndTx DEF CommitCreate
<1>7. CASE CommitRestore(t)
  <2>1. posts' \in [Posts -> PostRow]
    BY <1>7 DEF CommitRestore, PostRow
  <2> QED BY <1>7, <2>1, TypeEndTx DEF CommitRestore
<1>8. CASE CommitRenew(t)
  <2>1. p \in Posts
    BY <1>8 DEF CommitRenew, RequestsOK
  <2> DEFINE until == tx[t].now + Lifetime
             number == posts[p].renewals + 1
             row == [posts[p] EXCEPT !.status = "active", !.expiresAt = until,
                                     !.renewals = number]
  <2>2. /\ until \in Nat /\ number \in Nat
        /\ tx[t].ref \in Refs \cup {None} /\ posts[p].expiresAt \in Nat
    BY <1>0, <2>1, LimitAssumption DEF Request, PostRow
  <2>3. row \in PostRow
    BY <1>0, <2>1, <2>2, TypeRow DEF Status
  <2>4. posts' = [posts EXCEPT ![p] = row]
    BY <1>8 DEF CommitRenew
  <2>5. posts' \in [Posts -> PostRow]
    BY <1>0, <2>1, <2>3, <2>4, TypeWrite
  <2>6. [post |-> p, number |-> number, ref |-> tx[t].ref,
         previous |-> posts[p].expiresAt, until |-> until] \in RenewalRow
    BY <2>1, <2>2 DEF RenewalRow
  <2>7. ledger' \subseteq RenewalRow
    BY <1>8, <2>6 DEF CommitRenew
  <2> QED BY <1>8, <2>5, <2>7, TypeEndTx DEF CommitRenew
<1>9. CASE Rollback(t)
  BY <1>9, TypeEndTx DEF Rollback
<1> QED BY <1>1, <1>2, <1>3, <1>4, <1>5, <1>6, <1>7, <1>8, <1>9 DEF TxStep

\* The other operations, requests arriving, and the clock.
LEMMA TypeLifecycle ==
  ASSUME TypeOK, RequestsOK, LifecycleNext, UNCHANGED <<batch, pushed>>
  PROVE  TypeOK'
<1>0. posts \in [Posts -> PostRow]
  BY DEF TypeOK, StoreTypeOK
<1> USE DEF TypeOK, StoreTypeOK, TxTypeOK, ExpiryTypeOK
<1>1. ASSUME NEW t \in Txns, TxStep(t) PROVE TypeOK'
  BY <1>1, TypeTxStep
<1>2. ASSUME NEW t \in Txns, NEW s \in Sellers, BeginCreate(t, s) PROVE TypeOK'
  <2>1. [Idle EXCEPT !.pc = "seller", !.op = "create", !.seller = s] \in Request
    BY DEF Idle, Request, Step
  <2> QED BY <1>2, <2>1 DEF BeginCreate, storeVars
<1>3. ASSUME NEW t \in Txns, NEW p \in Posts, BeginRestore(t, p) PROVE TypeOK'
  <2>1. posts[p].seller \in Sellers \cup {None}
    BY <1>0 DEF PostRow
  <2> QED BY <1>3, <2>1, TypeArrival DEF BeginRestore, storeVars
<1>4. ASSUME NEW t \in Txns, NEW s \in Sellers, NEW p \in Posts,
             NEW ref \in Refs \cup {None}, BeginRenew(t, s, p, ref)
      PROVE  TypeOK'
  BY <1>4, TypeArrival DEF BeginRenew, storeVars
<1>5. ASSUME NEW p \in Posts, NEW buyer \in Buyers \cup {None},
             MarkSold(p, buyer)
      PROVE  TypeOK'
  <2> DEFINE row == [posts[p] EXCEPT !.status = "sold", !.sold = TRUE,
                                     !.buyer = buyer]
  <2>1. row \in PostRow
    BY <1>0, TypeRow DEF Status
  <2>2. posts' = [posts EXCEPT ![p] = row]
    BY <1>5 DEF MarkSold
  <2>3. posts' \in [Posts -> PostRow]
    BY <1>0, <2>1, <2>2, TypeWrite
  <2>4. notices' \subseteq Notice
    BY <1>5 DEF MarkSold, Notice
  <2> QED BY <1>5, <2>3, <2>4 DEF MarkSold
<1>6. ASSUME NEW p \in Posts, Remove(p) PROVE TypeOK'
  <2>1. [posts[p] EXCEPT !.deleted = TRUE] \in PostRow
    BY <1>0, TypeRow DEF Status
  <2>2. posts' = [posts EXCEPT ![p] = [posts[p] EXCEPT !.deleted = TRUE]]
    BY <1>6 DEF Remove
  <2>3. posts' \in [Posts -> PostRow]
    BY <1>0, <2>1, <2>2, TypeWrite
  <2> QED BY <1>6, <2>3 DEF Remove
<1>7. ASSUME NEW p \in Posts, Hide(p) PROVE TypeOK'
  <2>1. [posts[p] EXCEPT !.status = "hidden"] \in PostRow
    BY <1>0, TypeRow DEF Status
  <2>2. posts' = [posts EXCEPT ![p] = [posts[p] EXCEPT !.status = "hidden"]]
    BY <1>7 DEF Hide
  <2>3. posts' \in [Posts -> PostRow]
    BY <1>0, <2>1, <2>2, TypeWrite
  <2> QED BY <1>7, <2>3 DEF Hide
<1>8. ASSUME NEW s \in Sellers, NEW state \in Moves, SetAccount(s, state)
      PROVE  TypeOK'
  BY <1>8, MovesAssumption DEF SetAccount, AccountState
<1>9. ASSUME NEW s \in Sellers, NEW r \in Windows, Ban(s, r) \/ Lift(s, r)
      PROVE  TypeOK'
  <2> DEFINE all == restrictions[s] \cup {r}
             rest == restrictions[s] \ {r}
  <2>1. restrictions[s] \in SUBSET Window /\ r \in Window
    BY WindowAssumption
  <2>2. all \in SUBSET Window /\ rest \in SUBSET Window
    BY <2>1
  <2>3. \/ restrictions' = [restrictions EXCEPT ![s] = all]
        \/ restrictions' = [restrictions EXCEPT ![s] = rest]
    BY <1>9 DEF Ban, Lift
  <2>4. restrictions' \in [Sellers -> SUBSET Window]
    <3> HIDE DEF all, rest
    <3> QED BY <2>2, <2>3
  <2> QED BY <1>9, <2>4 DEF Ban, Lift
<1>10. ASSUME Tick PROVE TypeOK'
  BY <1>10 DEF Tick
<1> HIDE DEF TypeOK
<1> QED BY <1>1, <1>2, <1>3, <1>4, <1>5, <1>6, <1>7, <1>8, <1>9, <1>10
        DEF LifecycleNext

\* Steps of the expiry job keep the types.
LEMMA TypeExpiry ==
  ASSUME TypeOK, NEW w \in Workers, ExpiryStep(w), UNCHANGED tx
  PROVE  TypeOK'
<1>0. /\ posts \in [Posts -> PostRow] /\ clock \in Nat
      /\ batch[w] \in Batch
      /\ notices \subseteq Notice
  BY DEF TypeOK, StoreTypeOK, ExpiryTypeOK
<1> USE DEF TypeOK, StoreTypeOK, TxTypeOK, ExpiryTypeOK
<1>1. CASE BeginBatch(w)
  BY <1>0, <1>1 DEF BeginBatch, storeVars, Batch, NoBatch
<1>2. CASE \E rows \in SUBSET Posts : LockBatch(w, rows)
  <2>1. PICK rows \in SUBSET Posts : LockBatch(w, rows) BY <1>2
  <2>2. [batch[w] EXCEPT !.pc = "locked", !.rows = rows, !.seen = {}] \in Batch
    BY <1>0 DEF Batch
  <2>3. batch' \in [Workers -> Batch]
    BY <2>1, <2>2 DEF LockBatch
  <2>4. postLock' \in [Posts -> Txns \cup Workers \cup {None}]
    BY <2>1 DEF LockBatch
  <2> QED BY <2>1, <2>3, <2>4 DEF LockBatch
<1>3. CASE CommitBatch(w)
  <2>1. DueNotices(w) \subseteq Notice
    <3>1. \A p \in Posts : posts[p].renewals \in Nat
      BY <1>0 DEF PostRow
    <3>2. batch[w].rows \subseteq Posts
      BY <1>0 DEF Batch
    <3> QED BY <3>1, <3>2 DEF DueNotices, NoticeFor, NoticeOf, Notice
  <2>2. \A p \in Posts : [posts[p] EXCEPT !.status = "expired"] \in PostRow
    BY <1>0, TypeRow DEF Status
  <2>3. posts' \in [Posts -> PostRow]
    BY <1>0, <1>3, <2>2 DEF CommitBatch
  <2>4. [NoBatch EXCEPT !.pc = "push", !.created = DueNotices(w) \ notices]
          \in Batch
    BY <2>1 DEF NoBatch, Batch
  <2>5. batch' \in [Workers -> Batch]
    BY <1>3, <2>4 DEF CommitBatch
  <2>6. postLock' \in [Posts -> Txns \cup Workers \cup {None}]
    BY <1>3 DEF CommitBatch
  <2> QED BY <1>3, <2>1, <2>3, <2>5, <2>6 DEF CommitBatch
<1>4. CASE Push(w)
  <2>1. batch[w].created \subseteq Notice
    BY <1>0 DEF Batch
  <2> QED BY <1>4, <2>1 DEF Push, storeVars, Batch, NoBatch
<1>5. CASE AbortBatch(w)
  BY <1>5 DEF AbortBatch, Batch, NoBatch
<1> QED BY <1>1, <1>2, <1>3, <1>4, <1>5 DEF ExpiryStep

\* Every step keeps the types.
LEMMA TypeNext == TypeOK /\ RequestsOK /\ [Next]_vars => TypeOK'
<1> SUFFICES ASSUME TypeOK, RequestsOK, [Next]_vars PROVE TypeOK'
  OBVIOUS
<1>1. CASE LifecycleNext /\ UNCHANGED <<batch, pushed>>
  BY <1>1, TypeLifecycle
<1>2. CASE (\E w \in Workers : ExpiryStep(w)) /\ UNCHANGED tx
  BY <1>2, TypeExpiry
<1>3. CASE UNCHANGED vars
  BY <1>3 DEF vars, storeVars, TypeOK, StoreTypeOK, TxTypeOK, ExpiryTypeOK
<1> QED BY <1>1, <1>2, <1>3 DEF Next

-----------------------------------------------------------------------------
(* What a step does to the post rows *)

\* Request t, with its count behind it, writes row q and no other and ends.
Enters(t, q) ==
  /\ tx[t].pc = "write" /\ EndTx(t)
  /\ posts'[q].seller = tx[t].seller
  /\ clock' = clock
  /\ \A r \in Posts \ {q} : posts'[r] = posts[r]

\* Rows stay in order; an inserted row keeps its seller; only a row nobody
\* holds is sold or hidden; and only a request that has counted puts a row on
\* display.
PostEffect ==
  /\ RowsOK' /\ TransactionState'
  /\ \A q \in Posts :
       /\ Exists(q) => /\ posts'[q].status # "none"
                       /\ posts'[q].seller = posts[q].seller
       /\ posts[q].status \in {"active", "expired"} =>
            posts'[q].status \in {"active", "expired"} \/ postLock[q] = None
       /\ LiveAt(q, clock)' => LiveAt(q, clock) \/ \E t \in Txns : Enters(t, q)

\* A step that leaves the rows alone; the clock may advance.
LEMMA NoRowWritten ==
  ASSUME TypeOK, RowsOK, TransactionState, posts' = posts, clock' >= clock,
         clock' \in Nat
  PROVE  PostEffect
<1>1. posts \in [Posts -> PostRow] /\ clock \in Nat
  BY DEF TypeOK, StoreTypeOK
<1>2. RowsOK' /\ TransactionState'
  BY DEF RowsOK, TransactionState, Exists
<1>3. ASSUME NEW q \in Posts, LiveAt(q, clock)' PROVE LiveAt(q, clock)
  <2>1. posts[q].expiresAt \in Nat
    BY <1>1 DEF PostRow
  <2> QED BY <1>1, <1>3, <2>1 DEF LiveAt
<1> QED BY <1>2, <1>3 DEF PostEffect, Exists

\* A step that writes one row.
LEMMA OneRowWritten ==
  ASSUME TypeOK, RowsOK, TransactionState, clock' = clock,
         NEW p \in Posts, NEW row \in PostRow,
         posts' = [posts EXCEPT ![p] = row],
         row.status # "none", row.seller # None,
         Exists(p) => row.seller = posts[p].seller,
         row.status = "sold" => row.sold,
         row.status \in {"active", "expired"} => ~row.sold /\ row.buyer = None,
         row.status = "hidden" => row.sold \/ row.buyer = None,
         posts[p].status \in {"active", "expired"} =>
           row.status \in {"active", "expired"} \/ postLock[p] = None,
         row.status = "active" /\ ~row.deleted /\ row.expiresAt > clock =>
           \/ LiveAt(p, clock)
           \/ \E t \in Txns : /\ tx[t].pc = "write" /\ EndTx(t)
                              /\ row.seller = tx[t].seller
  PROVE  PostEffect
<1>1. posts \in [Posts -> PostRow]
  BY DEF TypeOK, StoreTypeOK
<1>2. posts'[p] = row /\ \A q \in Posts \ {p} : posts'[q] = posts[q]
  BY <1>1
<1>3. RowsOK'
  BY <1>2 DEF RowsOK, Exists
<1>4. TransactionState'
  BY <1>2 DEF TransactionState
<1>5. ASSUME NEW q \in Posts
      PROVE  /\ Exists(q) => /\ posts'[q].status # "none"
                             /\ posts'[q].seller = posts[q].seller
             /\ posts[q].status \in {"active", "expired"} =>
                  posts'[q].status \in {"active", "expired"} \/ postLock[q] = None
  BY <1>2 DEF Exists
<1>6. ASSUME NEW q \in Posts, LiveAt(q, clock)'
      PROVE  LiveAt(q, clock) \/ \E t \in Txns : Enters(t, q)
  <2>1. CASE q = p
    BY <1>2, <1>6, <2>1 DEF LiveAt, Enters
  <2>2. CASE q # p
    BY <1>2, <1>6, <2>2 DEF LiveAt
  <2> QED BY <2>1, <2>2
<1> QED BY <1>3, <1>4, <1>5, <1>6 DEF PostEffect

\* What a request does to the rows.
LEMMA EffectTxStep ==
  ASSUME TypeOK, RowsOK, RequestsOK, RenewableHeld, TransactionState,
         NEW t \in Txns, TxStep(t)
  PROVE  PostEffect
<1> DEFINE p == tx[t].post
<1>0. /\ posts \in [Posts -> PostRow] /\ clock \in Nat /\ tx[t] \in Request
      /\ \A q \in Posts : posts[q].expiresAt \in Nat /\ posts[q].renewals \in Nat
  BY DEF TypeOK, StoreTypeOK, TxTypeOK, PostRow
<1>1. CASE LockSeller(t) \/ LockPost(t) \/ CheckPolicy(t) \/ CountActive(t)
           \/ Rollback(t)
  <2>1. posts' = posts /\ clock' = clock
    BY <1>1 DEF LockSeller, LockPost, CheckPolicy, CountActive, Rollback,
                storeVars
  <2> QED BY <1>0, <2>1, NoRowWritten
<1>2. CASE RestoreDormant(t)
  <2>1. p \in Posts /\ Exists(p) /\ posts[p] \in PostRow
    BY <1>0, <1>2 DEF RestoreDormant, RequestsOK
  <2> DEFINE status == IF posts[p].status = "active" THEN "expired"
                                                     ELSE posts[p].status
             row == [posts[p] EXCEPT !.deleted = FALSE, !.status = status]
  <2>2. status \in Status
    BY <2>1 DEF PostRow, Status
  <2>3. row \in PostRow
    BY <2>1, <2>2, TypeRow
  <2>4. posts' = [posts EXCEPT ![p] = row] /\ clock' = clock
    BY <1>2 DEF RestoreDormant
  <2>5. /\ row.seller = posts[p].seller /\ row.sold = posts[p].sold
        /\ row.buyer = posts[p].buyer /\ row.status = status
    BY <2>1 DEF PostRow
  <2>6. /\ posts[p].seller # None /\ status # "none" /\ status # "active"
        /\ status = posts[p].status
           \/ (posts[p].status = "active" /\ status = "expired")
    BY <2>1 DEF RowsOK, Exists
  <2> HIDE DEF row, status
  <2> QED BY <2>1, <2>3, <2>4, <2>5, <2>6, OneRowWritten DEF TransactionState
<1>3. ASSUME NEW q \in Posts, CommitCreate(t, q) PROVE PostEffect
  <2>1. tx[t].seller \in Sellers /\ tx[t].now + Lifetime \in Nat
    BY <1>0, <1>3, LimitAssumption DEF CommitCreate, RequestsOK, Request
  <2> DEFINE row == [NoRow EXCEPT !.seller = tx[t].seller, !.status = "active",
                                  !.expiresAt = tx[t].now + Lifetime]
  <2>2. row \in PostRow
    BY <2>1 DEF PostRow, NoRow, Status
  <2>3. posts' = [posts EXCEPT ![q] = row] /\ clock' = clock
    BY <1>3 DEF CommitCreate
  <2>4. /\ row.seller = tx[t].seller /\ ~row.sold
        /\ row.buyer = None /\ row.status = "active"
    BY DEF NoRow
  <2>5. tx[t].pc = "write" /\ EndTx(t) /\ ~Exists(q)
    BY <1>3 DEF CommitCreate
  <2>6. posts[q].status = "none"
    BY <2>5 DEF Exists
  <2> HIDE DEF row
  <2> QED BY <2>1, <2>2, <2>3, <2>4, <2>5, <2>6, NoneAssumption, OneRowWritten
<1>4. CASE CommitRestore(t)
  <2>1. p \in Posts /\ Exists(p) /\ posts[p] \in PostRow
        /\ posts[p].seller = tx[t].seller
    BY <1>0, <1>4 DEF CommitRestore, RequestsOK
  <2> DEFINE row == [posts[p] EXCEPT !.deleted = FALSE]
  <2>2. row \in PostRow
    BY <2>1 DEF PostRow
  <2>3. posts' = [posts EXCEPT ![p] = row] /\ clock' = clock
    BY <1>4 DEF CommitRestore
  <2>4. /\ row.seller = posts[p].seller /\ row.sold = posts[p].sold
        /\ row.buyer = posts[p].buyer /\ row.status = posts[p].status
    BY <2>1 DEF PostRow
  <2>5. tx[t].pc = "write" /\ EndTx(t)
    BY <1>4 DEF CommitRestore
  <2>6. posts[p].seller # None /\ posts[p].status # "none"
    BY <2>1 DEF RowsOK, Exists
  <2>7. /\ row.status = "sold" => row.sold
        /\ row.status \in {"active", "expired"} => ~row.sold /\ row.buyer = None
        /\ row.status = "hidden" => row.sold \/ row.buyer = None
    BY <2>1, <2>4 DEF TransactionState
  <2>8. \E u \in Txns : /\ tx[u].pc = "write" /\ EndTx(u)
                        /\ row.seller = tx[u].seller
    BY <2>1, <2>4, <2>5
  <2> HIDE DEF row, p
  <2> QED BY <2>1, <2>2, <2>3, <2>4, <2>6, <2>7, <2>8, OneRowWritten
<1>5. CASE CommitRenew(t)
  <2>1. p \in Posts /\ Exists(p) /\ posts[p] \in PostRow
        /\ posts[p].seller = tx[t].seller
        /\ posts[p].status \in {"active", "expired"}
    BY <1>0, <1>5 DEF CommitRenew, RequestsOK, RenewableHeld, Holding
  <2> DEFINE until == tx[t].now + Lifetime
             number == posts[p].renewals + 1
             row == [posts[p] EXCEPT !.status = "active", !.expiresAt = until,
                                     !.renewals = number]
  <2>2. until \in Nat /\ number \in Nat
    BY <1>0, <2>1, LimitAssumption DEF Request
  <2>3. row \in PostRow
    BY <2>1, <2>2, TypeRow DEF Status
  <2>4. posts' = [posts EXCEPT ![p] = row] /\ clock' = clock
    BY <1>5 DEF CommitRenew
  <2>5. /\ row.seller = posts[p].seller /\ row.sold = posts[p].sold
        /\ row.buyer = posts[p].buyer /\ row.status = "active"
    BY <2>1 DEF PostRow
  <2>6. tx[t].pc = "write" /\ EndTx(t)
    BY <1>5 DEF CommitRenew
  <2>7. posts[p].seller # None
    BY <2>1 DEF RowsOK, Exists
  <2>8. ~row.sold /\ row.buyer = None
    BY <2>1, <2>5 DEF TransactionState
  <2>9. \E u \in Txns : /\ tx[u].pc = "write" /\ EndTx(u)
                        /\ row.seller = tx[u].seller
    BY <2>1, <2>5, <2>6
  <2> HIDE DEF row, until, number, p
  <2> QED BY <2>1, <2>3, <2>4, <2>5, <2>7, <2>8, <2>9, OneRowWritten
<1> QED BY <1>1, <1>2, <1>3, <1>4, <1>5 DEF TxStep

\* What the operations on a listing do to the rows.
LEMMA EffectLifecycle ==
  ASSUME TypeOK, RowsOK, RequestsOK, RenewableHeld, TransactionState,
         LifecycleNext
  PROVE  PostEffect
<1>0. posts \in [Posts -> PostRow] /\ clock \in Nat
  BY DEF TypeOK, StoreTypeOK
<1>1. ASSUME NEW t \in Txns, TxStep(t) PROVE PostEffect
  BY <1>1, EffectTxStep
<1>2. ASSUME NEW t \in Txns, NEW s \in Sellers, BeginCreate(t, s)
      PROVE  PostEffect
  BY <1>0, <1>2, NoRowWritten DEF BeginCreate, storeVars
<1>3. ASSUME NEW t \in Txns, NEW p \in Posts, BeginRestore(t, p)
      PROVE  PostEffect
  BY <1>0, <1>3, NoRowWritten DEF BeginRestore, storeVars
<1>4. ASSUME NEW t \in Txns, NEW s \in Sellers, NEW p \in Posts,
             NEW ref \in Refs \cup {None}, BeginRenew(t, s, p, ref)
      PROVE  PostEffect
  BY <1>0, <1>4, NoRowWritten DEF BeginRenew, storeVars
<1>5. ASSUME NEW p \in Posts, NEW buyer \in Buyers \cup {None},
             MarkSold(p, buyer)
      PROVE  PostEffect
  <2> DEFINE row == [posts[p] EXCEPT !.status = "sold", !.sold = TRUE,
                                     !.buyer = buyer]
  <2>1. row \in PostRow /\ posts[p] \in PostRow
    BY <1>0, TypeRow DEF Status
  <2>2. posts' = [posts EXCEPT ![p] = row] /\ clock' = clock
    BY <1>5 DEF MarkSold
  <2>3. row.seller = posts[p].seller /\ row.status = "sold" /\ row.sold
    BY <2>1 DEF PostRow
  <2>4. posts[p].seller # None /\ postLock[p] = None
    BY <1>5 DEF MarkSold, Grab, RowsOK, Exists
  <2> HIDE DEF row
  <2> QED BY <2>1, <2>2, <2>3, <2>4, OneRowWritten
<1>6. ASSUME NEW p \in Posts, Remove(p) PROVE PostEffect
  <2> DEFINE row == [posts[p] EXCEPT !.deleted = TRUE]
  <2>1. row \in PostRow /\ posts[p] \in PostRow
    BY <1>0, TypeRow DEF Status
  <2>2. posts' = [posts EXCEPT ![p] = row] /\ clock' = clock
    BY <1>6 DEF Remove
  <2>3. /\ row.seller = posts[p].seller /\ row.status = posts[p].status
        /\ row.sold = posts[p].sold /\ row.buyer = posts[p].buyer
        /\ row.deleted
    BY <2>1 DEF PostRow
  <2>4. posts[p].seller # None /\ posts[p].status # "none"
    BY <1>6 DEF Remove, Grab, RowsOK, Exists
  <2>5. /\ row.status = "sold" => row.sold
        /\ row.status \in {"active", "expired"} => ~row.sold /\ row.buyer = None
        /\ row.status = "hidden" => row.sold \/ row.buyer = None
    BY <2>3 DEF TransactionState
  <2> HIDE DEF row
  <2> QED BY <2>1, <2>2, <2>3, <2>4, <2>5, OneRowWritten
<1>7. ASSUME NEW p \in Posts, Hide(p) PROVE PostEffect
  <2> DEFINE row == [posts[p] EXCEPT !.status = "hidden"]
  <2>1. row \in PostRow /\ posts[p] \in PostRow
    BY <1>0, TypeRow DEF Status
  <2>2. posts' = [posts EXCEPT ![p] = row] /\ clock' = clock
    BY <1>7 DEF Hide
  <2>3. /\ row.seller = posts[p].seller /\ row.status = "hidden"
        /\ row.sold = posts[p].sold /\ row.buyer = posts[p].buyer
    BY <2>1 DEF PostRow
  <2>4. /\ posts[p].seller # None /\ postLock[p] = None
        /\ posts[p].status # "none"
    BY <1>7 DEF Hide, Grab, RowsOK, Exists
  <2>5. posts[p].sold \/ posts[p].buyer = None
    BY <2>1, <2>4 DEF TransactionState, PostRow, Status
  <2> HIDE DEF row
  <2> QED BY <2>1, <2>2, <2>3, <2>4, <2>5, OneRowWritten
<1>8. ASSUME NEW s \in Sellers, NEW state \in Moves, SetAccount(s, state)
      PROVE  PostEffect
  BY <1>0, <1>8, NoRowWritten DEF SetAccount
<1>9. ASSUME NEW s \in Sellers, NEW r \in Windows, Ban(s, r) \/ Lift(s, r)
      PROVE  PostEffect
  BY <1>0, <1>9, NoRowWritten DEF Ban, Lift
<1>10. ASSUME Tick PROVE PostEffect
  BY <1>0, <1>10, NoRowWritten DEF Tick
<1> QED BY <1>1, <1>2, <1>3, <1>4, <1>5, <1>6, <1>7, <1>8, <1>9, <1>10
        DEF LifecycleNext

\* The job writes many rows at once, all of them past their deadline.
LEMMA EffectExpiry ==
  ASSUME TypeOK, RowsOK, TransactionState, NEW w \in Workers, ExpiryStep(w)
  PROVE  PostEffect
<1>0. posts \in [Posts -> PostRow] /\ clock \in Nat
  BY DEF TypeOK, StoreTypeOK
<1>1. CASE CommitBatch(w)
  <2>1. /\ clock' = clock
        /\ \A q \in Posts :
             \/ posts'[q] = posts[q]
             \/ /\ posts'[q] = [posts[q] EXCEPT !.status = "expired"]
                /\ posts[q].status = "active"
    BY <1>1 DEF CommitBatch
  <2>2. \A q \in Posts :
          \/ posts'[q] = posts[q]
          \/ /\ posts'[q].status = "expired" /\ posts[q].status = "active"
             /\ posts'[q].seller = posts[q].seller
             /\ posts'[q].sold = posts[q].sold
             /\ posts'[q].buyer = posts[q].buyer
    <3> SUFFICES ASSUME NEW q \in Posts, posts'[q] # posts[q]
                 PROVE  /\ posts'[q].status = "expired" /\ posts[q].status = "active"
                        /\ posts'[q].seller = posts[q].seller
                        /\ posts'[q].sold = posts[q].sold
                        /\ posts'[q].buyer = posts[q].buyer
      OBVIOUS
    <3>1. posts[q] \in PostRow /\ posts[q].status = "active"
          /\ posts'[q] = [posts[q] EXCEPT !.status = "expired"]
      BY <1>0, <2>1
    <3> QED BY <3>1 DEF PostRow
  <2>3. RowsOK' /\ TransactionState'
    BY <2>2 DEF RowsOK, TransactionState, Exists
  <2> QED BY <2>1, <2>2, <2>3 DEF PostEffect, LiveAt, Exists
<1>2. CASE ~CommitBatch(w)
  <2>1. posts' = posts /\ clock' = clock
    BY <1>2 DEF ExpiryStep, BeginBatch, LockBatch, Push, AbortBatch, storeVars
  <2> QED BY <1>0, <2>1, NoRowWritten
<1> QED BY <1>1, <1>2

\* What any step does to the rows.
LEMMA EffectNext ==
  ASSUME TypeOK, RowsOK, RequestsOK, RenewableHeld, TransactionState,
         [Next]_vars
  PROVE  PostEffect
<1>0. clock \in Nat
  BY DEF TypeOK, StoreTypeOK
<1>1. CASE LifecycleNext /\ UNCHANGED <<batch, pushed>>
  BY <1>1, EffectLifecycle
<1>2. ASSUME NEW w \in Workers, ExpiryStep(w) PROVE PostEffect
  BY <1>2, EffectExpiry
<1>3. CASE UNCHANGED vars
  BY <1>0, <1>3, NoRowWritten DEF vars, storeVars
<1> QED BY <1>1, <1>2, <1>3 DEF Next

-----------------------------------------------------------------------------
(* Requests and the locks they hold *)

\* A request that does not step keeps its state and its row locks.
KeepsLocks(u) ==
  /\ tx'[u] = tx[u]
  /\ \A s \in Sellers : sellerLock[s] = u => sellerLock'[s] = u
  /\ \A p \in Posts : postLock[p] = u => postLock'[p] = u

\* A request that ends releases its own locks only.
LEMMA ReleaseOthers ==
  ASSUME TypeOK, NEW t \in Txns, EndTx(t)
  PROVE  tx'[t] = Idle /\ \A u \in Txns \ {t} : KeepsLocks(u)
BY DEF TypeOK, StoreTypeOK, TxTypeOK, EndTx, Released, KeepsLocks

\* No step of a request takes a lock from another.
LEMMA OthersKeepLocks ==
  ASSUME TypeOK, NEW t \in Txns, TxStep(t)
  PROVE  \A u \in Txns \ {t} : KeepsLocks(u)
<1> USE NoneAssumption
<1>1. CASE EndTx(t)
  BY <1>1, ReleaseOthers
<1>2. CASE LockSeller(t)
  BY <1>2 DEF LockSeller, KeepsLocks, TypeOK, StoreTypeOK, TxTypeOK
<1>3. CASE LockPost(t)
  BY <1>3 DEF LockPost, KeepsLocks, TypeOK, StoreTypeOK, TxTypeOK
<1>4. CASE CheckPolicy(t) \/ CountActive(t)
  BY <1>4 DEF CheckPolicy, CountActive, storeVars, KeepsLocks, TypeOK,
              StoreTypeOK, TxTypeOK
<1> QED BY <1>1, <1>2, <1>3, <1>4
        DEF TxStep, RestoreDormant, CommitCreate, CommitRestore, CommitRenew,
            Rollback

\* A request that has just arrived names an inserted post; a restore has read
\* its seller from that post.
Arrives(t) ==
  /\ tx'[t].pc = "seller" /\ tx'[t].now = 0 /\ tx'[t].seller \in Sellers
  /\ tx'[t].op # "create" => tx'[t].post \in Posts /\ Exists(tx'[t].post)
  /\ tx'[t].op = "restore" => posts[tx'[t].post].seller = tx'[t].seller

\* What a step does to a request: it arrives, it ends, it does not move, or it
\* takes its next statement.
RequestEffect(t) ==
  \/ Arrives(t)
  \/ tx'[t].pc = "idle"
  \/ KeepsLocks(t)
  \/ LockSeller(t) \/ LockPost(t) \/ CheckPolicy(t) \/ CountActive(t)

\* How the state of one request may change in a step.
LEMMA RequestsMove ==
  ASSUME TypeOK, RowsOK, [Next]_vars, NEW t \in Txns
  PROVE  RequestEffect(t)
<1> USE NoneAssumption, ProcessAssumption
<1>0. tx \in [Txns -> Request]
  BY DEF TypeOK, TxTypeOK
<1>1. ASSUME NEW u \in Txns, TxStep(u) PROVE RequestEffect(t)
  <2>1. CASE u # t
    BY <1>1, <2>1, OthersKeepLocks DEF RequestEffect
  <2>2. CASE u = t /\ EndTx(t)
    BY <2>2, ReleaseOthers DEF RequestEffect, Idle
  <2>3. CASE u = t /\ ~EndTx(t)
    BY <1>1, <2>3 DEF TxStep, RestoreDormant, CommitCreate, CommitRestore,
                      CommitRenew, Rollback, RequestEffect
  <2> QED BY <2>1, <2>2, <2>3
<1>2. ASSUME NEW u \in Txns, NEW s \in Sellers, BeginCreate(u, s)
      PROVE  RequestEffect(t)
  <2>1. u # t => KeepsLocks(t)
    BY <1>0, <1>2 DEF BeginCreate, storeVars, KeepsLocks
  <2>2. u = t => Arrives(t)
    BY <1>0, <1>2 DEF BeginCreate, Arrives, Idle
  <2> QED BY <2>1, <2>2 DEF RequestEffect
<1>3. ASSUME NEW u \in Txns, NEW p \in Posts, BeginRestore(u, p)
      PROVE  RequestEffect(t)
  <2>1. u # t => KeepsLocks(t)
    BY <1>0, <1>3 DEF BeginRestore, storeVars, KeepsLocks
  <2>2. Exists(p) /\ posts[p].seller \in Sellers
    <3>1. ~NoRow.deleted
      BY DEF NoRow
    <3>2. posts[p].seller \in Sellers \cup {None}
      BY DEF TypeOK, StoreTypeOK, PostRow
    <3> QED BY <1>3, <3>1, <3>2 DEF BeginRestore, RowsOK
  <2>3. u = t => Arrives(t)
    BY <1>0, <1>3, <2>2 DEF BeginRestore, Arrives, Idle
  <2> QED BY <2>1, <2>3 DEF RequestEffect
<1>4. ASSUME NEW u \in Txns, NEW s \in Sellers, NEW p \in Posts,
             NEW ref \in Refs \cup {None}, BeginRenew(u, s, p, ref)
      PROVE  RequestEffect(t)
  <2>1. u # t => KeepsLocks(t)
    BY <1>0, <1>4 DEF BeginRenew, storeVars, KeepsLocks
  <2>2. u = t => Arrives(t)
    BY <1>0, <1>4 DEF BeginRenew, Arrives, Idle
  <2> QED BY <2>1, <2>2 DEF RequestEffect
<1>5. ASSUME NEW w \in Workers, ExpiryStep(w), UNCHANGED tx
      PROVE  RequestEffect(t)
  <2>1. KeepsLocks(t)
    BY <1>5 DEF ExpiryStep, BeginBatch, LockBatch, CommitBatch, Push, AbortBatch,
                IsBatch, Lockable, storeVars, KeepsLocks, TypeOK, StoreTypeOK
  <2> QED BY <2>1 DEF RequestEffect
<1>6. ASSUME UNCHANGED <<tx, sellerLock, postLock>> PROVE RequestEffect(t)
  BY <1>6 DEF RequestEffect, KeepsLocks
<1>7. ASSUME NEW p \in Posts, NEW buyer \in Buyers \cup {None},
             MarkSold(p, buyer)
      PROVE  RequestEffect(t)
  BY <1>6, <1>7 DEF MarkSold
<1>8. ASSUME NEW p \in Posts, Remove(p) \/ Hide(p) PROVE RequestEffect(t)
  BY <1>6, <1>8 DEF Remove, Hide
<1>9. ASSUME NEW s \in Sellers, NEW state \in Moves, SetAccount(s, state)
      PROVE  RequestEffect(t)
  BY <1>6, <1>9 DEF SetAccount
<1>10. ASSUME NEW s \in Sellers, NEW r \in Windows, Ban(s, r) \/ Lift(s, r)
       PROVE  RequestEffect(t)
  BY <1>6, <1>10 DEF Ban, Lift
<1>11. ASSUME Tick PROVE RequestEffect(t)
  BY <1>6, <1>11 DEF Tick
<1>12. CASE UNCHANGED vars
  BY <1>6, <1>12 DEF vars, storeVars
<1>13. CASE LifecycleNext
  BY <1>1, <1>2, <1>3, <1>4, <1>7, <1>8, <1>9, <1>10, <1>11, <1>13
     DEF LifecycleNext
<1> QED BY <1>5, <1>12, <1>13 DEF Next

\* A statement before the write keeps what the request is about, and may read the clock.
LEMMA StatementFrame ==
  ASSUME TypeOK, NEW t \in Txns,
         LockSeller(t) \/ LockPost(t) \/ CheckPolicy(t) \/ CountActive(t)
  PROVE  /\ tx'[t].seller = tx[t].seller /\ tx'[t].op = tx[t].op
         /\ tx'[t].post = tx[t].post /\ tx[t].pc # "idle"
         /\ tx'[t].now = tx[t].now \/ tx'[t].now = clock
<1>0. tx \in [Txns -> Request] /\ tx[t] \in Request
  BY DEF TypeOK, TxTypeOK
<1>1. CASE LockSeller(t)
  <2>1. \/ tx'[t] = [tx[t] EXCEPT !.pc = "policy", !.now = clock]
        \/ tx'[t] = [tx[t] EXCEPT !.pc = "post"]
    BY <1>0, <1>1 DEF LockSeller
  <2>2. tx[t].pc # "idle"
    BY <1>1 DEF LockSeller
  <2> QED BY <1>0, <2>1, <2>2 DEF Request
<1>2. CASE LockPost(t)
  <2>1. tx'[t] = [tx[t] EXCEPT !.pc = "policy", !.now = clock]
    BY <1>0, <1>2 DEF LockPost
  <2>2. tx[t].pc # "idle"
    BY <1>2 DEF LockPost
  <2> QED BY <1>0, <2>1, <2>2 DEF Request
<1>3. CASE CheckPolicy(t) \/ CountActive(t)
  BY <1>0, <1>3 DEF CheckPolicy, CountActive, Request
<1> QED BY <1>1, <1>2, <1>3

\* The clock never goes back.
LEMMA ClockAdvances ==
  ASSUME TypeOK, [Next]_vars
  PROVE  clock' \in Nat /\ clock <= clock'
<1>0. clock \in Nat
  BY DEF TypeOK, StoreTypeOK
<1> USE <1>0
<1>1. ASSUME NEW t \in Txns, TxStep(t) PROVE clock' = clock
  BY <1>1 DEF TxStep, LockSeller, RestoreDormant, LockPost, CheckPolicy,
              CountActive, CommitCreate, CommitRestore, CommitRenew, Rollback,
              storeVars
<1>2. ASSUME NEW w \in Workers, ExpiryStep(w) PROVE clock' = clock
  BY <1>2 DEF ExpiryStep, BeginBatch, LockBatch, CommitBatch, Push, AbortBatch,
              storeVars
<1>3. ASSUME UNCHANGED vars PROVE clock' = clock
  BY <1>3 DEF vars, storeVars
<1>4. ASSUME LifecycleNext PROVE clock' = clock \/ clock' = clock + 1
  BY <1>1, <1>4 DEF LifecycleNext, BeginCreate, BeginRestore, BeginRenew,
     MarkSold, Remove, Hide, SetAccount, Ban, Lift, Tick, storeVars
<1> QED BY <1>2, <1>3, <1>4 DEF Next

\* Requests under way stay about a seller and a post that exist.
LEMMA RequestsNext ==
  ASSUME TypeOK, RowsOK, RequestsOK, PostEffect, [Next]_vars
  PROVE  RequestsOK'
<1> SUFFICES ASSUME NEW t \in Txns, tx'[t].pc # "idle"
             PROVE  /\ tx'[t].seller \in Sellers
                    /\ tx'[t].now <= clock'
                    /\ tx'[t].op # "create" =>
                         tx'[t].post \in Posts /\ posts'[tx'[t].post].status # "none"
                    /\ tx'[t].op = "restore"
                       \/ (tx'[t].op = "renew" /\ tx'[t].pc \in Holding) =>
                         posts'[tx'[t].post].seller = tx'[t].seller
  BY DEF RequestsOK, Exists
<1>0. /\ tx[t] \in Request /\ clock \in Nat /\ clock' \in Nat /\ clock <= clock'
      /\ tx[t].now \in Nat
  BY ClockAdvances DEF TypeOK, StoreTypeOK, TxTypeOK, Request
<1>1. \A p \in Posts : Exists(p) => /\ posts'[p].status # "none"
                                    /\ posts'[p].seller = posts[p].seller
  BY DEF PostEffect
<1>2. CASE Arrives(t)
  BY <1>0, <1>1, <1>2 DEF Arrives, Holding
<1>3. CASE KeepsLocks(t)
  BY <1>0, <1>1, <1>3 DEF KeepsLocks, RequestsOK
<1>4. CASE LockSeller(t) \/ LockPost(t) \/ CheckPolicy(t) \/ CountActive(t)
  <2>1. /\ tx'[t].seller = tx[t].seller /\ tx'[t].op = tx[t].op
        /\ tx'[t].post = tx[t].post /\ tx[t].pc # "idle"
        /\ tx'[t].now = tx[t].now \/ tx'[t].now = clock
    BY <1>4, StatementFrame
  <2>2. tx'[t].op = "renew" /\ tx'[t].pc \in Holding =>
          posts[tx[t].post].seller = tx[t].seller
    <3>1. CASE LockSeller(t)
      <4>1. tx[t].op # "create" => tx'[t].pc = "post"
        BY <1>0, <3>1 DEF LockSeller, TypeOK, TxTypeOK, Request
      <4> QED BY <2>1, <4>1 DEF Holding
    <3>2. CASE LockPost(t)
      BY <2>1, <3>2 DEF LockPost, LockPostToRestore, LockPostToRenew
    <3>3. CASE CheckPolicy(t) \/ CountActive(t)
      BY <2>1, <3>3 DEF CheckPolicy, CountActive, RequestsOK, Holding
    <3> QED BY <1>4, <3>1, <3>2, <3>3
  <2> QED BY <1>0, <1>1, <2>1, <2>2 DEF RequestsOK
<1> QED BY <1>2, <1>3, <1>4, RequestsMove DEF RequestEffect

\* A request keeps the locks its next statement relies on.
LEMMA LocksNext ==
  ASSUME TypeOK, RowsOK, RequestsOK, LocksHeld, [Next]_vars
  PROVE  LocksHeld'
<1> SUFFICES ASSUME NEW t \in Txns
             PROVE  /\ tx'[t].pc \in Holding \cup {"post"} =>
                         sellerLock'[tx'[t].seller] = t
                    /\ tx'[t].pc \in Holding /\ tx'[t].op # "create" =>
                         postLock'[tx'[t].post] = t
  BY DEF LocksHeld
<1>0. /\ tx \in [Txns -> Request]
      /\ sellerLock \in [Sellers -> Txns \cup {None}]
      /\ postLock \in [Posts -> Txns \cup Workers \cup {None}]
  BY DEF TypeOK, StoreTypeOK, TxTypeOK
<1>1. CASE Arrives(t) \/ tx'[t].pc = "idle"
  BY <1>1 DEF Arrives, Holding
<1>2. CASE KeepsLocks(t)
  BY <1>2 DEF KeepsLocks, LocksHeld, RequestsOK, Holding
<1>3. CASE LockSeller(t)
  <2>1. /\ tx'[t].seller = tx[t].seller /\ tx[t].seller \in Sellers
        /\ sellerLock'[tx[t].seller] = t
    BY <1>0, <1>3 DEF LockSeller, RequestsOK, Request
  <2>2. tx'[t].op # "create" => tx'[t].pc = "post"
    BY <1>0, <1>3 DEF LockSeller, Request
  <2> QED BY <2>1, <2>2 DEF Holding
<1>4. CASE LockPost(t)
  <2>1. /\ tx'[t].seller = tx[t].seller /\ tx'[t].post = tx[t].post
        /\ tx[t].post \in Posts
    BY <1>0, <1>4 DEF LockPost, LockPostToRestore, LockPostToRenew, RequestsOK,
                      Request
  <2>2. postLock'[tx[t].post] = t /\ sellerLock'[tx[t].seller] = t
    BY <1>0, <1>4, <2>1 DEF LockPost, LocksHeld
  <2> QED BY <2>1, <2>2
<1>5. CASE CheckPolicy(t) \/ CountActive(t)
  <2>1. /\ tx'[t].seller = tx[t].seller /\ tx'[t].post = tx[t].post
        /\ tx'[t].op = tx[t].op /\ tx[t].pc \in Holding
        /\ sellerLock' = sellerLock /\ postLock' = postLock
    BY <1>0, <1>5 DEF CheckPolicy, CountActive, storeVars, Request, Holding
  <2> QED BY <2>1 DEF LocksHeld
<1> QED BY <1>1, <1>2, <1>3, <1>4, <1>5, RequestsMove DEF RequestEffect

\* A post locked for a renewal stays renewable until the write.
LEMMA RenewableNext ==
  ASSUME TypeOK, RowsOK, RequestsOK, LocksHeld, RenewableHeld, PostEffect,
         [Next]_vars
  PROVE  RenewableHeld'
<1> SUFFICES ASSUME NEW t \in Txns, tx'[t].pc \in Holding, tx'[t].op = "renew"
             PROVE  posts'[tx'[t].post].status \in {"active", "expired"}
  BY DEF RenewableHeld
<1>0. tx \in [Txns -> Request]
  BY DEF TypeOK, TxTypeOK
<1>1. ASSUME tx[t].pc \in Holding, tx[t].op = "renew", tx'[t].post = tx[t].post
      PROVE  posts'[tx'[t].post].status \in {"active", "expired"}
  <2>1. tx[t].post \in Posts /\ postLock[tx[t].post] = t /\ t # None
    BY <1>1, NoneAssumption DEF RequestsOK, LocksHeld, Holding
  <2> QED BY <1>1, <2>1 DEF RenewableHeld, PostEffect
<1>2. CASE Arrives(t) \/ tx'[t].pc = "idle"
  BY <1>2 DEF Arrives, Holding
<1>3. CASE KeepsLocks(t)
  BY <1>1, <1>3 DEF KeepsLocks
<1>4. CASE LockSeller(t)
  BY <1>0, <1>4 DEF LockSeller, Holding, Request
<1>5. CASE LockPost(t)
  BY <1>0, <1>5 DEF LockPost, LockPostToRestore, LockPostToRenew, Request
<1>6. CASE CheckPolicy(t) \/ CountActive(t)
  BY <1>0, <1>1, <1>6 DEF CheckPolicy, CountActive, Holding, Request
<1> QED BY <1>2, <1>3, <1>4, <1>5, <1>6, RequestsMove DEF RequestEffect

-----------------------------------------------------------------------------
(* The quota *)

\* A seller has finitely many posts on display.
LEMMA ActiveFinite ==
  ASSUME NEW s, NEW now
  PROVE  IsFiniteSet(ActiveOf(s, now)) /\ Cardinality(ActiveOf(s, now)) \in Nat
<1>1. IsFiniteSet(ActiveOf(s, now))
  BY PostsAssumption, FS_Subset DEF ActiveOf
<1> QED BY <1>1, FS_CardinalityType

\* Fewer posts on display, fewer counted.
LEMMA ActiveShrinks ==
  ASSUME NEW s, NEW now, NEW A, A \subseteq ActiveOf(s, now)
  PROVE  /\ IsFiniteSet(A) /\ Cardinality(A) \in Nat
         /\ Cardinality(A) <= Cardinality(ActiveOf(s, now))
BY ActiveFinite, FS_Subset, FS_CardinalityType

\* One more post, at most one more counted.
LEMMA ActiveGrows ==
  ASSUME NEW s, NEW now, NEW p, NEW A, A \subseteq ActiveOf(s, now) \cup {p}
  PROVE  /\ IsFiniteSet(A) /\ Cardinality(A) \in Nat
         /\ Cardinality(A) <= Cardinality(ActiveOf(s, now)) + 1
<1> DEFINE B == ActiveOf(s, now) \cup {p}
<1>1. IsFiniteSet(B) /\ Cardinality(B) \in Nat
      /\ Cardinality(B) <= Cardinality(ActiveOf(s, now)) + 1
  BY ActiveFinite, FS_AddElement, FS_CardinalityType
<1>2. IsFiniteSet(A) /\ Cardinality(A) <= Cardinality(B)
  BY <1>1, FS_Subset
<1>3. Cardinality(A) \in Nat
  BY <1>2, FS_CardinalityType
<1> QED BY <1>1, <1>2, <1>3, ActiveFinite

\* Room stays while posts leave, and one more post uses it up.
LEMMA RoomKept ==
  ASSUME NEW s, NEW now, NEW A, A \subseteq ActiveOf(s, now),
         Cardinality(ActiveOf(s, now)) < Quota
  PROVE  Cardinality(A) < Quota
<1>1. Cardinality(A) \in Nat /\ Cardinality(ActiveOf(s, now)) \in Nat
      /\ Cardinality(A) <= Cardinality(ActiveOf(s, now))
  BY ActiveShrinks, ActiveFinite
<1> QED BY <1>1, LimitAssumption

\* One more post on display than fewer than POST_QUOTA is within POST_QUOTA.
LEMMA RoomUsed ==
  ASSUME NEW s, NEW now, NEW p, NEW A, A \subseteq ActiveOf(s, now) \cup {p},
         Cardinality(ActiveOf(s, now)) < Quota
  PROVE  Cardinality(A) <= Quota
<1>1. Cardinality(A) \in Nat /\ Cardinality(ActiveOf(s, now)) \in Nat
      /\ Cardinality(A) <= Cardinality(ActiveOf(s, now)) + 1
  BY ActiveGrows, ActiveFinite
<1> QED BY <1>1, LimitAssumption

\* In a step, a seller's posts on display only leave, unless one request that
\* has counted enters one post of this seller.
LEMMA ActiveStep ==
  ASSUME TypeOK, RowsOK, PostEffect, NEW s \in Sellers
  PROVE  \/ ActiveOf(s, clock)' \subseteq ActiveOf(s, clock)
         \/ \E t \in Txns, p \in Posts :
              /\ Enters(t, p) /\ tx[t].seller = s
              /\ ActiveOf(s, clock)' \subseteq ActiveOf(s, clock) \cup {p}
<1>0. \A q \in Posts : posts[q].seller = s => Exists(q) \/ posts[q] = NoRow
  BY DEF RowsOK
<1>1. ASSUME NEW q \in Posts, q \in ActiveOf(s, clock)', LiveAt(q, clock)
      PROVE  q \in ActiveOf(s, clock)
  <2>1. Exists(q) /\ posts'[q].seller = s
    BY <1>1 DEF ActiveOf, LiveAt, Exists
  <2> QED BY <1>1, <2>1 DEF PostEffect, ActiveOf
<1>2. CASE \A q \in ActiveOf(s, clock)' : LiveAt(q, clock)
  BY <1>1, <1>2 DEF ActiveOf
<1>3. CASE \E q \in ActiveOf(s, clock)' : ~LiveAt(q, clock)
  <2>1. PICK q \in ActiveOf(s, clock)' : ~LiveAt(q, clock)
    BY <1>3
  <2>2. q \in Posts /\ LiveAt(q, clock)' /\ posts'[q].seller = s
    BY <2>1 DEF ActiveOf
  <2>3. PICK t \in Txns : Enters(t, q)
    BY <2>1, <2>2 DEF PostEffect
  <2>4. ASSUME NEW r \in ActiveOf(s, clock)', r # q
        PROVE  r \in ActiveOf(s, clock)
    BY <2>3, <2>4 DEF Enters, ActiveOf, LiveAt
  <2> QED BY <2>2, <2>3, <2>4 DEF Enters
<1> QED BY <1>2, <1>3

\* No step takes a seller over POST_QUOTA.
LEMMA QuotaNext ==
  ASSUME TypeOK, RowsOK, RoomHeld, QuotaRespected, PostEffect
  PROVE  QuotaRespected'
<1> SUFFICES ASSUME NEW s \in Sellers
             PROVE  Cardinality(ActiveOf(s, clock)') <= Quota
  BY DEF QuotaRespected
<1>1. CASE ActiveOf(s, clock)' \subseteq ActiveOf(s, clock)
  BY <1>1, ActiveShrinks, ActiveFinite, LimitAssumption DEF QuotaRespected
<1>2. ASSUME NEW t \in Txns, NEW p \in Posts, Enters(t, p), tx[t].seller = s,
             ActiveOf(s, clock)' \subseteq ActiveOf(s, clock) \cup {p}
      PROVE  Cardinality(ActiveOf(s, clock)') <= Quota
  <2>1. Cardinality(ActiveOf(s, clock)) < Quota
    BY <1>2 DEF Enters, RoomHeld
  <2> QED BY <1>2, <2>1, RoomUsed
<1> QED BY <1>1, <1>2, ActiveStep

\* A request that counted room still has it when it writes.
LEMMA RoomNext ==
  ASSUME TypeOK, RowsOK, RequestsOK, LocksHeld, RoomHeld, PostEffect,
         [Next]_vars
  PROVE  RoomHeld'
<1> SUFFICES ASSUME NEW t \in Txns, tx'[t].pc = "write"
             PROVE  Cardinality(ActiveOf(tx[t].seller, clock)') < Quota
  BY DEF RoomHeld
<1>0. /\ tx \in [Txns -> Request] /\ tx[t] \in Request /\ clock \in Nat
      /\ \A q \in Posts : posts[q].expiresAt \in Nat
  BY DEF TypeOK, StoreTypeOK, TxTypeOK, PostRow
<1>s. PICK s \in Sellers \cup {None} : s = tx[t].seller
  BY <1>0 DEF Request
<1>a. ASSUME tx'[t].seller = s, Cardinality(ActiveOf(s, clock)') < Quota
      PROVE  Cardinality(ActiveOf(tx[t].seller, clock)') < Quota
  <2>1. ActiveOf(tx[t].seller, clock)' = ActiveOf(s, clock)'
    BY <1>a DEF ActiveOf
  <2> QED BY <1>a, <2>1
<1>1. CASE Arrives(t) \/ tx'[t].pc = "idle"
  BY <1>1 DEF Arrives
<1>2. CASE LockSeller(t) \/ LockPost(t) \/ CheckPolicy(t)
  <2>1. CASE LockSeller(t)
    <3>1. \/ tx'[t] = [tx[t] EXCEPT !.pc = "policy", !.now = clock]
          \/ tx'[t] = [tx[t] EXCEPT !.pc = "post"]
      BY <1>0, <2>1 DEF LockSeller
    <3> QED BY <1>0, <3>1 DEF Request
  <2>2. CASE LockPost(t) \/ CheckPolicy(t)
    BY <1>0, <2>2 DEF LockPost, CheckPolicy, Request
  <2> QED BY <1>2, <2>1, <2>2
<1>3. CASE CountActive(t)
  <2>1. /\ tx'[t].seller = s /\ posts' = posts /\ clock' = clock
        /\ Cardinality(ActiveOf(s, tx[t].now)) < Quota
        /\ tx[t].now <= clock /\ tx[t].now \in Nat
    BY <1>0, <1>3, <1>s DEF CountActive, storeVars, RequestsOK, Request
  <2>2. ActiveOf(s, clock)' \subseteq ActiveOf(s, tx[t].now)
    BY <1>0, <2>1 DEF ActiveOf, LiveAt
  <2>3. Cardinality(ActiveOf(s, clock)') < Quota
    BY <2>1, <2>2, RoomKept
  <2> QED BY <1>a, <2>1, <2>3
<1>4. CASE KeepsLocks(t)
  <2>1. /\ tx'[t].seller = s /\ tx'[t] = tx[t]
        /\ s \in Sellers /\ sellerLock[s] = t
        /\ Cardinality(ActiveOf(s, clock)) < Quota
    BY <1>4, <1>s DEF KeepsLocks, RequestsOK, LocksHeld, RoomHeld, Holding
  <2>2. CASE ActiveOf(s, clock)' \subseteq ActiveOf(s, clock)
    BY <1>a, <2>1, <2>2, RoomKept
  <2>3. ASSUME NEW u \in Txns, NEW p \in Posts, Enters(u, p), tx[u].seller = s
        PROVE  FALSE
    <3>1. u = t
      BY <2>1, <2>3 DEF Enters, LocksHeld, Holding
    <3> QED BY <1>0, <2>1, <2>3, <3>1 DEF Enters, EndTx, Idle
  <2> QED BY <2>1, <2>2, <2>3, ActiveStep
<1> QED BY <1>1, <1>2, <1>3, <1>4, RequestsMove DEF RequestEffect

-----------------------------------------------------------------------------
(* The theorems *)

\* The empty shop satisfies the inductive invariant.
THEOREM LifecycleInvInit == Init => LifecycleInv
<1> SUFFICES ASSUME Init PROVE LifecycleInv
  OBVIOUS
<1>1. TypeOK
  BY TypeInit
<1>2. /\ \A p \in Posts : posts[p] = NoRow
      /\ \A t \in Txns : tx[t].pc = "idle"
  BY DEF Init, StoreInit, TxInit, Idle
<1>3. RowsOK /\ RequestsOK /\ LocksHeld /\ RenewableHeld /\ RoomHeld
  <2>1. RowsOK
    <3>1. NoRow.status = "none"
      BY DEF NoRow
    <3> QED BY <1>2, <3>1 DEF RowsOK, Exists
  <2>2. RequestsOK /\ RoomHeld
    BY <1>2 DEF RequestsOK, RoomHeld
  <2>3. LocksHeld /\ RenewableHeld
    BY <1>2 DEF LocksHeld, RenewableHeld, Holding
  <2> QED BY <2>1, <2>2, <2>3
<1>4. TransactionState
  BY <1>2 DEF TransactionState, NoRow
<1>5. QuotaRespected
  <2>1. ASSUME NEW s \in Sellers PROVE ActiveOf(s, clock) = {}
    BY <1>2 DEF ActiveOf, LiveAt, NoRow
  <2> QED BY <2>1, FS_EmptySet, LimitAssumption DEF QuotaRespected
<1> QED BY <1>1, <1>3, <1>4, <1>5 DEF LifecycleInv

\* Every step of the listing system keeps the inductive invariant.
THEOREM LifecycleInvNext == LifecycleInv /\ [Next]_vars => LifecycleInv'
<1> SUFFICES ASSUME LifecycleInv, [Next]_vars PROVE LifecycleInv'
  OBVIOUS
<1>1. /\ TypeOK /\ RowsOK /\ RequestsOK /\ LocksHeld /\ RenewableHeld
      /\ TransactionState /\ RoomHeld /\ QuotaRespected
  BY DEF LifecycleInv
<1>2. PostEffect
  BY <1>1, EffectNext
<1>3. TypeOK'
  BY <1>1, TypeNext
<1>4. RowsOK' /\ TransactionState'
  BY <1>2 DEF PostEffect
<1>5. RequestsOK' /\ LocksHeld' /\ RenewableHeld'
  BY <1>1, <1>2, RequestsNext, LocksNext, RenewableNext
<1>6. RoomHeld' /\ QuotaRespected'
  BY <1>1, <1>2, RoomNext, QuotaNext
<1> QED BY <1>3, <1>4, <1>5, <1>6 DEF LifecycleInv

\* Every step keeps the inductive invariant, so every reachable state of a
\* listing system of any size satisfies it.
THEOREM LifecycleInvariant == Spec => []LifecycleInv
BY LifecycleInvInit, LifecycleInvNext, PTL DEF Spec

\* Type correctness of the listing lifecycle.
THEOREM TypeCorrect == Spec => []TypeOK
<1>1. LifecycleInv => TypeOK
  BY DEF LifecycleInv
<1> QED BY <1>1, LifecycleInvariant, PTL

\* Whatever create, restore and renew requests race, and however many there
\* are, no seller ever has more than POST_QUOTA listings on display.
THEOREM QuotaSafe == Spec => []QuotaRespected
<1>1. LifecycleInv => QuotaRespected
  BY DEF LifecycleInv
<1> QED BY <1>1, LifecycleInvariant, PTL

\* The CHECK constraint on a post's sale is never what stops a transaction:
\* sales, moderation, expiry, restores and renewals keep it by themselves.
THEOREM TransactionStateSafe == Spec => []TransactionState
<1>1. LifecycleInv => TransactionState
  BY DEF LifecycleInv
<1> QED BY <1>1, LifecycleInvariant, PTL

-----------------------------------------------------------------------------
(* Posting restrictions *)

\* The SQL by which administrators search restrictions finds a row under one
\* status, and it is the one the code shows for the row; a row that ends when it
\* starts, which the service refuses to issue, would be found under two.
THEOREM StatusesAgree ==
  ASSUME NEW row \in RestrictionRow, EndsAfter(row, row.from), NEW now \in Nat,
         NEW status \in RestrictionStatus
  PROVE  StatusSql(row, status, now) <=> StatusAt(row, now) = status
<1> DEFINE ends == EndsAfter(row, now)
           starts == row.from <= now
           lifted == row.lifted
<1>1. lifted \in BOOLEAN
  BY DEF RestrictionRow
<1>2. (row.from > now <=> ~starts) /\ (~starts => ends)
  BY DEF RestrictionRow, EndsAfter
<1>3. StatusAt(row, now) = IF lifted THEN "LIFTED" ELSE IF starts /\ ends THEN "ACTIVE"
                           ELSE IF ~starts THEN "SCHEDULED" ELSE "EXPIRED"
  BY <1>2 DEF StatusAt, InForce
<1>4. /\ StatusSql(row, "LIFTED", now) <=> lifted
      /\ StatusSql(row, "SCHEDULED", now) <=> ~lifted /\ ~starts
      /\ StatusSql(row, "ACTIVE", now) <=> ~lifted /\ starts /\ ends
      /\ StatusSql(row, "EXPIRED", now) <=> ~lifted /\ ~ends
  BY <1>2 DEF StatusSql
<1> HIDE DEF ends, starts, lifted
<1> QED BY <1>1, <1>2, <1>3, <1>4 DEF RestrictionStatus
=============================================================================
