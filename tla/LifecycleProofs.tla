---------------------------- MODULE LifecycleProofs ----------------------------
(***************************************************************************)
(* What the operations of the listing lifecycle do to its tables, whatever  *)
(* other processes run beside them: the facts that the proofs about the     *)
(* listing system and about payments share.                                 *)
(***************************************************************************)
EXTENDS PostLifecycle, TLAPS

-----------------------------------------------------------------------------
(* Types of what the operations write *)

\* A request moves on to a later step and may have read the clock.
LEMMA TypeAdvance ==
  ASSUME NEW r \in Request, NEW pc \in Step, NEW now \in Nat
  PROVE  /\ [r EXCEPT !.pc = pc] \in Request
         /\ [r EXCEPT !.pc = pc, !.now = now] \in Request
BY DEF Request

\* A request that has just arrived.
LEMMA TypeArrival ==
  ASSUME NEW s \in Sellers \cup {None}, NEW p \in Posts, NEW ref \in Refs \cup {None}
  PROVE  /\ [Idle EXCEPT !.pc = "seller", !.op = "create", !.seller = s]
              \in Request
         /\ [Idle EXCEPT !.pc = "seller", !.op = "restore", !.seller = s,
                         !.post = p] \in Request
         /\ [Idle EXCEPT !.pc = "seller", !.op = "renew", !.seller = s,
                         !.post = p, !.ref = ref] \in Request
BY DEF Idle, Request, Step

\* What the operations write into a post row.
LEMMA TypeRow ==
  ASSUME NEW row \in PostRow, NEW status \in Status, NEW until \in Nat,
         NEW number \in Nat, NEW buyer \in Buyers \cup {None},
         NEW deleted \in BOOLEAN
  PROVE  /\ [row EXCEPT !.deleted = TRUE] \in PostRow
         /\ [row EXCEPT !.status = status] \in PostRow
         /\ [row EXCEPT !.deleted = deleted, !.status = status] \in PostRow
         /\ [row EXCEPT !.status = status, !.expiresAt = until,
                        !.renewals = number] \in PostRow
         /\ [row EXCEPT !.status = status, !.sold = TRUE, !.buyer = buyer]
              \in PostRow
<1>1. [row EXCEPT !.deleted = TRUE] \in PostRow
  BY DEF PostRow
<1>2. [row EXCEPT !.status = status] \in PostRow
  BY DEF PostRow
<1>3. [row EXCEPT !.deleted = deleted, !.status = status] \in PostRow
  BY DEF PostRow
<1>4. [row EXCEPT !.status = status, !.expiresAt = until, !.renewals = number]
        \in PostRow
  BY DEF PostRow
<1>5. [row EXCEPT !.status = status, !.sold = TRUE, !.buyer = buyer] \in PostRow
  BY DEF PostRow
<1> QED BY <1>1, <1>2, <1>3, <1>4, <1>5

\* Writing one row keeps the type of the table.
LEMMA TypeWrite ==
  ASSUME posts \in [Posts -> PostRow], NEW p \in Posts, NEW row \in PostRow,
         posts' = [posts EXCEPT ![p] = row]
  PROVE  posts' \in [Posts -> PostRow]
OBVIOUS

-----------------------------------------------------------------------------
(* Steps of the lifecycle *)

\* Whatever row of the table it writes, if any, a step of the lifecycle writes
\* rows of posts only.
LEMMA PostsTyped ==
  ASSUME clock \in Nat, posts \in [Posts -> PostRow], TxTypeOK, LifecycleNext
  PROVE  posts' \in [Posts -> PostRow]
<1>w. ASSUME NEW p, NEW row, p \in Posts => row \in PostRow,
             posts' = [posts EXCEPT ![p] = row]
      PROVE  posts' \in [Posts -> PostRow]
  BY <1>w
<1>s. ASSUME UNCHANGED posts PROVE posts' \in [Posts -> PostRow]
  BY <1>s
<1>1. ASSUME NEW t \in Txns, TxStep(t) PROVE posts' \in [Posts -> PostRow]
  <2> DEFINE p == tx[t].post
  <2>0. tx[t] \in Request
    BY DEF TxTypeOK
  <2>1. CASE RestoreDormant(t)
    <3> DEFINE status == IF posts[p].status = "active" THEN "expired"
                                                       ELSE posts[p].status
               row == [posts[p] EXCEPT !.deleted = FALSE, !.status = status]
    <3>1. ASSUME p \in Posts PROVE row \in PostRow
      <4>1. posts[p] \in PostRow /\ status \in Status
        BY <3>1 DEF PostRow, Status
      <4> QED BY <4>1, TypeRow
    <3>2. posts' = [posts EXCEPT ![p] = row]
      BY <2>1 DEF RestoreDormant
    <3> HIDE DEF row, p
    <3> QED BY <3>1, <3>2, <1>w
  <2>2. ASSUME NEW q \in Posts, CommitCreate(t, q) PROVE posts' \in [Posts -> PostRow]
    <3>1. tx[t].now + Lifetime \in Nat /\ tx[t].seller \in Sellers \cup {None}
      BY <2>0, LimitAssumption DEF Request
    <3> QED BY <2>2, <3>1 DEF CommitCreate, NoRow, PostRow, Status
  <2>3. CASE CommitRestore(t)
    <3> DEFINE row == [posts[p] EXCEPT !.deleted = FALSE]
    <3>1. ASSUME p \in Posts PROVE row \in PostRow
      BY <3>1 DEF PostRow
    <3>2. posts' = [posts EXCEPT ![p] = row]
      BY <2>3 DEF CommitRestore
    <3> HIDE DEF row, p
    <3> QED BY <3>1, <3>2, <1>w
  <2>4. CASE CommitRenew(t)
    <3> DEFINE row == [posts[p] EXCEPT !.status = "active",
                                       !.expiresAt = tx[t].now + Lifetime,
                                       !.renewals = posts[p].renewals + 1]
    <3>1. ASSUME p \in Posts PROVE row \in PostRow
      <4>1. /\ posts[p] \in PostRow /\ posts[p].renewals + 1 \in Nat
            /\ tx[t].now + Lifetime \in Nat /\ "active" \in Status
        BY <2>0, <3>1, LimitAssumption DEF Request, PostRow, Status
      <4> QED BY <4>1, TypeRow
    <3>2. posts' = [posts EXCEPT ![p] = row]
      BY <2>4 DEF CommitRenew
    <3> HIDE DEF row, p
    <3> QED BY <3>1, <3>2, <1>w
  <2>5. CASE UNCHANGED posts
    BY <2>5
  <2> QED BY <1>1, <2>1, <2>2, <2>3, <2>4, <2>5
          DEF TxStep, LockSeller, LockPost, CheckPolicy, CountActive, Rollback,
              storeVars
<1>2. ASSUME NEW p \in Posts, NEW buyer \in Buyers \cup {None},
             MarkSold(p, buyer)
      PROVE  posts' \in [Posts -> PostRow]
  <2>1. [posts[p] EXCEPT !.status = "sold", !.sold = TRUE, !.buyer = buyer] \in PostRow
    BY TypeRow DEF Status
  <2> QED BY <1>2, <1>w, <2>1 DEF MarkSold
<1>3. ASSUME NEW p \in Posts, Remove(p) \/ Hide(p) PROVE posts' \in [Posts -> PostRow]
  <2>1. /\ [posts[p] EXCEPT !.deleted = TRUE] \in PostRow
        /\ [posts[p] EXCEPT !.status = "hidden"] \in PostRow
    BY TypeRow DEF Status
  <2> QED BY <1>3, <1>w, <2>1 DEF Remove, Hide
<1>4. CASE UNCHANGED posts
  BY <1>4
<1> QED BY <1>1, <1>2, <1>3, <1>4
        DEF LifecycleNext, BeginCreate, BeginRestore, BeginRenew, SetAccount, Ban,
            Lift, Tick, storeVars

\* The requests keep their type, and the clock is a number.
LEMMA RequestsTyped ==
  ASSUME clock \in Nat, posts \in [Posts -> PostRow], TxTypeOK, LifecycleNext
  PROVE  TxTypeOK' /\ clock' \in Nat
<1> USE DEF TxTypeOK
<1>1. ASSUME NEW t \in Txns, TxStep(t) PROVE TxTypeOK' /\ clock' \in Nat
  <2>0. tx[t] \in Request /\ {"policy", "post", "count", "write"} \subseteq Step
    BY DEF Step
  <2>1. CASE EndTx(t)
    <3>1. Idle \in Request
      BY DEF Idle, Request, Step
    <3>2. clock' = clock
      BY <1>1 DEF TxStep, LockSeller, RestoreDormant, LockPost, CheckPolicy,
                  CountActive, CommitCreate, CommitRestore, CommitRenew, Rollback,
                  storeVars
    <3> QED BY <2>1, <3>1, <3>2 DEF EndTx
  <2>2. CASE LockSeller(t)
    BY <2>0, <2>2, TypeAdvance DEF LockSeller
  <2>3. CASE LockPost(t)
    BY <2>0, <2>3, TypeAdvance DEF LockPost
  <2>4. CASE CheckPolicy(t) \/ CountActive(t)
    BY <2>0, <2>4, TypeAdvance DEF CheckPolicy, CountActive, storeVars
  <2> QED BY <1>1, <2>1, <2>2, <2>3, <2>4
          DEF TxStep, RestoreDormant, CommitCreate, CommitRestore, CommitRenew,
              Rollback
<1>2. ASSUME NEW t \in Txns, NEW s \in Sellers, BeginCreate(t, s)
      PROVE  TxTypeOK' /\ clock' \in Nat
  <2>1. [Idle EXCEPT !.pc = "seller", !.op = "create", !.seller = s] \in Request
    BY DEF Idle, Request, Step
  <2> QED BY <1>2, <2>1 DEF BeginCreate, storeVars
<1>3. ASSUME NEW t \in Txns, NEW p \in Posts, BeginRestore(t, p)
      PROVE  TxTypeOK' /\ clock' \in Nat
  <2>1. posts[p].seller \in Sellers \cup {None}
    BY DEF PostRow
  <2> QED BY <1>3, <2>1, TypeArrival DEF BeginRestore, storeVars
<1>4. ASSUME NEW t \in Txns, NEW s \in Sellers, NEW p \in Posts,
             NEW ref \in Refs \cup {None}, BeginRenew(t, s, p, ref)
      PROVE  TxTypeOK' /\ clock' \in Nat
  BY <1>4, TypeArrival DEF BeginRenew, storeVars
<1>5. CASE UNCHANGED tx /\ clock' \in Nat
  BY <1>5
<1>6. CASE Tick
  BY <1>5, <1>6 DEF Tick
<1> HIDE DEF TxTypeOK
<1> QED BY <1>1, <1>2, <1>3, <1>4, <1>5, <1>6
        DEF LifecycleNext, MarkSold, Remove, Hide, SetAccount, Ban, Lift

\* Ending a transaction takes no lock, and releases nobody else's.
LEMMA ReleasedKeeps ==
  ASSUME NEW D, NEW H, None \in H, NEW lock \in [D -> H], NEW t
  PROVE  /\ Released(lock, t) \in [D -> H]
         /\ \A x \in D : Released(lock, t)[x] # None => Released(lock, t)[x] = lock[x]
         /\ \A x \in D : lock[x] # t => Released(lock, t)[x] = lock[x]
BY DEF Released

\* Requests take row locks for themselves only, when they are free; those of
\* the other processes stay where they are.
LEMMA LocksLifecycle ==
  ASSUME NEW H, Txns \subseteq H, None \in H,
         sellerLock \in [Sellers -> H], postLock \in [Posts -> H], LifecycleNext
  PROVE  /\ sellerLock' \in [Sellers -> H] /\ postLock' \in [Posts -> H]
         /\ \A c : c \notin Txns \cup {None} =>
              /\ \A s \in Sellers : sellerLock[s] = c => sellerLock'[s] = c
              /\ \A p \in Posts : postLock[p] = c => postLock'[p] = c
<1>1. ASSUME NEW t \in Txns, TxStep(t)
      PROVE  /\ sellerLock' \in [Sellers -> H] /\ postLock' \in [Posts -> H]
             /\ \A c : c \notin Txns \cup {None} =>
                  /\ \A s \in Sellers : sellerLock[s] = c => sellerLock'[s] = c
                  /\ \A p \in Posts : postLock[p] = c => postLock'[p] = c
  <2>1. CASE EndTx(t)
    BY <2>1, ReleasedKeeps DEF EndTx
  <2>2. CASE LockSeller(t)
    BY <2>2 DEF LockSeller
  <2>3. CASE LockPost(t)
    BY <2>3 DEF LockPost
  <2>4. CASE CheckPolicy(t) \/ CountActive(t)
    BY <2>4 DEF CheckPolicy, CountActive, storeVars
  <2> QED BY <1>1, <2>1, <2>2, <2>3, <2>4
          DEF TxStep, RestoreDormant, CommitCreate, CommitRestore, CommitRenew,
              Rollback
<1>2. CASE UNCHANGED <<sellerLock, postLock>>
  BY <1>2
<1> QED BY <1>1, <1>2
        DEF LifecycleNext, BeginCreate, BeginRestore, BeginRenew, MarkSold, Remove,
            Hide, SetAccount, Ban, Lift, Tick, storeVars

\* A post once inserted is never taken out of the table, and while another
\* process than a request has it locked, its row stays as it is.
LEMMA PostsLifecycle ==
  ASSUME posts \in [Posts -> PostRow], LifecycleNext, NEW p \in Posts, Exists(p),
         \A t \in Txns : tx[t].pc = "write" /\ tx[t].op # "create" =>
           tx[t].post \in Posts /\ postLock[tx[t].post] = t
  PROVE  /\ Exists(p)'
         /\ posts'[p] = posts[p] \/ postLock[p] \in Txns \cup {None}
<1>1. ASSUME NEW t \in Txns, TxStep(t)
      PROVE  /\ Exists(p)'
             /\ posts'[p] = posts[p] \/ postLock[p] \in Txns \cup {None}
  <2>0. posts[p] \in PostRow
    OBVIOUS
  <2>1. CASE RestoreDormant(t)
    <3>1. CASE tx[t].post = p
      <4> DEFINE status == IF posts[p].status = "active" THEN "expired"
                                                         ELSE posts[p].status
      <4>1. posts'[p] = [posts[p] EXCEPT !.deleted = FALSE, !.status = status]
        BY <2>1, <3>1 DEF RestoreDormant
      <4>2. posts'[p].status = status /\ status # "none"
        BY <2>0, <4>1 DEF PostRow, Exists
      <4> QED BY <2>1, <3>1, <4>2 DEF RestoreDormant, Exists
    <3>2. CASE tx[t].post # p
      BY <2>1, <3>2 DEF RestoreDormant, Exists
    <3> QED BY <3>1, <3>2
  <2>2. ASSUME NEW q \in Posts, CommitCreate(t, q)
        PROVE  Exists(p)' /\ posts'[p] = posts[p]
    BY <2>2 DEF CommitCreate, Exists
  <2>3. CASE CommitRestore(t)
    BY <2>0, <2>3 DEF CommitRestore, Exists, PostRow
  <2>4. CASE CommitRenew(t)
    BY <2>0, <2>4 DEF CommitRenew, Exists, PostRow
  <2>5. CASE UNCHANGED posts
    BY <2>5 DEF Exists
  <2> QED BY <1>1, <2>1, <2>2, <2>3, <2>4, <2>5
          DEF TxStep, LockSeller, LockPost, CheckPolicy, CountActive, Rollback,
              storeVars
<1>2. ASSUME NEW q \in Posts, NEW buyer \in Buyers \cup {None}, MarkSold(q, buyer)
      PROVE  Exists(p)' /\ (posts'[p] = posts[p] \/ postLock[p] = None)
  BY <1>2 DEF MarkSold, Grab, Exists, PostRow
<1>3. ASSUME NEW q \in Posts, Remove(q) \/ Hide(q)
      PROVE  Exists(p)' /\ (posts'[p] = posts[p] \/ postLock[p] = None)
  BY <1>3 DEF Remove, Hide, Grab, Exists, PostRow
<1>4. CASE UNCHANGED posts
  BY <1>4 DEF Exists
<1> QED BY <1>1, <1>2, <1>3, <1>4
        DEF LifecycleNext, BeginCreate, BeginRestore, BeginRenew, SetAccount, Ban,
            Lift, Tick, storeVars

\* A deleted account stays deleted.
LEMMA DeletedStays ==
  ASSUME LifecycleNext, NEW s \in Sellers, account[s] = "deleted"
  PROVE  account'[s] = "deleted"
<1>1. ASSUME NEW x \in Sellers, NEW state \in Moves, SetAccount(x, state)
      PROVE  account'[s] = "deleted"
  BY <1>1 DEF SetAccount
<1>2. CASE UNCHANGED account
  BY <1>2
<1> QED BY <1>1, <1>2
        DEF LifecycleNext, TxStep, LockSeller, RestoreDormant, LockPost, CheckPolicy,
            CountActive, CommitCreate, CommitRestore, CommitRenew, Rollback,
            BeginCreate, BeginRestore, BeginRenew, MarkSold, Remove, Hide, Ban,
            Lift, Tick, storeVars

=============================================================================
