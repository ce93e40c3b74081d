----------------------------- MODULE HistoryProofs -----------------------------
(***************************************************************************)
(* Proofs about what the listing lifecycle leaves behind (the history of    *)
(* renewals and the notifications), about who may put a listing on display, *)
(* and that the lifecycle implements the shop window.                       *)
(***************************************************************************)
EXTENDS PostSystemProofs

-----------------------------------------------------------------------------
(* What a step does to the tables *)

\* What a renewal writes.
LEMMA RenewalWrites ==
  ASSUME TypeOK, RequestsOK, NEW t \in Txns, CommitRenew(t)
  PROVE  LET p == tx[t].post
             until == tx[t].now + Lifetime
         IN /\ p \in Posts /\ Exists(p) /\ tx[t].pc = "write" /\ tx[t].op = "renew"
            /\ tx[t].now \in Nat /\ until \in Nat
            /\ tx[t].ref \notin UsedRefs
            /\ posts'[p].expiresAt = until
            /\ posts'[p].renewals = posts[p].renewals + 1
            /\ \A q \in Posts \ {p} : posts'[q] = posts[q]
            /\ ledger' = ledger \cup {[post |-> p, number |-> posts[p].renewals + 1,
                                       ref |-> tx[t].ref,
                                       previous |-> posts[p].expiresAt,
                                       until |-> until]}
            /\ clock' = clock /\ notices' = notices
<1> DEFINE p == tx[t].post
           until == tx[t].now + Lifetime
           number == posts[p].renewals + 1
           row == [posts[p] EXCEPT !.status = "active", !.expiresAt = until,
                                   !.renewals = number]
<1>1. /\ p \in Posts /\ Exists(p) /\ tx[t].pc = "write" /\ tx[t].op = "renew"
      /\ tx[t].ref \notin UsedRefs /\ clock' = clock /\ notices' = notices
  BY DEF CommitRenew, RequestsOK
<1>2. tx[t].now \in Nat /\ until \in Nat /\ posts \in [Posts -> PostRow]
  BY LimitAssumption DEF TypeOK, StoreTypeOK, TxTypeOK, Request
<1>3. posts' = [posts EXCEPT ![p] = row]
  BY DEF CommitRenew
<1>4. row.expiresAt = until /\ row.renewals = number
  BY <1>1, <1>2 DEF PostRow
<1>5. /\ posts'[p].expiresAt = until /\ posts'[p].renewals = number
      /\ \A q \in Posts \ {p} : posts'[q] = posts[q]
  <2> HIDE DEF p, row
  <2> QED BY <1>1, <1>2, <1>3, <1>4
<1>6. ledger' = ledger \cup {[post |-> p, number |-> number, ref |-> tx[t].ref,
                              previous |-> posts[p].expiresAt, until |-> until]}
  BY DEF CommitRenew
<1> QED BY <1>1, <1>2, <1>5, <1>6

\* Deadline and renewal count of a row stay as they are, unless the row is
\* inserted or renewed.
LEMMA DeadlineMoves ==
  ASSUME TypeOK, RowsOK, RequestsOK, [Next]_vars, NEW q \in Posts
  PROVE  \/ /\ posts'[q].expiresAt = posts[q].expiresAt
            /\ posts'[q].renewals = posts[q].renewals
         \/ ~Exists(q) /\ posts'[q].renewals = 0
         \/ \E t \in Txns : CommitRenew(t) /\ tx[t].post = q
<1> DEFINE Same == /\ posts'[q].expiresAt = posts[q].expiresAt
                   /\ posts'[q].renewals = posts[q].renewals
           Effect == \/ Same
                     \/ ~Exists(q) /\ posts'[q].renewals = 0
                     \/ \E t \in Txns : CommitRenew(t) /\ tx[t].post = q
<1>0. posts \in [Posts -> PostRow] /\ posts[q] \in PostRow
  BY DEF TypeOK, StoreTypeOK
<1>s. ASSUME UNCHANGED posts PROVE Effect
  BY <1>s
<1>w. ASSUME NEW p, NEW deleted, NEW status,
             posts' = [posts EXCEPT ![p] =
                         [posts[p] EXCEPT !.deleted = deleted, !.status = status]]
      PROVE  Same
  <2>1. CASE p = q
    <3>1. posts'[q] = [posts[q] EXCEPT !.deleted = deleted, !.status = status]
      BY <1>0, <1>w, <2>1
    <3> QED BY <1>0, <3>1 DEF PostRow
  <2>2. CASE p # q
    BY <1>0, <1>w, <2>2
  <2> QED BY <2>1, <2>2
<1>1. ASSUME NEW t \in Txns, TxStep(t) PROVE Effect
  <2>1. CASE RestoreDormant(t)
    BY <1>w, <2>1 DEF RestoreDormant
  <2>2. ASSUME NEW p \in Posts, CommitCreate(t, p) PROVE Effect
    <3>1. CASE p = q
      <4>1. posts'[q] = [NoRow EXCEPT !.seller = tx[t].seller, !.status = "active",
                                      !.expiresAt = tx[t].now + Lifetime]
        BY <1>0, <2>2, <3>1 DEF CommitCreate
      <4>2. ~Exists(q) /\ posts'[q].renewals = 0
        BY <2>2, <3>1, <4>1 DEF CommitCreate, NoRow
      <4> QED BY <4>2
    <3>2. CASE p # q
      BY <1>0, <2>2, <3>2 DEF CommitCreate
    <3> QED BY <3>1, <3>2
  <2>3. CASE CommitRestore(t)
    <3>1. CASE tx[t].post = q
      <4>1. posts'[q] = [posts[q] EXCEPT !.deleted = FALSE]
        BY <1>0, <2>3, <3>1 DEF CommitRestore
      <4> QED BY <1>0, <4>1 DEF PostRow
    <3>2. CASE tx[t].post # q
      BY <1>0, <2>3, <3>2 DEF CommitRestore
    <3> QED BY <3>1, <3>2
  <2>4. CASE CommitRenew(t)
    <3>1. CASE tx[t].post = q
      BY <2>4, <3>1
    <3>2. CASE tx[t].post # q
      BY <2>4, <3>2, RenewalWrites
    <3> QED BY <3>1, <3>2
  <2>5. CASE UNCHANGED posts
    BY <1>s, <2>5
  <2> QED BY <1>1, <2>1, <2>2, <2>3, <2>4, <2>5
          DEF TxStep, LockSeller, LockPost, CheckPolicy, CountActive, Rollback,
              storeVars
<1>2. ASSUME NEW p \in Posts, NEW buyer \in Buyers \cup {None}, MarkSold(p, buyer)
      PROVE  Effect
  BY <1>0, <1>2 DEF MarkSold, PostRow
<1>3. ASSUME NEW p \in Posts, Remove(p) \/ Hide(p) PROVE Effect
  BY <1>0, <1>3 DEF Remove, Hide, PostRow
<1>4. CASE LifecycleNext
  BY <1>s, <1>1, <1>2, <1>3, <1>4
     DEF LifecycleNext, BeginCreate, BeginRestore, BeginRenew, SetAccount, Ban,
         Lift, Tick, storeVars
<1>5. ASSUME NEW w \in Workers, ExpiryStep(w) PROVE Effect
  <2>1. CASE CommitBatch(w)
    <3>1. \/ posts'[q] = posts[q]
          \/ posts'[q] = [posts[q] EXCEPT !.status = "expired"]
      BY <2>1 DEF CommitBatch
    <3> QED BY <1>0, <3>1 DEF PostRow
  <2>2. CASE ~CommitBatch(w)
    BY <1>s, <1>5, <2>2 DEF ExpiryStep, BeginBatch, LockBatch, Push, AbortBatch,
                            storeVars
  <2> QED BY <2>1, <2>2
<1>6. CASE UNCHANGED vars
  BY <1>s, <1>6 DEF vars, storeVars
<1> QED BY <1>4, <1>5, <1>6 DEF Next

\* Only a renewal writes the history.
LEMMA LedgerMoves ==
  ASSUME [Next]_vars
  PROVE  ledger' = ledger \/ \E t \in Txns : CommitRenew(t)
<1>1. CASE LifecycleNext
  BY <1>1 DEF LifecycleNext, TxStep, LockSeller, RestoreDormant, LockPost,
     CheckPolicy, CountActive, CommitCreate, CommitRestore, Rollback, BeginCreate,
     BeginRestore, BeginRenew, MarkSold, Remove, Hide, SetAccount, Ban, Lift, Tick,
     storeVars
<1>2. ASSUME NEW w \in Workers, ExpiryStep(w) PROVE ledger' = ledger
  BY <1>2 DEF ExpiryStep, BeginBatch, LockBatch, CommitBatch, Push, AbortBatch,
     storeVars
<1>3. CASE UNCHANGED vars
  BY <1>3 DEF vars, storeVars
<1> QED BY <1>1, <1>2, <1>3 DEF Next

\* Accounts move, and restrictions are issued, only while nobody holds the
\* seller; lifting a restriction asks nobody.
LEMMA SellersMove ==
  ASSUME TypeOK, [Next]_vars, NEW s \in Sellers, sellerLock[s] # None
  PROVE  account'[s] = account[s] /\ restrictions'[s] \subseteq restrictions[s]
<1> DEFINE Keeps == /\ account'[s] = account[s]
                    /\ restrictions'[s] \subseteq restrictions[s]
<1>0. /\ account \in [Sellers -> AccountState]
      /\ restrictions \in [Sellers -> SUBSET Window]
  BY DEF TypeOK, StoreTypeOK
<1>1. ASSUME UNCHANGED <<account, restrictions>> PROVE Keeps
  BY <1>1
<1>2. ASSUME NEW x \in Sellers, NEW state \in Moves, SetAccount(x, state) PROVE Keeps
  BY <1>0, <1>2 DEF SetAccount
<1>3. ASSUME NEW x \in Sellers, NEW r \in Windows, Ban(x, r) \/ Lift(x, r)
      PROVE  Keeps
  BY <1>0, <1>3 DEF Ban, Lift
<1>4. CASE LifecycleNext
  BY <1>1, <1>2, <1>3, <1>4 DEF LifecycleNext, TxStep, LockSeller, RestoreDormant,
     LockPost, CheckPolicy, CountActive, CommitCreate, CommitRestore, CommitRenew,
     Rollback, BeginCreate, BeginRestore, BeginRenew, MarkSold, Remove, Hide, Tick,
     storeVars
<1>5. ASSUME NEW w \in Workers, ExpiryStep(w) PROVE Keeps
  BY <1>1, <1>5 DEF ExpiryStep, BeginBatch, LockBatch, CommitBatch, Push,
     AbortBatch, storeVars
<1>6. CASE UNCHANGED vars
  BY <1>1, <1>6 DEF vars, storeVars
<1> QED BY <1>4, <1>5, <1>6 DEF Next

-----------------------------------------------------------------------------
(* What a request and its locks protect *)

\* A renewal is written for the cycle that was checked.
LEMMA CycleNext ==
  ASSUME TypeOK, RowsOK, RequestsOK, LocksHeld, CycleHeld, PostEffect, [Next]_vars
  PROVE  CycleHeld'
<1> SUFFICES ASSUME NEW t \in Txns, tx'[t].pc \in Holding, tx'[t].op = "renew"
             PROVE  /\ posts'[tx'[t].post].expiresAt <= tx'[t].now
                    /\ (posts'[tx'[t].post].renewals = 0) <=> (tx'[t].ref = None)
  BY DEF CycleHeld
<1> DEFINE p == tx[t].post
<1>0. /\ tx \in [Txns -> Request] /\ tx[t] \in Request
      /\ posts \in [Posts -> PostRow]
  BY DEF TypeOK, TxTypeOK, StoreTypeOK
<1>1. CASE Arrives(t) \/ tx'[t].pc = "idle"
  BY <1>1 DEF Arrives, Holding
<1>2. CASE KeepsLocks(t)
  <2>1. /\ tx[t].pc \in Holding /\ tx[t].op = "renew" /\ tx'[t] = tx[t]
    BY <1>2 DEF KeepsLocks
  <2>2. p \in Posts /\ Exists(p) /\ postLock[p] = t
    BY <2>1 DEF RequestsOK, LocksHeld, Holding
  <2>3. ASSUME NEW u \in Txns, CommitRenew(u), tx[u].post = p PROVE FALSE
    <3>1. tx[u].pc = "write" /\ tx[u].op = "renew" /\ EndTx(u)
      BY <2>3 DEF CommitRenew
    <3>2. u = t
      BY <2>2, <2>3, <3>1 DEF LocksHeld, Holding
    <3> QED BY <1>0, <2>1, <3>1, <3>2 DEF EndTx, Idle, Holding
  <2>4. posts'[p].expiresAt = posts[p].expiresAt /\ posts'[p].renewals = posts[p].renewals
    BY <2>2, <2>3, DeadlineMoves
  <2> QED BY <2>1, <2>4 DEF CycleHeld
<1>3. CASE LockSeller(t)
  BY <1>0, <1>3 DEF LockSeller, Holding, Request
<1>4. CASE LockPost(t)
  <2>1. /\ tx'[t].post = p /\ tx'[t].op = tx[t].op /\ tx'[t].now = clock
        /\ tx'[t].ref = tx[t].ref /\ posts' = posts
    BY <1>0, <1>4 DEF LockPost, Request
  <2>2. LockPostToRenew(t)
    BY <1>4, <2>1 DEF LockPost, LockPostToRestore
  <2> QED BY <2>1, <2>2 DEF LockPostToRenew
<1>5. CASE CheckPolicy(t) \/ CountActive(t)
  <2>1. /\ tx'[t].post = p /\ tx'[t].op = tx[t].op /\ tx'[t].now = tx[t].now
        /\ tx'[t].ref = tx[t].ref /\ posts' = posts /\ tx[t].pc \in Holding
    BY <1>0, <1>5 DEF CheckPolicy, CountActive, storeVars, Request, Holding
  <2> QED BY <2>1 DEF CycleHeld
<1> QED BY <1>1, <1>2, <1>3, <1>4, <1>5, RequestsMove DEF RequestEffect

\* A restriction that is over stays over.
LEMMA EndsOnce ==
  ASSUME NEW r \in Window, NEW now \in Nat, NEW later \in Nat, now <= later,
         EndsAfter(r, later)
  PROVE  EndsAfter(r, now)
<1>1. r.until \in Nat \cup {Forever}
  BY DEF Window
<1> QED BY <1>1 DEF EndsAfter

\* The seller a request holds keeps the standing that was checked.
LEMMA StandingNext ==
  ASSUME TypeOK, RowsOK, RequestsOK, LocksHeld, StandingHeld, [Next]_vars
  PROVE  StandingHeld'
<1> DEFINE Barred(r, now, then) == ~(now < r.from) /\ EndsAfter(r, then)
<1> SUFFICES ASSUME NEW t \in Txns
             PROVE  /\ tx'[t].pc \in Holding \cup {"post"} =>
                         account'[tx'[t].seller] = "open"
                    /\ tx'[t].pc \in {"count", "write"} =>
                         \A r \in restrictions'[tx'[t].seller] :
                           ~Barred(r, tx'[t].now, clock')
  BY DEF StandingHeld, EndsAfter
<1> DEFINE s == tx[t].seller
<1>0. /\ tx \in [Txns -> Request] /\ tx[t] \in Request
      /\ clock \in Nat /\ clock' \in Nat /\ clock <= clock'
      /\ restrictions \in [Sellers -> SUBSET Window]
      /\ t # None
  BY ClockAdvances, NoneAssumption DEF TypeOK, TxTypeOK, StoreTypeOK
<1>1. CASE Arrives(t) \/ tx'[t].pc = "idle"
  BY <1>1 DEF Arrives, Holding
<1>2. CASE KeepsLocks(t)
  <2>1. tx'[t] = tx[t]
    BY <1>2 DEF KeepsLocks
  <2>2. CASE tx[t].pc \in Holding \cup {"post"}
    <3>1. s \in Sellers /\ sellerLock[s] = t
      BY <2>2 DEF RequestsOK, LocksHeld, Holding
    <3>2. account'[s] = account[s] /\ restrictions'[s] \subseteq restrictions[s]
      BY <1>0, <3>1, SellersMove
    <3>3. ASSUME tx[t].pc \in {"count", "write"}, NEW r \in restrictions'[s]
          PROVE  ~Barred(r, tx[t].now, clock')
      <4>1. r \in restrictions[s] /\ r \in Window
        BY <1>0, <3>1, <3>2, <3>3
      <4>2. ~Barred(r, tx[t].now, clock)
        BY <3>3, <4>1 DEF StandingHeld
      <4> QED BY <1>0, <4>1, <4>2, EndsOnce
    <3> HIDE DEF Barred
    <3> QED BY <2>1, <2>2, <3>2, <3>3 DEF StandingHeld
  <2>3. CASE tx[t].pc \notin Holding \cup {"post"}
    BY <2>1, <2>3 DEF Holding
  <2> QED BY <2>2, <2>3
<1>3. CASE LockSeller(t)
  <2>1. /\ account[s] = "open" /\ account' = account
        /\ tx'[t].seller = s /\ tx'[t].pc \in {"policy", "post"}
    BY <1>0, <1>3 DEF LockSeller, Request
  <2> QED BY <2>1
<1>4. CASE LockPost(t)
  <2>1. /\ tx[t].pc = "post" /\ account' = account
        /\ tx'[t].seller = s /\ tx'[t].pc = "policy"
    BY <1>0, <1>4 DEF LockPost, Request
  <2> QED BY <2>1 DEF StandingHeld
<1>5. CASE CheckPolicy(t)
  <2>1. /\ tx[t].pc = "policy" /\ account' = account /\ restrictions' = restrictions
        /\ clock' = clock /\ tx'[t].seller = s /\ tx'[t].now = tx[t].now
        /\ ~Restricted(s, clock)
    BY <1>0, <1>5 DEF CheckPolicy, storeVars, Request
  <2>2. s \in Sellers /\ tx[t].now <= clock /\ tx[t].now \in Nat
    BY <1>0, <2>1 DEF RequestsOK, Request
  <2>3. ASSUME NEW r \in restrictions[s] PROVE ~Barred(r, tx[t].now, clock)
    <3>1. r.from \in Nat /\ ~InForce(r, clock)
      BY <1>0, <2>1, <2>2 DEF Restricted, Window
    <3> QED BY <1>0, <2>2, <3>1 DEF InForce
  <2>4. account[s] = "open"
    BY <2>1 DEF StandingHeld, Holding
  <2> HIDE DEF Barred
  <2> QED BY <2>1, <2>3, <2>4
<1>6. CASE CountActive(t)
  <2>1. /\ tx[t].pc = "count" /\ account' = account /\ restrictions' = restrictions
        /\ clock' = clock /\ tx'[t].seller = s /\ tx'[t].now = tx[t].now
    BY <1>0, <1>6 DEF CountActive, storeVars, Request
  <2> QED BY <2>1 DEF StandingHeld, Holding
<1> QED BY <1>1, <1>2, <1>3, <1>4, <1>5, <1>6, RequestsMove DEF RequestEffect

-----------------------------------------------------------------------------
(* Notifications *)

\* The lifecycle stores review requests only, about inserted posts.
LEMMA NoticesLifecycle ==
  ASSUME LifecycleNext
  PROVE  \/ notices' = notices
         \/ \E p \in Posts : /\ Exists(p)
                             /\ notices' = notices \cup {[post |-> p, cycle |-> 0,
                                                          kind |-> "review"]}
<1>1. ASSUME NEW p \in Posts, NEW buyer \in Buyers \cup {None}, MarkSold(p, buyer)
      PROVE  \/ notices' = notices
             \/ /\ Exists(p)
                /\ notices' = notices \cup {[post |-> p, cycle |-> 0,
                                             kind |-> "review"]}
  BY <1>1 DEF MarkSold, Grab
<1> QED BY <1>1 DEF LifecycleNext, TxStep, LockSeller, RestoreDormant, LockPost,
     CheckPolicy, CountActive, CommitCreate, CommitRestore, CommitRenew, Rollback,
     BeginCreate, BeginRestore, BeginRenew, Remove, Hide, SetAccount, Ban, Lift,
     Tick, storeVars

\* A notification of a batch about the end of a cycle is about the cycle the
\* row is in, which is over.
LEMMA DueNoticesTrue ==
  ASSUME NEW w \in Workers, NEW n \in DueNotices(w)
  PROVE  /\ n.post \in batch[w].rows /\ n.cycle = posts[n.post].renewals
         /\ n.kind = "expired" => posts[n.post].expiresAt <= clock
<1>1. PICK p \in batch[w].rows : n = NoticeFor(p, clock)
  BY DEF DueNotices
<1> QED BY <1>1 DEF NoticeFor, NoticeOf, Overdue

\* What a step of the job does to what is stored and pushed.
LEMMA ExpiryMoves ==
  ASSUME TypeOK, NEW w \in Workers, ExpiryStep(w)
  PROVE  /\ \A v \in Workers \ {w} : batch'[v] = batch[v]
         /\ CommitBatch(w) \/ notices' = notices
         /\ \/ pushed' = pushed
            \/ pushed' = pushed \cup batch[w].created /\ batch'[w].created = {}
         /\ \/ batch'[w].created \subseteq batch[w].created
            \/ CommitBatch(w) /\ batch'[w].created = DueNotices(w) \ notices
         /\ batch'[w].pc = "locked" => \A p \in batch'[w].rows : p \in Posts /\ Exists(p)
<1>0. batch \in [Workers -> Batch] /\ batch[w] \in Batch
  BY DEF TypeOK, ExpiryTypeOK
<1>1. CASE BeginBatch(w)
  <2>1. /\ batch'[w].created = {} /\ batch'[w].pc = "select"
        /\ \A v \in Workers \ {w} : batch'[v] = batch[v]
    BY <1>0, <1>1 DEF BeginBatch, NoBatch
  <2> QED BY <1>1, <2>1 DEF BeginBatch, storeVars
<1>2. ASSUME NEW rows \in SUBSET Posts, LockBatch(w, rows)
      PROVE  /\ \A v \in Workers \ {w} : batch'[v] = batch[v]
             /\ notices' = notices /\ pushed' = pushed
             /\ batch'[w].created = batch[w].created
             /\ \A p \in batch'[w].rows : p \in Posts /\ Exists(p)
  <2>1. \A p \in rows : p \in Posts /\ Exists(p)
    BY <1>2 DEF LockBatch, IsBatch, Lockable, Due, Exists
  <2>2. batch'[w] = [batch[w] EXCEPT !.pc = "locked", !.rows = rows, !.seen = {}]
    BY <1>0, <1>2 DEF LockBatch
  <2>3. batch'[w].rows = rows /\ batch'[w].created = batch[w].created
    BY <1>0, <2>2 DEF Batch
  <2> QED BY <1>0, <1>2, <2>1, <2>3 DEF LockBatch
<1>3. CASE CommitBatch(w)
  <2>1. /\ batch'[w].created = DueNotices(w) \ notices /\ batch'[w].pc = "push"
        /\ \A v \in Workers \ {w} : batch'[v] = batch[v]
    BY <1>0, <1>3 DEF CommitBatch, NoBatch
  <2> QED BY <1>3, <2>1 DEF CommitBatch
<1>4. CASE Push(w)
  <2>1. /\ batch'[w].created = {} /\ batch'[w].pc = "idle"
        /\ \A v \in Workers \ {w} : batch'[v] = batch[v]
    BY <1>0, <1>4 DEF Push, NoBatch
  <2> QED BY <1>4, <2>1 DEF Push, storeVars
<1>5. CASE AbortBatch(w)
  <2>1. /\ batch'[w].created = {} /\ batch'[w].pc = "idle"
        /\ \A v \in Workers \ {w} : batch'[v] = batch[v]
    BY <1>0, <1>5 DEF AbortBatch, NoBatch
  <2> QED BY <1>5, <2>1 DEF AbortBatch
<1> QED BY <1>1, <1>2, <1>3, <1>4, <1>5 DEF ExpiryStep

\* Notifications are stored before they are pushed, and about inserted posts.
LEMMA NoticesNext ==
  ASSUME TypeOK, NoticesOK, PostEffect, [Next]_vars
  PROVE  NoticesOK'
<1>0. /\ \A p \in Posts : Exists(p) => posts'[p].status # "none"
      /\ notices \subseteq Notice /\ \A n \in notices : n.post \in Posts
  BY DEF PostEffect, TypeOK, StoreTypeOK, Notice
<1>1. /\ \A n \in notices : posts'[n.post].status # "none"
      /\ \A w \in Workers : batch[w].pc = "locked" =>
           \A p \in batch[w].rows : p \in Posts /\ posts'[p].status # "none"
  <2>1. \A w \in Workers : batch[w].rows \subseteq Posts
    BY DEF TypeOK, ExpiryTypeOK, Batch
  <2> QED BY <1>0, <2>1 DEF NoticesOK
<1>2. ASSUME UNCHANGED <<batch, pushed>>, notices \subseteq notices',
             \A n \in notices' \ notices : posts'[n.post].status # "none"
      PROVE  NoticesOK'
  BY <1>1, <1>2 DEF NoticesOK, Exists
<1>3. CASE LifecycleNext /\ UNCHANGED <<batch, pushed>>
  <2>1. ASSUME NEW p \in Posts, Exists(p),
               notices' = notices \cup {[post |-> p, cycle |-> 0, kind |-> "review"]}
        PROVE  NoticesOK'
    BY <1>0, <1>2, <1>3, <2>1
  <2> QED BY <1>2, <1>3, <2>1, NoticesLifecycle
<1>4. ASSUME NEW w \in Workers, ExpiryStep(w) PROVE NoticesOK'
  <2>1. /\ \A v \in Workers \ {w} : batch'[v] = batch[v]
        /\ CommitBatch(w) \/ notices' = notices
        /\ \/ pushed' = pushed
           \/ pushed' = pushed \cup batch[w].created
        /\ \/ batch'[w].created \subseteq batch[w].created
           \/ CommitBatch(w) /\ batch'[w].created = DueNotices(w) \ notices
        /\ batch'[w].pc = "locked" => \A p \in batch'[w].rows : p \in Posts /\ Exists(p)
    BY <1>4, ExpiryMoves
  <2>2. CommitBatch(w) => notices' = notices \cup DueNotices(w)
    BY DEF CommitBatch
  <2>3. pushed' \subseteq notices' /\ \A v \in Workers : batch'[v].created \subseteq notices'
    <3>1. pushed' \subseteq notices'
      BY <2>1, <2>2 DEF NoticesOK
    <3>2. batch'[w].created \subseteq notices'
      BY <2>1, <2>2 DEF NoticesOK
    <3>3. \A v \in Workers \ {w} : batch'[v].created \subseteq notices'
      BY <2>1, <2>2 DEF NoticesOK
    <3> QED BY <3>1, <3>2, <3>3
  <2>4. \A v \in Workers : batch'[v].pc = "locked" =>
          \A p \in batch'[v].rows : posts'[p].status # "none"
    BY <1>0, <1>1, <2>1
  <2>5. CommitBatch(w) => \A n \in DueNotices(w) : posts'[n.post].status # "none"
    BY <1>1, DueNoticesTrue DEF CommitBatch
  <2>6. \A n \in notices' : posts'[n.post].status # "none"
    BY <1>1, <2>1, <2>2, <2>5
  <2> QED BY <2>3, <2>4, <2>6 DEF NoticesOK, Exists
<1>5. CASE UNCHANGED vars
  BY <1>2, <1>5 DEF vars, storeVars
<1> QED BY <1>3, <1>4, <1>5 DEF Next

\* What is pushed was stored by the batch that pushes it, and by no other.
LEMMA NoDoublePushNext ==
  ASSUME TypeOK, NoticesOK, NoDoublePush, [Next]_vars
  PROVE  NoDoublePush'
<1>1. CASE UNCHANGED <<batch, pushed>>
  BY <1>1 DEF NoDoublePush
<1>2. ASSUME NEW w \in Workers, ExpiryStep(w) PROVE NoDoublePush'
  <2>1. /\ \A v \in Workers \ {w} : batch'[v] = batch[v]
        /\ \/ pushed' = pushed
           \/ pushed' = pushed \cup batch[w].created /\ batch'[w].created = {}
        /\ \/ batch'[w].created \subseteq batch[w].created
           \/ CommitBatch(w) /\ batch'[w].created = DueNotices(w) \ notices
    BY <1>2, ExpiryMoves
  <2>2. batch'[w].created \cap notices = {} \/ batch'[w].created \subseteq batch[w].created
    BY <2>1
  <2>3. \A v \in Workers : /\ batch[v].created \cap pushed = {}
                           /\ batch[v].created \subseteq notices
                           /\ \A u \in Workers \ {v} :
                                batch[v].created \cap batch[u].created = {}
    BY DEF NoDoublePush, NoticesOK
  <2>4. pushed \subseteq notices
    BY DEF NoticesOK
  <2>5. CommitBatch(w) => pushed' = pushed
    BY DEF CommitBatch
  <2>6. batch'[w].created \cap pushed' = {}
    BY <2>1, <2>2, <2>3, <2>4
  <2>7. ASSUME NEW v \in Workers \ {w}
        PROVE  /\ batch'[v].created \cap pushed' = {}
               /\ batch'[v].created \cap batch'[w].created = {}
    <3>1. /\ batch'[v] = batch[v] /\ batch[v].created \cap pushed = {}
          /\ batch[v].created \cap batch[w].created = {}
          /\ batch[v].created \subseteq notices
      BY <2>1, <2>3
    <3> QED BY <2>1, <2>2, <3>1
  <2>8. ASSUME NEW v \in Workers \ {w}, NEW u \in Workers \ {w}, u # v
        PROVE  batch'[v].created \cap batch'[u].created = {}
    BY <2>1, <2>3, <2>8
  <2> QED BY <2>6, <2>7, <2>8 DEF NoDoublePush
<1> QED BY <1>1, <1>2 DEF Next, vars

\* No later step makes a lie of what the seller was told about a cycle.
LEMMA NoticeTruthNext ==
  ASSUME TypeOK, RowsOK, RequestsOK, NoticesOK, NoticeTruth, [Next]_vars
  PROVE  NoticeTruth'
<1> DEFINE True(n) == n.kind = "expired" =>
             \/ n.cycle < posts'[n.post].renewals
             \/ n.cycle = posts'[n.post].renewals /\ posts'[n.post].expiresAt <= clock'
<1>0. /\ clock \in Nat /\ clock' \in Nat /\ clock <= clock'
      /\ notices \subseteq Notice /\ posts \in [Posts -> PostRow]
      /\ \A p \in Posts : posts[p].renewals \in Nat /\ posts[p].expiresAt \in Nat
  BY ClockAdvances DEF TypeOK, StoreTypeOK, PostRow
<1>1. ASSUME NEW n \in notices PROVE True(n)
  <2> DEFINE p == n.post
  <2>1. p \in Posts /\ Exists(p) /\ n.cycle \in Nat
    BY <1>0 DEF NoticesOK, Notice
  <2>2. CASE posts'[p].expiresAt = posts[p].expiresAt /\ posts'[p].renewals = posts[p].renewals
    BY <1>0, <2>1, <2>2 DEF NoticeTruth
  <2>3. ASSUME NEW t \in Txns, CommitRenew(t), tx[t].post = p PROVE True(n)
    <3>1. posts'[p].renewals = posts[p].renewals + 1
      BY <2>3, RenewalWrites
    <3> QED BY <1>0, <2>1, <3>1 DEF NoticeTruth
  <2> QED BY <2>1, <2>2, <2>3, DeadlineMoves
<1>2. ASSUME NEW n \in notices', n \notin notices PROVE True(n)
  <2>1. CASE LifecycleNext
    BY <1>2, <2>1, NoticesLifecycle
  <2>2. ASSUME NEW w \in Workers, ExpiryStep(w) PROVE True(n)
    <3>1. CommitBatch(w)
      BY <1>2, <2>2, ExpiryMoves
    <3>2. n \in DueNotices(w) /\ clock' = clock
      BY <1>2, <3>1 DEF CommitBatch
    <3>3. /\ n.post \in batch[w].rows /\ n.cycle = posts[n.post].renewals
          /\ n.kind = "expired" => posts[n.post].expiresAt <= clock
      BY <3>2, DueNoticesTrue
    <3>4. n.post \in Posts
      BY <3>3 DEF TypeOK, ExpiryTypeOK, Batch
    <3>5. \/ posts'[n.post] = posts[n.post]
          \/ posts'[n.post] = [posts[n.post] EXCEPT !.status = "expired"]
      BY <3>1, <3>4 DEF CommitBatch
    <3>6. /\ posts'[n.post].renewals = posts[n.post].renewals
          /\ posts'[n.post].expiresAt = posts[n.post].expiresAt
      BY <1>0, <3>4, <3>5 DEF PostRow
    <3> QED BY <3>2, <3>3, <3>6
  <2>3. CASE UNCHANGED vars
    BY <1>2, <2>3 DEF vars, storeVars
  <2> QED BY <2>1, <2>2, <2>3 DEF Next
<1> QED BY <1>1, <1>2 DEF NoticeTruth

-----------------------------------------------------------------------------
(* The history of renewals *)

\* The rows of one post, as RenewalLedger wants them.
Chained(rows, renewals, deadline) ==
  /\ {row.number : row \in rows} = 1 .. renewals
  /\ \A row \in rows :
       /\ row.number = renewals => row.until = deadline
       /\ row.previous + Lifetime <= row.until
       /\ (row.number = 1) <=> (row.ref = None)
       /\ \A next \in rows : next.number = row.number + 1 => next.previous = row.until

\* No two rows share a payment reference, or a post and a number.
Unique(rows) ==
  \A row, other \in rows :
    (row.ref = other.ref /\ row.ref # None)
    \/ (row.post = other.post /\ row.number = other.number) => row = other

\* The renewal ledger, post by post.
LEMMA LedgerParts ==
  RenewalLedger <=>
    /\ \A p \in Posts : Chained(LedgerOf(p), posts[p].renewals, posts[p].expiresAt)
    /\ Unique(ledger)
BY DEF RenewalLedger, Chained, Unique

\* One more row at the end keeps the chain.
LEMMA ChainGrows ==
  ASSUME NEW rows, NEW renewals \in Nat, NEW deadline,
         Chained(rows, renewals, deadline), NEW new,
         new.number = renewals + 1, new.previous = deadline,
         new.previous + Lifetime <= new.until,
         (renewals = 0) <=> (new.ref = None)
  PROVE  Chained(rows \cup {new}, renewals + 1, new.until)
<1>1. \A row \in rows : row.number \in 1 .. renewals
  BY DEF Chained
<1>2. {row.number : row \in rows \cup {new}} = 1 .. (renewals + 1)
  <2>1. {row.number : row \in rows \cup {new}} = (1 .. renewals) \cup {renewals + 1}
    BY DEF Chained
  <2>2. (1 .. renewals) \cup {renewals + 1} = 1 .. (renewals + 1)
    OBVIOUS
  <2> QED BY <2>1, <2>2
<1>3. ASSUME NEW row \in rows
      PROVE  /\ row.number # renewals + 1
             /\ row.previous + Lifetime <= row.until
             /\ (row.number = 1) <=> (row.ref = None)
             /\ \A next \in rows : next.number = row.number + 1 => next.previous = row.until
             /\ new.number = row.number + 1 => new.previous = row.until
  <2>1. row.number \in 1 .. renewals
    BY <1>1
  <2>2. new.number = row.number + 1 => row.number = renewals
    BY <2>1
  <2> QED BY <2>1, <2>2 DEF Chained
<1>4. /\ (new.number = 1) <=> (new.ref = None)
      /\ new.number # new.number + 1
      /\ \A next \in rows : next.number # new.number + 1
  BY <1>1
<1> QED BY <1>2, <1>3, <1>4 DEF Chained

\* Every renewal adds the next row of its post, and nothing else touches the
\* history or what it describes.
LEMMA LedgerNext ==
  ASSUME TypeOK, RowsOK, RequestsOK, CycleHeld, RenewalLedger, [Next]_vars
  PROVE  RenewalLedger'
<1>0. /\ posts \in [Posts -> PostRow] /\ ledger \subseteq RenewalRow
      /\ \A p \in Posts : posts[p].renewals \in Nat /\ posts[p].expiresAt \in Nat
  BY DEF TypeOK, StoreTypeOK, PostRow
<1>1. /\ \A p \in Posts : Chained(LedgerOf(p), posts[p].renewals, posts[p].expiresAt)
      /\ Unique(ledger)
  BY LedgerParts
<1>2. CASE \A t \in Txns : ~CommitRenew(t)
  <2>1. ledger' = ledger
    BY <1>2, LedgerMoves
  <2>2. ASSUME NEW p \in Posts
        PROVE  Chained({row \in ledger' : row.post = p}, posts'[p].renewals,
                       posts'[p].expiresAt)
    <3>1. {row \in ledger' : row.post = p} = LedgerOf(p)
      BY <2>1 DEF LedgerOf
    <3>2. CASE /\ posts'[p].expiresAt = posts[p].expiresAt
               /\ posts'[p].renewals = posts[p].renewals
      BY <1>1, <3>1, <3>2
    <3>3. CASE ~Exists(p) /\ posts'[p].renewals = 0
      <4>1. posts[p].renewals = 0
        BY <3>3 DEF RowsOK, NoRow
      <4>2. {row.number : row \in LedgerOf(p)} = {}
        BY <1>1, <4>1 DEF Chained
      <4>3. LedgerOf(p) = {}
        BY <4>2
      <4> QED BY <3>1, <3>3, <4>2, <4>3 DEF Chained
    <3> QED BY <1>2, <3>2, <3>3, DeadlineMoves
  <2>3. Unique(ledger)'
    BY <1>1, <2>1 DEF Unique
  <2> QED BY <2>2, <2>3 DEF RenewalLedger, LedgerOf, Chained, Unique
<1>3. ASSUME NEW t \in Txns, CommitRenew(t) PROVE RenewalLedger'
  <2> DEFINE p == tx[t].post
             until == tx[t].now + Lifetime
             new == [post |-> tx[t].post, number |-> posts[p].renewals + 1,
                     ref |-> tx[t].ref, previous |-> posts[p].expiresAt,
                     until |-> until]
  <2>1. /\ p \in Posts /\ tx[t].pc = "write" /\ tx[t].op = "renew"
        /\ tx[t].now \in Nat /\ until \in Nat /\ tx[t].ref \notin UsedRefs
        /\ posts'[p].expiresAt = until
        /\ posts'[p].renewals = posts[p].renewals + 1
        /\ \A q \in Posts \ {p} : posts'[q] = posts[q]
        /\ ledger' = ledger \cup {new}
    BY <1>3, RenewalWrites
  <2>2. /\ new.post = p /\ new.number = posts[p].renewals + 1
        /\ new.ref = tx[t].ref /\ new.previous = posts[p].expiresAt
        /\ new.until = until
    OBVIOUS
  <2>3. /\ posts[p].expiresAt <= tx[t].now
        /\ (posts[p].renewals = 0) <=> (tx[t].ref = None)
    BY <2>1 DEF CycleHeld, Holding
  <2>4. new.previous + Lifetime <= new.until
    <3>1. posts[p].expiresAt \in Nat /\ Lifetime \in Nat
      BY <1>0, <2>1, LimitAssumption
    <3>2. posts[p].expiresAt + Lifetime <= until
      BY <2>1, <2>3, <3>1
    <3> HIDE DEF new, until
    <3> QED BY <2>2, <3>2
  <2> HIDE DEF new, until
  <2>5. {row \in ledger' : row.post = p} = LedgerOf(p) \cup {new}
    BY <2>1, <2>2 DEF LedgerOf
  <2>6. Chained({row \in ledger' : row.post = p}, posts'[p].renewals, posts'[p].expiresAt)
    <3>1. posts[p].renewals \in Nat /\ Chained(LedgerOf(p), posts[p].renewals, posts[p].expiresAt)
      BY <1>0, <1>1, <2>1
    <3>2. Chained(LedgerOf(p) \cup {new}, posts[p].renewals + 1, new.until)
      BY <2>2, <2>3, <2>4, <3>1, ChainGrows
    <3> QED BY <2>1, <2>2, <2>5, <3>2
  <2>7. ASSUME NEW q \in Posts \ {p}
        PROVE  Chained({row \in ledger' : row.post = q}, posts'[q].renewals,
                       posts'[q].expiresAt)
    <3>1. {row \in ledger' : row.post = q} = LedgerOf(q)
      BY <2>1, <2>2, <2>7 DEF LedgerOf
    <3> QED BY <1>1, <2>1, <2>7, <3>1
  <2>8. ASSUME NEW row \in ledger
        PROVE  /\ ~(row.ref = new.ref /\ row.ref # None)
               /\ ~(row.post = new.post /\ row.number = new.number)
    <3>1. row.ref = None \/ row.ref \in UsedRefs
      BY DEF UsedRefs
    <3>2. ASSUME row.post = p PROVE row.number # posts[p].renewals + 1
      <4>1. row \in LedgerOf(p)
        BY <2>8, <3>2 DEF LedgerOf
      <4>2. row.number \in 1 .. posts[p].renewals
        BY <1>1, <2>1, <4>1 DEF Chained
      <4> QED BY <1>0, <2>1, <4>2
    <3> QED BY <2>1, <2>2, <3>1, <3>2
  <2>9. Unique(ledger)'
    BY <1>1, <2>1, <2>8 DEF Unique
  <2>10. ASSUME NEW q \in Posts
         PROVE  Chained({row \in ledger' : row.post = q}, posts'[q].renewals,
                        posts'[q].expiresAt)
    BY <2>6, <2>7
  <2> QED BY <2>9, <2>10 DEF RenewalLedger, LedgerOf, Chained, Unique
<1> QED BY <1>2, <1>3

-----------------------------------------------------------------------------
(* The theorems about the history *)

\* The empty shop satisfies the invariant.
THEOREM SystemInvInit == Init => SystemInv
<1> SUFFICES ASSUME Init PROVE SystemInv
  OBVIOUS
<1>1. LifecycleInv
  BY LifecycleInvInit
<1>2. /\ \A p \in Posts : posts[p] = NoRow
      /\ \A t \in Txns : tx[t].pc = "idle"
      /\ \A w \in Workers : batch[w].created = {} /\ batch[w].pc = "idle"
      /\ notices = {} /\ pushed = {} /\ ledger = {}
  BY DEF Init, StoreInit, TxInit, ExpiryInit, Idle, NoBatch
<1>3. CycleHeld /\ StandingHeld
  BY <1>2 DEF CycleHeld, StandingHeld, Holding
<1>4. NoticesOK /\ NoticeTruth /\ NoDoublePush
  BY <1>2 DEF NoticesOK, NoticeTruth, NoDoublePush
<1>5. RenewalLedger
  <2>1. \A p \in Posts : LedgerOf(p) = {} /\ posts[p].renewals = 0
    BY <1>2 DEF LedgerOf, NoRow
  <2> QED BY <1>2, <2>1 DEF RenewalLedger
<1> QED BY <1>1, <1>3, <1>4, <1>5 DEF SystemInv

\* Every step of the listing system keeps the invariant.
THEOREM SystemInvNext == SystemInv /\ [Next]_vars => SystemInv'
<1> SUFFICES ASSUME SystemInv, [Next]_vars PROVE SystemInv'
  OBVIOUS
<1>1. /\ LifecycleInv /\ CycleHeld /\ StandingHeld /\ NoticesOK
      /\ RenewalLedger /\ NoticeTruth /\ NoDoublePush
  BY DEF SystemInv
<1>2. /\ TypeOK /\ RowsOK /\ RequestsOK /\ LocksHeld /\ RenewableHeld
      /\ TransactionState
  BY <1>1 DEF LifecycleInv
<1>3. PostEffect
  BY <1>2, EffectNext
<1>4. LifecycleInv'
  BY <1>1, LifecycleInvNext
<1>5. CycleHeld' /\ StandingHeld'
  BY <1>1, <1>2, <1>3, CycleNext, StandingNext
<1>6. NoticesOK' /\ NoticeTruth' /\ NoDoublePush'
  BY <1>1, <1>2, <1>3, NoticesNext, NoticeTruthNext, NoDoublePushNext
<1>7. RenewalLedger'
  BY <1>1, <1>2, LedgerNext
<1> QED BY <1>4, <1>5, <1>6, <1>7 DEF SystemInv

\* Rows, locks, history and notifications fit together in every reachable
\* state of a listing system of any size.
THEOREM SystemInvariant == Spec => []SystemInv
BY SystemInvInit, SystemInvNext, PTL DEF Spec

\* The renewal history of every post is complete and chained, and no payment
\* reference renews twice, whatever renewals race.
THEOREM HistoryExact == Spec => []RenewalLedger
<1>1. SystemInv => RenewalLedger
  BY DEF SystemInv
<1> QED BY <1>1, SystemInvariant, PTL

\* No seller is told that a cycle has ended that still runs.
THEOREM NoticesTrue == Spec => []NoticeTruth
<1>1. SystemInv => NoticeTruth
  BY DEF SystemInv
<1> QED BY <1>1, SystemInvariant, PTL

\* However many instances run the expiry job, no notification is pushed twice.
THEOREM NoticesPushedOnce == Spec => []NoDoublePush
<1>1. SystemInv => NoDoublePush
  BY DEF SystemInv
<1> QED BY <1>1, SystemInvariant, PTL

-----------------------------------------------------------------------------
(* What a step may never do *)

\* Bans and account locks come before or after an activation: between the
\* clock it read and its commit, its seller was open and not barred.
THEOREM ActivationsAuthorised == Spec => AuthorisedActivation
<1>1. ASSUME SystemInv, [Next]_vars, NEW p \in Posts, Live(p)', ~Live(p)
      PROVE  LET s == posts'[p].seller
                 t == sellerLock[s]
             IN /\ account[s] = "open"
                /\ t \in Txns
                /\ \A r \in restrictions[s] :
                     ~(InForce(r, tx[t].now) /\ InForce(r, clock))
  <2>1. LifecycleInv /\ StandingHeld
    BY <1>1 DEF SystemInv
  <2>2. /\ TypeOK /\ RowsOK /\ RequestsOK /\ LocksHeld /\ RenewableHeld
        /\ TransactionState
    BY <2>1 DEF LifecycleInv
  <2>3. PostEffect
    BY <1>1, <2>2, EffectNext
  <2>4. PICK t \in Txns : Enters(t, p)
    BY <1>1, <2>3 DEF PostEffect, Live
  <2> DEFINE s == posts'[p].seller
  <2>5. tx[t].pc = "write" /\ s = tx[t].seller /\ s \in Sellers
    BY <2>2, <2>4 DEF Enters, RequestsOK
  <2>6. sellerLock[s] = t /\ account[s] = "open"
    BY <2>1, <2>2, <2>5 DEF LocksHeld, StandingHeld, Holding
  <2>7. ASSUME NEW r \in restrictions[s]
        PROVE  ~(InForce(r, tx[t].now) /\ InForce(r, clock))
    <3>1. tx[t].now < r.from \/ ~EndsAfter(r, clock)
      BY <2>1, <2>5, <2>7 DEF StandingHeld
    <3>2. r.from \in Nat /\ tx[t].now \in Nat
      BY <2>2, <2>5, <2>7 DEF TypeOK, StoreTypeOK, TxTypeOK, Request, Window
    <3>3. tx[t].now < r.from => ~(r.from <= tx[t].now)
      BY <3>2
    <3> QED BY <3>1, <3>3 DEF InForce
  <2> QED BY <2>6, <2>7
<1>2. SystemInv /\ [Next]_vars =>
        [\A p \in Posts :
           (Live(p)' /\ ~Live(p)) =>
             LET s == posts'[p].seller
                 t == sellerLock[s]
             IN /\ account[s] = "open"
                /\ t \in Txns
                /\ \A r \in restrictions[s] :
                     ~(InForce(r, tx[t].now) /\ InForce(r, clock))]_vars
  BY <1>1
<1> QED BY <1>2, SystemInvariant, PTL DEF Spec, AuthorisedActivation

\* Only a renewal of a cycle that is over moves a deadline or a renewal count,
\* and it moves both.
THEOREM DeadlinesMoveByRenewal == Spec => DeadlineOnlyByRenewal
<1>1. ASSUME SystemInv, [Next]_vars, NEW p \in Posts, Exists(p),
             posts'[p].expiresAt # posts[p].expiresAt
             \/ posts'[p].renewals # posts[p].renewals
      PROVE  /\ posts[p].expiresAt <= clock
             /\ posts'[p].expiresAt > posts[p].expiresAt
             /\ posts'[p].renewals = posts[p].renewals + 1
  <2>1. TypeOK /\ RowsOK /\ RequestsOK /\ CycleHeld
    BY <1>1 DEF SystemInv, LifecycleInv
  <2>2. PICK t \in Txns : CommitRenew(t) /\ tx[t].post = p
    BY <1>1, <2>1, DeadlineMoves
  <2>3. /\ tx[t].pc = "write" /\ tx[t].op = "renew" /\ tx[t].now \in Nat
        /\ posts'[p].expiresAt = tx[t].now + Lifetime
        /\ posts'[p].renewals = posts[p].renewals + 1
    BY <2>1, <2>2, RenewalWrites
  <2>4. posts[p].expiresAt <= tx[t].now /\ tx[t].now <= clock
    BY <2>1, <2>2, <2>3 DEF CycleHeld, RequestsOK, Holding
  <2>5. posts[p].expiresAt \in Nat /\ clock \in Nat
    BY <2>1 DEF TypeOK, StoreTypeOK, PostRow
  <2> QED BY <2>3, <2>4, <2>5, LimitAssumption
<1>2. SystemInv /\ [Next]_vars =>
        [\A p \in Posts :
           Exists(p) /\ (posts'[p].expiresAt # posts[p].expiresAt
                         \/ posts'[p].renewals # posts[p].renewals) =>
             /\ posts[p].expiresAt <= clock
             /\ posts'[p].expiresAt > posts[p].expiresAt
             /\ posts'[p].renewals = posts[p].renewals + 1]_vars
  BY <1>1
<1> QED BY <1>2, SystemInvariant, PTL DEF Spec, DeadlineOnlyByRenewal

-----------------------------------------------------------------------------
(* The lifecycle implements the shop window *)

\* What is sold or hidden stays so.
LEMMA ClosedStays ==
  ASSUME TypeOK, RowsOK, RequestsOK, RenewableHeld, TransactionState,
         [Next]_vars, NEW q \in Posts, Closed(q)
  PROVE  Closed(q)'
<1>0. /\ posts \in [Posts -> PostRow] /\ posts[q] \in PostRow
      /\ Exists(q) /\ posts[q].status \notin {"active", "expired"}
  <2>1. ~NoRow.sold /\ NoRow.status # "hidden"
    BY DEF NoRow
  <2>2. posts \in [Posts -> PostRow] /\ posts[q] \in PostRow
    BY DEF TypeOK, StoreTypeOK
  <2>3. Exists(q)
    BY <2>1 DEF RowsOK, Closed
  <2>4. posts[q].status \notin {"active", "expired"}
    BY DEF TransactionState, Closed
  <2> QED BY <2>2, <2>3, <2>4
<1>s. ASSUME posts'[q] = posts[q] PROVE Closed(q)'
  BY <1>s DEF Closed
<1>1. ASSUME NEW t \in Txns, TxStep(t) PROVE Closed(q)'
  <2>1. CASE RestoreDormant(t)
    <3>1. CASE tx[t].post = q
      <4>1. posts'[q] = [posts[q] EXCEPT !.deleted = FALSE, !.status = posts[q].status]
        BY <1>0, <2>1, <3>1 DEF RestoreDormant
      <4>2. posts'[q].sold = posts[q].sold /\ posts'[q].status = posts[q].status
        BY <1>0, <4>1 DEF PostRow
      <4> QED BY <4>2 DEF Closed
    <3>2. CASE tx[t].post # q
      BY <1>0, <1>s, <2>1, <3>2 DEF RestoreDormant
    <3> QED BY <3>1, <3>2
  <2>2. ASSUME NEW p \in Posts, CommitCreate(t, p) PROVE Closed(q)'
    BY <1>0, <1>s, <2>2 DEF CommitCreate
  <2>3. CASE CommitRestore(t)
    <3>1. /\ posts'[q].sold = posts[q].sold
          /\ posts'[q].status = posts[q].status
      BY <1>0, <2>3 DEF CommitRestore, PostRow
    <3> QED BY <3>1 DEF Closed
  <2>4. CASE CommitRenew(t)
    <3>1. tx[t].pc = "write" /\ tx[t].op = "renew"
      BY <2>4 DEF CommitRenew
    <3>2. tx[t].post # q
      BY <1>0, <3>1 DEF RenewableHeld, Holding
    <3> QED BY <1>0, <1>s, <2>4, <3>2 DEF CommitRenew
  <2>5. CASE UNCHANGED posts
    BY <1>s, <2>5
  <2> QED BY <1>1, <2>1, <2>2, <2>3, <2>4, <2>5
          DEF TxStep, LockSeller, LockPost, CheckPolicy, CountActive, Rollback,
              storeVars
<1>2. ASSUME NEW p \in Posts, NEW buyer \in Buyers \cup {None}, MarkSold(p, buyer)
      PROVE  Closed(q)'
  BY <1>0, <1>2 DEF MarkSold, PostRow, Closed
<1>3. ASSUME NEW p \in Posts, Remove(p) \/ Hide(p) PROVE Closed(q)'
  BY <1>0, <1>3 DEF Remove, Hide, PostRow, Closed
<1>4. CASE LifecycleNext
  BY <1>s, <1>1, <1>2, <1>3, <1>4
     DEF LifecycleNext, BeginCreate, BeginRestore, BeginRenew, SetAccount, Ban,
         Lift, Tick, storeVars
<1>5. ASSUME NEW w \in Workers, ExpiryStep(w) PROVE Closed(q)'
  <2>1. posts'[q] = posts[q]
    BY <1>0, <1>5 DEF ExpiryStep, BeginBatch, LockBatch, CommitBatch, Push,
       AbortBatch, storeVars
  <2> QED BY <1>s, <2>1
<1>6. CASE UNCHANGED vars
  BY <1>s, <1>6 DEF vars, storeVars
<1> QED BY <1>4, <1>5, <1>6 DEF Next

\* A step that moves an account leaves the posts and the clock alone.
LEMMA AccountsMoveAlone ==
  ASSUME [Next]_vars
  PROVE  account' = account \/ (posts' = posts /\ clock' = clock)
<1>1. CASE LifecycleNext
  BY <1>1 DEF LifecycleNext, TxStep, LockSeller, RestoreDormant, LockPost,
     CheckPolicy, CountActive, CommitCreate, CommitRestore, CommitRenew, Rollback,
     BeginCreate, BeginRestore, BeginRenew, MarkSold, Remove, Hide, SetAccount,
     Ban, Lift, Tick, storeVars
<1>2. ASSUME NEW w \in Workers, ExpiryStep(w) PROVE account' = account
  BY <1>2 DEF ExpiryStep, BeginBatch, LockBatch, CommitBatch, Push, AbortBatch,
     storeVars
<1>3. CASE UNCHANGED vars
  BY <1>3 DEF vars, storeVars
<1> QED BY <1>1, <1>2, <1>3 DEF Next

\* The shop window counts as the lifecycle does.
LEMMA ShopCounts ==
  ASSUME NEW S
  PROVE  Shop!Cardinality(S) = Cardinality(S)
BY DEF Shop!Cardinality, Cardinality

\* The empty shop has empty windows.
LEMMA ShopStarts == Init => Shop!ShopInit
<1> SUFFICES ASSUME Init PROVE Shop!ShopInit
  OBVIOUS
<1>1. /\ \A p \in Posts : posts[p] = NoRow
      /\ \A s \in Sellers : account[s] = "open"
  BY DEF Init, StoreInit
<1>2. \A p \in Posts : ~Closed(p)
  BY <1>1 DEF NoRow, Closed
<1>3. \A s \in Sellers : ActiveOf(s, clock) = {}
  BY <1>1 DEF NoRow, ActiveOf, LiveAt
<1> QED BY <1>1, <1>2, <1>3 DEF Shop!ShopInit

\* A step either puts one listing into a window with room, or lets listings
\* leave, or moves an account, or shows nothing outside.
LEMMA ShopMoves ==
  ASSUME SystemInv, [Next]_vars
  PROVE  Shop!ShopNext
<1> DEFINE open == {s \in Sellers : account[s] = "open"}
<1>0. LifecycleInv /\ StandingHeld
  BY DEF SystemInv
<1>1. /\ TypeOK /\ RowsOK /\ RequestsOK /\ LocksHeld /\ RenewableHeld
      /\ TransactionState /\ RoomHeld
  BY <1>0 DEF LifecycleInv
<1>2. PostEffect
  BY <1>1, EffectNext
<1>3. \A q \in Posts : Closed(q) => Closed(q)'
  BY <1>1, ClosedStays
<1>4. \A q \in Posts : Live(q)' => ~Closed(q)'
  BY <1>2 DEF PostEffect, TransactionState, Live, LiveAt, Closed
<1>5. CASE \E q \in Posts : Live(q)' /\ ~Live(q)
  <2>1. PICK p \in Posts : Live(p)' /\ ~Live(p)
    BY <1>5
  <2>2. PICK t \in Txns : Enters(t, p)
    BY <1>2, <2>1 DEF PostEffect, Live
  <2> DEFINE s == tx[t].seller
  <2>3. /\ s \in Sellers /\ account[s] = "open"
        /\ Cardinality(ActiveOf(s, clock)) < Quota
    BY <1>0, <1>1, <2>2 DEF Enters, RequestsOK, StandingHeld, RoomHeld, Holding
  <2>4. /\ posts'[p].seller = s /\ clock' = clock
        /\ \A r \in Posts \ {p} : posts'[r] = posts[r]
    BY <2>2 DEF Enters
  <2>5. account' = account
    BY <2>1, AccountsMoveAlone DEF Live, LiveAt
  <2>6. ~Closed(p) /\ ~Closed(p)' /\ \A q \in Posts : Closed(q)' <=> Closed(q)
    BY <1>3, <1>4, <2>1, <2>4 DEF Closed
  <2>7. \A other \in Sellers : p \notin ActiveOf(other, clock)
    BY <2>1 DEF ActiveOf, Live
  <2>8. \A other \in Sellers :
          ActiveOf(other, clock)' = IF other = s THEN ActiveOf(s, clock) \cup {p}
                                                 ELSE ActiveOf(other, clock)
    BY <2>1, <2>4, <2>7 DEF ActiveOf, Live, LiveAt
  <2> DEFINE window == [x \in Sellers |-> ActiveOf(x, clock)]
             after == [x \in Sellers |-> ActiveOf(x, clock)']
             closed == {q \in Posts : Closed(q)}
  <2>9. after = [window EXCEPT ![s] = @ \cup {p}]
    BY <2>3, <2>8
  <2>10. /\ \A other \in Sellers : p \notin window[other]
         /\ Cardinality(window[s]) < Quota
    BY <2>3, <2>7
  <2>11. p \notin closed /\ {q \in Posts : Closed(q)'} = closed
    BY <2>6
  <2>12. Shop!Show(s, p)
    BY <2>3, <2>5, <2>9, <2>10, <2>11, ShopCounts DEF Shop!Show
  <2> QED BY <2>3, <2>12 DEF Shop!ShopNext
<1>6. CASE ~\E q \in Posts : Live(q)' /\ ~Live(q)
  <2>1. CASE account' = account
    <3>1. ASSUME NEW s \in Sellers PROVE ActiveOf(s, clock)' \subseteq ActiveOf(s, clock)
      <4>1. ASSUME NEW q \in Posts, posts'[q].seller = s, Live(q)'
            PROVE  posts[q].seller = s /\ Live(q)
        <5>1. Live(q) /\ Exists(q)
          BY <1>6, <4>1 DEF Live, LiveAt, Exists
        <5> QED BY <1>2, <4>1, <5>1 DEF PostEffect
      <4> QED BY <4>1 DEF ActiveOf, Live
    <3>2. ASSUME NEW s \in Sellers, NEW q \in ActiveOf(s, clock)'
          PROVE  q \in Posts /\ ~Closed(q)'
      BY <1>4, <3>2 DEF ActiveOf, Live
    <3>3. Shop!Leave
      BY <1>3, <2>1, <3>1, <3>2 DEF Shop!Leave
    <3> QED BY <3>3 DEF Shop!ShopNext
  <2>2. CASE posts' = posts /\ clock' = clock
    <3>1. /\ \A s \in Sellers : ActiveOf(s, clock)' = ActiveOf(s, clock)
          /\ \A q \in Posts : Closed(q)' <=> Closed(q)
      BY <2>2 DEF ActiveOf, LiveAt, Closed
    <3>2. Shop!Standing
      BY <3>1 DEF Shop!Standing
    <3> QED BY <3>2 DEF Shop!ShopNext
  <2> QED BY <2>1, <2>2, AccountsMoveAlone
<1> QED BY <1>5, <1>6

\* The lifecycle of listings implements the shop window: whatever requests,
\* instances, moderators and the clock do, sellers in good standing put in
\* listings one at a time while there is room, and what is closed stays away.
THEOREM LifecycleImplementsShop == Spec => ShopContract
<1>1. Init => Shop!ShopInit
  BY ShopStarts
<1>2. SystemInv /\ [Next]_vars => [Shop!ShopNext]_(Shop!shopVars)
  BY ShopMoves
<1> QED BY <1>1, <1>2, SystemInvariant, PTL DEF Spec, ShopContract, Shop!ShopSpec

=============================================================================
