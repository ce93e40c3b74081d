------------------------------ MODULE PostStore ------------------------------
(***************************************************************************)
(* The rows that the listing lifecycle of the marketplace lives on: user    *)
(* accounts, posting restrictions, posts, the renewal ledger and the        *)
(* deduplicated notifications, together with the two PostgreSQL row locks   *)
(* the transactions take (the seller's user row, then the post row) and     *)
(* the database clock.  The modules that EXTEND this one add the processes  *)
(* that work on these rows.                                                 *)
(*                                                                         *)
(* One tick of the clock stands for a day; only the order of instants       *)
(* matters to the code.                                                     *)
(***************************************************************************)
EXTENDS Integers, FiniteSets

CONSTANTS
  Sellers,    \* users that own posts
  Buyers,     \* users that may be named as the buyer of a post
  Posts,      \* post identifiers (rows that exist or may be inserted)
  Txns,       \* concurrent activation requests (create, restore, renew)
  Workers,    \* application instances running the expiry job
  Refs,       \* payment references handed to a paid renewal
  Windows,    \* restriction windows an administrator may issue
  Moves,      \* account states that requests of this instance set
  None,       \* NULL: no holder, no buyer, no reference
  Forever,    \* expiresAt of a permanent restriction
  Quota,      \* POST_QUOTA
  Lifetime,   \* POST_LIFETIME_DAYS
  Reminder,   \* POST_REMINDER_DAYS
  BatchSize,  \* rows one expiry batch takes
  MaxClock    \* bound on the clock

Window == [from : Nat, until : Nat \cup {Forever}]

ASSUME NoneAssumption ==
  None \notin Sellers \cup Buyers \cup Posts \cup Txns \cup Workers \cup Refs
ASSUME ProcessAssumption == Txns \cap Workers = {}
ASSUME PostsAssumption == IsFiniteSet(Posts)
ASSUME LimitAssumption ==
  /\ Quota \in Nat
  /\ Lifetime \in Nat \ {0}
  /\ Reminder \in Nat
  /\ BatchSize \in Nat \ {0}
  /\ MaxClock \in Nat
ASSUME MovesAssumption == Moves \subseteq {"open", "locked", "deleted"}
ASSUME WindowAssumption == Forever \notin Int /\ Windows \subseteq Window

VARIABLES
  clock,         \* clock_timestamp() of the database
  account,       \* state of each seller's user row
  restrictions,  \* unlifted posting restrictions of each seller
  posts,         \* the posts table
  ledger,        \* the post_renewals table
  notices,       \* notifications, as their deduplication keys
  sellerLock,    \* holder of the lock on a seller's user row, or None
  postLock       \* holder of the lock on a post row, or None

storeVars == <<clock, account, restrictions, posts, ledger, notices,
               sellerLock, postLock>>

-----------------------------------------------------------------------------
(* Rows *)

AccountState == {"open", "locked", "deleted"}
Status == {"none", "active", "sold", "hidden", "expired"}

\* A post row.  "none" is an identifier that has not been inserted.
\* publishedAt is always expiresAt - Lifetime and is not kept.
PostRow == [seller : Sellers \cup {None}, status : Status, expiresAt : Nat,
            renewals : Nat, sold : BOOLEAN, buyer : Buyers \cup {None},
            deleted : BOOLEAN]

NoRow == [seller |-> None, status |-> "none", expiresAt |-> 0, renewals |-> 0,
          sold |-> FALSE, buyer |-> None, deleted |-> FALSE]

\* A row of the renewal history; a free renewal has no payment reference.
RenewalRow == [post : Posts, number : Nat, ref : Refs \cup {None},
               previous : Nat, until : Nat]

\* The deduplication key of a notification about a post.
Notice == [post : Posts, cycle : Nat, kind : {"expiring", "expired", "review"}]

StoreTypeOK ==
  /\ clock \in Nat
  /\ account \in [Sellers -> AccountState]
  /\ restrictions \in [Sellers -> SUBSET Window]
  /\ posts \in [Posts -> PostRow]
  /\ ledger \subseteq RenewalRow
  /\ notices \subseteq Notice
  /\ sellerLock \in [Sellers -> Txns \cup {None}]
  /\ postLock \in [Posts -> Txns \cup Workers \cup {None}]

StoreInit ==
  /\ clock = 0
  /\ account = [s \in Sellers |-> "open"]
  /\ restrictions = [s \in Sellers |-> {}]
  /\ posts = [p \in Posts |-> NoRow]
  /\ ledger = {}
  /\ notices = {}
  /\ sellerLock = [s \in Sellers |-> None]
  /\ postLock = [p \in Posts |-> None]

-----------------------------------------------------------------------------
(* Questions the queries ask of the rows *)

Exists(p) == posts[p].status # "none"

\* The condition under which a post is on public display and uses quota.
LiveAt(p, now) ==
  /\ posts[p].status = "active"
  /\ ~posts[p].deleted
  /\ posts[p].expiresAt > now

Live(p) == LiveAt(p, clock)

ActiveOf(s, now) == {p \in Posts : posts[p].seller = s /\ LiveAt(p, now)}

EndsAfter(r, now) == IF r.until = Forever THEN TRUE ELSE r.until > now

InForce(r, now) == r.from <= now /\ EndsAfter(r, now)

Restricted(s, now) == \E r \in restrictions[s] : InForce(r, now)

\* A post that has been sold or hidden by moderation never returns to display.
Closed(p) == posts[p].sold \/ posts[p].status = "hidden"

\* Ledger rows carrying a payment reference.
UsedRefs == {row.ref : row \in ledger} \ {None}

\* Row locks are released by whatever ends the transaction.
Released(lock, holder) ==
  [x \in DOMAIN lock |-> IF lock[x] = holder THEN None ELSE lock[x]]

=============================================================================
